--------------------------- MODULE SettingsProofs ---------------------------
(***************************************************************************)
(* Proofs about Settings: no settings file, no entry of another process    *)
(* and no changed option is lost, for any number of processes, entries and *)
(* faults.                                                                 *)
(***************************************************************************)
EXTENDS Settings, TLAPS

(***************************************************************************)
(* The inductive invariant                                                 *)
(***************************************************************************)

(* The places of a process that repairs the file, that saves it, and that  *)
(* has the lock                                                            *)
Loading == {"restore", "restoring", "restored"}
Saving == {"backup", "copying", "copied", "write", "writing", "written", "failed", "removed"}
Inside == {"load", "save", "unlock"} \cup Loading \cup Saving

(* Only who holds the lock is at work on the file. *)
Exclusive == \A p \in Procs : pc[p] \in Inside <=> lock = p

(* What the lock is needed for fits where the process is. *)
Tasks ==
    \A p \in Procs :
        /\ mode = "options" => task[p] # "edit"
        /\ mode # "options" => ~changed[p] /\ ~dirty[p] /\ called[p] = 0
        /\ pc[p] \in {"down", "idle"} => task[p] = "load"
        /\ mode # "options" /\ pc[p] = "wait" => task[p] # "save"
        /\ pc[p] \in {"save"} \cup Saving => task[p] # "load"
        /\ pc[p] \in {"load"} \cup Loading => task[p] # "save"

(* There is a document whenever one is to be saved. *)
Documents ==
    \A p \in Procs :
        /\ pc[p] \in {"save"} \cup Loading \cup Saving => dom[p] # None
        /\ task[p] = "save" \/ dirty[p] => dom[p] # None
        /\ mode = "certs" /\ current[p] => dom[p] # None

(* What a power failure may leave includes what there is, and what a       *)
(* process that is killed while it writes may leave.                       *)
Disk ==
    /\ <<file, backup>> \in after
    /\ \A p \in Procs :
          /\ pc[p] \in {"writing", "restoring"} => \A c \in {Empty, Torn} : <<c, backup>> \in after
          /\ pc[p] = "copying" => \A c \in {Empty, Torn} : <<file, c>> \in after
          /\ pc[p] \in {"copied", "restored"} /\ ~spoiled => file = backup
          /\ pc[p] = "written" => file = dom[p]
          /\ pc[p] \in {"writing", "written"} => \A q \in Procs : current[q] => q = p \/ missed[q]

(* Documents on the disk consist of entries that were written once. *)
Entries ==
    /\ \A x \in after : (Good(x[1]) => x[1] \subseteq reached) /\ (Good(x[2]) => x[2] \subseteq reached)
    /\ \A p \in Procs : pc[p] \in Loading => dom[p] \subseteq reached

(* The content c is a document with all that was saved. *)
Has(c) == Good(c) /\ acked \subseteq c

(* Whatever a power failure leaves, the file has what was saved. *)
FileGood == \A x \in after : Has(x[1])

(* Whatever it leaves, the backup has; the file too, unless it is torn. *)
BackupGood == \A x \in after : Has(x[2]) /\ (Good(x[1]) => acked \subseteq x[1])

(* At every step of a load or save one of the two is good. *)
Kept ==
    acked # None /\ ~spoiled =>
        /\ \A x \in after : Has(Found(x[1], x[2]))
        /\ Good(file) \/ BackupGood
        /\ \A p \in Procs :
              /\ pc[p] \in Loading \cup {"write", "writing", "written", "failed", "removed"} => BackupGood
              /\ pc[p] \in {"copying", "copied"} => FileGood
              /\ pc[p] \in Loading \cup Saving => acked \subseteq dom[p]
              /\ mode # "options" /\ pc[p] = "save" /\ ~missed[p] => acked \subseteq dom[p]
              /\ mode = "certs" /\ current[p] /\ ~missed[p] => acked \subseteq dom[p]

(* A process that is not up, or is loading its options, has no changes. *)
Fresh(p) == ~changed[p] /\ called[p] = 0 /\ ~dirty[p] /\ ~timer[p] /\ ~quits[p]

(* A change is announced, gets into the document and is written; after the *)
(* user has been told that it was not, nothing is said.                    *)
OptionsOf(p) ==
    /\ pc[p] = "down" => Fresh(p)
    /\ task[p] = "load" /\ pc[p] \in {"wait", "load"} \cup Loading => Fresh(p)
    /\ task[p] = "load" /\ pc[p] = "unlock" => ~changed[p] /\ ~quits[p]
    /\ timer[p] => dirty[p]
    /\ changed[p] => called[p] > 0
    /\ ~told[p] /\ (pc[p] \in {"idle", "unlock"} \/ task[p] = "save") =>
          /\ dom[p] # None
          /\ values[p] = dom[p] \/ changed[p]
          /\ task[p] = "load" \/ pc[p] \in {"written", "unlock"} => dom[p] \subseteq reached \/ timer[p]

Options == mode = "options" => \A p \in Procs : OptionsOf(p)

IInv == TypeOK /\ Exclusive /\ Tasks /\ Documents /\ Disk /\ Entries /\ Kept /\ Options

-------------------------------------------------------------------------------
(***************************************************************************)
(* Types, in parts                                                         *)
(***************************************************************************)
USE DEF At, disk, options, observers, Inside, Loading, Saving

(* The flags *)
Flags ==
    /\ current \in [Procs -> BOOLEAN] /\ changed \in [Procs -> BOOLEAN] /\ dirty \in [Procs -> BOOLEAN]
    /\ timer \in [Procs -> BOOLEAN] /\ quits \in [Procs -> BOOLEAN] /\ told \in [Procs -> BOOLEAN]
    /\ missed \in [Procs -> BOOLEAN]
    /\ exists \in BOOLEAN /\ spoiled \in BOOLEAN

(* Where the processes are *)
Values ==
    /\ mode \in {"options", "sites", "certs"}
    /\ lock \in Procs \cup {None}
    /\ pc \in [Procs -> {"down", "idle", "wait"} \cup Inside]
    /\ task \in [Procs -> {"load", "save", "edit"}]
    /\ called \in [Procs -> Nat]
    /\ edits \in 0..MaxEdits /\ faults \in 0..MaxFaults

(* The files *)
DiskOK == file \in Content /\ backup \in Content /\ after \subseteq Content \X Content

(* The documents *)
Contents ==
    /\ dom \in [Procs -> Doc \cup {None}] /\ values \in [Procs -> Doc]
    /\ acked \in Doc \cup {None} /\ reached \in Doc

(* TypeOK is these four parts, before and after a step. *)
LEMMA Parts ==
    /\ TypeOK <=> Flags /\ Values /\ DiskOK /\ Contents
    /\ TypeOK' <=> Flags' /\ Values' /\ DiskOK' /\ Contents'
<1>1. {"down", "idle", "wait"} \cup Inside =
        {"down", "idle", "wait", "load", "restore", "restoring", "restored", "save", "backup",
         "copying", "copied", "write", "writing", "written", "failed", "removed", "unlock"}
  OBVIOUS
<1> QED BY DEF TypeOK, Flags, Values, DiskOK, Contents

(* Documents are sets of entries. *)
LEMMA DocIs ==
    /\ {} \in Doc
    /\ \A c, d \in Doc : c \cup d \in Doc /\ c \cap d \in Doc
    /\ \A n \in Nat : n < MaxEdits => {n + 1} \in Doc
<1>1. MaxEdits \in Nat
  BY SettingsAssumption
<1>2. \A n \in Nat : n < MaxEdits => {n + 1} \in Doc
  BY <1>1 DEF Doc
<1>3. {} \in Doc /\ \A c, d \in Doc : c \cup d \in Doc /\ c \cap d \in Doc
  BY DEF Doc
<1> QED BY <1>2, <1>3

(* A step of a process that is not in the middle of a load or save, and    *)
(* does not get there, says nothing new of the disk.                       *)
LEMMA Away ==
    ASSUME IInv, NEW p \in Procs, NEW there \in {"down", "idle", "wait", "load", "save", "unlock"},
           pc' = [pc EXCEPT ![p] = there], UNCHANGED <<disk, spoiled, reached>>,
           \A q \in Procs : q # p => dom'[q] = dom[q],
           \A q \in Procs : current'[q] => current[q] /\ (missed[q] => missed'[q])
    PROVE  Disk' /\ Entries'
<1>1. pc \in [Procs -> {"down", "idle", "wait"} \cup Inside]
  BY Parts DEF IInv, Values
<1>2. Disk'
  BY <1>1 DEF IInv, Disk
<1>3. Entries'
  BY <1>1 DEF IInv, Entries
<1> QED BY <1>2, <1>3

(* After Load there is something to save, or the lock is given up. *)
LEMMA GoOnIs ==
    ASSUME IInv, NEW p \in Procs, pc[p] \in {"load", "restored"}, GoOn(p)
    PROVE  /\ task' \in [Procs -> {"load", "save", "edit"}]
           /\ \A q \in Procs : q # p => pc'[q] = pc[q] /\ task'[q] = task[q]
           /\ pc'[p] \in {"save", "unlock"} /\ \E there \in {"save", "unlock"} : pc' = [pc EXCEPT ![p] = there]
           /\ pc'[p] = "save" => task'[p] # "load" /\ mode # "options"
           /\ pc'[p] = "unlock" => task'[p] = "load"
           /\ mode = "options" => UNCHANGED task
<1>1. Values
  BY Parts DEF IInv
<1>2. CASE pc' = [pc EXCEPT ![p] = AfterLoad(p)] /\ UNCHANGED task
  BY <1>1, <1>2 DEF IInv, Tasks, Values, AfterLoad
<1>3. CASE /\ mode = "certs" /\ task[p] = "load"
           /\ pc' = [pc EXCEPT ![p] = "save"] /\ task' = [task EXCEPT ![p] = "save"]
  BY <1>1, <1>3 DEF Values
<1> QED BY <1>2, <1>3 DEF GoOn

-------------------------------------------------------------------------------
(***************************************************************************)
(* The steps                                                               *)
(***************************************************************************)
(* The file is loaded. *)
LEMMA LoadFileOK == ASSUME IInv, NEW p \in Procs, LoadFile(p) PROVE IInv'
<1>1. Flags /\ Values /\ DiskOK /\ Contents
  BY Parts DEF IInv
<1>13. GoOn(p) /\ pc[p] \in {"load", "restored"}
  BY DEF LoadFile
<1>14. /\ task' \in [Procs -> {"load", "save", "edit"}]
       /\ \A q \in Procs : q # p => pc'[q] = pc[q] /\ task'[q] = task[q]
       /\ pc'[p] \in {"save", "unlock"} /\ \E there \in {"save", "unlock"} : pc' = [pc EXCEPT ![p] = there]
       /\ pc'[p] = "save" => task'[p] # "load" /\ mode # "options"
       /\ pc'[p] = "unlock" => task'[p] = "load"
       /\ mode = "options" => UNCHANGED task
  BY <1>13, GoOnIs
<1>2. Flags'
  BY <1>1 DEF Flags, LoadFile, Loaded
<1>3. Values'
  BY <1>1, <1>14 DEF Values, LoadFile, Loaded
<1>4. DiskOK'
  BY <1>1 DEF DiskOK, LoadFile
<1>5. Contents'
  BY <1>1 DEF DiskOK, Contents, Content, Good, LoadFile, Loaded
<1>6. Exclusive'
  BY <1>1, <1>14 DEF IInv, Exclusive, LoadFile
<1>7. Tasks'
  BY <1>1, <1>14 DEF IInv, Tasks, LoadFile, Loaded
<1>8. Documents'
  BY <1>1, <1>14, ContentAssumption DEF IInv, Documents, Flags, DiskOK, Contents, Content, Good,
     LoadFile, Loaded
<1>9. Disk'
  BY <1>1, <1>14 DEF IInv, Exclusive, Disk, LoadFile
<1>10. Entries'
  BY <1>1, <1>14 DEF IInv, Entries, LoadFile, Loaded
<1>11. Kept'
  BY <1>1, <1>14 DEF IInv, Kept, Has, Found, FileGood, BackupGood, Disk, Contents, LoadFile,
     Loaded
<1>12. Options'
  BY <1>1, <1>14, ContentAssumption DEF IInv, Options, OptionsOf, Fresh, Entries, Disk, Flags, Values,
     DiskOK, Contents, Content, Good, LoadFile, Loaded
<1> QED BY <1>2, <1>3, <1>4, <1>5, <1>6, <1>7, <1>8, <1>9, <1>10, <1>11, <1>12, Parts DEF IInv

(* The backup is loaded because the file cannot be. *)
LEMMA LoadBackupOK == ASSUME IInv, NEW p \in Procs, LoadBackup(p) PROVE IInv'
<1>1. Flags /\ Values /\ DiskOK /\ Contents
  BY Parts DEF IInv
<1>2. Flags'
  BY <1>1 DEF Flags, LoadBackup
<1>3. Values'
  BY <1>1 DEF Values, LoadBackup
<1>4. DiskOK'
  BY <1>1 DEF DiskOK, LoadBackup
<1>5. Contents'
  BY <1>1 DEF DiskOK, Contents, Content, Good, LoadBackup
<1>6. Exclusive'
  BY DEF IInv, Exclusive, LoadBackup
<1>7. Tasks'
  BY DEF IInv, Tasks, LoadBackup
<1>8. Documents'
  BY <1>1, ContentAssumption DEF IInv, Documents, DiskOK, Contents, Content, Good, LoadBackup
<1>9. Disk'
  BY DEF IInv, Disk, LoadBackup
<1>10. Entries'
  BY <1>1 DEF IInv, Entries, Disk, Contents, LoadBackup
<1>11. Kept'
  BY <1>1 DEF IInv, Kept, Has, BackupGood, Disk, Contents, Good, LoadBackup
<1>12. Options'
  BY DEF IInv, Options, OptionsOf, Fresh, Tasks, LoadBackup
<1> QED BY <1>2, <1>3, <1>4, <1>5, <1>6, <1>7, <1>8, <1>9, <1>10, <1>11, <1>12, Parts DEF IInv

(* There is nothing to load: a new document, or none. *)
LEMMA LoadNoneOK == ASSUME IInv, NEW p \in Procs, LoadNone(p) PROVE IInv'
<1>1. Flags /\ Values /\ DiskOK /\ Contents
  BY Parts DEF IInv
<1>2. Flags'
  BY <1>1 DEF Flags, LoadNone, AfterLoad, Loaded
<1>3. Values'
  BY <1>1 DEF Values, LoadNone, AfterLoad, Loaded
<1>4. DiskOK'
  BY <1>1 DEF DiskOK, LoadNone
<1>5. Contents'
  BY <1>1, DocIs DEF Contents, LoadNone, Loaded
<1>6. Exclusive'
  BY <1>1 DEF IInv, Exclusive, Values, LoadNone, AfterLoad
<1>7. Tasks'
  BY <1>1 DEF IInv, Tasks, Values, LoadNone, AfterLoad, Loaded
<1>8. Documents'
  <2>1. CASE {file, backup} \subseteq {Absent, Empty}
    <3>1. {} # None
      BY DocIs, ContentAssumption
    <3>2. dom' = [dom EXCEPT ![p] = {}]
      BY <2>1 DEF LoadNone, Loaded
    <3>3. \A q \in Procs : q # p => pc'[q] = pc[q] /\ dirty'[q] = dirty[q] /\ current'[q] = current[q]
      BY <1>1 DEF Flags, Values, LoadNone, Loaded
    <3> QED BY <1>1, <3>1, <3>2, <3>3 DEF IInv, Documents, Contents, LoadNone
  <2>2. CASE ~({file, backup} \subseteq {Absent, Empty})
    <3>1. ~current'[p]
      BY <1>1, <2>2 DEF DiskOK, Content, Good, Flags, LoadNone
    <3>2. pc'[p] = "unlock" /\ task'[p] # "save" /\ ~dirty'[p]
      BY <1>1, <2>2 DEF IInv, Tasks, Options, OptionsOf, Fresh, Values, LoadNone
    <3>3. \A q \in Procs : q # p =>
            pc'[q] = pc[q] /\ dom'[q] = dom[q] /\ dirty'[q] = dirty[q] /\ current'[q] = current[q]
      BY <1>1, <2>2 DEF Values, Contents, LoadNone
    <3> QED BY <3>1, <3>2, <3>3 DEF IInv, Documents, LoadNone
  <2> QED BY <2>1, <2>2
<1>9. Disk'
  BY <1>1 DEF IInv, Exclusive, Disk, Values, LoadNone, AfterLoad
<1>10. Entries'
  BY <1>1 DEF IInv, Entries, Values, Contents, LoadNone, Loaded
<1>11. Kept'
  BY DEF IInv, Kept, Has, BackupGood, Disk, LoadNone
<1>12. Options'
  <2> SUFFICES ASSUME mode = "options" PROVE Options'
    BY DEF Options, LoadNone
  <2>1. CASE {file, backup} \subseteq {Absent, Empty}
    <3>1. {} # None
      BY DocIs, ContentAssumption
    <3>2. /\ dom' = [dom EXCEPT ![p] = {}] /\ values' = [values EXCEPT ![p] = {}]
          /\ dirty' = [dirty EXCEPT ![p] = TRUE] /\ timer' = [timer EXCEPT ![p] = TRUE]
      BY <2>1 DEF LoadNone, Loaded
    <3>3. \A q \in Procs : q # p => OptionsOf(q)'
      <4>1. UNCHANGED <<mode, task, changed, called, quits, told, reached>>
        BY <2>1 DEF LoadNone, Loaded
      <4>2. \A q \in Procs : q # p => /\ pc'[q] = pc[q] /\ dom'[q] = dom[q] /\ values'[q] = values[q]
                                     /\ dirty'[q] = dirty[q] /\ timer'[q] = timer[q]
        BY <1>1, <3>2 DEF Values, LoadNone
      <4> QED BY <4>1, <4>2 DEF IInv, Options, OptionsOf, Fresh
    <3>4. OptionsOf(p)'
      <4>1. dom'[p] = {} /\ values'[p] = {} /\ dirty'[p] /\ timer'[p]
        BY <1>1, <3>2 DEF Flags, Contents
      <4>2. task[p] = "load" /\ Fresh(p) /\ pc'[p] = "unlock" /\ changed' = changed /\ quits' = quits
        BY <1>1 DEF IInv, Options, OptionsOf, Tasks, Values, LoadNone, AfterLoad, Loaded
      <4> QED BY <3>1, <4>1, <4>2 DEF OptionsOf, Fresh
    <3> QED BY <3>3, <3>4 DEF Options
  <2>2. CASE ~({file, backup} \subseteq {Absent, Empty})
    BY <1>1, <2>2 DEF IInv, Options, OptionsOf, Fresh, Flags, Values, Contents, LoadNone
  <2> QED BY <2>1, <2>2
<1> QED BY <1>2, <1>3, <1>4, <1>5, <1>6, <1>7, <1>8, <1>9, <1>10, <1>11, <1>12, Parts DEF IInv

(* The file is opened to copy the backup to it. *)
LEMMA RestoreOK == ASSUME IInv, NEW p \in Procs, Restore(p) PROVE IInv'
<1>1. Flags /\ Values /\ DiskOK /\ Contents
  BY Parts DEF IInv
<1>2. Flags'
  BY <1>1 DEF Flags, Restore, Touched
<1>3. Values'
  BY <1>1 DEF Values, Restore
<1>4. DiskOK'
  BY <1>1 DEF DiskOK, Content, Restore
<1>5. Contents'
  BY <1>1 DEF Contents, Restore
<1>6. Exclusive'
  BY DEF IInv, Exclusive, Restore
<1>7. Tasks'
  BY DEF IInv, Tasks, Restore
<1>8. Documents'
  BY <1>1 DEF IInv, Documents, Flags, Restore, Touched
<1>9. Disk'
  BY DEF IInv, Exclusive, Disk, Restore
<1>10. Entries'
  BY DEF IInv, Entries, Good, Restore
<1>11. Kept'
  BY <1>1 DEF IInv, Exclusive, Kept, Has, Found, BackupGood, Flags, Good, Restore, Touched
<1>12. Options'
  BY DEF IInv, Options, OptionsOf, Fresh, Restore
<1> QED BY <1>2, <1>3, <1>4, <1>5, <1>6, <1>7, <1>8, <1>9, <1>10, <1>11, <1>12, Parts DEF IInv

(* The backup has been copied. *)
LEMMA RestoringOK == ASSUME IInv, NEW p \in Procs, Restoring(p) PROVE IInv'
<1>1. Flags /\ Values /\ DiskOK /\ Contents
  BY Parts DEF IInv
<1>2. Flags'
  BY <1>1 DEF Flags, Restoring
<1>3. Values'
  BY <1>1 DEF Values, Restoring
<1>4. DiskOK'
  BY <1>1 DEF DiskOK, Restoring, SetFile
<1>5. Contents'
  BY <1>1 DEF Contents, Restoring
<1>6. Exclusive'
  BY DEF IInv, Exclusive, Restoring
<1>7. Tasks'
  BY DEF IInv, Tasks, Restoring
<1>8. Documents'
  BY DEF IInv, Documents, Restoring
<1>9. Disk'
  BY DEF IInv, Exclusive, Disk, Restoring, SetFile
<1>10. Entries'
  BY DEF IInv, Entries, Disk, Restoring, SetFile
<1>11. Kept'
  BY DEF IInv, Kept, Has, Found, FileGood, BackupGood, Disk, Restoring, SetFile
<1>12. Options'
  BY DEF IInv, Options, OptionsOf, Fresh, Restoring
<1> QED BY <1>2, <1>3, <1>4, <1>5, <1>6, <1>7, <1>8, <1>9, <1>10, <1>11, <1>12, Parts DEF IInv

(* The copy fails, or is short and seems not to. *)
LEMMA RestoreFailsOK == ASSUME IInv, NEW p \in Procs, RestoreFails(p) PROVE IInv'
<1>1. Flags /\ Values /\ DiskOK /\ Contents
  BY Parts DEF IInv
<1>2. Flags'
  BY <1>1 DEF Flags, RestoreFails, Fault, SetFile
<1>3. Values'
  BY <1>1, SettingsAssumption DEF Values, RestoreFails, Fault
<1>4. DiskOK'
  BY <1>1 DEF DiskOK, Content, RestoreFails, SetFile
<1>5. Contents'
  BY <1>1 DEF Contents, RestoreFails
<1>6. Exclusive'
  BY <1>1 DEF IInv, Exclusive, Values, RestoreFails
<1>7. Tasks'
  BY <1>1 DEF IInv, Tasks, Values, RestoreFails
<1>8. Documents'
  <2>1. \/ /\ dom' = [dom EXCEPT ![p] = None] /\ current' = [current EXCEPT ![p] = FALSE]
           /\ pc' = [pc EXCEPT ![p] = "unlock"]
        \/ UNCHANGED <<dom, current>> /\ pc' = [pc EXCEPT ![p] = "restored"]
    BY DEF RestoreFails
  <2>2. task[p] # "save" /\ ~dirty[p]
    BY <1>1 DEF IInv, Tasks, Options, OptionsOf, Fresh, Values, RestoreFails
  <2> QED BY <1>1, <2>2 DEF IInv, Documents, Flags, Values, Contents, RestoreFails
<1>9. Disk'
  <2>1. CASE SetFile(Torn) /\ spoiled' = TRUE /\ pc' = [pc EXCEPT ![p] = "restored"] /\ UNCHANGED <<dom, current>>
    BY <2>1 DEF IInv, Exclusive, Disk, SetFile, RestoreFails
  <2>2. CASE UNCHANGED <<disk, spoiled>> /\ pc' = [pc EXCEPT ![p] = "unlock"] /\ dom' = [dom EXCEPT ![p] = None]
             /\ current' = [current EXCEPT ![p] = FALSE]
    BY <1>1, <2>2, Away DEF Contents, Flags, RestoreFails
  <2> QED BY <2>1, <2>2 DEF RestoreFails
<1>10. Entries'
  BY <1>1 DEF IInv, Entries, Disk, Values, Contents, RestoreFails, SetFile
<1>11. Kept'
  BY <1>1 DEF IInv, Kept, Has, FileGood, BackupGood, Flags, Values, Contents, RestoreFails
<1>12. Options'
  BY <1>1 DEF IInv, Options, OptionsOf, Fresh, Flags, Values, Contents, RestoreFails
<1> QED BY <1>2, <1>3, <1>4, <1>5, <1>6, <1>7, <1>8, <1>9, <1>10, <1>11, <1>12, Parts DEF IInv

(* The file is synced and the backup removed. *)
LEMMA RestoredOK == ASSUME IInv, NEW p \in Procs, Restored(p) PROVE IInv'
<1>1. Flags /\ Values /\ DiskOK /\ Contents
  BY Parts DEF IInv
<1>13. GoOn(p) /\ pc[p] \in {"load", "restored"}
  BY DEF Restored
<1>14. /\ task' \in [Procs -> {"load", "save", "edit"}]
       /\ \A q \in Procs : q # p => pc'[q] = pc[q] /\ task'[q] = task[q]
       /\ pc'[p] \in {"save", "unlock"} /\ \E there \in {"save", "unlock"} : pc' = [pc EXCEPT ![p] = there]
       /\ pc'[p] = "save" => task'[p] # "load" /\ mode # "options"
       /\ pc'[p] = "unlock" => task'[p] = "load"
       /\ mode = "options" => UNCHANGED task
  BY <1>13, GoOnIs
<1>2. Flags'
  BY <1>1 DEF Flags, Restored, Loaded
<1>3. Values'
  BY <1>1, <1>14 DEF Values, Restored, Loaded
<1>4. DiskOK'
  BY <1>1 DEF DiskOK, Content, Restored
<1>5. Contents'
  BY <1>1 DEF IInv, Documents, Contents, Restored, Loaded
<1>6. Exclusive'
  BY <1>1, <1>14 DEF IInv, Exclusive, Restored
<1>7. Tasks'
  BY <1>1, <1>14 DEF IInv, Tasks, Restored, Loaded
<1>8. Documents'
  BY <1>1, <1>14 DEF IInv, Documents, Flags, Restored, Loaded
<1>9. Disk'
  BY <1>1, <1>14 DEF IInv, Exclusive, Disk, Values, Restored
<1>10. Entries'
  BY <1>1, <1>14 DEF IInv, Entries, Disk, Good, Restored, Loaded
<1>11. Kept'
  BY <1>1, <1>14 DEF IInv, Exclusive, Kept, Has, Found, Disk, Values, Restored, Loaded
<1>12. Options'
  BY <1>1, <1>14 DEF IInv, Options, OptionsOf, Fresh, Entries, Documents, Flags, Values, Contents,
     Restored, Loaded
<1> QED BY <1>2, <1>3, <1>4, <1>5, <1>6, <1>7, <1>8, <1>9, <1>10, <1>11, <1>12, Parts DEF IInv

(* It is not, and nobody knows. *)
LEMMA RestoredUnsyncedOK == ASSUME IInv, NEW p \in Procs, RestoredUnsynced(p) PROVE IInv'
<1>1. Flags /\ Values /\ DiskOK /\ Contents
  BY Parts DEF IInv
<1>13. GoOn(p) /\ pc[p] \in {"load", "restored"}
  BY DEF RestoredUnsynced
<1>14. /\ task' \in [Procs -> {"load", "save", "edit"}]
       /\ \A q \in Procs : q # p => pc'[q] = pc[q] /\ task'[q] = task[q]
       /\ pc'[p] \in {"save", "unlock"} /\ \E there \in {"save", "unlock"} : pc' = [pc EXCEPT ![p] = there]
       /\ pc'[p] = "save" => task'[p] # "load" /\ mode # "options"
       /\ pc'[p] = "unlock" => task'[p] = "load"
       /\ mode = "options" => UNCHANGED task
  BY <1>13, GoOnIs
<1>2. Flags'
  BY <1>1 DEF Flags, RestoredUnsynced, Loaded
<1>3. Values'
  BY <1>1, <1>14, SettingsAssumption DEF Values, RestoredUnsynced, Loaded, Fault
<1>4. DiskOK'
  BY <1>1 DEF DiskOK, Content, RestoredUnsynced
<1>5. Contents'
  BY <1>1 DEF IInv, Documents, Contents, RestoredUnsynced, Loaded
<1>6. Exclusive'
  BY <1>1, <1>14 DEF IInv, Exclusive, RestoredUnsynced
<1>7. Tasks'
  BY <1>1, <1>14 DEF IInv, Tasks, RestoredUnsynced, Loaded
<1>8. Documents'
  BY <1>1, <1>14 DEF IInv, Documents, Flags, RestoredUnsynced, Loaded
<1>9. Disk'
  BY <1>1, <1>14 DEF IInv, Exclusive, Disk, Values, RestoredUnsynced
<1>10. Entries'
  BY <1>1, <1>14 DEF IInv, Entries, Disk, Good, RestoredUnsynced, Loaded
<1>11. Kept'
  BY <1>1, <1>14 DEF IInv, Exclusive, Kept, Has, Found, Disk, Values, RestoredUnsynced, Loaded
<1>12. Options'
  BY <1>1, <1>14 DEF IInv, Options, OptionsOf, Fresh, Entries, Documents, Flags, Values, Contents,
     RestoredUnsynced, Loaded
<1> QED BY <1>2, <1>3, <1>4, <1>5, <1>6, <1>7, <1>8, <1>9, <1>10, <1>11, <1>12, Parts DEF IInv

(* A save begins. *)
LEMMA SaveOK == ASSUME IInv, NEW p \in Procs, Save(p) PROVE IInv'
<1>1. Flags /\ Values /\ DiskOK /\ Contents
  BY Parts DEF IInv
<1>2. Flags'
  BY <1>1 DEF Flags, Save
<1>3. Values'
  BY <1>1 DEF Values, Save
<1>4. DiskOK'
  BY <1>1 DEF DiskOK, Save
<1>5. Contents'
  <2>1. dom[p] \in Doc /\ values[p] \in Doc
    BY <1>1 DEF IInv, Documents, Contents, Save
  <2>2. dom[p] \cup values[p] \in Doc /\ (acked # None => acked \cap dom[p] \in Doc)
    BY <1>1, <2>1, DocIs DEF Contents
  <2> QED BY <1>1, <2>2 DEF Contents, Save
<1>6. Exclusive'
  BY DEF IInv, Exclusive, Save
<1>7. Tasks'
  BY DEF IInv, Tasks, Save
<1>8. Documents'
  <2>1. dom[p] \in Doc /\ values[p] \in Doc
    BY <1>1 DEF IInv, Documents, Contents, Save
  <2>2. dom[p] \cup values[p] # None
    BY <2>1, DocIs, ContentAssumption
  <2> QED BY <2>2 DEF IInv, Documents, Save
<1>9. Disk'
  BY DEF IInv, Disk, Save
<1>10. Entries'
  BY DEF IInv, Entries, Save
<1>11. Kept'
  BY DEF IInv, Kept, Has, FileGood, BackupGood, Good, Save
<1>12. Options'
  BY DEF IInv, Options, OptionsOf, Fresh, Save
<1> QED BY <1>2, <1>3, <1>4, <1>5, <1>6, <1>7, <1>8, <1>9, <1>10, <1>11, <1>12, Parts DEF IInv

(* The backup is opened.  From here on every file that a power failure may *)
(* leave is good, or spoiled is set.                                       *)
LEMMA BackupOK == ASSUME IInv, NEW p \in Procs, Backup(p) PROVE IInv'
<1>1. Flags /\ Values /\ DiskOK /\ Contents
  BY Parts DEF IInv
<1>2. Flags'
  BY <1>1 DEF Flags, Backup
<1>3. Values'
  BY <1>1 DEF Values, Backup
<1>4. DiskOK'
  BY <1>1 DEF DiskOK, Content, Backup
<1>5. Contents'
  BY <1>1 DEF Contents, Backup
<1>6. Exclusive'
  BY DEF IInv, Exclusive, Backup
<1>7. Tasks'
  BY DEF IInv, Tasks, Backup
<1>8. Documents'
  BY DEF IInv, Documents, Backup
<1>9. Disk'
  BY DEF IInv, Exclusive, Disk, Backup
<1>10. Entries'
  BY DEF IInv, Entries, Good, Backup
<1>11. Kept'
  <2> SUFFICES ASSUME acked # None, ~spoiled' PROVE Kept'
    BY DEF Kept, Backup
  <2>1. ~spoiled /\ \A x \in after : Has(x[1])
    BY DEF IInv, Kept, Has, Found, Backup
  <2>2. \A x \in after' : Has(x[1])
    BY <2>1 DEF Backup
  <2>3. FileGood' /\ \A x \in after' : Has(Found(x[1], x[2]))'
    BY <2>2 DEF FileGood, Has, Found, Backup
  <2>4. Good(file)'
    BY <2>1 DEF IInv, Disk, Has, Backup
  <2>5. /\ \A q \in Procs : q # p => pc'[q] \in {"down", "idle", "wait"}
        /\ pc'[p] = "copying"
    BY <1>1 DEF IInv, Exclusive, Values, Backup
  <2>6. /\ acked \subseteq dom[p]
        /\ \A q \in Procs : mode = "certs" /\ current[q] /\ ~missed[q] => acked \subseteq dom[q]
    BY <2>1 DEF IInv, Kept, Backup
  <2> QED BY <2>3, <2>4, <2>5, <2>6 DEF Kept, Backup
<1>12. Options'
  BY DEF IInv, Options, OptionsOf, Fresh, Backup
<1> QED BY <1>2, <1>3, <1>4, <1>5, <1>6, <1>7, <1>8, <1>9, <1>10, <1>11, <1>12, Parts DEF IInv

(* The file has been copied to the backup. *)
LEMMA CopyingOK == ASSUME IInv, NEW p \in Procs, Copying(p) PROVE IInv'
<1>1. Flags /\ Values /\ DiskOK /\ Contents
  BY Parts DEF IInv
<1>2. Flags'
  BY <1>1 DEF Flags, Copying
<1>3. Values'
  BY <1>1 DEF Values, Copying
<1>4. DiskOK'
  BY <1>1 DEF DiskOK, Copying, SetBackup
<1>5. Contents'
  BY <1>1 DEF Contents, Copying
<1>6. Exclusive'
  BY DEF IInv, Exclusive, Copying
<1>7. Tasks'
  BY DEF IInv, Tasks, Copying
<1>8. Documents'
  BY DEF IInv, Documents, Copying
<1>9. Disk'
  BY DEF IInv, Disk, Copying, SetBackup
<1>10. Entries'
  BY DEF IInv, Entries, Disk, Copying, SetBackup
<1>11. Kept'
  BY DEF IInv, Kept, Has, Found, FileGood, BackupGood, Disk, Copying, SetBackup
<1>12. Options'
  BY DEF IInv, Options, OptionsOf, Fresh, Copying
<1> QED BY <1>2, <1>3, <1>4, <1>5, <1>6, <1>7, <1>8, <1>9, <1>10, <1>11, <1>12, Parts DEF IInv

(* The copy fails, or is short and seems not to. *)
LEMMA CopyFailsOK == ASSUME IInv, NEW p \in Procs, CopyFails(p) PROVE IInv'
<1>1. Flags /\ Values /\ DiskOK /\ Contents
  BY Parts DEF IInv
<1>2. Flags'
  BY <1>1 DEF Flags, CopyFails, Fault, SetBackup
<1>3. Values'
  BY <1>1, SettingsAssumption DEF Values, CopyFails, Fault
<1>4. DiskOK'
  BY <1>1 DEF DiskOK, Content, CopyFails, SetBackup
<1>5. Contents'
  BY <1>1 DEF Contents, CopyFails
<1>6. Exclusive'
  BY <1>1 DEF IInv, Exclusive, Values, CopyFails
<1>7. Tasks'
  BY <1>1 DEF IInv, Tasks, Values, CopyFails
<1>8. Documents'
  BY <1>1 DEF IInv, Documents, Flags, Values, CopyFails
<1>9. Disk'
  BY <1>1, ContentAssumption, SMTT(30) DEF IInv, Exclusive, Disk, Documents, Flags, Values, DiskOK,
     Contents, Content, Good, CopyFails, Fault, SetBackup
<1>10. Entries'
  BY <1>1 DEF IInv, Entries, Disk, Values, CopyFails, SetBackup
<1>11. Kept'
  BY <1>1 DEF IInv, Kept, Has, FileGood, BackupGood, Flags, Values, CopyFails
<1>12. Options'
  BY <1>1 DEF IInv, Options, OptionsOf, Fresh, Tasks, Flags, Values, CopyFails
<1> QED BY <1>2, <1>3, <1>4, <1>5, <1>6, <1>7, <1>8, <1>9, <1>10, <1>11, <1>12, Parts DEF IInv

(* The backup is synced: now both are good. *)
LEMMA CopiedOK == ASSUME IInv, NEW p \in Procs, Copied(p) PROVE IInv'
<1>1. Flags /\ Values /\ DiskOK /\ Contents
  BY Parts DEF IInv
<1>2. Flags'
  BY <1>1 DEF Flags, Copied
<1>3. Values'
  BY <1>1 DEF Values, Copied
<1>4. DiskOK'
  BY <1>1 DEF DiskOK, Copied, SyncBackup
<1>5. Contents'
  BY <1>1 DEF Contents, Copied
<1>6. Exclusive'
  BY DEF IInv, Exclusive, Copied
<1>7. Tasks'
  BY DEF IInv, Tasks, Copied
<1>8. Documents'
  BY DEF IInv, Documents, Copied
<1>9. Disk'
  BY DEF IInv, Exclusive, Disk, Copied, SyncBackup
<1>10. Entries'
  BY DEF IInv, Entries, Disk, Copied, SyncBackup
<1>11. Kept'
  BY DEF IInv, Kept, Has, Found, FileGood, BackupGood, Disk, Copied, SyncBackup
<1>12. Options'
  BY DEF IInv, Options, OptionsOf, Fresh, Copied
<1> QED BY <1>2, <1>3, <1>4, <1>5, <1>6, <1>7, <1>8, <1>9, <1>10, <1>11, <1>12, Parts DEF IInv

(* It is not, and nobody knows. *)
LEMMA CopiedUnsyncedOK == ASSUME IInv, NEW p \in Procs, CopiedUnsynced(p) PROVE IInv'
<1>1. Flags /\ Values /\ DiskOK /\ Contents
  BY Parts DEF IInv
<1>2. Flags'
  BY <1>1 DEF Flags, CopiedUnsynced
<1>3. Values'
  BY <1>1, SettingsAssumption DEF Values, CopiedUnsynced, Fault
<1>4. DiskOK'
  BY <1>1 DEF DiskOK, CopiedUnsynced
<1>5. Contents'
  BY <1>1 DEF Contents, CopiedUnsynced
<1>6. Exclusive'
  BY DEF IInv, Exclusive, CopiedUnsynced
<1>7. Tasks'
  BY DEF IInv, Tasks, CopiedUnsynced
<1>8. Documents'
  BY DEF IInv, Documents, CopiedUnsynced
<1>9. Disk'
  BY DEF IInv, Exclusive, Disk, CopiedUnsynced
<1>10. Entries'
  BY DEF IInv, Entries, Disk, CopiedUnsynced
<1>11. Kept'
  BY DEF IInv, Kept, Has, Found, FileGood, BackupGood, Disk, CopiedUnsynced
<1>12. Options'
  BY DEF IInv, Options, OptionsOf, Fresh, CopiedUnsynced
<1> QED BY <1>2, <1>3, <1>4, <1>5, <1>6, <1>7, <1>8, <1>9, <1>10, <1>11, <1>12, Parts DEF IInv

(* The file is opened: only the backup is good. *)
LEMMA WriteOK == ASSUME IInv, NEW p \in Procs, Write(p) PROVE IInv'
<1>1. Flags /\ Values /\ DiskOK /\ Contents
  BY Parts DEF IInv
<1>2. Flags'
  BY <1>1 DEF Flags, Write, Touched
<1>3. Values'
  BY <1>1 DEF Values, Write
<1>4. DiskOK'
  BY <1>1 DEF DiskOK, Content, Write
<1>5. Contents'
  BY <1>1 DEF Contents, Write
<1>6. Exclusive'
  BY DEF IInv, Exclusive, Write
<1>7. Tasks'
  BY DEF IInv, Tasks, Write
<1>8. Documents'
  BY <1>1 DEF IInv, Documents, Flags, Write, Touched
<1>9. Disk'
  <2>1. \A c \in {Empty, Torn} : <<c, backup>> \in after'
    BY DEF IInv, Disk, Write
  <2>2. \A q \in Procs : pc'[q] \in Inside => q = p
    BY DEF IInv, Exclusive, Write
  <2>3. \A q \in Procs : current'[q] => q = p \/ missed'[q]
    BY DEF Write, Touched
  <2> QED BY <2>1, <2>2, <2>3 DEF Disk, Write
<1>10. Entries'
  BY DEF IInv, Entries, Good, Write
<1>11. Kept'
  BY <1>1 DEF IInv, Exclusive, Kept, Has, Found, BackupGood, Flags, Good, Write, Touched
<1>12. Options'
  BY DEF IInv, Options, OptionsOf, Fresh, Write
<1> QED BY <1>2, <1>3, <1>4, <1>5, <1>6, <1>7, <1>8, <1>9, <1>10, <1>11, <1>12, Parts DEF IInv

(* The file has been written. *)
LEMMA WritingOK == ASSUME IInv, NEW p \in Procs, Writing(p) PROVE IInv'
<1>1. Flags /\ Values /\ DiskOK /\ Contents
  BY Parts DEF IInv
<1>2. Flags'
  BY <1>1 DEF Flags, Writing
<1>3. Values'
  BY <1>1 DEF Values, Writing
<1>4. DiskOK'
  BY <1>1 DEF IInv, Documents, DiskOK, Contents, Content, Writing, SetFile
<1>5. Contents'
  <2>1. reached \cup dom[p] \in Doc
    BY <1>1, DocIs DEF IInv, Documents, Contents, Writing
  <2> QED BY <1>1, <2>1 DEF Contents, Writing
<1>6. Exclusive'
  BY DEF IInv, Exclusive, Writing
<1>7. Tasks'
  BY DEF IInv, Tasks, Writing
<1>8. Documents'
  BY DEF IInv, Documents, Writing
<1>9. Disk'
  BY DEF IInv, Exclusive, Disk, Writing, SetFile
<1>10. Entries'
  BY DEF IInv, Entries, Writing, SetFile
<1>11. Kept'
  BY DEF IInv, Kept, Has, Found, FileGood, BackupGood, Disk, Good, Writing, SetFile
<1>12. Options'
  BY DEF IInv, Options, OptionsOf, Fresh, Writing
<1> QED BY <1>2, <1>3, <1>4, <1>5, <1>6, <1>7, <1>8, <1>9, <1>10, <1>11, <1>12, Parts DEF IInv

(* It is synced, and only the file is good. *)
LEMMA WrittenOK == ASSUME IInv, NEW p \in Procs, Written(p) PROVE IInv'
<1>1. Flags /\ Values /\ DiskOK /\ Contents
  BY Parts DEF IInv
<1>2. Flags'
  BY <1>1 DEF Flags, Written, SyncFile
<1>3. Values'
  BY <1>1 DEF Values, Written
<1>4. DiskOK'
  BY <1>1 DEF DiskOK, Content, Written, SyncFile
<1>5. Contents'
  <2>1. dom[p] \in Doc /\ (acked # None => acked \cup dom[p] \in Doc)
    BY <1>1, DocIs DEF IInv, Documents, Contents, Written
  <2> QED BY <1>1, <2>1 DEF Contents, Written
<1>6. Exclusive'
  BY DEF IInv, Exclusive, Written
<1>7. Tasks'
  BY DEF IInv, Tasks, Written
<1>8. Documents'
  BY DEF IInv, Documents, Written
<1>9. Disk'
  BY DEF IInv, Exclusive, Disk, Written, SyncFile
<1>10. Entries'
  BY DEF IInv, Entries, Disk, Good, Written, SyncFile
<1>11. Kept'
  BY <1>1, ContentAssumption DEF IInv, Exclusive, Kept, Has, Found, Disk, Values, Contents, Good,
     Written, SyncFile
<1>12. Options'
  BY <1>1 DEF IInv, Options, OptionsOf, Fresh, Tasks, Values, Written
<1> QED BY <1>2, <1>3, <1>4, <1>5, <1>6, <1>7, <1>8, <1>9, <1>10, <1>11, <1>12, Parts DEF IInv

(* The file cannot be written. *)
LEMMA WriteFailsOK == ASSUME IInv, NEW p \in Procs, WriteFails(p) PROVE IInv'
<1>1. Flags /\ Values /\ DiskOK /\ Contents
  BY Parts DEF IInv
<1>2. Flags'
  BY <1>1 DEF Flags, WriteFails
<1>3. Values'
  BY <1>1, SettingsAssumption DEF Values, WriteFails, Fault
<1>4. DiskOK'
  BY <1>1 DEF DiskOK, WriteFails
<1>5. Contents'
  BY <1>1 DEF Contents, WriteFails
<1>6. Exclusive'
  BY DEF IInv, Exclusive, WriteFails
<1>7. Tasks'
  BY DEF IInv, Tasks, WriteFails
<1>8. Documents'
  BY DEF IInv, Documents, WriteFails
<1>9. Disk'
  BY DEF IInv, Disk, WriteFails
<1>10. Entries'
  BY DEF IInv, Entries, WriteFails
<1>11. Kept'
  BY DEF IInv, Kept, Has, FileGood, BackupGood, WriteFails
<1>12. Options'
  BY DEF IInv, Options, OptionsOf, Fresh, WriteFails
<1> QED BY <1>2, <1>3, <1>4, <1>5, <1>6, <1>7, <1>8, <1>9, <1>10, <1>11, <1>12, Parts DEF IInv

(* What was written of it is removed. *)
LEMMA RemoveFileOK == ASSUME IInv, NEW p \in Procs, RemoveFile(p) PROVE IInv'
<1>1. Flags /\ Values /\ DiskOK /\ Contents
  BY Parts DEF IInv
<1>2. Flags'
  BY <1>1 DEF Flags, RemoveFile
<1>3. Values'
  BY <1>1 DEF Values, RemoveFile
<1>4. DiskOK'
  BY <1>1 DEF DiskOK, Content, RemoveFile, SetFile
<1>5. Contents'
  BY <1>1 DEF Contents, RemoveFile
<1>6. Exclusive'
  BY DEF IInv, Exclusive, RemoveFile
<1>7. Tasks'
  BY DEF IInv, Tasks, RemoveFile
<1>8. Documents'
  BY DEF IInv, Documents, RemoveFile
<1>9. Disk'
  BY DEF IInv, Exclusive, Disk, RemoveFile, SetFile
<1>10. Entries'
  BY DEF IInv, Entries, Good, RemoveFile, SetFile
<1>11. Kept'
  BY DEF IInv, Exclusive, Kept, Has, Found, BackupGood, Good, RemoveFile, SetFile
<1>12. Options'
  BY DEF IInv, Options, OptionsOf, Fresh, RemoveFile
<1> QED BY <1>2, <1>3, <1>4, <1>5, <1>6, <1>7, <1>8, <1>9, <1>10, <1>11, <1>12, Parts DEF IInv

(* The backup takes its place. *)
LEMMA PutBackOK == ASSUME IInv, NEW p \in Procs, PutBack(p) PROVE IInv'
<1>1. Flags /\ Values /\ DiskOK /\ Contents
  BY Parts DEF IInv
<1>2. Flags'
  BY <1>1 DEF Flags, PutBack
<1>3. Values'
  BY <1>1 DEF Values, PutBack
<1>4. DiskOK'
  BY <1>1 DEF DiskOK, Content, PutBack, RenameBackup
<1>5. Contents'
  BY <1>1 DEF Contents, PutBack
<1>6. Exclusive'
  BY DEF IInv, Exclusive, PutBack
<1>7. Tasks'
  BY DEF IInv, Tasks, PutBack
<1>8. Documents'
  BY DEF IInv, Documents, PutBack
<1>9. Disk'
  <2>1. \A q \in Procs : pc'[q] \notin Loading \cup Saving
    BY <1>1 DEF IInv, Exclusive, Values, PutBack
  <2>2. <<file, backup>>' \in after'
    BY DEF IInv, Disk, PutBack, RenameBackup
  <2> QED BY <2>1, <2>2 DEF Disk
<1>10. Entries'
  BY DEF IInv, Entries, Good, PutBack, RenameBackup
<1>11. Kept'
  BY <1>1 DEF IInv, Exclusive, Kept, Has, Found, BackupGood, Disk, Values, PutBack, RenameBackup
<1>12. Options'
  BY <1>1 DEF IInv, Options, OptionsOf, Fresh, Tasks, Flags, PutBack
<1> QED BY <1>2, <1>3, <1>4, <1>5, <1>6, <1>7, <1>8, <1>9, <1>10, <1>11, <1>12, Parts DEF IInv

(* A process gets the lock. *)
LEMMA LockOK == ASSUME IInv, NEW p \in Procs, Lock(p) PROVE IInv'
<1>1. Flags /\ Values /\ DiskOK /\ Contents
  BY Parts DEF IInv
<1>2. Flags'
  BY <1>1 DEF Flags, Lock
<1>3. Values'
  BY <1>1 DEF Values, Lock
<1>4. DiskOK'
  BY <1>1 DEF DiskOK, Lock
<1>5. Contents'
  BY <1>1 DEF Contents, Lock
<1>6. Exclusive'
  BY <1>1, SettingsAssumption DEF IInv, Exclusive, Values, Lock
<1>7. Tasks'
  BY DEF IInv, Tasks, Lock
<1>8. Documents'
  BY DEF IInv, Documents, Lock, UpToDate
<1>9. Disk' /\ Entries'
  <2>1. PICK there \in {"load", "save", "unlock"} : pc' = [pc EXCEPT ![p] = there]
    BY DEF Lock
  <2> QED BY <2>1, Away DEF Lock
<1>10. Kept'
  BY DEF IInv, Kept, Has, FileGood, BackupGood, Tasks, Lock, UpToDate
<1>11. Options'
  BY DEF IInv, Options, OptionsOf, Fresh, Lock, UpToDate
<1> QED BY <1>2, <1>3, <1>4, <1>5, <1>6, <1>7, <1>8, <1>9, <1>10, <1>11, Parts DEF IInv

(* It gives it up. *)
LEMMA UnlockOK == ASSUME IInv, NEW p \in Procs, Unlock(p) PROVE IInv'
<1>1. Flags /\ Values /\ DiskOK /\ Contents
  BY Parts DEF IInv
<1>2. Flags'
  BY <1>1 DEF Flags, Unlock, Ends
<1>3. Values'
  BY <1>1 DEF Values, Unlock, Ends
<1>4. DiskOK'
  BY <1>1 DEF DiskOK, Unlock
<1>5. Contents'
  BY <1>1 DEF Contents, Unlock, Ends
<1>6. Exclusive'
  BY <1>1, SettingsAssumption DEF IInv, Exclusive, Values, Unlock, Ends
<1>7. Tasks'
  BY <1>1 DEF IInv, Tasks, Flags, Values, Unlock, Ends
<1>8. Documents'
  BY <1>1 DEF IInv, Documents, Tasks, Flags, Values, Contents, Unlock, Ends
<1>9. Disk' /\ Entries'
  <2>1. PICK there \in {"down", "idle"} : pc' = [pc EXCEPT ![p] = there]
    BY DEF Unlock, Ends
  <2>2. \A q \in Procs : current'[q] => current[q] /\ (missed[q] => missed'[q])
    BY <1>1 DEF Flags, Unlock, Ends
  <2>3. \A q \in Procs : q # p => dom'[q] = dom[q]
    BY <1>1 DEF Contents, Unlock, Ends
  <2> QED BY <2>1, <2>2, <2>3, Away DEF Unlock
<1>10. Kept'
  BY <1>1 DEF IInv, Kept, Has, FileGood, BackupGood, Flags, Values, Contents, Unlock, Ends
<1>11. Options'
  BY <1>1 DEF IInv, Options, OptionsOf, Fresh, Flags, Values, Contents, Unlock, Ends
<1> QED BY <1>2, <1>3, <1>4, <1>5, <1>6, <1>7, <1>8, <1>9, <1>10, <1>11, Parts DEF IInv

(* A process starts. *)
LEMMA StartOK == ASSUME IInv, NEW p \in Procs, Start(p) PROVE IInv'
<1>1. Flags /\ Values /\ DiskOK /\ Contents
  BY Parts DEF IInv
<1>2. Flags'
  BY <1>1 DEF Flags, Start
<1>3. Values'
  BY <1>1 DEF Values, Start
<1>4. DiskOK'
  BY <1>1 DEF DiskOK, Start
<1>5. Contents'
  BY <1>1, DocIs DEF Contents, Start
<1>6. Exclusive'
  BY DEF IInv, Exclusive, Start
<1>7. Tasks'
  BY DEF IInv, Tasks, Start
<1>8. Documents'
  BY DEF IInv, Documents, Start
<1>9. Disk' /\ Entries'
  BY <1>1, Away DEF Values, Flags, Start
<1>10. Kept'
  BY DEF IInv, Kept, Has, FileGood, BackupGood, Start
<1>11. Options'
  BY DEF IInv, Options, OptionsOf, Fresh, Tasks, Start
<1> QED BY <1>2, <1>3, <1>4, <1>5, <1>6, <1>7, <1>8, <1>9, <1>10, <1>11, Parts DEF IInv

(* It looks for a certificate. *)
LEMMA LoadTrustedCertsOK == ASSUME IInv, NEW p \in Procs, LoadTrustedCerts(p) PROVE IInv'
<1>1. Flags /\ Values /\ DiskOK /\ Contents
  BY Parts DEF IInv
<1>2. Flags'
  BY <1>1 DEF Flags, LoadTrustedCerts
<1>3. Values'
  BY <1>1 DEF Values, LoadTrustedCerts
<1>4. DiskOK'
  BY <1>1 DEF DiskOK, LoadTrustedCerts
<1>5. Contents'
  BY <1>1 DEF Contents, LoadTrustedCerts
<1>6. Exclusive'
  BY DEF IInv, Exclusive, LoadTrustedCerts
<1>7. Tasks'
  BY DEF IInv, Tasks, LoadTrustedCerts
<1>8. Documents'
  BY DEF IInv, Documents, LoadTrustedCerts
<1>9. Disk' /\ Entries'
  BY <1>1, Away DEF Values, Flags, LoadTrustedCerts
<1>10. Kept'
  BY DEF IInv, Kept, Has, FileGood, BackupGood, LoadTrustedCerts
<1>11. Options'
  BY DEF Options, LoadTrustedCerts
<1> QED BY <1>2, <1>3, <1>4, <1>5, <1>6, <1>7, <1>8, <1>9, <1>10, <1>11, Parts DEF IInv

(* It adds an entry. *)
LEMMA AddServerOK == ASSUME IInv, NEW p \in Procs, AddServer(p) PROVE IInv'
<1>1. Flags /\ Values /\ DiskOK /\ Contents
  BY Parts DEF IInv
<1>2. Flags'
  BY <1>1 DEF Flags, AddServer
<1>3. Values'
  BY <1>1, SettingsAssumption DEF Values, AddServer
<1>4. DiskOK'
  BY <1>1 DEF DiskOK, AddServer
<1>5. Contents'
  <2>1. {edits + 1} \in Doc
    BY <1>1, DocIs DEF Values, AddServer
  <2> QED BY <1>1, <2>1 DEF Contents, AddServer
<1>6. Exclusive'
  BY DEF IInv, Exclusive, AddServer
<1>7. Tasks'
  BY <1>1 DEF IInv, Tasks, Values, AddServer
<1>8. Documents'
  BY DEF IInv, Documents, AddServer
<1>9. Disk' /\ Entries'
  BY <1>1, Away DEF Values, Flags, AddServer
<1>10. Kept'
  BY DEF IInv, Kept, Has, FileGood, BackupGood, AddServer
<1>11. Options'
  BY DEF Options, AddServer
<1> QED BY <1>2, <1>3, <1>4, <1>5, <1>6, <1>7, <1>8, <1>9, <1>10, <1>11, Parts DEF IInv

(* An option is set. *)
LEMMA SetOK == ASSUME IInv, NEW p \in Procs, Set(p) PROVE IInv'
<1>1. Flags /\ Values /\ DiskOK /\ Contents
  BY Parts DEF IInv
<1>2. Flags'
  BY <1>1 DEF Flags, Set
<1>3. Values'
  BY <1>1, SettingsAssumption DEF Values, Set
<1>4. DiskOK'
  BY <1>1 DEF DiskOK, Set
<1>5. Contents'
  <2>1. {edits + 1} \in Doc
    BY <1>1, DocIs DEF Values, Set
  <2>2. values[p] \cup {edits + 1} \in Doc
    BY <1>1, <2>1, DocIs DEF Contents
  <2> QED BY <1>1, <2>2 DEF Contents, Set
<1>6. Exclusive'
  BY DEF IInv, Exclusive, Set
<1>7. Tasks'
  BY DEF IInv, Tasks, Set
<1>8. Documents'
  BY DEF IInv, Documents, Set
<1>9. Disk'
  BY <1>1, ContentAssumption DEF IInv, Exclusive, Disk, Documents, Flags, Values, DiskOK,
     Contents, Content, Good, Set
<1>10. Entries'
  BY DEF IInv, Entries, Set
<1>11. Kept'
  BY DEF IInv, Kept, Has, FileGood, BackupGood, Set
<1>12. Options'
  BY <1>1 DEF IInv, Options, OptionsOf, Fresh, Flags, Values, Set
<1> QED BY <1>2, <1>3, <1>4, <1>5, <1>6, <1>7, <1>8, <1>9, <1>10, <1>11, <1>12, Parts DEF IInv

(* Changes are handed out. *)
LEMMA ContinueNotifyChangedOK == ASSUME IInv, NEW p \in Procs, ContinueNotifyChanged(p) PROVE IInv'
<1>1. Flags /\ Values /\ DiskOK /\ Contents
  BY Parts DEF IInv
<1>2. Flags'
  BY <1>1 DEF Flags, ContinueNotifyChanged
<1>3. Values'
  BY <1>1 DEF Values, ContinueNotifyChanged
<1>4. DiskOK'
  BY <1>1 DEF DiskOK, ContinueNotifyChanged
<1>5. Contents'
  BY <1>1 DEF Contents, ContinueNotifyChanged
<1>6. Exclusive'
  BY DEF IInv, Exclusive, ContinueNotifyChanged
<1>7. Tasks'
  BY DEF IInv, Tasks, ContinueNotifyChanged
<1>8. Documents'
  BY <1>1, ContentAssumption DEF IInv, Documents, Flags, Contents, ContinueNotifyChanged
<1>9. Disk' /\ Entries'
  BY <1>1, Away DEF Values, ContinueNotifyChanged
<1>10. Kept'
  BY DEF IInv, Kept, Has, FileGood, BackupGood, Tasks, ContinueNotifyChanged
<1>11. Options'
  BY <1>1, ContentAssumption DEF IInv, Options, OptionsOf, Fresh, Flags, Contents,
     ContinueNotifyChanged, Processed
<1> QED BY <1>2, <1>3, <1>4, <1>5, <1>6, <1>7, <1>8, <1>9, <1>10, <1>11, Parts DEF IInv

(* The timer fires. *)
LEMMA OnTimerOK == ASSUME IInv, NEW p \in Procs, OnTimer(p) PROVE IInv'
<1>1. Flags /\ Values /\ DiskOK /\ Contents
  BY Parts DEF IInv
<1>2. Flags'
  BY <1>1 DEF Flags, OnTimer
<1>3. Values'
  BY <1>1 DEF Values, OnTimer
<1>4. DiskOK'
  BY <1>1 DEF DiskOK, OnTimer
<1>5. Contents'
  BY <1>1 DEF Contents, OnTimer
<1>6. Exclusive'
  BY <1>1 DEF IInv, Exclusive, Values, OnTimer
<1>7. Tasks'
  BY <1>1 DEF IInv, Tasks, Values, OnTimer
<1>8. Documents'
  BY <1>1 DEF IInv, Documents, Values, OnTimer
<1>9. Disk' /\ Entries'
  BY <1>1, Away DEF Values, OnTimer
<1>10. Kept'
  BY <1>1 DEF IInv, Kept, Has, FileGood, BackupGood, Values, OnTimer
<1>11. Options'
  BY <1>1 DEF IInv, Options, OptionsOf, Fresh, Flags, Values, OnTimer
<1> QED BY <1>2, <1>3, <1>4, <1>5, <1>6, <1>7, <1>8, <1>9, <1>10, <1>11, Parts DEF IInv

(* A process is to end. *)
LEMMA OnExitOK == ASSUME IInv, NEW p \in Procs, OnExit(p) PROVE IInv'
<1>1. Flags /\ Values /\ DiskOK /\ Contents
  BY Parts DEF IInv
<1>2. Flags'
  BY <1>1 DEF Flags, OnExit, Processed, Ends
<1>3. Values'
  BY <1>1 DEF Values, OnExit, Ends
<1>4. DiskOK'
  BY <1>1 DEF DiskOK, OnExit
<1>5. Contents'
  BY <1>1 DEF Contents, OnExit, Ends
<1>6. Exclusive'
  BY <1>1 DEF IInv, Exclusive, Values, OnExit, Ends
<1>7. Tasks'
  BY <1>1 DEF IInv, Tasks, Flags, Values, OnExit, Processed, Ends
<1>8. Documents'
  BY <1>1, ContentAssumption DEF IInv, Documents, Flags, Values, Contents, OnExit, Ends
<1>9. Disk' /\ Entries'
  <2>1. PICK there \in {"down", "wait"} : pc' = [pc EXCEPT ![p] = there]
    BY DEF OnExit, Ends
  <2>2. \A q \in Procs : current'[q] => current[q] /\ (missed[q] => missed'[q])
    BY <1>1 DEF Flags, OnExit, Ends
  <2>3. \A q \in Procs : q # p => dom'[q] = dom[q]
    BY <1>1 DEF Contents, OnExit, Ends
  <2> QED BY <2>1, <2>2, <2>3, Away DEF OnExit
<1>10. Kept'
  BY <1>1 DEF IInv, Kept, Has, FileGood, BackupGood, Tasks, Flags, Values, Contents, OnExit,
     Processed, Ends
<1>11. Options'
  BY <1>1, ContentAssumption DEF IInv, Options, OptionsOf, Fresh, Flags, Values, Contents, OnExit,
     Processed, Ends
<1> QED BY <1>2, <1>3, <1>4, <1>5, <1>6, <1>7, <1>8, <1>9, <1>10, <1>11, Parts DEF IInv

(* A process is killed. *)
LEMMA CrashOK == ASSUME IInv, NEW p \in Procs, Crash(p) PROVE IInv'
<1>1. Flags /\ Values /\ DiskOK /\ Contents
  BY Parts DEF IInv
<1>2. Flags'
  BY <1>1 DEF Flags, Crash, Ends
<1>3. Values'
  BY <1>1, SettingsAssumption DEF Values, Crash, Fault, Ends
<1>4. DiskOK'
  BY <1>1 DEF DiskOK, Content, Crash
<1>5. Contents'
  BY <1>1, DocIs DEF Contents, Crash, Ends
<1>6. Exclusive'
  BY <1>1, SettingsAssumption DEF IInv, Exclusive, Values, Crash, Ends
<1>7. Tasks'
  BY <1>1 DEF IInv, Tasks, Values, Crash, Ends
<1>8. Documents'
  BY <1>1 DEF IInv, Documents, Flags, Values, Crash, Ends
<1>9. Disk'
  <2>1. CASE pc[p] \in Inside
    <3>1. \A q \in Procs : pc'[q] \notin Inside
      BY <1>1, <2>1 DEF IInv, Exclusive, Values, Crash, Ends
    <3>2. <<file', backup'>> \in after'
      BY DEF IInv, Disk, Crash
    <3> QED BY <3>1, <3>2 DEF Disk
  <2>2. CASE pc[p] \notin Inside
    <3>1. UNCHANGED <<disk, spoiled, reached>>
      BY <2>2 DEF Crash
    <3>2. \A q \in Procs : /\ q # p => dom'[q] = dom[q]
                           /\ current'[q] => current[q] /\ (missed[q] => missed'[q])
      BY <1>1 DEF Flags, Contents, Crash, Ends
    <3> QED BY <3>1, <3>2, Away DEF Crash, Ends
  <2> QED BY <2>1, <2>2
<1>10. Entries'
  BY <1>1 DEF IInv, Entries, Values, Crash, Ends
<1>11. Kept'
  BY <1>1 DEF IInv, Kept, Has, FileGood, BackupGood, Flags, Values, Crash, Ends
<1>12. Options'
  BY <1>1 DEF IInv, Options, OptionsOf, Fresh, Flags, Values, Crash, Ends
<1> QED BY <1>2, <1>3, <1>4, <1>5, <1>6, <1>7, <1>8, <1>9, <1>10, <1>11, <1>12, Parts DEF IInv

(* Power fails: all processes are down, and one of the pairs is left. *)
LEMMA PowerFailureOK == ASSUME IInv, PowerFailure PROVE IInv'
<1>1. Flags /\ Values /\ DiskOK /\ Contents
  BY Parts DEF IInv
<1>2. PICK x \in after : file' = x[1] /\ backup' = x[2] /\ after' = {x}
  BY DEF PowerFailure
<1>3. x \in Content \X Content /\ x = <<file', backup'>>
  BY <1>1, <1>2 DEF DiskOK
<1>4. \A p \in Procs : /\ pc'[p] = "down" /\ task'[p] = "load" /\ dom'[p] = None /\ called'[p] = 0
                       /\ ~current'[p] /\ ~changed'[p] /\ ~dirty'[p] /\ ~timer'[p] /\ ~quits'[p]
  BY DEF PowerFailure
<1>5. Flags'
  BY <1>1 DEF Flags, PowerFailure
<1>6. Values'
  BY <1>1, SettingsAssumption DEF Values, PowerFailure, Fault
<1>7. DiskOK'
  BY <1>2, <1>3 DEF DiskOK
<1>8. Contents'
  BY <1>1, DocIs DEF Contents, PowerFailure
<1>9. Exclusive' /\ Tasks' /\ Documents'
  BY SettingsAssumption DEF Exclusive, Tasks, Documents, PowerFailure
<1>10. Disk' /\ Entries'
  BY <1>2, <1>3 DEF IInv, Disk, Entries, PowerFailure
<1>11. Kept'
  BY DEF IInv, Kept, Has, Found, BackupGood, PowerFailure
<1>12. Options'
  BY <1>4 DEF Options, OptionsOf, Fresh
<1> QED BY <1>5, <1>6, <1>7, <1>8, <1>9, <1>10, <1>11, <1>12, Parts DEF IInv

-------------------------------------------------------------------------------
(***************************************************************************)
(* The invariant                                                           *)
(***************************************************************************)

(* There are no files and no processes at first. *)
LEMMA InitOK == Init => IInv
<1> SUFFICES ASSUME Init PROVE IInv
  OBVIOUS
<1>1. \A p \in Procs : /\ pc[p] = "down" /\ task[p] = "load" /\ dom[p] = None /\ called[p] = 0
                       /\ ~current[p] /\ ~changed[p] /\ ~dirty[p] /\ ~timer[p] /\ ~quits[p]
  BY DEF Init
<1>2. Flags
  BY DEF Init, Flags
<1>3. Values
  BY SettingsAssumption DEF Init, Values
<1>4. DiskOK /\ Contents
  BY DocIs DEF Init, DiskOK, Contents, Content
<1>5. Exclusive /\ Tasks /\ Documents
  BY SettingsAssumption DEF Init, Exclusive, Tasks, Documents
<1>6. Disk /\ Entries /\ Kept
  BY DEF Init, Disk, Entries, Kept, Good
<1>7. Options
  BY <1>1 DEF Options, OptionsOf, Fresh
<1> QED BY <1>2, <1>3, <1>4, <1>5, <1>6, <1>7, Parts DEF IInv

(* No step disturbs it. *)
LEMMA NextOK == ASSUME IInv, [Next]_vars PROVE IInv'
<1>1. CASE PowerFailure
  BY <1>1, PowerFailureOK
<1>2. ASSUME NEW p \in Procs, Step(p) PROVE IInv'
  BY <1>2, LoadFileOK, LoadBackupOK, LoadNoneOK, RestoreOK, RestoringOK, RestoredOK, SaveOK,
     BackupOK, CopyingOK, CopiedOK, WriteOK, WritingOK, WrittenOK, RemoveFileOK, PutBackOK,
     UnlockOK DEF Step
<1>3. ASSUME NEW p \in Procs,
             Lock(p) \/ Start(p) \/ LoadTrustedCerts(p) \/ AddServer(p) \/ Set(p)
             \/ ContinueNotifyChanged(p) \/ OnTimer(p) \/ OnExit(p)
      PROVE  IInv'
  BY <1>3, LockOK, StartOK, LoadTrustedCertsOK, AddServerOK, SetOK, ContinueNotifyChangedOK,
     OnTimerOK, OnExitOK
<1>4. ASSUME NEW p \in Procs,
             RestoreFails(p) \/ RestoredUnsynced(p) \/ CopyFails(p) \/ CopiedUnsynced(p) \/ WriteFails(p)
             \/ Crash(p)
      PROVE  IInv'
  BY <1>4, RestoreFailsOK, RestoredUnsyncedOK, CopyFailsOK, CopiedUnsyncedOK, WriteFailsOK, CrashOK
<1>5. CASE UNCHANGED vars
  BY <1>5, SMTT(30) DEF vars, IInv, TypeOK, Exclusive, Tasks, Documents, Disk, Entries, Kept, Has, FileGood,
     BackupGood, Options, OptionsOf, Fresh
<1> QED BY <1>1, <1>2, <1>3, <1>4, <1>5 DEF Next

(* It holds in every reachable state. *)
LEMMA SettingsInvariant == Spec => []IInv
BY InitOK, NextOK, PTL DEF Spec

(* What was saved is found by the next Load, whatever kills the processes  *)
(* or the power in the middle of a save or of a repair (xml_file.cpp,      *)
(* Load and SaveXmlFile), unless spoiled says otherwise.                   *)
THEOREM SavedIsNeverLost == Spec => []NeverLost
<1>1. IInv => NeverLost
  BY DEF IInv, Disk, Kept, Has, NeverLost
<1> QED BY <1>1, SettingsInvariant, PTL

(* A process that is about to save has all that others have saved          *)
(* (xml_cert_store.cpp, sitemanager.cpp), by the lock and by Modified(),   *)
(* unless a save has left the modification time as it was.                 *)
THEOREM NobodyIsOverwritten == Spec => []NoLostUpdate
<1>1. IInv => NoLostUpdate
  BY DEF IInv, Kept, NoLostUpdate
<1> QED BY <1>1, SettingsInvariant, PTL

(* An option that is set is announced, put into the document and written,  *)
(* or the user is told (optionsbase.cpp, options.cpp).                     *)
THEOREM ChangesAreSaved == Spec => []NoLostChange
<1>1. IInv => NoLostChange
  BY DEF IInv, Tasks, Options, OptionsOf, NoLostChange
<1> QED BY <1>1, SettingsInvariant, PTL

=============================================================================
