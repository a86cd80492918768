------------------------------ MODULE Settings ------------------------------
(***************************************************************************)
(* The settings files: how they are loaded and saved (CXmlFile in          *)
(* src/commonui/xml_file.cpp), the lock that several running FileZilla     *)
(* processes share for it (CInterProcessMutex in src/commonui/             *)
(* ipcmutex.cpp), and the three ways a file is used:                       *)
(*                                                                         *)
(*   "options"  filezilla.xml is loaded once, changed in memory and saved  *)
(*              by a timer and at exit (src/commonui/options.cpp,          *)
(*              src/engine/optionsbase.cpp, src/interface/Options.cpp);    *)
(*   "sites"    the site manager loads the file, adds to it and saves it,  *)
(*              all under the lock (src/interface/sitemanager.cpp);        *)
(*   "certs"    the certificate store does so too, but loads the file only *)
(*              if somebody else has changed it (src/commonui/             *)
(*              xml_cert_store.cpp).                                       *)
(*                                                                         *)
(* A document is the set of the entries made in it.  Files are written in  *)
(* steps; a process may be killed between two, power may fail, and the     *)
(* disk may be full.  What is on the disk after a power failure is known   *)
(* only for what has been synced.  Entries that are not valid, or not any  *)
(* more, are not counted.                                                  *)
(***************************************************************************)
EXTENDS Naturals, FiniteSets

CONSTANTS
    Procs,          \* the processes
    None,           \* no process; no document in memory
    Absent,         \* content of a file: there is none
    Empty,          \* it has no bytes
    Torn,           \* it is not a well-formed document
    MaxEdits,       \* bound: entries made
    MaxFaults       \* bound: faults

ASSUME SettingsAssumption ==
    /\ MaxEdits \in Nat /\ MaxFaults \in Nat /\ IsFiniteSet(Procs)
    /\ None \notin Procs

VARIABLES
    mode,           \* how the file is used
    file, backup,   \* contents of the file and of the file with ~ appended to its name
    after,          \* pairs of contents that a power failure may leave
    lock,           \* who holds the byte of the lock file
    pc,             \* where each process is
    task,           \* what it needs the lock for: "load", "save" or "edit"
    dom,            \* m_document, or None if m_element is empty
    exists,         \* the local variable of SaveXmlFile, of the process that holds the lock
    current,        \* m_modificationTime is that of the file
    values,         \* values_, as entries; or the entry to be made in the other files
    changed,        \* changed_.any()
    called,         \* calls of continue_notify_changed under way
    dirty,          \* dirty_
    timer,          \* m_save_timer is running
    quits,          \* the process will end when it is done
    edits,          \* number of entries made
    faults,         \* number of faults
    acked,          \* observer: entries the file must have, or None if none was saved yet
    reached,        \* observer: entries that were ever written
    told,           \* observer: this process has shown the user an error
    missed,         \* observer: the file was changed, and its modification time is still the
                    \* one this process knows
    spoiled         \* observer: the good copy was given up for one that may not be

disk == <<file, backup, after>>
options == <<values, changed, called, dirty, timer, quits>>
observers == <<acked, reached, told, missed, spoiled>>
vars == <<mode, disk, lock, pc, task, exists, dom, current, options, edits, faults, observers>>

Doc == SUBSET (1..MaxEdits)
Content == Doc \cup {Absent, Empty, Torn}

ASSUME ContentAssumption == \A d \in Doc : d \notin {None, Absent, Empty, Torn}

Good(c) == c \notin {Absent, Empty, Torn}

TypeOK ==
    /\ mode \in {"options", "sites", "certs"}
    /\ file \in Content /\ backup \in Content /\ after \subseteq Content \X Content
    /\ lock \in Procs \cup {None}
    /\ pc \in [Procs -> {"down", "idle", "wait", "load", "restore", "restoring", "restored", "save", "backup",
                         "copying", "copied", "write", "writing", "written", "failed", "removed", "unlock"}]
    /\ task \in [Procs -> {"load", "save", "edit"}]
    /\ dom \in [Procs -> Doc \cup {None}] /\ values \in [Procs -> Doc]
    /\ called \in [Procs -> Nat]
    /\ {current, changed, dirty, timer, quits, told, missed} \subseteq [Procs -> BOOLEAN]
    /\ edits \in 0..MaxEdits /\ faults \in 0..MaxFaults
    /\ exists \in BOOLEAN /\ acked \in Doc \cup {None} /\ reached \in Doc /\ spoiled \in BOOLEAN

-------------------------------------------------------------------------------
(***************************************************************************)
(* The file system                                                         *)
(***************************************************************************)

(* Content is written; it may get to the disk, or not. *)
SetFile(c) ==
    /\ file' = c /\ UNCHANGED backup
    /\ after' = after \cup {<<c, x[2]>> : x \in after}

SetBackup(c) ==
    /\ backup' = c /\ UNCHANGED file
    /\ after' = after \cup {<<x[1], c>> : x \in after}

SyncFile == after' = {<<file, x[2]>> : x \in after} /\ UNCHANGED <<file, backup>>

SyncBackup == after' = {<<x[1], backup>> : x \in after} /\ UNCHANGED <<file, backup>>

RenameBackup ==
    /\ file' = backup /\ backup' = Absent
    /\ after' = after \cup {<<x[2], Absent>> : x \in after}

(* The file is not the one that other processes know.  Those who look at   *)
(* its modification time do not see it if the time has not advanced since. *)
Touched(p) ==
    \E same \in {FALSE, mode = "certs"} :
        /\ current' = [q \in Procs |-> q = p \/ (same /\ current[q])]
        /\ missed' = [q \in Procs |-> missed[q] \/ (same /\ current[q] /\ q # p)]

(* A fault happens, if the bound allows. *)
Fault == faults < MaxFaults /\ faults' = faults + 1

At(p, here, there) == pc[p] = here /\ pc' = [pc EXCEPT ![p] = there]

-------------------------------------------------------------------------------
(***************************************************************************)
(* CXmlFile::Load                                                          *)
(***************************************************************************)

AfterLoad(p) == IF task[p] = "edit" THEN "save" ELSE "unlock"

(* LoadTrustedCerts saves the file if it has removed entries that are not  *)
(* valid; before an edit this is as if it had been called by itself.       *)
GoOn(p) ==
    \/ pc' = [pc EXCEPT ![p] = AfterLoad(p)] /\ UNCHANGED task
    \/ /\ mode = "certs" /\ task[p] = "load"
       /\ pc' = [pc EXCEPT ![p] = "save"] /\ task' = [task EXCEPT ![p] = "save"]

(* XmlOptions::Load takes the values, and adds the settings that are       *)
(* missing, which makes the document dirty and starts the timer.           *)
Loaded(p, d) ==
    /\ dom' = [dom EXCEPT ![p] = d] /\ missed' = [missed EXCEPT ![p] = FALSE]
    /\ IF mode = "options"
       THEN \E b \in BOOLEAN :
               /\ values' = [values EXCEPT ![p] = d]
               /\ dirty' = [dirty EXCEPT ![p] = b] /\ timer' = [timer EXCEPT ![p] = b]
               /\ d = {} => b
               /\ UNCHANGED <<changed, called, quits>>
       ELSE UNCHANGED options

LoadFile(p) ==
    /\ pc[p] = "load" /\ Good(file)
    /\ GoOn(p) /\ Loaded(p, file)
    /\ current' = [current EXCEPT ![p] = TRUE]
    /\ UNCHANGED <<mode, exists, disk, lock, edits, faults, acked, reached, told, spoiled>>

(* The file cannot be loaded, the backup can: it is copied to the file. *)
LoadBackup(p) ==
    /\ At(p, "load", "restore") /\ ~Good(file) /\ Good(backup)
    /\ dom' = [dom EXCEPT ![p] = backup]
    /\ UNCHANGED <<mode, exists, disk, lock, task, current, options, edits, faults, observers>>

(* Neither can.  If both are empty, a new document is created; otherwise   *)
(* the user is told that there is none.                                    *)
LoadNone(p) ==
    /\ pc[p] = "load" /\ ~Good(file) /\ ~Good(backup)
    /\ IF {file, backup} \subseteq {Absent, Empty}
       THEN Loaded(p, {}) /\ pc' = [pc EXCEPT ![p] = AfterLoad(p)] /\ UNCHANGED told
       ELSE /\ dom' = [dom EXCEPT ![p] = None] /\ pc' = [pc EXCEPT ![p] = "unlock"]
            /\ told' = [told EXCEPT ![p] = TRUE]
            /\ UNCHANGED <<options, missed>>
    /\ current' = [current EXCEPT ![p] = file = Empty /\ ~Good(backup) /\ backup # Torn]
    /\ UNCHANGED <<mode, exists, disk, lock, task, edits, faults, acked, reached, spoiled>>

(* copy_file(redirectedName + "~", redirectedName): the file is opened,    *)
(* which truncates it, and written.                                        *)
Restore(p) ==
    /\ At(p, "restore", "restoring")
    /\ file' = Torn /\ UNCHANGED backup
    /\ after' = after \cup ({Empty, Torn} \X {x[2] : x \in after})
    /\ Touched(p)
    /\ UNCHANGED <<mode, exists, lock, task, dom, options, edits, faults, acked, reached, told, spoiled>>

Restoring(p) ==
    /\ At(p, "restoring", "restored")
    /\ SetFile(backup)
    /\ UNCHANGED <<mode, exists, lock, task, dom, current, options, edits, faults, observers>>

(* The disk is full: nothing is loaded.  But if some bytes of the last     *)
(* block have been written, copy_file does not see it.                     *)
RestoreFails(p) ==
    /\ pc[p] = "restoring" /\ Fault
    /\ \/ /\ pc' = [pc EXCEPT ![p] = "unlock"]
          /\ dom' = [dom EXCEPT ![p] = None]
          /\ told' = [told EXCEPT ![p] = TRUE] /\ current' = [current EXCEPT ![p] = FALSE]
          /\ UNCHANGED <<disk, spoiled>>
       \/ /\ pc' = [pc EXCEPT ![p] = "restored"]
          /\ SetFile(Torn)
          /\ spoiled' = TRUE
          /\ UNCHANGED <<dom, told, current>>
    /\ UNCHANGED <<mode, exists, lock, task, options, edits, acked, reached, missed>>

(* It is synced, and the backup removed. *)
Restored(p) ==
    /\ pc[p] = "restored" /\ GoOn(p)
    /\ backup' = Absent /\ UNCHANGED file
    /\ after' = {file} \X ({Absent} \cup {x[2] : x \in after})
    /\ Loaded(p, dom[p])
    /\ current' = [current EXCEPT ![p] = TRUE]
    /\ UNCHANGED <<mode, exists, lock, edits, faults, acked, reached, told, spoiled>>

(* copy_file does not look at the result of fsync. *)
RestoredUnsynced(p) ==
    /\ pc[p] = "restored" /\ GoOn(p) /\ Fault
    /\ backup' = Absent /\ UNCHANGED file
    /\ after' = after \cup {<<x[1], Absent>> : x \in after}
    /\ Loaded(p, dom[p])
    /\ current' = [current EXCEPT ![p] = TRUE]
    /\ spoiled' = TRUE
    /\ UNCHANGED <<mode, exists, lock, edits, acked, reached, told>>

-------------------------------------------------------------------------------
(***************************************************************************)
(* CXmlFile::Save                                                          *)
(***************************************************************************)

(* What is to be saved is made, and a backup too if there is a file.       *)
(* What the new document leaves out is no longer asked for: the options of *)
(* the process that saves last win, and so does who has missed a change.   *)
Save(p) ==
    /\ At(p, "save", IF file = Absent THEN "write" ELSE "backup")
    /\ exists' = (file # Absent)
    /\ dom' = IF task[p] = "edit" THEN [dom EXCEPT ![p] = @ \cup values[p]] ELSE dom
    /\ acked' = IF (mode = "options" \/ missed[p]) /\ acked # None THEN acked \cap dom[p] ELSE acked
    /\ UNCHANGED <<mode, disk, lock, task, current, options, edits, faults, reached, told, missed, spoiled>>

(* copy_file(redirectedName, redirectedName + "~") *)
Backup(p) ==
    /\ At(p, "backup", "copying")
    /\ backup' = Torn /\ UNCHANGED file
    /\ after' = after \cup ({x[1] : x \in after} \X {Empty, Torn})
    /\ spoiled' = (spoiled \/ \E x \in after : ~Good(x[1]))
    /\ UNCHANGED <<mode, exists, lock, task, dom, current, options, edits, faults, acked, reached, told, missed>>

Copying(p) ==
    /\ At(p, "copying", "copied")
    /\ SetBackup(file)
    /\ UNCHANGED <<mode, exists, lock, task, dom, current, options, edits, faults, observers>>

(* It fails, or seems not to. *)
CopyFails(p) ==
    /\ pc[p] = "copying" /\ Fault
    /\ \/ /\ pc' = [pc EXCEPT ![p] = "unlock"]
          /\ told' = [told EXCEPT ![p] = TRUE]
          /\ current' = [current EXCEPT ![p] = TRUE]
          /\ UNCHANGED <<disk, spoiled>>
       \/ /\ pc' = [pc EXCEPT ![p] = "copied"]
          /\ SetBackup(Torn)
          /\ spoiled' = TRUE
          /\ UNCHANGED <<told, current>>
    /\ UNCHANGED <<mode, exists, lock, task, dom, options, edits, acked, reached, missed>>

(* Variant: the backup is not synced. *)
CopiedOnly(p) ==
    /\ At(p, "copied", "write")
    /\ UNCHANGED <<mode, exists, disk, lock, task, dom, current, options, edits, faults, observers>>

Copied(p) ==
    /\ At(p, "copied", "write")
    /\ SyncBackup
    /\ UNCHANGED <<mode, exists, lock, task, dom, current, options, edits, faults, observers>>

(* copy_file does not look at the result of fsync. *)
CopiedUnsynced(p) ==
    /\ At(p, "copied", "write") /\ Fault
    /\ spoiled' = TRUE
    /\ UNCHANGED <<mode, exists, disk, lock, task, dom, current, options, edits, acked, reached, told, missed>>

(* flushing_xml_writer opens the file, ... *)
Write(p) ==
    /\ At(p, "write", "writing")
    /\ file' = Torn /\ UNCHANGED backup
    /\ after' = after \cup ({Empty, Torn} \X {x[2] : x \in after})
    /\ Touched(p)
    /\ UNCHANGED <<mode, exists, lock, task, dom, options, edits, faults, acked, reached, told, spoiled>>

(* ... writes all of it, ... *)
Writing(p) ==
    /\ At(p, "writing", "written")
    /\ SetFile(dom[p])
    /\ reached' = reached \cup dom[p]
    /\ UNCHANGED <<mode, exists, lock, task, dom, current, options, edits, faults, acked, told, missed, spoiled>>

(* ... and syncs it.  The backup is removed after that, if one was made. *)
Written(p) ==
    /\ At(p, "written", "unlock")
    /\ IF ~exists THEN SyncFile
       ELSE /\ backup' = Absent /\ UNCHANGED file
            /\ after' = {file} \X ({Absent} \cup {x[2] : x \in after})
    /\ acked' = IF mode = "options" \/ spoiled \/ acked = None THEN dom[p] ELSE acked \cup dom[p]
    /\ spoiled' = FALSE /\ missed' = [missed EXCEPT ![p] = FALSE]
    /\ UNCHANGED <<mode, exists, lock, task, dom, current, options, edits, faults, reached, told>>

(* Writing or syncing fails: the file is removed, ... *)
WriteFails(p) ==
    /\ pc[p] \in {"writing", "written"} /\ Fault
    /\ pc' = [pc EXCEPT ![p] = "failed"]
    /\ UNCHANGED <<mode, exists, disk, lock, task, dom, current, options, edits, observers>>

RemoveFile(p) ==
    /\ At(p, "failed", "removed")
    /\ SetFile(Absent)
    /\ UNCHANGED <<mode, exists, lock, task, dom, current, options, edits, faults, observers>>

(* ... and the backup takes its place, if one was made. *)
PutBack(p) ==
    /\ At(p, "removed", "unlock")
    /\ IF exists THEN RenameBackup ELSE UNCHANGED disk
    /\ current' = [current EXCEPT ![p] = exists]
    /\ told' = [told EXCEPT ![p] = TRUE]
    /\ UNCHANGED <<mode, exists, lock, task, dom, options, edits, faults, acked, reached, missed, spoiled>>

-------------------------------------------------------------------------------
(***************************************************************************)
(* Those who use it                                                        *)
(***************************************************************************)

(* Variant: the document in memory is always taken to be that of the file. *)
UpToDateAlways(p) == mode = "certs" /\ dom[p] # None

(* The certificates are not loaded again unless the file was Modified(),   *)
(* by its modification time.                                               *)
UpToDate(p) == mode = "certs" /\ current[p] /\ file # Absent

(* CInterProcessMutex::Lock.  The lock is taken to work; where there is    *)
(* none the code goes on without it.                                       *)
Lock(p) ==
    /\ At(p, "wait", IF task[p] = "save" \/ UpToDate(p) THEN IF task[p] = "load" THEN "unlock" ELSE "save"
                     ELSE "load")
    /\ lock = None /\ lock' = p
    /\ UNCHANGED <<mode, exists, disk, task, dom, current, options, edits, faults, observers>>

(* A process ends, and with it what it had in memory. *)
Ends(p) ==
    /\ pc' = [pc EXCEPT ![p] = "down"] /\ task' = [task EXCEPT ![p] = "load"]
    /\ dom' = [dom EXCEPT ![p] = None] /\ current' = [current EXCEPT ![p] = FALSE]
    /\ changed' = [changed EXCEPT ![p] = FALSE] /\ called' = [called EXCEPT ![p] = 0]
    /\ dirty' = [dirty EXCEPT ![p] = FALSE] /\ timer' = [timer EXCEPT ![p] = FALSE]
    /\ quits' = [quits EXCEPT ![p] = FALSE] /\ missed' = [missed EXCEPT ![p] = FALSE]

(* CInterProcessMutex::Unlock.  The site manager forgets the document, and *)
(* a process that is to end does.                                          *)
Unlock(p) ==
    /\ pc[p] = "unlock" /\ lock' = None /\ exists' = FALSE
    /\ IF quits[p] THEN Ends(p)
       ELSE /\ pc' = [pc EXCEPT ![p] = "idle"] /\ task' = [task EXCEPT ![p] = "load"]
            /\ dom' = IF mode = "sites" THEN [dom EXCEPT ![p] = None] ELSE dom
            /\ UNCHANGED <<current, changed, called, dirty, timer, quits, missed>>
    /\ UNCHANGED <<mode, disk, values, edits, faults, acked, reached, told, spoiled>>

(* A process starts, and loads its options. *)
Start(p) ==
    /\ At(p, "down", IF mode = "options" THEN "wait" ELSE "idle")
    /\ values' = [values EXCEPT ![p] = {}] /\ told' = [told EXCEPT ![p] = FALSE]
    /\ UNCHANGED <<mode, exists, disk, lock, task, dom, current, changed, called, dirty, timer, quits, edits, faults,
                   acked, reached, missed, spoiled>>

(* xml_cert_store::LoadTrustedCerts, when a certificate is looked for *)
LoadTrustedCerts(p) ==
    /\ mode = "certs" /\ At(p, "idle", "wait")
    /\ UNCHANGED <<mode, exists, disk, lock, task, dom, current, options, edits, faults, observers>>

(* CSiteManager::AddServer, or xml_cert_store::DoSetTrusted and the like *)
AddServer(p) ==
    /\ mode # "options" /\ edits < MaxEdits
    /\ At(p, "idle", "wait")
    /\ task' = [task EXCEPT ![p] = "edit"]
    /\ edits' = edits + 1 /\ values' = [values EXCEPT ![p] = {edits + 1}]
    /\ told' = [told EXCEPT ![p] = FALSE]
    /\ UNCHANGED <<mode, exists, disk, lock, dom, current, changed, called, dirty, timer, quits, faults, acked, reached,
                   missed, spoiled>>

(* Variant: the flag is looked at after it has been set. *)
SetLate(p) ==
    /\ mode = "options" /\ pc[p] # "down" /\ edits < MaxEdits /\ ~quits[p]
    /\ task[p] = "load" => pc[p] = "idle"
    /\ edits' = edits + 1
    /\ values' = [values EXCEPT ![p] = @ \cup {edits + 1}]
    /\ changed' = [changed EXCEPT ![p] = TRUE]
    /\ called' = [called EXCEPT ![p] = IF changed[p] THEN @ + 1 ELSE @]
    /\ UNCHANGED <<mode, exists, disk, lock, pc, task, dom, current, dirty, timer, quits, faults, observers>>

(* COptionsBase::set, by any thread, once Load is done: the change is      *)
(* announced if there was none before.                                     *)
Set(p) ==
    /\ mode = "options" /\ pc[p] # "down" /\ edits < MaxEdits /\ ~quits[p]
    /\ task[p] = "load" => pc[p] = "idle"
    /\ edits' = edits + 1
    /\ values' = [values EXCEPT ![p] = @ \cup {edits + 1}]
    /\ changed' = [changed EXCEPT ![p] = TRUE]
    /\ called' = [called EXCEPT ![p] = IF changed[p] THEN @ ELSE @ + 1]
    /\ UNCHANGED <<mode, exists, disk, lock, pc, task, dom, current, dirty, timer, quits, faults, observers>>

(* Whether process_changed changes the document *)
Processed(p) == changed[p] /\ dom[p] # None

(* continue_notify_changed, in the thread of the interface: the changes    *)
(* get into the document, which is dirty, and the timer starts.            *)
ContinueNotifyChanged(p) ==
    /\ pc[p] = "idle" /\ called[p] > 0
    /\ called' = [called EXCEPT ![p] = @ - 1]
    /\ changed' = [changed EXCEPT ![p] = FALSE]
    /\ dom' = IF Processed(p) THEN [dom EXCEPT ![p] = values[p]] ELSE dom
    /\ dirty' = [dirty EXCEPT ![p] = @ \/ Processed(p)]
    /\ timer' = [timer EXCEPT ![p] = @ \/ Processed(p)]
    /\ UNCHANGED <<mode, exists, disk, lock, pc, task, current, values, quits, edits, faults, observers>>

(* COptions::OnTimer saves what is dirty.  In kiosk mode 2 nothing is ever *)
(* saved, by intent; it is left out.                                       *)
OnTimer(p) ==
    /\ pc[p] = "idle" /\ timer[p]
    /\ timer' = [timer EXCEPT ![p] = FALSE] /\ dirty' = [dirty EXCEPT ![p] = FALSE]
    /\ IF dirty[p] THEN pc' = [pc EXCEPT ![p] = "wait"] /\ task' = [task EXCEPT ![p] = "save"]
       ELSE UNCHANGED <<pc, task>>
    /\ UNCHANGED <<mode, exists, disk, lock, dom, current, values, changed, called, quits, edits, faults, observers>>

(* CFileZillaApp::OnExit: changes that nobody has processed yet are, and   *)
(* all is saved.                                                           *)
OnExit(p) ==
    /\ pc[p] = "idle"
    /\ IF dirty[p] \/ Processed(p)
       THEN /\ pc' = [pc EXCEPT ![p] = "wait"] /\ task' = [task EXCEPT ![p] = "save"]
            /\ dom' = IF Processed(p) THEN [dom EXCEPT ![p] = values[p]] ELSE dom
            /\ changed' = [changed EXCEPT ![p] = FALSE]
            /\ dirty' = [dirty EXCEPT ![p] = FALSE] /\ timer' = [timer EXCEPT ![p] = FALSE]
            /\ quits' = [quits EXCEPT ![p] = TRUE]
            /\ UNCHANGED <<current, called, missed>>
       ELSE Ends(p)
    /\ UNCHANGED <<mode, exists, disk, lock, values, edits, faults, acked, reached, told, spoiled>>

-------------------------------------------------------------------------------
(***************************************************************************)
(* Faults                                                                  *)
(***************************************************************************)

(* A process is killed; what it was writing may have no bytes yet.  The    *)
(* system takes back its lock.                                             *)
Crash(p) ==
    /\ pc[p] # "down" /\ Fault
    /\ file' \in IF pc[p] \in {"writing", "restoring"} THEN {Empty, Torn} ELSE {file}
    /\ backup' \in IF pc[p] = "copying" THEN {Empty, Torn} ELSE {backup}
    /\ lock' = IF lock = p THEN None ELSE lock
    /\ exists' = (exists /\ lock # p)
    /\ Ends(p) /\ values' = [values EXCEPT ![p] = {}]
    /\ UNCHANGED <<mode, after, edits, acked, reached, told, spoiled>>

(* Power fails. *)
PowerFailure ==
    /\ Fault
    /\ \E x \in after : file' = x[1] /\ backup' = x[2] /\ after' = {x}
    /\ pc' = [p \in Procs |-> "down"] /\ task' = [p \in Procs |-> "load"] /\ lock' = None /\ exists' = FALSE
    /\ dom' = [p \in Procs |-> None] /\ values' = [p \in Procs |-> {}] /\ called' = [p \in Procs |-> 0]
    /\ LET no == [p \in Procs |-> FALSE] IN
          current' = no /\ changed' = no /\ dirty' = no /\ timer' = no /\ quits' = no /\ missed' = no
    /\ UNCHANGED <<mode, edits, acked, reached, told, spoiled>>

-------------------------------------------------------------------------------
Init ==
    /\ mode \in {"options", "sites", "certs"}
    /\ file = Absent /\ backup = Absent /\ after = {<<Absent, Absent>>}
    /\ lock = None /\ exists = FALSE /\ pc = [p \in Procs |-> "down"] /\ task = [p \in Procs |-> "load"]
    /\ dom = [p \in Procs |-> None] /\ values = [p \in Procs |-> {}] /\ called = [p \in Procs |-> 0]
    /\ current = [p \in Procs |-> FALSE] /\ changed = current /\ dirty = current
    /\ timer = current /\ quits = current /\ told = current /\ missed = current
    /\ edits = 0 /\ faults = 0
    /\ acked = None /\ reached = {} /\ spoiled = FALSE

(* What a process does by itself once it has begun *)
Step(p) ==
    \/ LoadFile(p) \/ LoadBackup(p) \/ LoadNone(p) \/ Restore(p) \/ Restoring(p) \/ Restored(p)
    \/ Save(p) \/ Backup(p) \/ Copying(p) \/ Copied(p) \/ Write(p) \/ Writing(p) \/ Written(p)
    \/ RemoveFile(p) \/ PutBack(p) \/ Unlock(p)

Next ==
    \/ \E p \in Procs :
          \/ Step(p) \/ Lock(p)
          \/ Start(p) \/ LoadTrustedCerts(p) \/ AddServer(p) \/ Set(p) \/ ContinueNotifyChanged(p) \/ OnTimer(p) \/ OnExit(p)
          \/ RestoreFails(p) \/ RestoredUnsynced(p) \/ CopyFails(p) \/ CopiedUnsynced(p) \/ WriteFails(p)
          \/ Crash(p)
    \/ PowerFailure

Spec == Init /\ [][Next]_vars

-------------------------------------------------------------------------------
(***************************************************************************)
(* Properties                                                              *)
(***************************************************************************)

(* What Load would find *)
Found(f, b) == IF Good(f) THEN f ELSE b

(* Whenever a process is killed or power fails, in the middle of a save or *)
(* of the repair after another failure, the next Load finds a document     *)
(* that has every entry of the last save that succeeded.  To lose them it  *)
(* takes a copy that copy_file did not see fail, cut short or not synced,  *)
(* or a process that begins a backup of what another has left when it was  *)
(* killed: a torn file (it saves options without having loaded them, or    *)
(* has missed the change) or one never synced.                             *)
NeverLost ==
    /\ TypeOK
    /\ acked # None /\ ~spoiled =>
          \A x \in after \cup {<<file, backup>>} :
              Good(Found(x[1], x[2])) /\ acked \subseteq Found(x[1], x[2])

(* Of two processes that add to one file none undoes what the other has    *)
(* added, although each writes the file as a whole: whoever is about to    *)
(* save has everything that was saved.  The exception are certificates     *)
(* that were saved while the modification time stood still, which the      *)
(* process that saves next overwrites (README, Findings).                  *)
NoLostUpdate ==
    \A p \in Procs :
        lock = p /\ mode # "options" /\ acked # None /\ ~spoiled /\ ~missed[p]
            /\ pc[p] \in {"save", "backup", "copying", "copied", "write", "writing", "written"}
        => acked \subseteq dom[p]

(* An option that is set gets into the file, however the calls, the timer, *)
(* the exit and other processes come in between, unless the user has been  *)
(* told that loading or saving failed: at any time it has been written, or *)
(* is in the document about to be, or the timer runs, or a call is under   *)
(* way.  Nobody leaves it to another who has done already.                 *)
NoLostChange ==
    \A p \in Procs :
        mode = "options" /\ ~told[p] /\ (pc[p] = "idle" \/ task[p] = "save") =>
            /\ values[p] # dom[p] => changed[p]
            /\ changed[p] => called[p] > 0
            /\ dom[p] \subseteq reached \/ timer[p] \/ task[p] = "save"

=============================================================================
