--------------------------- MODULE FileWriterProofs ---------------------------
(***************************************************************************)
(* Proofs about FileWriter, for every number and size of buffers and every *)
(* amount of data: the blocks arrive in order and finalize() tells the     *)
(* truth, as WriteStream promises; close() leaves nothing behind that was  *)
(* not written; no write_ready_event outlives the writer.                  *)
(***************************************************************************)
EXTENDS FileWriter, TLAPS

(* The i-th slot of the ring from p on *)
At(p, i) == IF p + i < BufferCount THEN p + i ELSE p + i - BufferCount

(* Going round the ring once is taking one ring off. *)
LEMMA Wraps ==
    ASSUME NEW m \in Nat \ {0}, NEW p \in 0..(m - 1), NEW i \in 0..m
    PROVE  (p + i) % m = IF p + i < m THEN p + i ELSE p + i - m
OBVIOUS

(* The slots of the ring, and the slots after the next one *)
LEMMA AtIs ==
    ASSUME NEW p \in Slots, NEW i \in 0..BufferCount
    PROVE  /\ (p + i) % BufferCount = At(p, i) /\ At(p, i) \in Slots
           /\ At(p, 0) = p
           /\ (p + 1) % BufferCount \in Slots
           /\ \A k \in 0..(BufferCount - 1) : At((p + 1) % BufferCount, k) = At(p, k + 1)
           /\ \A k \in 0..(i - 1) : i < BufferCount => At(p, k) # At(p, i)
<1>1. BufferCount \in Nat \ {0} /\ p \in 0..(BufferCount - 1)
  BY WriterAssumption DEF Slots
<1>2. \A k \in 0..BufferCount : (p + k) % BufferCount = IF p + k < BufferCount THEN p + k ELSE p + k - BufferCount
  BY <1>1, Wraps
<1>3. (p + 1) % BufferCount = IF p + 1 < BufferCount THEN p + 1 ELSE 0
  <2>1. 1 \in 0..BufferCount
    BY <1>1
  <2>2. (p + 1) % BufferCount = IF p + 1 < BufferCount THEN p + 1 ELSE p + 1 - BufferCount
    BY <1>2, <2>1, Zenon
  <2> QED BY <1>1, <2>2
<1>4. (p + i) % BufferCount = At(p, i)
  BY <1>2 DEF At
<1> QED BY <1>1, <1>3, <1>4 DEF At, Slots

(* The n blocks after block p *)
Blocks(p, n) == [i \in 1..n |-> p + i]

(* Blocks are a sequence, and empty only if there are none. *)
LEMMA BlocksIs ==
    ASSUME NEW p \in Nat, NEW n \in Nat
    PROVE  /\ Blocks(p, n) \in Seq(Nat) /\ Len(Blocks(p, n)) = n
           /\ Blocks(p, n) = << >> <=> n = 0
           /\ p + n <= MaxBlocks => Blocks(p, n) \in Seq(1..MaxBlocks)
           /\ Blocks(0, n) = [i \in 1..n |-> i] /\ Len(Blocks(0, n)) = n
           /\ n <= MaxBlocks => Blocks(0, n) \in Seq(1..MaxBlocks)
<1>1. \A i \in 1..n : p + i \in Nat
  OBVIOUS
<1>2. Blocks(p, n) \in Seq(Nat) /\ Len(Blocks(p, n)) = n
  BY <1>1 DEF Blocks
<1>3. Blocks(p, n) = << >> <=> n = 0
  BY <1>2 DEF Blocks
<1>4. ASSUME p + n <= MaxBlocks PROVE Blocks(p, n) \in Seq(1..MaxBlocks)
  <2>1. \A i \in 1..n : p + i \in 1..MaxBlocks
    BY <1>4, WriterAssumption
  <2> QED BY <2>1 DEF Blocks
<1>5. Blocks(0, n) = [i \in 1..n |-> i] /\ Len(Blocks(0, n)) = n
      /\ (n <= MaxBlocks => Blocks(0, n) \in Seq(1..MaxBlocks))
  <2>1. Blocks(0, n) = [i \in 1..n |-> i]
    BY DEF Blocks
  <2>2. ASSUME n <= MaxBlocks PROVE Blocks(0, n) \in Seq(1..MaxBlocks)
    <3>1. \A i \in 1..n : i \in 1..MaxBlocks
      BY <2>2, WriterAssumption
    <3>2. [i \in 1..n |-> i] \in Seq(1..MaxBlocks)
      BY <3>1
    <3> QED BY <2>1, <3>2
  <2>3. Len(Blocks(0, n)) = n
    <3>1. Len([i \in 1..n |-> i]) = n
      OBVIOUS
    <3> QED BY <2>1, <3>1
  <2> QED BY <2>1, <2>2, <2>3
<1> QED BY <1>2, <1>3, <1>4, <1>5

(* The first blocks of a buffer, the rest of it, and the blocks after those *)
(* of the file                                                              *)
LEMMA BlocksParts ==
    ASSUME NEW p \in Nat, NEW m \in Nat, NEW n \in 0..m
    PROVE  /\ SubSeq(Blocks(p, m), 1, n) = Blocks(p, n)
           /\ SubSeq(Blocks(p, m), n + 1, m) = Blocks(p + n, m - n)
           /\ Blocks(0, p) \o Blocks(p, n) = Blocks(0, p + n)
<1>1. /\ Blocks(p, m) \in Seq(Nat) /\ Len(Blocks(p, m)) = m
      /\ \A i \in 1..m : Blocks(p, m)[i] = p + i
  BY BlocksIs DEF Blocks
<1>2. SubSeq(Blocks(p, m), 1, n) = Blocks(p, n)
  BY <1>1 DEF Blocks
<1>3. SubSeq(Blocks(p, m), n + 1, m) = Blocks(p + n, m - n)
  BY <1>1 DEF Blocks
<1>4. Blocks(0, p) \o Blocks(p, n) = Blocks(0, p + n)
  BY DEF Blocks
<1> QED BY <1>2, <1>3, <1>4

-------------------------------------------------------------------------------
(***************************************************************************)
(* The inductive invariant                                                 *)
(***************************************************************************)

(* The file is a beginning of what was handed over. *)
Stored == file = Blocks(0, Len(file)) /\ Len(file) <= accepted

(* The worker writes only from a ring that is not empty and not after an   *)
(* error; the user has a buffer only if one is free.                       *)
Working ==
    /\ thread = "io" => ready_count > 0 /\ ~error
    /\ processing => ready_count < BufferCount

(* The ring holds what is not in the file yet: buffer i the blocks from    *)
(* pos[i] to pos[i + 1].                                                   *)
Follows(pos) ==
    /\ pos[0] = Len(file)
    /\ pos[ready_count] = accepted
    /\ \A i \in 0..ready_count : pos[i] <= accepted
    /\ \A i \in 0..(ready_count - 1) :
          pos[i] < pos[i + 1] /\ buffers[At(ready_pos, i)] = Blocks(pos[i], pos[i + 1] - pos[i])

(* Nothing more is said after an error, or once the worker was stopped.    *)
Queued == ~error /\ ~(quit /\ thread = "done") => \E pos \in [0..BufferCount -> Nat] : Follows(pos)

(* What the user knows of the stream *)
Known ==
    /\ status = "error" => error
    /\ status = "closed" <=> user = "closed"
    /\ user \in {"waiting", "finalizing"} => status = "open"
    /\ quit <=> user \in {"close join", "closed"}
    /\ user = "closed" => thread = "done"

(* Events are for the handler; none is left when the writer is closed. *)
EventsForHandler ==
    /\ \A h \in Handlers : events[h] # 0 => h = handler
    /\ user = "closed" => \A h \in Handlers : events[h] = 0

(* Only preallocate() makes the file larger, only close() deletes it. *)
Target ==
    /\ disk = "file" \/ user = "closed"
    /\ excess = "ahead" => preallocated
    /\ preallocated => excess # "behind"
    /\ user = "closed" /\ excess # "behind" =>
          \/ disk = "nothing" /\ file = << >> /\ ~finalized
          \/ disk = "file" /\ excess = "none" /\ (file # << >> \/ finalized \/ ~from_beginning)

IInv == TypeOK /\ Stored /\ Working /\ Queued /\ Known /\ EventsForHandler /\ Target

-------------------------------------------------------------------------------
(***************************************************************************)
(* Types, in parts                                                         *)
(***************************************************************************)
(* What the writer's threads tell each other *)
Flags ==
    /\ processing \in BOOLEAN /\ quit \in BOOLEAN /\ error \in BOOLEAN /\ finalized \in BOOLEAN
    /\ handler_waiting \in BOOLEAN /\ signalled \in BOOLEAN /\ fsync \in BOOLEAN
    /\ from_beginning \in BOOLEAN /\ preallocated \in BOOLEAN

(* The ring of buffers *)
RingOK ==
    /\ buffers \in [Slots -> Seq(1..MaxBlocks)] /\ ready_pos \in Slots
    /\ ready_count \in 0..BufferCount /\ given \in Slots

(* The threads, the user and what is on the disk *)
Rest ==
    /\ excess \in {"none", "ahead", "behind"} /\ disk \in {"file", "nothing"}
    /\ handler \in Handlers \cup {NoHandler}
    /\ thread \in {"loop", "cond", "io", "done"}
    /\ events \in [Handlers -> Nat]
    /\ user \in {"idle", "waiting", "finalizing", "close join", "closed"}
    /\ status \in {"open", "finalized", "error", "closed"}

(* What was written and what was handed over *)
Data == file \in Seq(1..MaxBlocks) /\ accepted \in 0..MaxBlocks

(* TypeOK is these four parts, before and after a step. *)
LEMMA Parts ==
    /\ TypeOK <=> Flags /\ RingOK /\ Data /\ Rest
    /\ TypeOK' <=> Flags' /\ RingOK' /\ Data' /\ Rest'
BY DEF TypeOK, Flags, RingOK, Data, Rest

(* A step that leaves the ring, the file and what was handed over alone    *)
(* keeps what is said of them.                                             *)
LEMMA Undisturbed ==
    ASSUME IInv, UNCHANGED <<ring, given, file, accepted>>,
           ~error' /\ ~(quit' /\ thread' = "done") => ~error /\ ~(quit /\ thread = "done")
    PROVE  RingOK' /\ Data' /\ Stored' /\ Queued'
<1>1. RingOK' /\ Data'
  BY Parts DEF IInv, RingOK, Data, ring
<1>2. Stored'
  BY DEF IInv, Stored
<1>3. (\E pos \in [0..BufferCount -> Nat] : Follows(pos)) =>
          \E pos \in [0..BufferCount -> Nat] : Follows(pos)'
  BY DEF Follows, ring
<1>4. Queued'
  BY <1>3 DEF IInv, Queued
<1> QED BY <1>1, <1>2, <1>4

(* Events are sent to the handler. *)
LEMMA NotifyOK ==
    ASSUME IInv, NotifyHandler
    PROVE  /\ handler_waiting' \in BOOLEAN
           /\ events' \in [Handlers -> Nat]
           /\ \A h \in Handlers : events'[h] # 0 => h = handler
<1>1. events \in [Handlers -> Nat] /\ handler \in Handlers \cup {NoHandler}
      /\ \A h \in Handlers : events[h] # 0 => h = handler
  BY DEF IInv, TypeOK, EventsForHandler
<1>2. \/ events' = [events EXCEPT ![handler] = @ + 1] /\ handler # NoHandler
      \/ events' = events
  BY DEF NotifyHandler
<1>3. handler_waiting' \in BOOLEAN
  BY DEF NotifyHandler
<1>4. CASE events' = events
  BY <1>1, <1>3, <1>4
<1>5. CASE events' = [events EXCEPT ![handler] = @ + 1] /\ handler # NoHandler
  <2>1. handler \in Handlers /\ events[handler] + 1 \in Nat
    BY <1>1, <1>5
  <2>2. events' \in [Handlers -> Nat]
    BY <1>1, <1>5, <2>1
  <2>3. \A h \in Handlers : h # handler => events'[h] = events[h]
    BY <1>1, <1>5
  <2> QED BY <1>1, <1>3, <2>2, <2>3
<1> QED BY <1>2, <1>4, <1>5

-------------------------------------------------------------------------------
(***************************************************************************)
(* The worker                                                              *)
(***************************************************************************)

(* The worker quits, waits, is woken or goes to write. *)
LEMMA WorkerMovesOK ==
    ASSUME IInv, WorkerQuit \/ WorkerEmpty \/ WorkerWake \/ WorkerNext
    PROVE  IInv' /\ [Stream!Next]_(Stream!vars)
<1>1. /\ UNCHANGED <<ring, processing, quit, error, finalized, handler, options,
                     target, user, given, accepted, status>>
      /\ thread \in {"loop", "cond"} /\ thread' \in {"done", "cond", "loop", "io"}
      /\ thread' = "io" => ready_count > 0 /\ ~error
      /\ signalled' \in {signalled, FALSE}
      /\ NotifyHandler \/ UNCHANGED <<handler_waiting, events>>
  BY DEF WorkerQuit, WorkerEmpty, WorkerWake, WorkerNext
<1>2. /\ handler_waiting' \in BOOLEAN /\ events' \in [Handlers -> Nat]
      /\ \A h \in Handlers : events'[h] # 0 => h = handler
  <2>1. CASE NotifyHandler
    BY <2>1, NotifyOK
  <2>2. CASE UNCHANGED <<handler_waiting, events>>
    BY <2>2, Parts DEF IInv, Flags, Rest, EventsForHandler
  <2> QED BY <1>1, <2>1, <2>2
<1>3. user # "closed"
  BY <1>1 DEF IInv, Known
<1>4. RingOK' /\ Data' /\ Stored' /\ Queued'
  BY <1>1, Undisturbed DEF target
<1>5. Flags'
  BY <1>1, <1>2, Parts DEF IInv, Flags, options, target
<1>6. Rest'
  BY <1>1, <1>2, Parts DEF IInv, Rest, target
<1>7. Working' /\ Known'
  BY <1>1, <1>3 DEF IInv, Working, Known, ring
<1>8. EventsForHandler' /\ Target'
  BY <1>1, <1>2, <1>3 DEF IInv, EventsForHandler, Target, target
<1>9. UNCHANGED Stream!vars
  BY <1>1 DEF Stream!vars, target
<1> QED BY <1>4, <1>5, <1>6, <1>7, <1>8, <1>9, Parts DEF IInv

(* What the worker finds in its hands: the first buffer holds the blocks   *)
(* that come next in the file.                                             *)
LEMMA WriteIs ==
    ASSUME IInv, thread = "io", NEW pos \in [0..BufferCount -> Nat], Follows(pos),
           NEW n \in 0..Len(buffers[ready_pos]),
           file' = file \o SubSeq(buffers[ready_pos], 1, n), UNCHANGED <<accepted, status>>
    PROVE  /\ pos[0] \in Nat /\ pos[1] \in Nat /\ pos[0] + n <= pos[1] /\ n \in Nat
           /\ SubSeq(buffers[ready_pos], n + 1, Len(buffers[ready_pos])) = Blocks(pos[0] + n, pos[1] - (pos[0] + n))
           /\ Len(file') = pos[0] + n /\ Data' /\ Stored' /\ pos[1] <= accepted
           /\ [Stream!Next]_(Stream!vars)
<1>1. RingOK /\ Data /\ Rest /\ BufferCount \in Nat \ {0} /\ ready_count > 0 /\ MaxBlocks \in Nat
  BY Parts, WriterAssumption DEF IInv, Working
<1>2. ready_count \in Nat /\ ready_pos \in Slots /\ At(ready_pos, 0) = ready_pos
      /\ accepted \in Nat /\ accepted <= MaxBlocks
  BY <1>1, AtIs DEF RingOK, Data
<1>3. /\ 0 \in 0..BufferCount /\ 1 \in 0..BufferCount /\ 1 \in 0..ready_count
      /\ 0 \in 0..(ready_count - 1) /\ 0 + 1 = 1
  BY <1>1, <1>2
<1>4. /\ pos[0] \in Nat /\ pos[1] \in Nat /\ pos[0] = Len(file) /\ pos[1] <= accepted
  BY <1>3 DEF Follows
<1>5. pos[0] < pos[1] /\ buffers[ready_pos] = Blocks(pos[0], pos[1] - pos[0])
  <2>1. pos[0] < pos[0 + 1] /\ buffers[At(ready_pos, 0)] = Blocks(pos[0], pos[0 + 1] - pos[0])
    BY <1>3 DEF Follows
  <2> QED BY <1>2, <1>3, <2>1
<1>6. PICK m \in Nat : m = pos[1] - pos[0]
  BY <1>4, <1>5
<1>7. buffers[ready_pos] = Blocks(pos[0], m) /\ Len(buffers[ready_pos]) = m
  <2>1. buffers[ready_pos] = Blocks(pos[0], m)
    BY <1>5, <1>6
  <2> QED BY <1>4, <2>1, BlocksIs
<1>8. n \in 0..m /\ n \in Nat /\ m - n = pos[1] - (pos[0] + n) /\ pos[0] + n <= pos[1]
  BY <1>4, <1>6, <1>7
<1>9. /\ SubSeq(Blocks(pos[0], m), 1, n) = Blocks(pos[0], n)
      /\ SubSeq(Blocks(pos[0], m), n + 1, m) = Blocks(pos[0] + n, m - n)
      /\ Blocks(0, pos[0]) \o Blocks(pos[0], n) = Blocks(0, pos[0] + n)
  BY <1>4, <1>8, BlocksParts
<1>10. PICK l \in Nat : l = pos[0] + n
  BY <1>4, <1>8
<1>11. file' = Blocks(0, l)
  <2>1. file = Blocks(0, pos[0])
    BY <1>4 DEF IInv, Stored
  <2> QED BY <1>7, <1>9, <1>10, <2>1
<1>12. l <= accepted /\ l <= MaxBlocks
  <2>1. l <= pos[1]
    BY <1>8, <1>10
  <2> QED BY <1>1, <1>2, <1>4, <2>1
<1>13. /\ Len(file') = l /\ file' \in Seq(1..MaxBlocks) /\ file' = [i \in 1..l |-> i]
  BY <1>11, <1>12, BlocksIs
<1>14. Stored' /\ Data'
  BY <1>1, <1>11, <1>12, <1>13 DEF Stored, Data
<1>15. [Stream!Next]_(Stream!vars)
  <2>1. status # "closed"
    BY DEF IInv, Known
  <2>2. CASE n = 0
    <3>1. l = pos[0]
      BY <1>4, <1>10, <2>2
    <3>2. file' = file
      BY <1>4, <1>11, <3>1 DEF IInv, Stored
    <3> QED BY <3>2 DEF Stream!vars
  <2>3. CASE n # 0
    <3>1. Len(file) < Len(file') /\ Len(file') <= accepted /\ file' = [i \in 1..Len(file') |-> i]
      BY <1>4, <1>8, <1>10, <1>12, <1>13, <2>3
    <3>2. Stream!Store
      BY <2>1, <3>1 DEF Stream!Store
    <3> QED BY <3>2 DEF Stream!Next
  <2> QED BY <2>2, <2>3
<1>16. SubSeq(buffers[ready_pos], n + 1, Len(buffers[ready_pos])) = Blocks(pos[0] + n, pos[1] - (pos[0] + n))
  BY <1>7, <1>8, <1>9
<1> QED BY <1>4, <1>8, <1>10, <1>13, <1>14, <1>15, <1>16

(* A buffer is written, in part or in whole, or cannot be written. *)
LEMMA WorkerWriteOK == ASSUME IInv, WorkerWrite PROVE IInv' /\ [Stream!Next]_(Stream!vars)
<1> DEFINE b == buffers[ready_pos]
<1>1. /\ thread = "io"
      /\ UNCHANGED <<processing, quit, finalized, handler, options, excess, disk, preallocated,
                     signalled, user, given, accepted, status>>
  BY DEF WorkerWrite
<1>2. /\ Flags /\ RingOK /\ Data /\ Rest /\ BufferCount \in Nat \ {0}
      /\ ready_count > 0 /\ ~error /\ user # "closed"
  BY <1>1, Parts, WriterAssumption DEF IInv, Working, Known
<1>3. PICK pos \in [0..BufferCount -> Nat] : Follows(pos)
  BY <1>1, <1>2 DEF IInv, Queued
<1>4. b \in Seq(1..MaxBlocks) /\ Len(b) \in Nat /\ ready_pos \in Slots
  BY <1>2 DEF RingOK
<1>5. CASE /\ quit
           /\ \E n \in 0..Len(b) : file' = file \o SubSeq(b, 1, n)
           /\ thread' = "done"
           /\ UNCHANGED <<ring, error, handler_waiting, events>>
  <2>1. PICK n \in 0..Len(b) : file' = file \o SubSeq(b, 1, n)
    BY <1>5
  <2>2. Data' /\ Stored' /\ [Stream!Next]_(Stream!vars)
    BY <1>1, <1>3, <2>1, WriteIs
  <2>3. Flags'
    BY <1>1, <1>2, <1>5 DEF Flags, options
  <2>4. RingOK' /\ Rest'
    BY <1>1, <1>2, <1>5 DEF RingOK, Rest, ring
  <2>5. Working' /\ Queued' /\ Known'
    BY <1>1, <1>5 DEF IInv, Working, Queued, Known, ring
  <2>6. EventsForHandler' /\ Target'
    BY <1>1, <1>2, <1>5 DEF IInv, EventsForHandler, Target
  <2> QED BY <2>2, <2>3, <2>4, <2>5, <2>6, Parts DEF IInv
<1>6. CASE /\ ~quit /\ UNCHANGED error
           /\ \E n \in 1..Len(b) :
                 /\ file' = file \o SubSeq(b, 1, n)
                 /\ Consumed(SubSeq(b, n + 1, Len(b)))
  <2>1. PICK n \in 1..Len(b) :
           /\ file' = file \o SubSeq(b, 1, n)
           /\ Consumed(SubSeq(b, n + 1, Len(b)))
    BY <1>6
  <2>2. n \in 0..Len(b) /\ n \in Nat
    BY <1>4
  <2> DEFINE left == SubSeq(b, n + 1, Len(b))
  <2>3. /\ pos[0] \in Nat /\ pos[1] \in Nat /\ pos[0] + n <= pos[1]
        /\ left = Blocks(pos[0] + n, pos[1] - (pos[0] + n))
        /\ Len(file') = pos[0] + n /\ Data' /\ Stored' /\ pos[1] <= accepted
        /\ [Stream!Next]_(Stream!vars)
    BY <1>1, <1>3, <2>1, <2>2, WriteIs
  <2>4. PICK l \in Nat : l = pos[0] + n
    BY <2>2, <2>3
  <2>5. PICK m \in Nat : m = pos[1] - l
    BY <2>3, <2>4
  <2>6. left = Blocks(l, m)
    BY <2>3, <2>4, <2>5
  <2>7. left \in Seq(1..MaxBlocks) /\ (left = << >> <=> m = 0)
    <3>1. l + m <= MaxBlocks
      <4>1. accepted \in Nat /\ accepted <= MaxBlocks /\ MaxBlocks \in Nat
        BY <1>2, WriterAssumption DEF Data
      <4>2. pos[1] \in Nat /\ pos[1] <= accepted
        BY <2>3
      <4>3. l + m = pos[1]
        BY <2>5, <4>2
      <4> QED BY <4>1, <4>2, <4>3
    <3> QED BY <2>6, <3>1, BlocksIs
  <2>8. ready_count \in Nat /\ ready_count <= BufferCount
    BY <1>2 DEF RingOK
  <2>9. /\ \A k \in 1..(ready_count - 1) : At(ready_pos, k) # ready_pos /\ At(ready_pos, k) \in Slots
        /\ At(ready_pos, 0) = ready_pos
    <3>1. ASSUME NEW k \in 1..(ready_count - 1)
          PROVE  At(ready_pos, k) # ready_pos /\ At(ready_pos, k) \in Slots
      <4>1. k \in 0..BufferCount /\ k < BufferCount /\ 0 \in 0..(k - 1)
        BY <1>2, <2>8
      <4>2. At(ready_pos, 0) # At(ready_pos, k) /\ At(ready_pos, 0) = ready_pos
        BY <1>4, <4>1, AtIs
      <4> QED BY <1>4, <4>1, <4>2, AtIs
    <3>2. At(ready_pos, 0) = ready_pos
      <4>1. 0 \in 0..BufferCount
        BY <1>2
      <4> QED BY <1>4, <4>1, AtIs
    <3> QED BY <3>1, <3>2
  <2>10. /\ pos[ready_count] = accepted
         /\ \A k \in 0..ready_count : pos[k] <= accepted
         /\ \A k \in 0..(ready_count - 1) :
               pos[k] < pos[k + 1] /\ buffers[At(ready_pos, k)] = Blocks(pos[k], pos[k + 1] - pos[k])
    BY <1>3 DEF Follows
  <2>11. buffers' = [buffers EXCEPT ![ready_pos] = left]
    BY <2>1 DEF Consumed, Retired
  <2> HIDE DEF left
  <2>12. buffers' \in [Slots -> Seq(1..MaxBlocks)] /\ buffers'[ready_pos] = left
         /\ \A k \in 1..(ready_count - 1) : buffers'[At(ready_pos, k)] = buffers[At(ready_pos, k)]
    BY <1>2, <1>4, <2>7, <2>9, <2>11 DEF RingOK
  <2>13. CASE left # << >>
    <3>1. UNCHANGED <<ready_pos, ready_count, handler_waiting, events, thread>>
      BY <2>1, <2>13 DEF Consumed, left
    <3>2. Flags'
      BY <1>1, <1>2, <1>6, <3>1 DEF Flags, options
    <3>3. RingOK' /\ Rest'
      BY <1>1, <1>2, <2>12, <3>1 DEF RingOK, Rest
    <3>4. Working' /\ Known'
      BY <1>1, <1>6, <3>1 DEF IInv, Working, Known
    <3>5. EventsForHandler' /\ Target'
      BY <1>1, <1>2, <3>1 DEF IInv, EventsForHandler, Target
    <3>6. PICK q \in [0..BufferCount -> Nat] : q = [pos EXCEPT ![0] = l]
      OBVIOUS
    <3>7. q[0] = l /\ \A k \in 1..BufferCount : q[k] = pos[k]
      BY <1>2, <3>6
    <3>8. Follows(q)'
      <4>1. q[0] = Len(file') /\ q[ready_count] = accepted
        BY <1>2, <2>3, <2>4, <2>8, <2>10, <3>7
      <4>2. ASSUME NEW k \in 0..ready_count PROVE q[k] <= accepted
        <5>1. CASE k = 0
          <6>1. accepted \in Nat
            BY <1>2, WriterAssumption DEF Data
          <6> QED BY <2>3, <2>4, <3>7, <5>1, <6>1
        <5>2. CASE k # 0
          <6>1. k \in 1..BufferCount
            BY <1>2, <2>8, <5>2
          <6> QED BY <2>10, <3>7, <6>1
        <5> QED BY <5>1, <5>2
      <4>3. ASSUME NEW k \in 0..(ready_count - 1)
            PROVE  q[k] < q[k + 1] /\ buffers'[At(ready_pos, k)] = Blocks(q[k], q[k + 1] - q[k])
        <5>1. CASE k = 0
          <6>1. q[0] = l /\ q[1] = pos[1] /\ 0 + 1 = 1
            BY <1>2, <3>7
          <6>2. m # 0 /\ l < pos[1]
            BY <2>3, <2>4, <2>5, <2>7, <2>13
          <6>3. buffers'[At(ready_pos, 0)] = Blocks(l, pos[1] - l)
            BY <2>5, <2>6, <2>9, <2>12
          <6> QED BY <5>1, <6>1, <6>2, <6>3
        <5>2. CASE k # 0
          <6>1. k \in 1..BufferCount /\ k + 1 \in 1..BufferCount /\ k \in 1..(ready_count - 1)
            BY <1>2, <2>8, <5>2
          <6>2. q[k] = pos[k] /\ q[k + 1] = pos[k + 1]
            BY <3>7, <6>1
          <6> QED BY <2>10, <2>12, <6>1, <6>2
        <5> QED BY <5>1, <5>2
      <4> QED BY <1>1, <3>1, <4>1, <4>2, <4>3 DEF Follows
    <3>9. Queued'
      BY <3>8 DEF Queued
    <3> QED BY <2>3, <3>2, <3>3, <3>4, <3>5, <3>9, Parts DEF IInv
  <2>14. CASE left = << >>
    <3>1. /\ ready_pos' = (ready_pos + 1) % BufferCount /\ ready_count' = ready_count - 1
          /\ NotifyHandler /\ thread' = "loop"
      BY <2>1, <2>14 DEF Consumed, Retired, left
    <3>2. PICK c \in 0..(BufferCount - 1) : ready_count' = c /\ ready_count = c + 1
      <4>1. ready_count - 1 \in 0..(BufferCount - 1) /\ ready_count = (ready_count - 1) + 1
        BY <1>2, <2>8
      <4> QED BY <3>1, <4>1
    <3>3. /\ handler_waiting' \in BOOLEAN /\ events' \in [Handlers -> Nat]
          /\ \A h \in Handlers : events'[h] # 0 => h = handler
      BY <3>1, NotifyOK
    <3>4. ready_pos' \in Slots /\ \A k \in 0..(BufferCount - 1) : At(ready_pos', k) = At(ready_pos, k + 1)
      <4>1. 0 \in 0..BufferCount
        BY <1>2
      <4> QED BY <1>4, <3>1, <4>1, AtIs
    <3>5. Flags'
      BY <1>1, <1>2, <1>6, <3>3 DEF Flags, options
    <3>6. RingOK' /\ Rest'
      <4>1. c \in 0..BufferCount
        BY <1>2
      <4> QED BY <1>1, <1>2, <2>12, <3>1, <3>2, <3>3, <3>4, <4>1 DEF RingOK, Rest
    <3>7. Working' /\ Known'
      <4>1. ready_count' < BufferCount
        BY <1>2, <3>2
      <4> QED BY <1>1, <1>2, <1>6, <3>1, <4>1 DEF IInv, Working, Known
    <3>8. EventsForHandler' /\ Target'
      BY <1>1, <1>2, <3>3 DEF IInv, EventsForHandler, Target
    <3>9. PICK q \in [0..BufferCount -> Nat] :
             q = [k \in 0..BufferCount |-> IF k < BufferCount THEN pos[k + 1] ELSE pos[k]]
      <4>1. \A k \in 0..BufferCount : (IF k < BufferCount THEN pos[k + 1] ELSE pos[k]) \in Nat
        BY <1>2
      <4> QED BY <4>1
    <3>10. \A k \in 0..(BufferCount - 1) : q[k] = pos[k + 1]
      BY <1>2, <3>9
    <3>11. Follows(q)'
      <4>1. q[0] = Len(file')
        <5>1. 0 \in 0..(BufferCount - 1) /\ 0 + 1 = 1
          BY <1>2
        <5>2. q[0] = pos[1]
          BY <3>10, <5>1
        <5>3. m = 0
          BY <2>7, <2>14
        <5> QED BY <2>3, <2>4, <2>5, <5>2, <5>3
      <4>2. \A k \in 0..c : k \in 0..(BufferCount - 1) /\ k + 1 \in 0..ready_count
        BY <1>2, <3>2
      <4>3. q[c] = accepted
        BY <2>10, <3>2, <3>10
      <4>4. \A k \in 0..c : q[k] <= accepted
        BY <2>10, <3>10, <4>2
      <4>5. ASSUME NEW k \in 0..(c - 1)
            PROVE  q[k] < q[k + 1] /\ buffers'[At(ready_pos', k)] = Blocks(q[k], q[k + 1] - q[k])
        <5>1. /\ k \in 0..(BufferCount - 1) /\ k + 1 \in 0..(BufferCount - 1)
              /\ k + 1 \in 0..(ready_count - 1) /\ k + 1 \in 1..(ready_count - 1)
          BY <1>2, <3>2
        <5>2. q[k] = pos[k + 1] /\ q[k + 1] = pos[(k + 1) + 1] /\ At(ready_pos', k) = At(ready_pos, k + 1)
          BY <3>4, <3>10, <5>1
        <5>3. pos[k + 1] < pos[(k + 1) + 1]
              /\ buffers[At(ready_pos, k + 1)] = Blocks(pos[k + 1], pos[(k + 1) + 1] - pos[k + 1])
          BY <2>10, <5>1
        <5>4. buffers'[At(ready_pos, k + 1)] = buffers[At(ready_pos, k + 1)]
          BY <2>12, <5>1
        <5> QED BY <5>2, <5>3, <5>4
      <4> QED BY <1>1, <3>2, <4>1, <4>3, <4>4, <4>5 DEF Follows
    <3>12. Queued'
      BY <3>11 DEF Queued
    <3> QED BY <2>3, <3>5, <3>6, <3>7, <3>8, <3>12, Parts DEF IInv
  <2> QED BY <2>13, <2>14
<1>7. CASE ~quit /\ error' = TRUE /\ Retired(b) /\ UNCHANGED file
  <2>1. /\ ready_pos' = (ready_pos + 1) % BufferCount /\ ready_count' = ready_count - 1
        /\ buffers' = [buffers EXCEPT ![ready_pos] = b]
        /\ NotifyHandler /\ thread' = "loop"
    BY <1>7 DEF Retired
  <2>2. buffers' \in [Slots -> Seq(1..MaxBlocks)]
    BY <1>2, <1>4, <2>1 DEF RingOK
  <2>3. /\ handler_waiting' \in BOOLEAN /\ events' \in [Handlers -> Nat]
        /\ \A h \in Handlers : events'[h] # 0 => h = handler
    BY <2>1, NotifyOK
  <2>4. ready_pos' \in Slots /\ ready_count' \in 0..BufferCount /\ ready_count' < BufferCount
    <3>1. 0 \in 0..BufferCount
      BY <1>2
    <3>2. ready_pos' \in Slots
      BY <1>4, <2>1, <3>1, AtIs
    <3>3. ready_count - 1 \in 0..BufferCount /\ ready_count - 1 < BufferCount
      BY <1>2 DEF RingOK
    <3> QED BY <2>1, <3>2, <3>3
  <2>5. Flags'
    BY <1>1, <1>2, <1>7, <2>3 DEF Flags, options
  <2>6. RingOK' /\ Rest' /\ Data'
    BY <1>1, <1>2, <1>7, <2>1, <2>2, <2>3, <2>4 DEF RingOK, Rest, Data
  <2>7. Working' /\ Queued' /\ Known' /\ Stored'
    BY <1>1, <1>2, <1>7, <2>1, <2>4 DEF IInv, Working, Queued, Known, Stored
  <2>8. EventsForHandler' /\ Target'
    BY <1>1, <1>2, <1>7, <2>3 DEF IInv, EventsForHandler, Target
  <2>9. UNCHANGED Stream!vars
    BY <1>1, <1>7 DEF Stream!vars
  <2> QED BY <2>5, <2>6, <2>7, <2>8, <2>9, Parts DEF IInv
<1> QED BY <1>5, <1>6, <1>7 DEF WorkerWrite

-------------------------------------------------------------------------------
(***************************************************************************)
(* The user of the writer                                                  *)
(***************************************************************************)

(* A buffer enters the ring behind the others, with the blocks that come   *)
(* next.                                                                   *)
LEMMA EnqueueOK ==
    ASSUME IInv, ~error, ~quit, NEW n \in Fillings, n > 0, Enqueue(n), UNCHANGED file
    PROVE  /\ buffers' \in [Slots -> Seq(1..MaxBlocks)] /\ ready_pos' = ready_pos
           /\ ready_count' \in 0..BufferCount /\ ready_count' > 0 /\ signalled' \in BOOLEAN
           /\ Data' /\ Stored' /\ accepted' > accepted
           /\ \E pos \in [0..BufferCount -> Nat] : Follows(pos)'
<1>1. RingOK /\ Data /\ BufferCount \in Nat \ {0} /\ MaxBlocks \in Nat /\ BufferSize \in Nat
  BY Parts, WriterAssumption DEF IInv
<1>2. processing
  <2>1. ~processing => n = 0
    BY DEF Fillings
  <2> QED BY <2>1
<1>3. ready_count \in Nat /\ ready_count < BufferCount /\ ready_pos \in Slots /\ accepted \in Nat
      /\ accepted <= MaxBlocks
  BY <1>1, <1>2 DEF IInv, Working, RingOK, Data
<1>4. n \in Nat /\ accepted + n <= MaxBlocks
  BY <1>1, <1>2, <1>3 DEF Fillings, Min
<1>5. PICK pos \in [0..BufferCount -> Nat] : Follows(pos)
  BY DEF IInv, Queued
<1>6. NextSlot = At(ready_pos, ready_count) /\ At(ready_pos, ready_count) \in Slots
  <2>1. ready_count \in 0..BufferCount
    BY <1>1 DEF RingOK
  <2> QED BY <1>3, <2>1, AtIs DEF NextSlot
<1> DEFINE t == At(ready_pos, ready_count)
<1>7. /\ buffers' = [buffers EXCEPT ![t] = Blocks(accepted, n)]
      /\ accepted' = accepted + n /\ ready_count' = ready_count + 1 /\ ready_pos' = ready_pos
      /\ signalled' = (signalled \/ ready_count = 0)
  BY <1>6 DEF Enqueue, Blocks, SignalFilled
<1>8. Blocks(accepted, n) \in Seq(1..MaxBlocks)
  BY <1>3, <1>4, BlocksIs
<1> HIDE DEF t
<1>9. t \in Slots /\ \A k \in 0..(ready_count - 1) : At(ready_pos, k) # t /\ At(ready_pos, k) \in Slots
  <2>1. t \in Slots
    BY <1>6 DEF t
  <2>2. ASSUME NEW k \in 0..(ready_count - 1) PROVE At(ready_pos, k) # t /\ At(ready_pos, k) \in Slots
    <3>1. k \in 0..BufferCount /\ ready_count \in 0..BufferCount
      BY <1>1, <1>3
    <3>2. At(ready_pos, k) \in Slots
      BY <1>3, <3>1, AtIs
    <3>3. At(ready_pos, k) # t
      BY <1>3, <3>1, AtIs DEF t
    <3> QED BY <3>2, <3>3
  <2> QED BY <2>1, <2>2
<1>10. /\ buffers' \in [Slots -> Seq(1..MaxBlocks)] /\ buffers'[t] = Blocks(accepted, n)
       /\ \A k \in 0..(ready_count - 1) : buffers'[At(ready_pos, k)] = buffers[At(ready_pos, k)]
  BY <1>1, <1>7, <1>8, <1>9 DEF RingOK
<1>11. signalled' \in BOOLEAN
  BY <1>7, Zenon
<1>12. accepted' \in 0..MaxBlocks /\ accepted' > accepted
  BY <1>1, <1>3, <1>4, <1>7
<1>13. Data' /\ Stored'
  <2>1. file' = Blocks(0, Len(file')) /\ Len(file) <= accepted /\ Len(file) \in Nat
    BY <1>1 DEF IInv, Stored, Data
  <2>2. Len(file') <= accepted'
    BY <1>3, <1>4, <1>7, <2>1
  <2> QED BY <1>1, <1>12, <2>1, <2>2 DEF Stored, Data
<1>14. PICK q \in [0..BufferCount -> Nat] : q = [pos EXCEPT ![ready_count + 1] = accepted + n]
  <2>1. ready_count + 1 \in 0..BufferCount /\ accepted + n \in Nat
    BY <1>1, <1>3, <1>4
  <2> QED BY <2>1
<1>15. /\ q[ready_count + 1] = accepted + n
       /\ \A k \in 0..ready_count : q[k] = pos[k]
  BY <1>1, <1>3, <1>14
<1>16. /\ pos[0] = Len(file) /\ pos[ready_count] = accepted
       /\ \A k \in 0..ready_count : pos[k] <= accepted
       /\ \A k \in 0..(ready_count - 1) :
             pos[k] < pos[k + 1] /\ buffers[At(ready_pos, k)] = Blocks(pos[k], pos[k + 1] - pos[k])
  BY <1>5 DEF Follows
<1>17. Follows(q)'
  <2>1. q[0] = Len(file')
    BY <1>3, <1>15, <1>16
  <2>2. ASSUME NEW k \in 0..(ready_count + 1) PROVE q[k] <= accepted + n
    <3>1. CASE k = ready_count + 1
      BY <1>3, <1>4, <1>15, <3>1
    <3>2. CASE k \in 0..ready_count
      <4>1. q[k] = pos[k] /\ pos[k] <= accepted /\ pos[k] \in Nat
        BY <1>1, <1>3, <1>15, <1>16, <3>2
      <4> QED BY <1>3, <1>4, <4>1
    <3> QED BY <1>3, <3>1, <3>2
  <2>3. ASSUME NEW k \in 0..ready_count
        PROVE  q[k] < q[k + 1] /\ buffers'[At(ready_pos, k)] = Blocks(q[k], q[k + 1] - q[k])
    <3>1. CASE k = ready_count
      <4>1. q[k] = accepted /\ q[k + 1] = accepted + n /\ q[k + 1] - q[k] = n /\ q[k] < q[k + 1]
        BY <1>3, <1>4, <1>15, <1>16, <3>1
      <4> QED BY <1>10, <3>1, <4>1 DEF t
    <3>2. CASE k # ready_count
      <4>1. k \in 0..(ready_count - 1) /\ k + 1 \in 0..ready_count
        BY <1>3, <3>2
      <4> QED BY <1>10, <1>15, <1>16, <4>1
    <3> QED BY <3>1, <3>2
  <2>4. ready_count' - 1 = ready_count
    BY <1>3, <1>7
  <2> QED BY <1>7, <1>15, <2>1, <2>2, <2>3, <2>4 DEF Follows
<1>18. ready_count' \in 0..BufferCount /\ ready_count' > 0
  BY <1>1, <1>3, <1>7
<1> QED BY <1>7, <1>10, <1>11, <1>12, <1>13, <1>17, <1>18

(* What the user hands over, if anything *)
HandsOver(n) ==
    \/ n > 0 /\ Enqueue(n)
    \/ n = 0 /\ UNCHANGED <<ring, accepted, signalled>>

(* The ring after the user has handed over its buffer.  If it is empty     *)
(* everything handed over has arrived.                                     *)
LEMMA HandsOverOK ==
    ASSUME IInv, ~error, ~quit, NEW n \in Fillings, HandsOver(n), UNCHANGED file
    PROVE  /\ buffers' \in [Slots -> Seq(1..MaxBlocks)] /\ ready_pos' = ready_pos /\ ready_pos' \in Slots
           /\ ready_count' \in 0..BufferCount /\ signalled' \in BOOLEAN
           /\ Data' /\ Stored' /\ (accepted' > accepted \/ accepted' = accepted)
           /\ ready_count' = 0 => accepted' = accepted /\ Len(file) = accepted
           /\ ready_count > 0 => ready_count' > 0
           /\ \E pos \in [0..BufferCount -> Nat] : Follows(pos)'
<1>1. Flags /\ RingOK /\ Data
  BY Parts DEF IInv
<1>2. CASE n > 0 /\ Enqueue(n)
  <2>1. /\ buffers' \in [Slots -> Seq(1..MaxBlocks)] /\ ready_pos' = ready_pos
        /\ ready_count' \in 0..BufferCount /\ ready_count' > 0 /\ signalled' \in BOOLEAN
        /\ Data' /\ Stored' /\ accepted' > accepted
        /\ \E pos \in [0..BufferCount -> Nat] : Follows(pos)'
    BY <1>2, EnqueueOK
  <2>2. ready_count' # 0
    BY <2>1
  <2> QED BY <1>1, <2>1, <2>2 DEF RingOK
<1>3. CASE n = 0 /\ UNCHANGED <<ring, accepted, signalled>>
  <2>1. PICK pos \in [0..BufferCount -> Nat] : Follows(pos)
    BY DEF IInv, Queued
  <2>2. Follows(pos)'
    BY <1>3, <2>1 DEF Follows, ring
  <2>3. ready_count = 0 => Len(file) = accepted
    BY <2>1 DEF Follows
  <2>4. Data' /\ Stored'
    BY <1>1, <1>3 DEF IInv, Stored, Data
  <2> QED BY <1>1, <1>3, <2>2, <2>3, <2>4 DEF RingOK, Flags, ring
<1> QED BY <1>2, <1>3 DEF HandsOver

(* A call finds the writer in error: the user is told. *)
LEMMA ErrorOK ==
    ASSUME IInv, error, status = "open", user # "closed", status' = "error", user' \in {"idle", user},
           user' \notin {"waiting", "finalizing"},
           UNCHANGED <<ring, accepted, signalled, processing, handler_waiting, given, quit, error,
                       finalized, handler, options, target, thread>>,
           events' \in [Handlers -> Nat], \A h \in Handlers : events'[h] # 0 => h = handler,
           ~quit
    PROVE  IInv' /\ [Stream!Next]_(Stream!vars)
<1>1. RingOK' /\ Data' /\ Stored' /\ Queued'
  BY Undisturbed DEF target
<1>2. Flags'
  BY Parts DEF IInv, Flags, options, target
<1>3. Rest'
  BY Parts DEF IInv, Rest, target
<1>4. user' # "closed" /\ user' # "close join"
  BY DEF IInv, Known
<1>5. Working' /\ Known'
  BY <1>4 DEF IInv, Working, Known, ring
<1>6. EventsForHandler' /\ Target'
  BY <1>4 DEF IInv, EventsForHandler, Target, target
<1>7. Stream!Fail
  BY DEF Stream!Fail, target
<1> QED BY <1>1, <1>2, <1>3, <1>5, <1>6, <1>7, Parts DEF IInv, Stream!Next

(* get_write_buffer() hands over a buffer and gives out a free one. *)
LEMMA GetIsOK ==
    ASSUME IInv, NEW n \in Fillings, get_write_buffer(n), status = "open", user # "closed", ~quit,
           events' \in [Handlers -> Nat], \A h \in Handlers : events'[h] # 0 => h = handler
    PROVE  IInv' /\ [Stream!Next]_(Stream!vars)
<1>1. UNCHANGED <<quit, error, finalized, handler, options, target, thread>>
  BY DEF get_write_buffer
<1>2. CASE error
  BY <1>1, <1>2, ErrorOK DEF get_write_buffer
<1>3. CASE ~error
  <2>1. /\ HandsOver(n) /\ UNCHANGED status
        /\ \/ /\ Full(ready_count')
              /\ handler_waiting' = TRUE /\ processing' = FALSE /\ user' = "waiting"
              /\ UNCHANGED given
           \/ /\ ~Full(ready_count')
              /\ processing' = TRUE /\ given' = (ready_pos + ready_count') % BufferCount
              /\ user' = "idle" /\ UNCHANGED handler_waiting
    BY <1>3, Zenon DEF get_write_buffer, HandsOver
  <2>2. /\ buffers' \in [Slots -> Seq(1..MaxBlocks)] /\ ready_pos' = ready_pos /\ ready_pos' \in Slots
        /\ ready_count' \in 0..BufferCount /\ signalled' \in BOOLEAN
        /\ Data' /\ Stored' /\ (accepted' > accepted \/ accepted' = accepted)
        /\ ready_count > 0 => ready_count' > 0
        /\ \E pos \in [0..BufferCount -> Nat] : Follows(pos)'
    BY <1>1, <1>3, <2>1, HandsOverOK DEF target
  <2>3. Flags'
    BY <1>1, <2>1, <2>2, Parts DEF IInv, Flags, options, target
  <2>4. RingOK'
    <3>1. (ready_pos + ready_count') % BufferCount \in Slots
      <4>1. PICK c \in 0..BufferCount : c = ready_count'
        BY <2>2
      <4>2. PICK i \in Slots : i = ready_pos
        BY <2>2
      <4>3. (i + c) % BufferCount \in Slots
        BY AtIs
      <4> QED BY <4>1, <4>2, <4>3
    <3> QED BY <2>1, <2>2, <3>1, Parts DEF IInv, RingOK
  <2>5. Rest'
    BY <1>1, <2>1, Parts DEF IInv, Rest, target
  <2>6. Working'
    <3>1. ~Full(ready_count') => ready_count' < BufferCount
      BY <2>2, WriterAssumption DEF Full
    <3> QED BY <1>1, <1>3, <2>1, <2>2, <3>1 DEF IInv, Working
  <2>7. Queued'
    BY <2>2 DEF Queued
  <2>8. Known'
    BY <1>1, <1>3, <2>1 DEF IInv, Known
  <2>9. EventsForHandler' /\ Target'
    BY <1>1, <2>1 DEF IInv, EventsForHandler, Target, target
  <2>10. [Stream!Next]_(Stream!vars)
    BY <1>1, <2>1, <2>2 DEF Stream!Next, Stream!Accept, Stream!vars, target
  <2> QED BY <2>2, <2>3, <2>4, <2>5, <2>6, <2>7, <2>8, <2>9, <2>10, Parts DEF IInv
<1> QED BY <1>2, <1>3

(* finalize() hands over the last buffer; it succeeds only with an empty   *)
(* ring.                                                                   *)
LEMMA FinalizeIsOK ==
    ASSUME IInv, NEW n \in Fillings, finalize(n), status = "open", user # "closed", ~quit,
           events' \in [Handlers -> Nat], \A h \in Handlers : events'[h] # 0 => h = handler
    PROVE  IInv' /\ [Stream!Next]_(Stream!vars)
<1>1. UNCHANGED <<quit, handler, options, target, thread, given>>
  BY DEF finalize
<1>2. CASE error
  BY <1>1, <1>2, ErrorOK DEF finalize
<1>3. CASE ~error
  <2>1. HandsOver(n) /\ processing' \in {processing, FALSE}
    BY <1>3, Zenon DEF finalize, HandsOver
  <2>2. \/ /\ ready_count' # 0 /\ handler_waiting' = TRUE /\ user' = "finalizing"
           /\ UNCHANGED <<error, finalized, status>>
        \/ /\ ready_count' = 0 /\ finalized' = TRUE /\ status' = "finalized" /\ user' = "idle"
           /\ UNCHANGED <<handler_waiting, error>>
        \/ /\ ready_count' = 0 /\ error' = TRUE /\ status' = "error" /\ user' = "idle"
           /\ UNCHANGED <<handler_waiting, finalized>>
    BY <1>3, Zenon DEF finalize, Drained
  <2>3. /\ buffers' \in [Slots -> Seq(1..MaxBlocks)] /\ ready_pos' = ready_pos /\ ready_pos' \in Slots
        /\ ready_count' \in 0..BufferCount /\ signalled' \in BOOLEAN
        /\ Data' /\ Stored' /\ (accepted' > accepted \/ accepted' = accepted)
        /\ ready_count' = 0 => accepted' = accepted /\ Len(file) = accepted
        /\ ready_count > 0 => ready_count' > 0
        /\ \E pos \in [0..BufferCount -> Nat] : Follows(pos)'
    BY <1>1, <1>3, <2>1, HandsOverOK DEF target
  <2>4. Flags'
    BY <1>1, <2>1, <2>2, <2>3, Parts DEF IInv, Flags, options, target
  <2>5. RingOK'
    BY <1>1, <2>3, Parts DEF IInv, RingOK
  <2>6. Rest'
    BY <1>1, <2>2, Parts DEF IInv, Rest, target
  <2>7. Working'
    <3>1. processing' => ready_count' < BufferCount
      <4>1. CASE n > 0 /\ Enqueue(n)
        <5>1. processing' = FALSE
          <6>1. n # 0
            BY <4>1
          <6> QED BY <1>3, <6>1, Zenon DEF finalize
        <5> QED BY <5>1
      <4>2. CASE n = 0 /\ UNCHANGED <<ring, accepted, signalled>>
        BY <2>1, <4>2 DEF IInv, Working, ring
      <4> QED BY <2>1, <4>1, <4>2 DEF HandsOver
    <3>2. thread' = "io" => ready_count' > 0 /\ ~error'
      <4>1. thread' = "io" => ready_count' > 0
        BY <1>1, <2>3 DEF IInv, Working
      <4>2. thread' = "io" => ready_count' # 0
        BY <4>1
      <4> QED BY <1>3, <2>2, <4>1, <4>2
    <3> QED BY <3>1, <3>2 DEF Working
  <2>8. Queued'
    BY <2>3 DEF Queued
  <2>9. Known'
    <3>1. /\ user' \in {"idle", "finalizing"} /\ (user' = "finalizing" => status' = "open")
          /\ status' \in {"open", "finalized", "error"} /\ (status' = "error" => error')
      BY <2>2
    <3> QED BY <1>1, <3>1 DEF IInv, Known
  <2>10. EventsForHandler' /\ Target'
    BY <1>1, <2>2 DEF IInv, EventsForHandler, Target, target
  <2>11. [Stream!Next]_(Stream!vars)
    <3>1. file' = file
      BY <1>1 DEF target
    <3>2. CASE ready_count' # 0
      BY <2>2, <2>3, <3>1, <3>2 DEF Stream!Next, Stream!Accept, Stream!vars
    <3>3. CASE ready_count' = 0 /\ status' = "finalized"
      BY <2>3, <3>1, <3>3 DEF Stream!Next, Stream!Finalize
    <3>4. CASE ready_count' = 0 /\ status' = "error"
      BY <2>3, <3>1, <3>4 DEF Stream!Next, Stream!Fail
    <3> QED BY <2>2, <3>2, <3>3, <3>4
  <2> QED BY <2>3, <2>4, <2>5, <2>6, <2>7, <2>8, <2>9, <2>10, <2>11, Parts DEF IInv
<1> QED BY <1>2, <1>3

(* The user is not asked to do anything while the writer is being closed. *)
LEMMA Active ==
    ASSUME IInv, user \in {"idle", "waiting", "finalizing"}
    PROVE  ~quit /\ events \in [Handlers -> Nat] /\ \A h \in Handlers : events[h] # 0 => h = handler
BY Parts DEF IInv, Known, EventsForHandler, Rest

(* A user asks for a buffer, handing over the one it has filled. *)
LEMMA GetWriteBufferOK == ASSUME IInv, GetWriteBuffer PROVE IInv' /\ [Stream!Next]_(Stream!vars)
<1>1. user \in {"idle", "waiting", "finalizing"} /\ status = "open" /\ events' = events
  BY DEF GetWriteBuffer
<1>2. PICK n \in Fillings : get_write_buffer(n)
  BY DEF GetWriteBuffer
<1> QED BY <1>1, <1>2, Active, GetIsOK

(* A user hands over its last buffer and finalizes. *)
LEMMA FinalizeOK == ASSUME IInv, Finalize PROVE IInv' /\ [Stream!Next]_(Stream!vars)
<1>1. user \in {"idle", "waiting", "finalizing"} /\ status = "open" /\ events' = events
  BY DEF Finalize
<1>2. PICK n \in Fillings : finalize(n)
  BY DEF Finalize
<1> QED BY <1>1, <1>2, Active, FinalizeIsOK

(* retire() hands over a buffer and asks for none. *)
LEMMA RetireOK == ASSUME IInv, Retire PROVE IInv' /\ [Stream!Next]_(Stream!vars)
<1>1. user = "idle" /\ status = "open" /\ events' = events
  BY DEF Retire
<1>2. PICK n \in Fillings : retire(n)
  BY DEF Retire
<1>3. UNCHANGED <<quit, error, finalized, handler_waiting, handler, options, target, thread, given, user>>
  BY <1>2 DEF retire
<1>4. ~quit /\ events' \in [Handlers -> Nat] /\ \A h \in Handlers : events'[h] # 0 => h = handler
  BY <1>1, Active
<1>5. CASE error
  <2>1. status' = "error" /\ UNCHANGED <<ring, accepted, signalled, processing>>
    BY <1>2, <1>5 DEF retire
  <2> QED BY <1>1, <1>3, <1>4, <1>5, <2>1, ErrorOK
<1>6. CASE ~error
  <2>1. HandsOver(n) /\ processing' = FALSE /\ status' = status
    BY <1>2, <1>6, Zenon DEF retire, HandsOver
  <2>2. /\ buffers' \in [Slots -> Seq(1..MaxBlocks)] /\ ready_pos' = ready_pos /\ ready_pos' \in Slots
        /\ ready_count' \in 0..BufferCount /\ signalled' \in BOOLEAN
        /\ Data' /\ Stored' /\ (accepted' > accepted \/ accepted' = accepted)
        /\ ready_count > 0 => ready_count' > 0
        /\ \E pos \in [0..BufferCount -> Nat] : Follows(pos)'
    BY <1>3, <1>4, <1>6, <2>1, HandsOverOK DEF target
  <2>3. Flags'
    BY <1>3, <2>1, <2>2, Parts DEF IInv, Flags, options, target
  <2>4. RingOK' /\ Rest'
    BY <1>1, <1>3, <1>4, <2>1, <2>2, Parts DEF IInv, RingOK, Rest, target
  <2>5. Working' /\ Queued'
    BY <1>3, <1>6, <2>1, <2>2 DEF IInv, Working, Queued
  <2>6. Known' /\ EventsForHandler' /\ Target'
    BY <1>1, <1>3, <1>4, <2>1 DEF IInv, Known, EventsForHandler, Target, target
  <2>7. [Stream!Next]_(Stream!vars)
    BY <1>1, <1>3, <2>1, <2>2 DEF Stream!Next, Stream!Accept, Stream!vars, target
  <2> QED BY <2>2, <2>3, <2>4, <2>5, <2>6, <2>7, Parts DEF IInv
<1> QED BY <1>5, <1>6

(* A user that waits repeats its call. *)
LEMMA WriteReadyOK == ASSUME IInv, WriteReady PROVE IInv' /\ [Stream!Next]_(Stream!vars)
<1>1. user \in {"idle", "waiting", "finalizing"}
  BY DEF WriteReady
<1>2. PICK h \in Handlers :
         /\ events[h] > 0 /\ events' = [events EXCEPT ![h] = @ - 1]
         /\ \/ user = "waiting" /\ get_write_buffer(0)
            \/ user = "finalizing" /\ finalize(0)
            \/ UNCHANGED <<ring, processing, quit, error, finalized, handler_waiting, handler,
                           options, target, signalled, thread, user, given, accepted, status>>
  BY DEF WriteReady
<1>3. ~quit /\ events \in [Handlers -> Nat] /\ \A g \in Handlers : events[g] # 0 => g = handler
  BY <1>1, Active
<1>4. events' \in [Handlers -> Nat] /\ \A g \in Handlers : events'[g] # 0 => g = handler
  <2>1. events[h] \in Nat /\ events[h] - 1 \in Nat /\ h = handler
    BY <1>2, <1>3
  <2> QED BY <1>2, <1>3, <2>1
<1>5. 0 \in Fillings
  <2>1. accepted \in Nat /\ accepted <= MaxBlocks /\ MaxBlocks \in Nat /\ BufferSize \in Nat
    BY WriterAssumption, Parts DEF IInv, Data
  <2>2. Min(BufferSize, MaxBlocks - accepted) \in Nat
    BY <2>1 DEF Min
  <2> QED BY <2>2 DEF Fillings
<1>6. user \in {"waiting", "finalizing"} => status = "open"
  BY DEF IInv, Known
<1>7. CASE user = "waiting" /\ get_write_buffer(0)
  BY <1>3, <1>4, <1>5, <1>6, <1>7, GetIsOK
<1>8. CASE user = "finalizing" /\ finalize(0)
  BY <1>3, <1>4, <1>5, <1>6, <1>8, FinalizeIsOK
<1>9. CASE UNCHANGED <<ring, processing, quit, error, finalized, handler_waiting, handler,
                       options, target, signalled, thread, user, given, accepted, status>>
  <2>1. RingOK' /\ Data' /\ Stored' /\ Queued'
    BY <1>9, Undisturbed DEF target
  <2>2. Flags'
    BY <1>9, Parts DEF IInv, Flags, options, target
  <2>3. Rest'
    BY <1>4, <1>9, Parts DEF IInv, Rest, target
  <2>4. Working' /\ Known'
    BY <1>9 DEF IInv, Working, Known, ring
  <2>5. EventsForHandler' /\ Target'
    BY <1>1, <1>4, <1>9 DEF IInv, EventsForHandler, Target, target, options
  <2>6. UNCHANGED Stream!vars
    BY <1>9 DEF Stream!vars, target
  <2> QED BY <2>1, <2>2, <2>3, <2>4, <2>5, <2>6, Parts DEF IInv
<1> QED BY <1>2, <1>7, <1>8, <1>9

(* Events go with the handler. *)
LEMMA SetHandlerOK == ASSUME IInv, set_handler PROVE IInv' /\ [Stream!Next]_(Stream!vars)
<1>1. user \in {"idle", "waiting", "finalizing"}
  BY DEF set_handler
<1>2. PICK h \in (Handlers \cup {NoHandler}) \ {handler} :
         handler' = h /\ events' = MovedEvents(h) /\ user' = IF h = NoHandler THEN "idle" ELSE user
  BY DEF set_handler
<1>3. UNCHANGED <<ring, processing, quit, error, finalized, handler_waiting, options, target,
                  signalled, thread, given, accepted, status>>
  BY DEF set_handler
<1>4. /\ events \in [Handlers -> Nat] /\ \A g \in Handlers : events[g] # 0 => g = handler
      /\ handler \in Handlers \cup {NoHandler}
  BY DEF IInv, TypeOK, EventsForHandler
<1>5. events' \in [Handlers -> Nat] /\ \A g \in Handlers : events'[g] # 0 => g = handler'
  <2>1. CASE handler = NoHandler
    BY <1>2, <1>4, <2>1, WriterAssumption DEF MovedEvents
  <2>2. CASE handler # NoHandler
    <3>1. events' = [g \in Handlers |-> CASE g = handler -> 0
                                         [] g = h       -> events[g] + events[handler]
                                         [] OTHER       -> events[g]]
      BY <1>2, <2>2 DEF MovedEvents
    <3>2. handler \in Handlers /\ \A g \in Handlers : events[g] \in Nat /\ events[g] + events[handler] \in Nat
      BY <1>4, <2>2
    <3>3. \A g \in Handlers : events'[g] = IF g = handler THEN 0
                                           ELSE IF g = h THEN events[g] + events[handler] ELSE events[g]
      BY <1>2, <3>1
    <3>4. \A g \in Handlers : events'[g] \in Nat
      BY <3>2, <3>3
    <3>5. events' \in [Handlers -> Nat]
      BY <3>1, <3>4
    <3> QED BY <1>2, <1>4, <3>3, <3>5
  <2> QED BY <2>1, <2>2
<1>6. RingOK' /\ Data' /\ Stored' /\ Queued'
  BY <1>3, Undisturbed DEF target
<1>7. Flags'
  BY <1>3, Parts DEF IInv, Flags, options, target
<1>8. Rest'
  BY <1>1, <1>2, <1>3, <1>5, Parts DEF IInv, Rest, target
<1>9. user' \in {"idle", user}
  BY <1>2
<1>10. Working' /\ Known'
  BY <1>1, <1>3, <1>9 DEF IInv, Working, Known, ring
<1>11. EventsForHandler' /\ Target'
  BY <1>1, <1>3, <1>5, <1>9 DEF IInv, EventsForHandler, Target, target
<1>12. UNCHANGED Stream!vars
  BY <1>3 DEF Stream!vars, target
<1> QED BY <1>6, <1>7, <1>8, <1>10, <1>11, <1>12, Parts DEF IInv

(* preallocate() makes the file larger, or has lost its position. *)
LEMMA PreallocateOK == ASSUME IInv, preallocate PROVE IInv' /\ [Stream!Next]_(Stream!vars)
<1>1. /\ user = "idle" /\ status = "open" /\ accepted = 0 /\ ~preallocated /\ ~error
      /\ UNCHANGED <<ring, processing, quit, finalized, handler_waiting, handler, options, file, disk,
                     signalled, thread, events, user, given, accepted>>
      /\ \/ excess' \in {"none", "ahead"} /\ preallocated' = TRUE /\ error' = error /\ status' = status
         \/ excess' \in {"none", "behind"} /\ preallocated' = preallocated /\ error' = TRUE /\ status' = "error"
  BY DEF preallocate
<1>2. ~quit /\ RingOK /\ BufferCount \in Nat \ {0}
  BY <1>1, Parts, WriterAssumption DEF IInv, Known
<1>3. thread # "io"
  <2> SUFFICES ASSUME thread = "io" PROVE FALSE
    OBVIOUS
  <2>1. PICK pos \in [0..BufferCount -> Nat] : Follows(pos)
    BY <1>1, <1>2 DEF IInv, Queued
  <2>2. ready_count > 0 /\ ready_count \in Nat
    BY <1>2 DEF IInv, Working, RingOK
  <2>3. 0 \in 0..(ready_count - 1) /\ 1 \in 0..ready_count /\ 0 + 1 = 1 /\ 0 \in 0..BufferCount /\ 1 \in 0..BufferCount
    BY <1>2, <2>2
  <2>4. pos[0] < pos[0 + 1] /\ pos[1] <= 0 /\ pos[0] \in Nat /\ pos[1] \in Nat
    BY <1>1, <2>1, <2>3 DEF Follows
  <2> QED BY <2>3, <2>4
<1>4. RingOK' /\ Data' /\ Stored' /\ Queued'
  BY <1>1, Undisturbed
<1>5. Flags'
  BY <1>1, Parts DEF IInv, Flags, options
<1>6. Rest'
  BY <1>1, Parts DEF IInv, Rest
<1>7. Working' /\ Known'
  BY <1>1, <1>3 DEF IInv, Working, Known, ring
<1>8. EventsForHandler' /\ Target'
  BY <1>1 DEF IInv, EventsForHandler, Target
<1>9. [Stream!Next]_(Stream!vars)
  BY <1>1 DEF Stream!Next, Stream!Fail, Stream!vars
<1> QED BY <1>4, <1>5, <1>6, <1>7, <1>8, <1>9, Parts DEF IInv

(* The worker is told to quit. *)
LEMMA CloseOK == ASSUME IInv, Close PROVE IInv' /\ [Stream!Next]_(Stream!vars)
<1>1. /\ user \in {"idle", "waiting", "finalizing"} /\ quit' = TRUE /\ signalled' = TRUE
      /\ user' = "close join"
      /\ UNCHANGED <<ring, processing, error, finalized, handler_waiting, handler, options, target,
                     thread, events, given, accepted, status>>
  BY DEF Close, QuitWorker
<1>2. ~quit
  BY <1>1, Active
<1>3. RingOK' /\ Data' /\ Stored' /\ Queued'
  BY <1>1, <1>2, Undisturbed DEF target
<1>4. Flags'
  BY <1>1, Parts DEF IInv, Flags, options, target
<1>5. Rest'
  BY <1>1, Parts DEF IInv, Rest, target
<1>6. Working' /\ Known'
  BY <1>1 DEF IInv, Working, Known, ring
<1>7. EventsForHandler' /\ Target'
  BY <1>1 DEF IInv, EventsForHandler, Target, target
<1>8. UNCHANGED Stream!vars
  BY <1>1 DEF Stream!vars, target
<1> QED BY <1>3, <1>4, <1>5, <1>6, <1>7, <1>8, Parts DEF IInv

(* A worthless file is deleted, a file that was made larger cut. *)
LEMMA CloseJoinedOK == ASSUME IInv, CloseJoined PROVE IInv' /\ [Stream!Next]_(Stream!vars)
<1>1. /\ user = "close join" /\ thread = "done" /\ ready_count' = 0 /\ RemoveEvents
      /\ user' = "closed" /\ status' = "closed"
      /\ UNCHANGED <<buffers, ready_pos, processing, quit, error, finalized, handler_waiting, handler,
                     options, file, preallocated, signalled, thread, given, accepted>>
  BY DEF CloseJoined
<1>2. \/ Worthless /\ disk' = "nothing" /\ excess' = excess
      \/ ~Worthless /\ disk' = disk /\ (preallocated => excess' = "none") /\ (~preallocated => excess' = excess)
  BY DEF CloseJoined, CutToLength
<1>3. Flags /\ RingOK /\ Data /\ Rest /\ BufferCount \in Nat \ {0}
  BY Parts, WriterAssumption DEF IInv
<1>4. events' \in [Handlers -> Nat] /\ \A h \in Handlers : events'[h] = 0
  <2>1. events \in [Handlers -> Nat] /\ \A h \in Handlers : events[h] # 0 => h = handler
    BY <1>3 DEF IInv, EventsForHandler, Rest
  <2> QED BY <1>1, <2>1 DEF RemoveEvents
<1>5. Flags'
  BY <1>1, <1>3 DEF Flags, options
<1>6. RingOK' /\ Data'
  <2>1. 0 \in 0..BufferCount
    BY <1>3
  <2> QED BY <1>1, <1>3, <2>1 DEF RingOK, Data
<1>7. excess' \in {excess, "none"} /\ disk' \in {disk, "nothing"}
  <2>1. preallocated \in BOOLEAN
    BY <1>3 DEF Flags
  <2> QED BY <1>2, <2>1
<1>8. Rest'
  BY <1>1, <1>3, <1>4, <1>7 DEF Rest
<1>9. Stored'
  BY <1>1 DEF IInv, Stored
<1>10. Working' /\ Queued' /\ Known'
  <2>1. ready_count' < BufferCount /\ quit
    <3>1. quit
      BY <1>1 DEF IInv, Known
    <3>2. 0 < BufferCount
      BY <1>3
    <3> QED BY <1>1, <3>1, <3>2
  <2> QED BY <1>1, <2>1 DEF IInv, Working, Queued, Known
<1>11. EventsForHandler'
  BY <1>1, <1>4 DEF EventsForHandler
<1>12. Target'
  <2>1. /\ disk = "file" /\ (excess = "ahead" => preallocated) /\ (preallocated => excess # "behind")
        /\ excess \in {"none", "ahead", "behind"}
    BY <1>1, <1>3 DEF IInv, Target, Rest
  <2>2. CASE Worthless /\ disk' = "nothing" /\ excess' = excess
    BY <1>1, <2>1, <2>2 DEF Target, Worthless
  <2>3. CASE ~Worthless /\ disk' = disk /\ (preallocated => excess' = "none") /\ (~preallocated => excess' = excess)
    <3>1. excess' # "behind" => excess' = "none" /\ excess # "behind"
      BY <2>1, <2>3
    <3>2. excess # "behind" => file # << >> \/ finalized \/ ~from_beginning
      BY <2>3 DEF Worthless
    <3>3. from_beginning' = from_beginning
      BY <1>1 DEF options
    <3>4. (excess' = "ahead" => preallocated) /\ (preallocated => excess' # "behind")
      BY <2>1, <2>3
    <3> QED BY <1>1, <2>1, <2>3, <3>1, <3>2, <3>3, <3>4 DEF Target
  <2> QED BY <1>2, <2>2, <2>3
<1>13. Stream!Close
  <2>1. status # "closed"
    BY <1>1 DEF IInv, Known
  <2> QED BY <1>1, <2>1 DEF Stream!Close
<1> QED BY <1>5, <1>6, <1>8, <1>9, <1>10, <1>11, <1>12, <1>13, Parts DEF IInv, Stream!Next

-------------------------------------------------------------------------------
(***************************************************************************)
(* The theorems                                                            *)
(***************************************************************************)

(* A writer that was just opened *)
LEMMA InitOK == Init => IInv /\ Stream!Init
<1> SUFFICES ASSUME Init PROVE IInv /\ Stream!Init
  OBVIOUS
<1>1. BufferCount \in Nat \ {0} /\ MaxBlocks \in Nat
  BY WriterAssumption
<1>2. << >> \in Seq(1..MaxBlocks) /\ Len(<< >>) = 0 /\ << >> = Blocks(0, 0)
  BY BlocksIs
<1>3. Flags
  BY DEF Init, Flags
<1>4. RingOK /\ Data
  BY <1>1, <1>2 DEF Init, RingOK, Data, Slots
<1>5. Rest
  BY DEF Init, Rest
<1>6. Stored
  BY <1>2 DEF Init, Stored
<1>7. Working /\ Known /\ EventsForHandler /\ Target
  BY DEF Init, Working, Known, EventsForHandler, Target
<1>8. Queued
  <2>1. PICK q \in [0..BufferCount -> Nat] : q = [k \in 0..BufferCount |-> 0]
    OBVIOUS
  <2>2. q[0] = 0
    BY <1>1, <2>1
  <2>3. Follows(q)
    BY <1>1, <1>2, <2>2 DEF Init, Follows
  <2> QED BY <2>3 DEF Queued
<1>9. Stream!Init
  BY DEF Init, Stream!Init
<1> QED BY <1>3, <1>4, <1>5, <1>6, <1>7, <1>8, <1>9, Parts DEF IInv

(* Every step keeps the invariant and is a step of the stream, or none. *)
LEMMA NextOK == ASSUME IInv, [Next]_vars PROVE IInv' /\ [Stream!Next]_(Stream!vars)
<1>1. CASE UNCHANGED vars
  <2>1. RingOK' /\ Data' /\ Stored' /\ Queued'
    BY <1>1, Undisturbed DEF vars, target
  <2>2. Flags'
    BY <1>1, Parts DEF IInv, Flags, vars, options, target
  <2>3. Rest' /\ Working' /\ Known'
    BY <1>1, Parts DEF IInv, Rest, Working, Known, vars, target, ring
  <2>4. EventsForHandler' /\ Target'
    BY <1>1 DEF IInv, EventsForHandler, Target, vars, target, options
  <2>5. UNCHANGED Stream!vars
    BY <1>1 DEF vars, target, Stream!vars
  <2> QED BY <2>1, <2>2, <2>3, <2>4, <2>5, Parts DEF IInv
<1>2. CASE Worker
  BY <1>2, WorkerMovesOK, WorkerWriteOK DEF Worker
<1>3. CASE User
  BY <1>3, GetWriteBufferOK, RetireOK, FinalizeOK, WriteReadyOK, SetHandlerOK, PreallocateOK, CloseOK,
     CloseJoinedOK DEF User
<1> QED BY <1>1, <1>2, <1>3 DEF Next

(* The invariant holds throughout. *)
LEMMA WriterInvariant == Spec => []IInv
<1>1. IInv /\ [Next]_vars => IInv'
  BY NextOK
<1> QED BY InitOK, <1>1, PTL DEF Spec

(* The ring keeps its bounds, and close() leaves nothing that the user did *)
(* not write: neither space from preallocation nor a freshly created empty *)
(* file that was not to be empty (writer.cpp, close).                      *)
THEOREM NothingIsLeftBehind == Spec => []CleanEnd
<1>1. IInv => CleanEnd
  BY DEF IInv, Target, CleanEnd
<1> QED BY <1>1, WriterInvariant, PTL

(* The writer implements the stream writer_base promises: the blocks       *)
(* arrive in order, each once, and finalize() reports success only when    *)
(* all of them have arrived (writer.cpp).                                  *)
THEOREM WriterImplementsStream == Spec => ImplementsWriteStream
<1>1. IInv /\ [Next]_vars => IInv' /\ [Stream!Next]_(Stream!vars)
  BY NextOK
<1>2. Spec => Stream!Init /\ [][Stream!Next]_(Stream!vars)
  BY InitOK, WriterInvariant, <1>1, PTL DEF Spec
<1> QED BY <1>2 DEF ImplementsWriteStream, Stream!Spec

(* Once close() has returned no write_ready_event of the writer is left in *)
(* the event loop, for whichever handler (writer.cpp, close).              *)
THEOREM NoEventOutlivesWriter == Spec => [](user = "closed" => \A h \in Handlers : events[h] = 0)
<1>1. IInv => (user = "closed" => \A h \in Handlers : events[h] = 0)
  BY DEF IInv, EventsForHandler
<1> QED BY <1>1, WriterInvariant, PTL

===============================================================================
