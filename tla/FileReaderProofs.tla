--------------------------- MODULE FileReaderProofs ---------------------------
(***************************************************************************)
(* Proofs about FileReader, for every number and size of buffers and every *)
(* file: the worker never writes to the buffer in the user's hands, the    *)
(* blocks arrive in order, each once, as ReadStream promises, and no       *)
(* read_ready_event outlives the reader.                                   *)
(***************************************************************************)
EXTENDS FileReader, TLAPS

(* The i-th slot of the ring from p on *)
At(p, i) == IF p + i < BufferCount THEN p + i ELSE p + i - BufferCount

(* Going round the ring once is taking one ring off. *)
LEMMA Wraps ==
    ASSUME NEW m \in Nat \ {0}, NEW p \in 0..(m - 1), NEW i \in 0..m
    PROVE  (p + i) % m = IF p + i < m THEN p + i ELSE p + i - m
OBVIOUS

(* The slots of the ring, and the slots after the next one *)
LEMMA AtIs ==
    ASSUME NEW p \in Slots, NEW i \in 0..BufferCount
    PROVE  /\ (p + i) % BufferCount = At(p, i) /\ At(p, i) \in Slots
           /\ At(p, 0) = p
           /\ (p + 1) % BufferCount \in Slots
           /\ \A k \in 0..(BufferCount - 1) : At((p + 1) % BufferCount, k) = At(p, k + 1)
           /\ \A k \in 0..(i - 1) : i < BufferCount => At(p, k) # At(p, i)
<1>1. BufferCount \in Nat \ {0} /\ p \in 0..(BufferCount - 1)
  BY BufferAssumption DEF Slots
<1>2. (p + i) % BufferCount = At(p, i)
  BY <1>1, Wraps DEF At
<1>3. (p + 1) % BufferCount = IF p + 1 < BufferCount THEN p + 1 ELSE 0
  <2>1. (p + 1) % BufferCount = IF p + 1 < BufferCount THEN p + 1 ELSE p + 1 - BufferCount
    <3>1. \A k \in 0..BufferCount : (p + k) % BufferCount = IF p + k < BufferCount THEN p + k ELSE p + k - BufferCount
      BY <1>1, Wraps
    <3>2. 1 \in 0..BufferCount
      BY <1>1
    <3> QED BY <3>1, <3>2, Zenon
  <2> QED BY <1>1, <2>1
<1> QED BY <1>1, <1>2, <1>3 DEF At, Slots

(* Blocks of the file in order *)
LEMMA BytesIs ==
    ASSUME NEW from \in Nat, NEW n \in Nat
    PROVE  /\ Bytes(from, n) \in Seq(Nat) /\ Len(Bytes(from, n)) = n
           /\ Bytes(from, n) = << >> <=> n = 0
           /\ Bytes(from, n) = Stream!Bytes(from, n)
<1>1. \A i \in 1..n : from + i - 1 \in Nat
  OBVIOUS
<1>2. Bytes(from, n) \in Seq(Nat) /\ Len(Bytes(from, n)) = n
  BY <1>1 DEF Bytes
<1> QED BY <1>2 DEF Bytes, Stream!Bytes

-------------------------------------------------------------------------------
(***************************************************************************)
(* The inductive invariant                                                 *)
(***************************************************************************)

(* The buffer in the user's hands is the first one of the ring. *)
Held == processing /\ user # "closed" => ready_count > 0 /\ buffers[ready_pos] = holding

(* The buffer the worker fills is the one after the last. *)
Filling == thread = "io" => ready_count < BufferCount /\ slot = At(ready_pos, ready_count)

(* What was read and what is left make up what was announced. *)
Accounted ==
    thread # "none" => start_offset + size <= FileSize /\ file_pos + remaining = start_offset + size

(* The buffers of the ring follow each other: buffer i holds the blocks    *)
(* from pos[i] to pos[i + 1].  The user has got what precedes the first    *)
(* buffer, or the second one if the first is in its hands.                 *)
Follows(pos) ==
    /\ pos[IF processing THEN 1 ELSE 0] = start_offset + Len(delivered)
    /\ pos[ready_count] = file_pos
    /\ \A i \in 0..ready_count : pos[i] <= file_pos
    /\ \A i \in 0..(ready_count - 1) :
          pos[i] <= pos[i + 1] /\ buffers[At(ready_pos, i)] = Bytes(pos[i], pos[i + 1] - pos[i])

Consecutive == thread # "none" => \E pos \in [0..BufferCount -> Nat] : Follows(pos)

(* What the user knows of the stream *)
Known ==
    /\ status = "error" => error
    /\ status = "closed" <=> user = "closed"
    /\ user \in {"seek", "seek join"} => status # "error"
    /\ user = "waiting" => status = "open" \/ error
    /\ thread = "none" => error \/ user = "closed"

(* Events are for the handler; none is left when the reader is closed. *)
EventsForHandler ==
    /\ \A h \in Handlers : events[h] # 0 => h = handler
    /\ user = "closed" => thread = "none" /\ \A h \in Handlers : events[h] = 0

IInv == TypeOK /\ Held /\ Filling /\ Accounted /\ Consecutive /\ Known /\ EventsForHandler

-------------------------------------------------------------------------------
(***************************************************************************)
(* Types, in parts                                                         *)
(***************************************************************************)
(* What the reader's threads tell each other *)
Flags ==
    /\ processing \in BOOLEAN /\ quit \in BOOLEAN /\ error \in BOOLEAN
    /\ handler_waiting \in BOOLEAN /\ called_read \in BOOLEAN /\ signalled \in BOOLEAN

(* The ring of buffers *)
RingOK ==
    /\ buffers \in [Slots -> Seq(Nat)] /\ ready_pos \in Slots
    /\ ready_count \in 0..BufferCount /\ slot \in Slots

(* Where the reader is in the file *)
Counts == start_offset \in Nat /\ size \in Nat /\ remaining \in Nat /\ file_pos \in Nat

(* The threads, the user and what it has been given *)
Rest ==
    /\ handler \in Handlers \cup {NoHandler}
    /\ max_size \in Nat \cup {nosize}
    /\ thread \in {"none", "loop", "cond", "io", "done"}
    /\ events \in [Handlers -> Nat]
    /\ user \in {"idle", "waiting", "seek", "seek join", "close join", "closed"}
    /\ holding \in Seq(Nat) /\ delivered \in Seq(Nat)
    /\ status \in {"open", "eof", "error", "closed"}
    /\ request \in (Offsets \cup {nosize}) \X (MaxSizes \cup {nosize})
    /\ seeks \in 0..MaxSeeks

(* TypeOK is these four parts, before and after a step. *)
LEMMA Parts ==
    /\ TypeOK <=> Flags /\ RingOK /\ Counts /\ Rest
    /\ TypeOK' <=> Flags' /\ RingOK' /\ Counts' /\ Rest'
BY DEF TypeOK, Flags, RingOK, Counts, Rest

(* What joining two sequences gives *)
LEMMA Joined ==
    ASSUME NEW s \in Seq(Nat), NEW t \in Seq(Nat)
    PROVE  s \o t \in Seq(Nat) /\ Len(s \o t) = Len(s) + Len(t) /\ (t = << >> => s \o t = s)
OBVIOUS

(* A step that leaves the ring, the numbers and the client's view alone    *)
(* keeps what is said of them.                                             *)
LEMMA Undisturbed ==
    ASSUME IInv, UNCHANGED <<ring, range, remaining, file_pos, slot, processing, holding, delivered>>,
           thread # "none" \/ thread' = "none", thread' # "io" \/ thread' = thread, user # "closed"
    PROVE  RingOK' /\ Counts' /\ Held' /\ Filling' /\ Accounted' /\ Consecutive'
<1>1. RingOK' /\ Counts'
  BY Parts DEF IInv, RingOK, Counts, ring, range
<1>2. Held' /\ Filling' /\ Accounted'
  BY DEF IInv, Held, Filling, Accounted, ring, range
<1>3. Consecutive'
  BY DEF IInv, Consecutive, Follows, ring, range
<1> QED BY <1>1, <1>2, <1>3

-------------------------------------------------------------------------------
(***************************************************************************)
(* The worker                                                              *)
(***************************************************************************)

(* While there is a worker the reader is not closed. *)
LEMMA WorkerRuns == ASSUME IInv, thread # "none" PROVE user # "closed" /\ status # "closed"
BY DEF IInv, EventsForHandler, Known

(* The worker quits, waits or is woken. *)
LEMMA WorkerMovesOK == ASSUME IInv, WorkerQuit \/ WorkerFull \/ WorkerWake PROVE IInv'
<1>1. /\ UNCHANGED <<ring, range, remaining, file_pos, slot, client, handler, events, user, request, seeks>>
      /\ UNCHANGED <<processing, quit, error, handler_waiting, called_read>>
      /\ signalled' \in {signalled, FALSE}
      /\ thread \in {"loop", "cond"} /\ thread' \in {"done", "cond", "loop"}
  BY DEF WorkerQuit, WorkerFull, WorkerWake, flags
<1>2. user # "closed"
  BY <1>1, WorkerRuns
<1>3. RingOK' /\ Counts' /\ Held' /\ Filling' /\ Accounted' /\ Consecutive'
  BY <1>1, <1>2, Undisturbed DEF client
<1>4. Flags'
  BY <1>1, Parts DEF IInv, Flags
<1>5. Rest'
  BY <1>1, Parts DEF IInv, Rest, range, client
<1>6. Known' /\ EventsForHandler'
  BY <1>1, <1>2 DEF IInv, Known, EventsForHandler, client
<1> QED BY <1>3, <1>4, <1>5, <1>6, Parts DEF IInv

(* What a worker that has taken the mutex again leaves *)
LEMMA NotifyOK ==
    ASSUME IInv, NotifyHandler, UNCHANGED handler
    PROVE  /\ handler_waiting' \in BOOLEAN
           /\ events' \in [Handlers -> Nat]
           /\ \A h \in Handlers : events'[h] # 0 => h = handler'
<1>1. events \in [Handlers -> Nat] /\ handler \in Handlers \cup {NoHandler}
      /\ \A h \in Handlers : events[h] # 0 => h = handler
  BY DEF IInv, TypeOK, EventsForHandler
<1>2. \/ events' = [events EXCEPT ![handler] = @ + 1] /\ handler # NoHandler
      \/ events' = events
  BY DEF NotifyHandler
<1>3. handler_waiting' \in BOOLEAN
  BY DEF NotifyHandler
<1>4. CASE events' = events
  BY <1>1, <1>3, <1>4
<1>5. CASE events' = [events EXCEPT ![handler] = @ + 1] /\ handler # NoHandler
  <2>1. handler \in Handlers /\ events[handler] + 1 \in Nat
    BY <1>1, <1>5
  <2>2. events' \in [Handlers -> Nat]
    BY <1>1, <1>5, <2>1
  <2>3. \A h \in Handlers : h # handler => events'[h] = events[h]
    BY <1>1, <1>5
  <2> QED BY <1>1, <1>3, <2>2, <2>3
<1> QED BY <1>2, <1>4, <1>5

(* A buffer that was filled is appended to the ring. *)
LEMMA CompletedOK ==
    ASSUME IInv, thread \in {"loop", "io"}, ready_count < BufferCount,
           NEW b, b = At(ready_pos, ready_count), slot' = b,
           NEW n \in Int, n <= remaining, Completed(b, n),
           UNCHANGED <<ready_pos, processing, quit, called_read, signalled, range,
                       client, handler, user, request, seeks>>
    PROVE  IInv'
<1>1. user # "closed" /\ thread # "none"
  BY WorkerRuns
<1>2. RingOK /\ Counts /\ Rest /\ Flags
  BY Parts DEF IInv
<1>3. BufferCount \in Nat \ {0} /\ ready_count \in Nat /\ ready_count + 1 \in 0..BufferCount
  BY <1>2, BufferAssumption DEF RingOK
<1>4. b \in Slots
  BY <1>2, AtIs DEF RingOK
<1>5. /\ handler_waiting' \in BOOLEAN /\ events' \in [Handlers -> Nat]
      /\ \A h \in Handlers : events'[h] # 0 => h = handler'
  BY NotifyOK DEF Completed
<1>6. thread' \in {"done", "loop"} /\ (error' = error \/ error' = TRUE)
  BY DEF Completed
<1>7. Flags' /\ Rest'
  <2>1. Flags'
    BY <1>2, <1>5, <1>6 DEF Flags
  <2>2. Rest'
    BY <1>2, <1>5, <1>6 DEF Rest, range, client
  <2> QED BY <2>1, <2>2
<1>8. Filling' /\ Known' /\ EventsForHandler'
  <2>1. Known'
    <3>1. thread' # "none" /\ thread # "none" /\ (error => error')
      BY <1>1, <1>6
    <3> QED BY <1>1, <3>1, Zenon DEF IInv, Known, client
  <2> QED BY <1>1, <1>5, <1>6, <2>1 DEF Filling, EventsForHandler
<1>9. processing => ready_count > 0 /\ buffers[ready_pos] = holding
  BY <1>1 DEF IInv, Held
<1>10. start_offset + size <= FileSize /\ file_pos + remaining = start_offset + size
  BY <1>1 DEF IInv, Accounted
<1>11. PICK pos \in [0..BufferCount -> Nat] : Follows(pos)
  BY <1>1 DEF IInv, Consecutive
<1>12. CASE n >= 0
  <2>1. /\ buffers' = [buffers EXCEPT ![b] = Bytes(file_pos, n)]
        /\ ready_count' = ready_count + 1 /\ remaining' = remaining - n /\ file_pos' = file_pos + n
    BY <1>12 DEF Completed
  <2>2. /\ n \in Nat /\ file_pos \in Nat /\ remaining \in Nat /\ file_pos + n \in Nat
        /\ Bytes(file_pos, n) \in Seq(Nat)
    BY <1>2, <1>12, BytesIs DEF Counts
  <2>3. RingOK' /\ Counts'
    <3>1. buffers' \in [Slots -> Seq(Nat)]
      BY <1>2, <1>4, <2>1, <2>2 DEF RingOK
    <3> QED BY <1>2, <1>3, <1>4, <2>1, <2>2, <3>1 DEF RingOK, Counts, range
  <2>4. \A k \in 0..(ready_count - 1) : At(ready_pos, k) # b /\ At(ready_pos, k) \in Slots
    <3>1. ready_pos \in Slots /\ ready_count \in 0..BufferCount
      BY <1>2 DEF RingOK
    <3>2. \A k \in 0..(ready_count - 1) : At(ready_pos, k) # At(ready_pos, ready_count)
      BY <3>1, AtIs
    <3>3. ASSUME NEW k \in 0..(ready_count - 1) PROVE At(ready_pos, k) \in Slots
      <4>1. k \in 0..BufferCount
        BY <1>3
      <4> QED BY <3>1, <4>1, AtIs
    <3> QED BY <3>2, <3>3
  <2>5. buffers'[b] = Bytes(file_pos, n) /\ \A k \in 0..(ready_count - 1) :
           buffers'[At(ready_pos, k)] = buffers[At(ready_pos, k)]
    BY <1>2, <1>4, <2>1, <2>4 DEF RingOK
  <2>6. Held'
    <3>1. processing => buffers'[ready_pos] = buffers[ready_pos]
      <4>1. At(ready_pos, 0) = ready_pos
        BY <1>2, AtIs DEF RingOK
      <4> QED BY <1>3, <1>9, <2>5, <4>1
    <3> QED BY <1>3, <1>9, <2>1, <3>1 DEF Held, client
  <2>7. Accounted'
    BY <1>10, <2>1, <2>2 DEF Accounted, range
  <2>8. PICK q \in [0..BufferCount -> Nat] : q = [pos EXCEPT ![ready_count + 1] = file_pos + n]
    BY <1>3, <2>2
  <2>9. /\ q[ready_count + 1] = file_pos + n
        /\ \A k \in 0..ready_count : q[k] = pos[k]
    BY <1>3, <2>8
  <2>10. /\ pos[ready_count] = file_pos
         /\ \A k \in 0..ready_count : pos[k] <= file_pos
         /\ \A k \in 0..(ready_count - 1) :
              pos[k] <= pos[k + 1] /\ buffers[At(ready_pos, k)] = Bytes(pos[k], pos[k + 1] - pos[k])
    BY <1>11 DEF Follows
  <2>11. Follows(q)'
    <3>1. q[IF processing THEN 1 ELSE 0] = start_offset + Len(delivered)
      BY <1>3, <1>9, <1>11, <2>9 DEF Follows
    <3>2. \A k \in 0..(ready_count + 1) : q[k] <= file_pos + n
      <4> SUFFICES ASSUME NEW k \in 0..(ready_count + 1) PROVE q[k] <= file_pos + n
        OBVIOUS
      <4>1. CASE k = ready_count + 1
        BY <2>2, <2>9, <4>1
      <4>2. CASE k \in 0..ready_count
        <5>1. q[k] = pos[k] /\ pos[k] <= file_pos /\ pos[k] \in Nat
          BY <1>3, <2>9, <2>10, <4>2
        <5> QED BY <2>2, <5>1
      <4> QED BY <1>3, <4>1, <4>2
    <3>3. ASSUME NEW k \in 0..ready_count
          PROVE  q[k] <= q[k + 1] /\ buffers'[At(ready_pos, k)] = Bytes(q[k], q[k + 1] - q[k])
      <4>1. CASE k = ready_count
        <5>1. q[k] = file_pos /\ q[k + 1] = file_pos + n /\ q[k + 1] - q[k] = n
          BY <1>3, <2>2, <2>9, <2>10, <4>1
        <5> QED BY <2>2, <2>5, <4>1, <5>1
      <4>2. CASE k # ready_count
        <5>1. k \in 0..(ready_count - 1) /\ k + 1 \in 0..ready_count
          BY <1>3, <4>2
        <5> QED BY <2>5, <2>9, <2>10, <5>1
      <4> QED BY <4>1, <4>2
    <3>4. ready_count' - 1 = ready_count
      BY <1>3, <2>1
    <3> QED BY <2>1, <2>9, <3>1, <3>2, <3>3, <3>4 DEF Follows, range, client
  <2>12. Consecutive'
    BY <2>11 DEF Consecutive
  <2> QED BY <1>7, <1>8, <2>3, <2>6, <2>7, <2>12, Parts DEF IInv
<1>13. CASE n < 0
  <2>1. UNCHANGED <<buffers, ready_count, remaining, file_pos>>
    BY <1>12, <1>13 DEF Completed
  <2>2. RingOK' /\ Counts'
    BY <1>2, <1>4, <2>1 DEF RingOK, Counts, range
  <2>3. Held' /\ Accounted' /\ Consecutive'
    BY <1>1, <1>6, <2>1 DEF IInv, Held, Accounted, Consecutive, Follows, range, client
  <2> QED BY <1>7, <1>8, <2>2, <2>3, Parts DEF IInv
<1> QED BY <1>12, <1>13

(* The next buffer is the one after the last, never the user's. *)
LEMMA WorkerNextOK == ASSUME IInv, WorkerNext PROVE IInv'
<1>1. /\ thread = "loop" /\ ~(ready_count >= BufferCount) /\ slot' = NextSlot
      /\ UNCHANGED <<ready_pos, processing, quit, called_read, signalled, range,
                     client, handler, user, request, seeks>>
  BY DEF WorkerNext, Full
<1>2. RingOK /\ Counts /\ Rest /\ Flags /\ BufferCount \in Nat \ {0}
  BY Parts, BufferAssumption DEF IInv
<1>3. ready_count < BufferCount /\ ready_count \in Nat
  BY <1>1, <1>2 DEF RingOK
<1>4. slot' = At(ready_pos, ready_count) /\ slot' \in Slots
  BY <1>1, <1>2, AtIs DEF RingOK, NextSlot
<1>5. CASE remaining = 0 /\ Completed(slot', 0)
  BY <1>1, <1>3, <1>4, <1>5, CompletedOK
<1>6. CASE /\ remaining > 0
           /\ buffers' = [buffers EXCEPT ![slot'] = << >>]
           /\ thread' = "io"
           /\ UNCHANGED <<ready_count, error, remaining, file_pos, handler_waiting, events>>
  <2>1. user # "closed"
    BY <1>1, WorkerRuns
  <2>2. Flags' /\ Rest' /\ Counts'
    <3>1. Flags'
      BY <1>1, <1>2, <1>6 DEF Flags
    <3>2. Rest' /\ Counts'
      BY <1>1, <1>2, <1>6 DEF Rest, Counts, range, client
    <3> QED BY <3>1, <3>2
  <2>3. RingOK'
    <3>1. << >> \in Seq(Nat)
      OBVIOUS
    <3>2. buffers' \in [Slots -> Seq(Nat)]
      BY <1>2, <1>4, <1>6, <3>1 DEF RingOK
    <3> QED BY <1>1, <1>2, <1>4, <1>6, <3>2 DEF RingOK
  <2>4. Filling' /\ Known' /\ EventsForHandler' /\ Accounted'
    BY <1>1, <1>3, <1>4, <1>6, <2>1 DEF IInv, Filling, Known, EventsForHandler, Accounted, range, client
  <2>5. \A k \in 0..(ready_count - 1) :
           buffers'[At(ready_pos, k)] = buffers[At(ready_pos, k)]
    <3>1. \A k \in 0..(ready_count - 1) : At(ready_pos, k) # slot' /\ At(ready_pos, k) \in Slots
      <4>1. ready_pos \in Slots /\ ready_count \in 0..BufferCount
        BY <1>2 DEF RingOK
      <4>2. \A k \in 0..(ready_count - 1) : At(ready_pos, k) # At(ready_pos, ready_count)
        BY <1>3, <4>1, AtIs
      <4>3. ASSUME NEW k \in 0..(ready_count - 1) PROVE At(ready_pos, k) \in Slots
        <5>1. k \in 0..BufferCount
          BY <1>2, <1>3
        <5> QED BY <4>1, <5>1, AtIs
      <4> QED BY <1>4, <4>2, <4>3
    <3> QED BY <1>2, <1>4, <1>6, <3>1 DEF RingOK
  <2>6. Held'
    <3>1. processing => ready_count > 0 /\ buffers[ready_pos] = holding
      BY <2>1 DEF IInv, Held
    <3>2. At(ready_pos, 0) = ready_pos
      BY <1>2, AtIs DEF RingOK
    <3>3. processing => buffers'[ready_pos] = holding
      BY <1>3, <2>5, <3>1, <3>2
    <3> QED BY <1>1, <1>6, <3>1, <3>3 DEF Held, client
  <2>7. Consecutive'
    <3>1. PICK pos \in [0..BufferCount -> Nat] : Follows(pos)
      BY <1>1 DEF IInv, Consecutive
    <3>2. Follows(pos)'
      BY <1>1, <1>6, <2>5, <3>1 DEF Follows, range, client
    <3> QED BY <3>2 DEF Consecutive
  <2> QED BY <2>2, <2>3, <2>4, <2>6, <2>7, Parts DEF IInv
<1> QED BY <1>5, <1>6 DEF WorkerNext

(* What was read goes where it was to go. *)
LEMMA WorkerReadOK == ASSUME IInv, WorkerRead PROVE IInv'
<1>1. /\ thread = "io" /\ ready_count < BufferCount /\ slot = At(ready_pos, ready_count)
      /\ UNCHANGED <<ready_pos, slot, processing, quit, called_read, signalled, range,
                     client, handler, user, request, seeks>>
  BY DEF WorkerRead, IInv, Filling
<1>2. CASE /\ thread' = "done"
           /\ UNCHANGED <<buffers, ready_count, error, remaining, file_pos, handler_waiting, events>>
  <2>1. user # "closed"
    BY <1>1, WorkerRuns
  <2>2. RingOK' /\ Counts' /\ Held' /\ Filling' /\ Accounted' /\ Consecutive'
    BY <1>1, <1>2, <2>1, Undisturbed DEF ring, client
  <2>3. Flags' /\ Rest'
    <3>1. Flags'
      BY <1>1, <1>2, Parts DEF IInv, Flags
    <3>2. Rest'
      BY <1>1, <1>2, Parts DEF IInv, Rest, range, client
    <3> QED BY <3>1, <3>2
  <2>4. Known' /\ EventsForHandler'
    BY <1>1, <1>2, <2>1 DEF IInv, Known, EventsForHandler, client
  <2> QED BY <2>2, <2>3, <2>4, Parts DEF IInv
<1>3. CASE \E n \in -1..Min(Min(BufferSize, remaining), FileSize - file_pos) : Completed(slot, n)
  <2>1. PICK n \in -1..Min(Min(BufferSize, remaining), FileSize - file_pos) : Completed(slot, n)
    BY <1>3
  <2>2. n \in Int /\ n <= remaining
    <3>1. BufferSize \in Nat /\ remaining \in Nat /\ FileSize - file_pos \in Int
      BY BufferAssumption, FileAssumption, Parts DEF IInv, Counts
    <3>2. Min(BufferSize, remaining) \in Nat /\ Min(BufferSize, remaining) <= remaining
      BY <3>1 DEF Min
    <3>3. \A m \in Nat : Min(m, FileSize - file_pos) \in Int /\ Min(m, FileSize - file_pos) <= m
      BY <3>1 DEF Min
    <3> QED BY <3>1, <3>2, <3>3
  <2> QED BY <1>1, <2>1, <2>2, CompletedOK
<1> QED BY <1>2, <1>3 DEF WorkerRead

-------------------------------------------------------------------------------
(***************************************************************************)
(* The user of the reader                                                  *)
(***************************************************************************)

(* The c buffers from p on hold the blocks the user has not got yet. *)
Ahead(q, p, c) ==
    /\ q[0] = start_offset + Len(delivered)
    /\ q[c] = file_pos
    /\ \A i \in 0..c : q[i] <= file_pos
    /\ \A i \in 0..(c - 1) : q[i] <= q[i + 1] /\ buffers[At(p, i)] = Bytes(q[i], q[i + 1] - q[i])

(* A buffer is taken: its blocks are the next ones of the stream. *)
LEMMA TakeOK ==
    ASSUME IInv, NEW p \in Slots, NEW c \in 0..BufferCount, NEW q \in [0..BufferCount -> Nat],
           Ahead(q, p, c), TakeBuffer(p, c), ready_pos' = p, ready_count' = c,
           error = FALSE, status = "open", thread # "none",
           thread = "io" => c < BufferCount /\ slot = At(p, c),
           UNCHANGED <<buffers, quit, error, range, progress, handler, request, seeks>>,
           signalled' \in BOOLEAN, events' \in [Handlers -> Nat],
           \A h \in Handlers : events'[h] # 0 => h = handler
    PROVE  IInv' /\ [Stream!Next]_(Stream!vars)
<1>1. Flags /\ RingOK /\ Counts /\ Rest /\ BufferCount \in Nat \ {0}
  BY Parts, BufferAssumption DEF IInv
<1>2. start_offset + size <= FileSize /\ file_pos + remaining = start_offset + size
  BY DEF IInv, Accounted
<1>3. c \in Nat /\ file_pos \in Nat /\ remaining \in Nat /\ start_offset \in Nat /\ size \in Nat /\ file_pos <= start_offset + size
  BY <1>1, <1>2 DEF Counts
<1>4. RingOK' /\ Counts'
  BY <1>1 DEF RingOK, Counts, range, progress
<1>5. Filling' /\ Accounted'
  BY DEF IInv, Filling, Accounted, range, progress
<1>6. CASE c > 0
  <2>1. /\ called_read' = TRUE /\ processing' = TRUE /\ user' = "idle" /\ holding' = buffers[p]
        /\ delivered' = delivered \o buffers[p] /\ handler_waiting' = handler_waiting
        /\ status' = IF buffers[p] = << >> THEN "eof" ELSE "open"
    BY <1>3, <1>6 DEF TakeBuffer
  <2>2. /\ 0 \in 0..(c - 1) /\ 0 \in 0..c /\ 1 \in 0..c /\ 1 \in 0..BufferCount /\ At(p, 0) = p
    BY <1>1, <1>3, <1>6, AtIs
  <2>3. /\ q[0] \in Nat /\ q[1] \in Nat /\ q[0] <= q[1] /\ q[1] <= file_pos
        /\ buffers[p] = Bytes(q[0], q[1] - q[0]) /\ q[0] = start_offset + Len(delivered)
    <3>1. 0 + 1 = 1
      OBVIOUS
    <3>2. q[0] <= q[0 + 1] /\ buffers[At(p, 0)] = Bytes(q[0], q[0 + 1] - q[0])
      BY <2>2 DEF Ahead
    <3> QED BY <1>3, <2>2, <3>1, <3>2 DEF Ahead
  <2>4. PICK n \in Nat : n = q[1] - q[0]
    BY <2>3
  <2>5. delivered \in Seq(Nat) /\ Len(delivered) \in Nat
    <3>1. delivered \in Seq(Nat)
      BY <1>1 DEF Rest
    <3> QED BY <3>1
  <2>6. /\ buffers[p] \in Seq(Nat) /\ Len(buffers[p]) = n /\ (buffers[p] = << >> <=> n = 0)
        /\ buffers[p] = Stream!Bytes(start_offset + Len(delivered), n)
    <3>1. buffers[p] = Bytes(q[0], n)
      BY <2>3, <2>4
    <3>2. buffers[p] = Stream!Bytes(q[0], n)
      BY <2>3, <3>1, BytesIs
    <3>3. buffers[p] \in Seq(Nat) /\ Len(buffers[p]) = n /\ (buffers[p] = << >> <=> n = 0)
      <4>1. /\ Bytes(q[0], n) \in Seq(Nat) /\ Len(Bytes(q[0], n)) = n
            /\ Bytes(q[0], n) = << >> <=> n = 0
        BY <2>3, BytesIs, Zenon
      <4> QED BY <3>1, <4>1, Zenon
    <3> QED BY <2>3, <3>2, <3>3
  <2>7. delivered' \in Seq(Nat) /\ Len(delivered') = Len(delivered) + n /\ (n = 0 => delivered' = delivered)
    <3>1. PICK b : b = buffers[p]
      OBVIOUS
    <3>2. b \in Seq(Nat) /\ Len(b) = n /\ (n = 0 => b = << >>) /\ delivered' = delivered \o b
      BY <2>1, <2>6, <3>1
    <3> QED BY <2>5, <3>2, Joined, Zenon
  <2>8. Flags'
    BY <1>1, <2>1 DEF Flags
  <2>9. Rest'
    BY <1>1, <2>1, <2>6, <2>7 DEF Rest, range, progress
  <2>10. Held' /\ Known' /\ EventsForHandler'
    <3>1. status' \in {"open", "eof"}
      BY <2>1
    <3> QED BY <1>6, <2>1, <3>1 DEF Held, Known, EventsForHandler, progress
  <2>11. Consecutive'
    <3>1. q[1] = start_offset + Len(delivered')
      BY <1>3, <2>3, <2>4, <2>5, <2>7
    <3>2. Follows(q)'
      BY <2>1, <3>1 DEF Follows, Ahead, range, progress
    <3> QED BY <3>2 DEF Consecutive
  <2>12. [Stream!Next]_(Stream!vars)
    <3>1. CASE n = 0
      <4>1. Stream!EndOfFile
        BY <2>1, <2>6, <2>7, <3>1 DEF Stream!EndOfFile, range
      <4> QED BY <4>1 DEF Stream!Next
    <3>2. CASE n # 0
      <4>1. n \in 1..(size - Len(delivered))
        BY <1>3, <2>3, <2>4, <2>5, <3>2
      <4>2. delivered' = delivered \o Stream!Bytes(start_offset + Len(delivered), n)
        BY <2>1, <2>6
      <4>3. Stream!Deliver
        BY <2>1, <2>6, <3>2, <4>1, <4>2 DEF Stream!Deliver, range
      <4> QED BY <4>3 DEF Stream!Next
    <3> QED BY <3>1, <3>2
  <2> QED BY <1>4, <1>5, <2>8, <2>9, <2>10, <2>11, <2>12, Parts DEF IInv
<1>7. CASE c = 0
  <2>1. /\ handler_waiting' = TRUE /\ processing' = FALSE /\ user' = "waiting" /\ holding' = << >>
        /\ UNCHANGED <<called_read, delivered, status>>
    BY <1>7 DEF TakeBuffer
  <2>2. Flags'
    BY <1>1, <2>1 DEF Flags
  <2>3. Rest'
    <3>1. << >> \in Seq(Nat)
      OBVIOUS
    <3> QED BY <1>1, <2>1, <3>1 DEF Rest, range, progress
  <2>4. Held' /\ Known' /\ EventsForHandler'
    BY <2>1 DEF Held, Known, EventsForHandler, progress
  <2>5. Follows(q)'
    BY <1>7, <2>1 DEF Follows, Ahead, range, progress
  <2>6. Consecutive'
    BY <2>5 DEF Consecutive
  <2>7. UNCHANGED Stream!vars
    BY <2>1 DEF Stream!vars, range
  <2> QED BY <1>4, <1>5, <2>2, <2>3, <2>4, <2>6, <2>7, Parts DEF IInv
<1> QED BY <1>3, <1>6, <1>7

(* read() gives back the buffer in use and takes the next one. *)
LEMMA ReadIsOK ==
    ASSUME IInv, read, user \in {"idle", "waiting"}, status = "open" \/ error,
           events' \in [Handlers -> Nat], \A h \in Handlers : events'[h] # 0 => h = handler
    PROVE  IInv' /\ [Stream!Next]_(Stream!vars)
<1>0. UNCHANGED <<quit, error, range, progress, handler, request, seeks>>
  BY DEF read
<1>1. Flags /\ RingOK /\ Counts /\ Rest /\ BufferCount \in Nat \ {0}
  BY Parts, BufferAssumption DEF IInv
<1>2. CASE error
  <2>1. /\ status' = "error" /\ user' = "idle"
        /\ UNCHANGED <<ring, processing, handler_waiting, called_read, signalled, holding, delivered>>
    BY <1>2 DEF read
  <2>2. RingOK' /\ Counts' /\ Held' /\ Filling' /\ Accounted' /\ Consecutive'
    BY <1>0, <2>1, Undisturbed DEF progress
  <2>3. Flags'
    BY <1>0, <1>1, <2>1 DEF Flags
  <2>4. Rest'
    BY <1>0, <1>1, <2>1 DEF Rest, range, progress
  <2>5. Known' /\ EventsForHandler'
    BY <1>0, <1>2, <2>1 DEF Known, EventsForHandler
  <2>6. [Stream!Next]_(Stream!vars)
    <3>1. status # "closed" /\ start_offset' \in Nat /\ UNCHANGED <<start_offset, size, delivered>>
      BY <1>0, <1>1, <2>1 DEF IInv, Known, Counts, range
    <3>2. CASE status = "error"
      BY <2>1, <3>1, <3>2 DEF Stream!vars
    <3>3. CASE status \in {"open", "eof"}
      BY <2>1, <3>1, <3>3 DEF Stream!Next, Stream!Fail
    <3> QED BY <1>1, <3>1, <3>2, <3>3 DEF Rest
  <2> QED BY <2>2, <2>3, <2>4, <2>5, <2>6, Parts DEF IInv
<1>3. CASE ~error
  <2>1. error = FALSE /\ status = "open"
    BY <1>1, <1>3 DEF Flags
  <2>2. thread # "none"
    BY <1>3 DEF IInv, Known
  <2>3. PICK pos \in [0..BufferCount -> Nat] : Follows(pos)
    BY <2>2 DEF IInv, Consecutive
  <2>4. ready_pos \in Slots /\ ready_count \in 0..BufferCount
    BY <1>1 DEF RingOK
  <2>5. thread = "io" => ready_count < BufferCount /\ slot = At(ready_pos, ready_count)
    BY DEF IInv, Filling
  <2>6. CASE processing
    <3>1. /\ ready_pos' = (ready_pos + 1) % BufferCount
          /\ ready_count' = ready_count - 1
          /\ signalled' = (signalled \/ ready_count = BufferCount)
          /\ TakeBuffer(ready_pos', ready_count')
          /\ UNCHANGED buffers
      BY <1>3, <2>6 DEF read
    <3>2. signalled' \in BOOLEAN
      BY <3>1, Zenon
    <3>3. ready_count > 0
      BY <2>6 DEF IInv, Held
    <3>4. PICK c \in 0..(BufferCount - 1) : ready_count' = c /\ ready_count = c + 1
      <4>1. ready_count - 1 \in 0..(BufferCount - 1) /\ ready_count = (ready_count - 1) + 1
        BY <1>1, <2>4, <3>3
      <4> QED BY <3>1, <4>1
    <3>5. ready_pos' \in Slots /\ \A k \in 0..(BufferCount - 1) : At(ready_pos', k) = At(ready_pos, k + 1)
      BY <2>4, <3>1, AtIs
    <3>6. thread = "io" => c < BufferCount /\ slot = At(ready_pos', c)
      BY <1>1, <2>5, <3>4, <3>5
    <3>7. PICK q \in [0..BufferCount -> Nat] :
             q = [k \in 0..BufferCount |-> IF k < BufferCount THEN pos[k + 1] ELSE pos[k]]
      <4>1. \A k \in 0..BufferCount : (IF k < BufferCount THEN pos[k + 1] ELSE pos[k]) \in Nat
        BY <1>1
      <4> QED BY <4>1
    <3>8. \A k \in 0..(BufferCount - 1) : q[k] = pos[k + 1]
      BY <1>1, <3>7
    <3>9. Ahead(q, ready_pos', c)
      <4>1. q[0] = start_offset + Len(delivered)
        <5>1. 0 \in 0..(BufferCount - 1) /\ 0 + 1 = 1
          BY <1>1
        <5> QED BY <2>3, <2>6, <3>8, <5>1 DEF Follows
      <4>2. \A k \in 0..c : k \in 0..(BufferCount - 1) /\ k + 1 \in 0..ready_count
        BY <1>1, <3>4
      <4>3. q[c] = file_pos
        BY <2>3, <3>4, <3>8, <4>2 DEF Follows
      <4>4. \A k \in 0..c : q[k] <= file_pos
        BY <2>3, <3>8, <4>2 DEF Follows
      <4>5. ASSUME NEW k \in 0..(c - 1)
            PROVE  q[k] <= q[k + 1] /\ buffers[At(ready_pos', k)] = Bytes(q[k], q[k + 1] - q[k])
        <5>1. k \in 0..(BufferCount - 1) /\ k + 1 \in 0..(BufferCount - 1) /\ k + 1 \in 0..(ready_count - 1)
          BY <1>1, <3>4
        <5>2. q[k] = pos[k + 1] /\ q[k + 1] = pos[(k + 1) + 1] /\ At(ready_pos', k) = At(ready_pos, k + 1)
          BY <3>5, <3>8, <5>1
        <5>3. pos[k + 1] <= pos[(k + 1) + 1]
              /\ buffers[At(ready_pos, k + 1)] = Bytes(pos[k + 1], pos[(k + 1) + 1] - pos[k + 1])
          BY <2>3, <5>1 DEF Follows
        <5> QED BY <5>2, <5>3
      <4> QED BY <4>1, <4>3, <4>4, <4>5 DEF Ahead
    <3>10. c \in 0..BufferCount
      BY <1>1
    <3> QED BY <1>0, <2>1, <2>2, <3>1, <3>2, <3>4, <3>5, <3>6, <3>9, <3>10, TakeOK
  <2>7. CASE ~processing
    <3>1. TakeBuffer(ready_pos, ready_count) /\ UNCHANGED <<ring, signalled>>
      BY <1>3, <2>7 DEF read
    <3>2. Ahead(pos, ready_pos, ready_count)
      BY <2>3, <2>7 DEF Follows, Ahead
    <3>3. signalled' \in BOOLEAN
      BY <1>1, <3>1 DEF Flags
    <3> QED BY <1>0, <2>1, <2>2, <2>4, <2>5, <3>1, <3>2, <3>3, TakeOK DEF ring
  <2> QED BY <2>6, <2>7
<1> QED BY <1>2, <1>3

(* A user reads when it has time, or when it is told to. *)
LEMMA ReadOK == ASSUME IInv, Read PROVE IInv' /\ [Stream!Next]_(Stream!vars)
<1>1. read /\ user \in {"idle", "waiting"} /\ status = "open" /\ events' = events
  BY DEF Read
<1>2. events' \in [Handlers -> Nat] /\ \A h \in Handlers : events'[h] # 0 => h = handler
  BY <1>1 DEF IInv, TypeOK, EventsForHandler
<1> QED BY <1>1, <1>2, ReadIsOK

(* A user reads again when it has handled the event that a buffer is ready. *)
LEMMA ReadReadyOK == ASSUME IInv, ReadReady PROVE IInv' /\ [Stream!Next]_(Stream!vars)
<1>1. user \in {"idle", "waiting"}
  BY DEF ReadReady
<1>2. PICK h \in Handlers :
         /\ events[h] > 0 /\ events' = [events EXCEPT ![h] = @ - 1]
         /\ \/ h = handler /\ user = "waiting" /\ read
            \/ ~(h = handler /\ user = "waiting")
               /\ UNCHANGED <<ring, flags, range, progress, client, handler, user, request, seeks>>
  BY DEF ReadReady
<1>3. events \in [Handlers -> Nat] /\ \A g \in Handlers : events[g] # 0 => g = handler
  BY DEF IInv, TypeOK, EventsForHandler
<1>4. events' \in [Handlers -> Nat] /\ \A g \in Handlers : events'[g] # 0 => g = handler
  <2>1. events[h] \in Nat /\ events[h] - 1 \in Nat /\ h = handler
    BY <1>2, <1>3
  <2> QED BY <1>2, <1>3, <2>1
<1>5. CASE user = "waiting" /\ read
  <2>1. status = "open" \/ error
    BY <1>5 DEF IInv, Known
  <2> QED BY <1>4, <1>5, <2>1, ReadIsOK
<1>6. CASE UNCHANGED <<ring, flags, range, progress, client, handler, user, request, seeks>>
  <2>1. RingOK' /\ Counts' /\ Held' /\ Filling' /\ Accounted' /\ Consecutive'
    BY <1>1, <1>6, Undisturbed DEF flags, progress, client
  <2>2. Flags'
    BY <1>6, Parts DEF IInv, Flags, flags
  <2>3. Rest'
    BY <1>4, <1>6, Parts DEF IInv, Rest, range, progress, client
  <2>4. Known' /\ EventsForHandler'
    BY <1>1, <1>4, <1>6 DEF IInv, Known, EventsForHandler, flags, progress, client
  <2>5. UNCHANGED Stream!vars
    BY <1>6 DEF Stream!vars, range, client
  <2> QED BY <2>1, <2>2, <2>3, <2>4, <2>5, Parts DEF IInv
<1> QED BY <1>2, <1>5, <1>6

(* Events go with the handler. *)
LEMMA SetHandlerOK == ASSUME IInv, set_handler PROVE IInv' /\ [Stream!Next]_(Stream!vars)
<1>1. user \in {"idle", "waiting"}
  BY DEF set_handler
<1>2. PICK h \in (Handlers \cup {NoHandler}) \ {handler} :
         handler' = h /\ events' = MovedEvents(h) /\ user' = IF h = NoHandler THEN "idle" ELSE user
  BY DEF set_handler
<1>3. UNCHANGED <<ring, flags, range, progress, client, request, seeks>>
  BY DEF set_handler
<1>4. /\ events \in [Handlers -> Nat] /\ \A g \in Handlers : events[g] # 0 => g = handler
      /\ handler \in Handlers \cup {NoHandler}
  BY DEF IInv, TypeOK, EventsForHandler
<1>5. events' \in [Handlers -> Nat] /\ \A g \in Handlers : events'[g] # 0 => g = handler'
  <2>1. CASE handler = NoHandler
    BY <1>2, <1>4, <2>1, HandlerAssumption DEF MovedEvents
  <2>2. CASE handler # NoHandler
    <3>1. events' = [g \in Handlers |-> CASE g = handler -> 0
                                         [] g = h       -> events[g] + events[handler]
                                         [] OTHER       -> events[g]]
      BY <1>2, <2>2 DEF MovedEvents
    <3>2. handler \in Handlers /\ \A g \in Handlers : events[g] \in Nat /\ events[g] + events[handler] \in Nat
      BY <1>4, <2>2
    <3>3. \A g \in Handlers : events'[g] = IF g = handler THEN 0
                                           ELSE IF g = h THEN events[g] + events[handler] ELSE events[g]
      BY <1>2, <3>1
    <3>4. \A g \in Handlers : events'[g] \in Nat
      BY <3>2, <3>3
    <3>5. events' \in [Handlers -> Nat]
      BY <3>1, <3>4
    <3> QED BY <1>2, <1>4, <3>3, <3>5
  <2> QED BY <2>1, <2>2
<1>6. RingOK' /\ Counts' /\ Held' /\ Filling' /\ Accounted' /\ Consecutive'
  BY <1>1, <1>3, Undisturbed DEF flags, progress, client
<1>7. Flags'
  BY <1>3, Parts DEF IInv, Flags, flags
<1>8. Rest'
  BY <1>1, <1>2, <1>3, <1>5, Parts DEF IInv, Rest, range, progress, client
<1>9. Known' /\ EventsForHandler'
  BY <1>1, <1>2, <1>3, <1>5 DEF IInv, Known, EventsForHandler, flags, progress, client
<1>10. UNCHANGED Stream!vars
  BY <1>3 DEF Stream!vars, range, client
<1> QED BY <1>6, <1>7, <1>8, <1>9, <1>10, Parts DEF IInv

(* seek() looks at error_ first: after an error there is no way back. *)
LEMMA SeekBeginOK == ASSUME IInv, SeekBegin PROVE IInv' /\ [Stream!Next]_(Stream!vars)
<1>1. /\ user \in {"idle", "waiting"} /\ seeks < MaxSeeks
      /\ UNCHANGED <<ring, flags, range, progress, holding, delivered, handler, events>>
  BY DEF SeekBegin
<1>2. RingOK' /\ Counts' /\ Held' /\ Filling' /\ Accounted' /\ Consecutive'
  BY <1>1, Undisturbed DEF flags, progress
<1>3. Flags'
  BY <1>1, Parts DEF IInv, Flags, flags
<1>4. UNCHANGED <<start_offset, size, delivered, error, thread, events, handler>>
      /\ status # "closed" /\ start_offset \in Nat
  BY <1>1, Parts DEF IInv, Known, Counts, range, flags, progress
<1>5. CASE error /\ status' = "error" /\ UNCHANGED <<user, request, seeks>>
  <2>1. Rest'
    BY <1>1, <1>5, Parts DEF IInv, Rest, range, progress
  <2>2. Known' /\ EventsForHandler'
    BY <1>1, <1>4, <1>5 DEF IInv, Known, EventsForHandler
  <2>3. [Stream!Next]_(Stream!vars)
    <3>1. CASE status = "error"
      BY <1>4, <1>5, <3>1 DEF Stream!vars
    <3>2. CASE status \in {"open", "eof"}
      BY <1>4, <1>5, <3>2 DEF Stream!Next, Stream!Fail
    <3> QED BY <1>4, <3>1, <3>2 DEF IInv, TypeOK
  <2> QED BY <1>2, <1>3, <2>1, <2>2, <2>3, Parts DEF IInv
<1>6. CASE /\ ~error /\ user' = "seek" /\ seeks' = seeks + 1 /\ UNCHANGED status
           /\ request' \in (Offsets \X MaxSizes) \cup {<<nosize, nosize>>}
  <2>1. Rest'
    <3>1. request' \in (Offsets \cup {nosize}) \X (MaxSizes \cup {nosize})
      BY <1>6
    <3>2. seeks' \in 0..MaxSeeks
      <4>1. seeks \in 0..MaxSeeks
        BY Parts DEF IInv, Rest
      <4> QED BY <1>1, <1>6, <4>1, FileAssumption
    <3> QED BY <1>1, <1>6, <3>1, <3>2, Parts DEF IInv, Rest, range, progress
  <2>2. Known' /\ EventsForHandler'
    BY <1>1, <1>4, <1>6 DEF IInv, Known, EventsForHandler
  <2>3. UNCHANGED Stream!vars
    BY <1>4, <1>6 DEF Stream!vars
  <2> QED BY <1>2, <1>3, <2>1, <2>2, <2>3, Parts DEF IInv
<1> QED BY <1>5, <1>6 DEF SeekBegin

(* The worker is told to quit. *)
LEMMA StopOK ==
    ASSUME IInv, SeekLocked \/ Close
    PROVE  IInv' /\ [Stream!Next]_(Stream!vars)
<1>1. /\ user \in {"seek", "idle", "waiting"}
      /\ user' \in {"idle", "seek join", "close join"} /\ (user' = "seek join" => user = "seek")
      /\ (quit' = quit /\ signalled' = signalled) \/ (quit' = TRUE /\ signalled' = TRUE)
      /\ UNCHANGED <<ring, processing, error, handler_waiting, called_read, range, progress,
                     client, handler, events, request, seeks>>
  BY DEF SeekLocked, Close, QuitWorker
<1>2. RingOK' /\ Counts' /\ Held' /\ Filling' /\ Accounted' /\ Consecutive'
  BY <1>1, Undisturbed DEF progress, client
<1>3. Flags'
  BY <1>1, Parts DEF IInv, Flags
<1>4. Rest'
  BY <1>1, Parts DEF IInv, Rest, range, progress, client
<1>5. Known' /\ EventsForHandler'
  BY <1>1 DEF IInv, Known, EventsForHandler, progress, client
<1>6. UNCHANGED Stream!vars
  BY <1>1 DEF Stream!vars, range, client
<1> QED BY <1>2, <1>3, <1>4, <1>5, <1>6, Parts DEF IInv

(* remove_reader_events leaves no event. *)
LEMMA RemoveEventsIs ==
    ASSUME IInv, RemoveEvents
    PROVE  events' \in [Handlers -> Nat] /\ \A h \in Handlers : events'[h] = 0
<1>1. events \in [Handlers -> Nat] /\ \A h \in Handlers : events[h] # 0 => h = handler
  BY DEF IInv, TypeOK, EventsForHandler
<1> QED BY <1>1 DEF RemoveEvents

(* The reader is closed: nothing is left of it. *)
LEMMA CloseJoinedOK == ASSUME IInv, CloseJoined PROVE IInv' /\ [Stream!Next]_(Stream!vars)
<1>1. /\ user = "close join" /\ thread' = "none" /\ ready_count' = 0 /\ RemoveEvents
      /\ user' = "closed" /\ status' = "closed" /\ holding' = << >>
      /\ UNCHANGED <<buffers, ready_pos, flags, range, remaining, file_pos, slot, delivered, handler, request, seeks>>
  BY DEF CloseJoined
<1>2. events' \in [Handlers -> Nat] /\ \A h \in Handlers : events'[h] = 0
  BY <1>1, RemoveEventsIs
<1>3. Flags'
  BY <1>1, Parts DEF IInv, Flags, flags
<1>4. RingOK' /\ Counts'
  <2>1. RingOK /\ Counts /\ 0 \in 0..BufferCount
    BY Parts, BufferAssumption DEF IInv
  <2> QED BY <1>1, <2>1 DEF RingOK, Counts, range
<1>5. Rest'
  <2>1. << >> \in Seq(Nat)
    OBVIOUS
  <2> QED BY <1>1, <1>2, <2>1, Parts DEF IInv, Rest, range
<1>6. Held' /\ Filling' /\ Accounted' /\ Consecutive' /\ Known' /\ EventsForHandler'
  BY <1>1, <1>2 DEF Held, Filling, Accounted, Consecutive, Known, EventsForHandler
<1>7. Stream!Close
  <2>1. status # "closed"
    BY <1>1 DEF IInv, Known
  <2> QED BY <1>1, <2>1 DEF Stream!Close, range
<1> QED BY <1>3, <1>4, <1>5, <1>6, <1>7, Parts DEF IInv, Stream!Next

(* seek() starts over, or the reader has failed for good. *)
LEMMA SeekJoinedOK == ASSUME IInv, SeekJoined PROVE IInv' /\ [Stream!Next]_(Stream!vars)
<1> DEFINE offset == IF request[1] = nosize THEN start_offset ELSE request[1]
           limit  == IF request[1] = nosize THEN max_size ELSE request[2]
<1>1. user = "seek join" /\ RemoveEvents /\ Restart
  BY DEF SeekJoined
<1>2. /\ ready_pos' = 0 /\ ready_count' = 0
      /\ processing' = FALSE /\ quit' = FALSE /\ handler_waiting' = FALSE /\ called_read' = FALSE
      /\ start_offset' = offset /\ max_size' = limit
      /\ holding' = << >> /\ user' = "idle"
      /\ UNCHANGED <<buffers, slot, signalled, handler, request, seeks>>
  BY <1>1 DEF Restart, ResetRing
<1>3. \/ /\ offset <= FileSize
         /\ size' = IF limit = nosize THEN FileSize - offset ELSE Min(limit, FileSize - offset)
         /\ remaining' = size' /\ file_pos' = offset
         /\ thread' = "loop"
         /\ delivered' = << >> /\ status' = "open"
         /\ UNCHANGED error
      \/ /\ error' = TRUE /\ thread' = "none" /\ status' = "error"
         /\ UNCHANGED <<size, remaining, file_pos, delivered>>
  BY <1>1 DEF Restart
<1>4. Flags /\ RingOK /\ Counts /\ Rest /\ BufferCount \in Nat \ {0} /\ FileSize \in Nat
  BY Parts, BufferAssumption, FileAssumption DEF IInv
<1>5. offset \in Nat /\ limit \in Nat \cup {nosize}
  BY <1>4, FileAssumption DEF Counts, Rest
<1> HIDE DEF offset, limit
<1>6. status \in {"open", "eof"}
  BY <1>1, <1>4 DEF IInv, Known, Rest
<1>7. events' \in [Handlers -> Nat] /\ \A h \in Handlers : events'[h] = 0
  BY <1>1, RemoveEventsIs
<1>8. Flags'
  BY <1>2, <1>3, <1>4 DEF Flags
<1>9. RingOK'
  BY <1>2, <1>4 DEF RingOK, Slots
<1>10. Rest'
  <2>1. << >> \in Seq(Nat)
    OBVIOUS
  <2>2. /\ thread' \in {"none", "loop"} /\ status' \in {"open", "error"}
        /\ delivered' \in Seq(Nat)
    BY <1>3, <1>4, <2>1 DEF Rest
  <2> QED BY <1>2, <1>4, <1>5, <1>7, <2>1, <2>2 DEF Rest
<1>11. Held' /\ Filling' /\ EventsForHandler'
  BY <1>2, <1>3, <1>7 DEF Held, Filling, EventsForHandler
<1>12. CASE thread' = "loop"
  <2>1. /\ offset <= FileSize
        /\ size' = IF limit = nosize THEN FileSize - offset ELSE Min(limit, FileSize - offset)
        /\ remaining' = size' /\ file_pos' = offset
        /\ delivered' = << >> /\ status' = "open" /\ UNCHANGED error
    BY <1>3, <1>12
  <2>2. size' \in Nat /\ offset + size' <= FileSize
    BY <1>4, <1>5, <2>1 DEF Min
  <2>3. Counts' /\ Accounted' /\ Known'
    BY <1>2, <1>5, <1>12, <2>1, <2>2 DEF Counts, Accounted, Known
  <2>4. Consecutive'
    <3>1. PICK q \in [0..BufferCount -> Nat] : q = [k \in 0..BufferCount |-> offset]
      BY <1>5
    <3>2. q[0] = offset /\ Len(<< >>) = 0
      BY <1>4, <3>1
    <3>3. Follows(q)'
      BY <1>2, <1>5, <2>1, <3>2 DEF Follows
    <3> QED BY <3>3 DEF Consecutive
  <2>5. Stream!Restart
    BY <1>2, <1>5, <1>6, <2>1, <2>2 DEF Stream!Restart
  <2> QED BY <1>8, <1>9, <1>10, <1>11, <2>3, <2>4, <2>5, Parts DEF IInv, Stream!Next
<1>13. CASE thread' # "loop"
  <2>1. /\ error' = TRUE /\ thread' = "none" /\ status' = "error"
        /\ UNCHANGED <<size, remaining, file_pos, delivered>>
    BY <1>3, <1>13
  <2>2. Counts' /\ Accounted' /\ Known' /\ Consecutive'
    BY <1>2, <1>4, <1>5, <2>1 DEF Counts, Accounted, Known, Consecutive
  <2>3. Stream!Fail
    BY <1>2, <1>5, <1>6, <2>1 DEF Stream!Fail
  <2> QED BY <1>8, <1>9, <1>10, <1>11, <2>2, <2>3, Parts DEF IInv, Stream!Next
<1> QED BY <1>12, <1>13

-------------------------------------------------------------------------------
(***************************************************************************)
(* The theorems                                                            *)
(***************************************************************************)

(* A reader that was just opened *)
LEMMA InitOK == Init => IInv /\ Stream!Init
<1> SUFFICES ASSUME Init PROVE IInv /\ Stream!Init
  OBVIOUS
<1>1. /\ BufferCount \in Nat \ {0} /\ FileSize \in Nat /\ MaxSeeks \in Nat
      /\ start_offset \in Nat /\ start_offset <= FileSize /\ max_size \in Nat \cup {nosize}
  BY BufferAssumption, FileAssumption DEF Init
<1>2. size \in Nat /\ start_offset + size <= FileSize
  BY <1>1 DEF Init, Min
<1>3. << >> \in Seq(Nat) /\ Len(<< >>) = 0
  OBVIOUS
<1>4. Flags /\ Counts
  BY <1>1, <1>2 DEF Init, Flags, Counts
<1>5. RingOK
  BY <1>1, <1>3 DEF Init, RingOK, Slots
<1>6. Rest
  BY <1>1, <1>3 DEF Init, Rest
<1>7. Held /\ Filling /\ Accounted /\ Known /\ EventsForHandler
  BY <1>1, <1>2 DEF Init, Held, Filling, Accounted, Known, EventsForHandler
<1>8. Consecutive
  <2>1. PICK q \in [0..BufferCount -> Nat] : q = [k \in 0..BufferCount |-> start_offset]
    BY <1>1
  <2>2. q[0] = start_offset
    BY <1>1, <2>1
  <2>3. Follows(q)
    BY <1>1, <1>3, <2>2 DEF Init, Follows
  <2> QED BY <2>3 DEF Consecutive
<1>9. Stream!Init
  BY <1>1, <1>2 DEF Init, Stream!Init
<1> QED BY <1>4, <1>5, <1>6, <1>7, <1>8, <1>9, Parts DEF IInv

(* Every step keeps the invariant and is a step of the stream, or none. *)
LEMMA NextOK == ASSUME IInv, [Next]_vars PROVE IInv' /\ [Stream!Next]_(Stream!vars)
<1>1. CASE UNCHANGED vars
  <2>1. IInv'
    <3>1. TypeOK'
      BY <1>1 DEF vars, ring, flags, range, progress, client, IInv, TypeOK
    <3>2. Held' /\ Filling' /\ Accounted' /\ Known' /\ EventsForHandler'
      BY <1>1 DEF vars, ring, flags, range, progress, client, IInv, Held, Filling, Accounted, Known, EventsForHandler
    <3>3. Consecutive'
      BY <1>1 DEF vars, ring, flags, range, progress, client, IInv, Consecutive, Follows
    <3> QED BY <3>1, <3>2, <3>3 DEF IInv
  <2>2. UNCHANGED Stream!vars
    BY <1>1 DEF vars, range, client, Stream!vars
  <2> QED BY <2>1, <2>2
<1>2. CASE Worker
  <2>1. UNCHANGED Stream!vars
    BY <1>2 DEF Worker, WorkerQuit, WorkerFull, WorkerWake, WorkerNext, WorkerRead, range, client, Stream!vars
  <2> QED BY <1>2, <2>1, WorkerMovesOK, WorkerNextOK, WorkerReadOK DEF Worker
<1>3. CASE User
  BY <1>3, ReadOK, ReadReadyOK, SetHandlerOK, SeekBeginOK, StopOK, SeekJoinedOK, CloseJoinedOK DEF User
<1> QED BY <1>1, <1>2, <1>3 DEF Next

(* The invariant holds throughout. *)
LEMMA ReaderInvariant == Spec => []IInv
<1>1. IInv /\ [Next]_vars => IInv'
  BY NextOK
<1> QED BY InitOK, <1>1, PTL DEF Spec

(* The ring keeps its bounds, and the buffer that read() has returned is   *)
(* not written to until the user gives it back, though the worker fills    *)
(* buffers without holding the mutex (reader.cpp, entry).                  *)
THEOREM HeldBufferIsIntact == Spec => []HoldingIntact
<1>1. IInv => HoldingIntact
  BY DEF IInv, Held, HoldingIntact
<1> QED BY <1>1, ReaderInvariant, PTL

(* The reader implements the stream reader_base promises: the blocks       *)
(* arrive in order, each once, never past the announced size, and after an *)
(* error nothing but the end (reader.cpp).                                 *)
THEOREM ReaderImplementsStream == Spec => ImplementsReadStream
<1>1. IInv /\ [Next]_vars => IInv' /\ [Stream!Next]_(Stream!vars)
  BY NextOK
<1>2. Spec => Stream!Init /\ [][Stream!Next]_(Stream!vars)
  BY InitOK, ReaderInvariant, <1>1, PTL DEF Spec
<1> QED BY <1>2 DEF ImplementsReadStream, Stream!Spec

(* Once close() has returned no read_ready_event of the reader is left in  *)
(* the event loop, for whichever handler (reader.cpp, close).              *)
THEOREM NoEventOutlivesReader == Spec => [](user = "closed" => \A h \in Handlers : events[h] = 0)
<1>1. IInv => (user = "closed" => \A h \in Handlers : events[h] = 0)
  BY DEF IInv, EventsForHandler
<1> QED BY <1>1, ReaderInvariant, PTL

===============================================================================
