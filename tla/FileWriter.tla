------------------------------ MODULE FileWriter ------------------------------
(***************************************************************************)
(* file_writer (src/engine/writer.cpp): the operation that writes a file   *)
(* fills buffers and hands them over with get_write_buffer(); a worker     *)
(* thread writes them to the file behind it.  When all buffers are in the  *)
(* ring, and in finalize() until the ring is empty, the operation waits    *)
(* for a write_ready_event.                                                *)
(*                                                                         *)
(* Everything between taking and giving up mtx_ is one step.  The worker   *)
(* gives it up while it waits on cond_ and while it writes to the file.    *)
(*                                                                         *)
(* Data is counted in blocks; a block is represented by its number in the  *)
(* order of writing.  Block 1 goes to the offset the writer was opened at. *)
(***************************************************************************)
EXTENDS Integers, Sequences

CONSTANTS
    BufferCount,    \* aio_base::buffer_count
    BufferSize,     \* blocks that fit a buffer
    MaxBlocks,      \* bound: blocks a user writes
    Handlers,       \* event handlers that use the writer
    NoHandler       \* nullptr

ASSUME WriterAssumption ==
    /\ BufferCount \in Nat \ {0} /\ BufferSize \in Nat \ {0} /\ MaxBlocks \in Nat
    /\ NoHandler \notin Handlers

VARIABLES
    buffers, ready_pos, ready_count,    \* the ring; indices start at 0
    processing, quit, error, finalized, handler_waiting, handler,
    fsync, from_beginning, preallocated,
    signalled,      \* cond_ was signalled since the last wait
    file,           \* blocks written to the file at its position
    excess,         \* space from preallocation: "none", "ahead" of the file's
                    \* position, or "behind" it if the position was lost
    disk,           \* "file" or, once deleted, "nothing"
    thread,         \* the worker: "loop" (about to take mtx_), "cond",
                    \* "io" (in file_.write) or "done"
    events,         \* write_ready_events in the event loop, by handler
    user,           \* what the user of the writer is doing
    given,          \* slot of the buffer in the user's hands
    accepted,       \* number of blocks handed over
    status          \* how the stream stands for the user

ring == <<buffers, ready_pos, ready_count>>
options == <<fsync, from_beginning>>
target == <<file, excess, disk, preallocated>>
vars == <<ring, processing, quit, error, finalized, handler_waiting, handler, options,
          target, signalled, thread, events, user, given, accepted, status>>

Slots == 0..(BufferCount - 1)
Min(a, b) == IF a < b THEN a ELSE b

TypeOK ==
    /\ buffers \in [Slots -> Seq(1..MaxBlocks)] /\ ready_pos \in Slots
    /\ ready_count \in 0..BufferCount /\ given \in Slots
    /\ {processing, quit, error, finalized, handler_waiting, signalled, fsync,
        from_beginning, preallocated} \subseteq BOOLEAN
    /\ excess \in {"none", "ahead", "behind"}
    /\ handler \in Handlers \cup {NoHandler}
    /\ file \in Seq(1..MaxBlocks) /\ disk \in {"file", "nothing"}
    /\ thread \in {"loop", "cond", "io", "done"}
    /\ events \in [Handlers -> Nat]
    /\ user \in {"idle", "waiting", "finalizing", "close join", "closed"}
    /\ accepted \in 0..MaxBlocks
    /\ status \in {"open", "finalized", "error", "closed"}

(***************************************************************************)
(* The worker: file_writer::entry                                          *)
(***************************************************************************)

(* handler_waiting_ is answered with an event, if there is a handler. *)
NotifyHandler ==
    /\ handler_waiting' = FALSE
    /\ events' = IF handler_waiting /\ handler # NoHandler
                 THEN [events EXCEPT ![handler] = @ + 1] ELSE events

WorkerQuit ==
    /\ thread = "loop"
    /\ quit \/ error
    /\ thread' = "done"
    /\ UNCHANGED <<ring, processing, quit, error, finalized, handler_waiting, handler, options,
                   target, signalled, events, user, given, accepted, status>>

(* Nothing to write.  Nobody waits for an empty ring to become emptier, so *)
(* that the worker never ends here (see WaitingHasWork).                   *)
WorkerEmpty ==
    /\ thread = "loop" /\ ~quit /\ ~error
    /\ ready_count = 0
    /\ thread' = IF handler_waiting THEN "done" ELSE "cond"
    /\ NotifyHandler
    /\ UNCHANGED <<ring, processing, quit, error, finalized, handler, options,
                   target, signalled, user, given, accepted, status>>

WorkerWake ==
    /\ thread = "cond" /\ signalled
    /\ signalled' = FALSE
    /\ thread' = "loop"
    /\ UNCHANGED <<ring, processing, quit, error, finalized, handler_waiting, handler, options,
                   target, events, user, given, accepted, status>>

WorkerNext ==
    /\ thread = "loop" /\ ~quit /\ ~error
    /\ ready_count > 0
    /\ thread' = "io"
    /\ UNCHANGED <<ring, processing, quit, error, finalized, handler_waiting, handler, options,
                   target, signalled, events, user, given, accepted, status>>

(* The buffer leaves the ring. *)
Retired(left) ==
    /\ ready_pos' = (ready_pos + 1) % BufferCount
    /\ ready_count' = ready_count - 1
    /\ buffers' = [buffers EXCEPT ![ready_pos] = left]
    /\ NotifyHandler
    /\ thread' = "loop"

(* b.consume(): with blocks left the worker goes on with the same buffer,  *)
(* otherwise the buffer leaves the ring.                                   *)
Consumed(left) ==
    \/ /\ left # << >>
       /\ buffers' = [buffers EXCEPT ![ready_pos] = left]
       /\ UNCHANGED <<ready_pos, ready_count, handler_waiting, events, thread>>
    \/ /\ left = << >>
       /\ Retired(left)

(* file_.write returns: it has written the first blocks of the buffer, or  *)
(* has failed.  After an error the buffer leaves the ring unwritten.       *)
WorkerWrite ==
    LET b == buffers[ready_pos] IN
    /\ thread = "io"
    /\ \/ /\ quit
          /\ \E n \in 0..Len(b) : file' = file \o SubSeq(b, 1, n)
          /\ thread' = "done"
          /\ UNCHANGED <<ring, error, handler_waiting, events>>
       \/ /\ ~quit
          /\ \E n \in 1..Len(b) :
                /\ file' = file \o SubSeq(b, 1, n)
                /\ Consumed(SubSeq(b, n + 1, Len(b)))
          /\ UNCHANGED error
       \/ /\ ~quit
          /\ error' = TRUE
          /\ Retired(b)
          /\ UNCHANGED file
    /\ UNCHANGED <<processing, quit, finalized, handler, options, excess, disk, preallocated,
                   signalled, user, given, accepted, status>>

Worker == WorkerQuit \/ WorkerEmpty \/ WorkerWake \/ WorkerNext \/ WorkerWrite

(***************************************************************************)
(* The user of the writer                                                  *)
(***************************************************************************)

NextSlot == (ready_pos + ready_count) % BufferCount

(* Variant: the worker is woken once the ring is full. *)
SignalFull == signalled' = (signalled \/ ready_count' = BufferCount)

(* signal_capacity, if the ring was empty *)
SignalFilled == signalled' = (signalled \/ ready_count = 0)

(* The buffer in the user's hands enters the ring with n > 0 new blocks.   *)
Enqueue(n) ==
    /\ buffers' = [buffers EXCEPT ![NextSlot] = [i \in 1..n |-> accepted + i]]
    /\ accepted' = accepted + n
    /\ ready_count' = ready_count + 1
    /\ SignalFilled
    /\ UNCHANGED ready_pos

(* Blocks the user may have put into its buffer *)
Fillings == IF processing THEN 0..Min(BufferSize, MaxBlocks - accepted) ELSE {0}

Full(count) == count >= BufferCount

(* writer_base::get_write_buffer with n blocks in the last buffer          *)
get_write_buffer(n) ==
    /\ \/ /\ error
          /\ status' = "error" /\ user' = "idle"
          /\ UNCHANGED <<ring, accepted, signalled, processing, handler_waiting, given>>
       \/ /\ ~error
          /\ \/ n > 0 /\ Enqueue(n)
             \/ n = 0 /\ UNCHANGED <<ring, accepted, signalled>>
          /\ \/ /\ Full(ready_count')
                /\ handler_waiting' = TRUE /\ processing' = FALSE
                /\ user' = "waiting"
                /\ UNCHANGED given
             \/ /\ ~Full(ready_count')
                /\ processing' = TRUE
                /\ given' = (ready_pos + ready_count') % BufferCount
                /\ user' = "idle"
                /\ UNCHANGED handler_waiting
          /\ UNCHANGED status
    /\ UNCHANGED <<quit, error, finalized, handler, options, target, thread>>

(* writer_base::retire: the last buffer is handed over, none is asked for  *)
retire(n) ==
    /\ \/ /\ error
          /\ status' = "error"
          /\ UNCHANGED <<ring, accepted, signalled, processing>>
       \/ /\ ~error
          /\ processing' = FALSE
          /\ \/ n > 0 /\ Enqueue(n)
             \/ n = 0 /\ UNCHANGED <<ring, accepted, signalled>>
          /\ UNCHANGED status
    /\ UNCHANGED <<quit, error, finalized, handler_waiting, handler, options, target, thread,
                   given, user>>

(* Variant: finalize does not wait for the worker. *)
DrainedEnough(count) == count <= 1

(* Has everything handed over left the ring? *)
Drained(count) == count = 0

(* writer_base::finalize with n blocks in the last buffer, and             *)
(* file_writer::continue_finalize, in which fsync can fail                 *)
finalize(n) ==
    /\ \/ /\ error
          /\ status' = "error" /\ user' = "idle"
          /\ UNCHANGED <<ring, accepted, signalled, processing, handler_waiting, error, finalized>>
       \/ /\ ~error
          /\ \/ n > 0 /\ Enqueue(n) /\ processing' = FALSE
             \/ n = 0 /\ UNCHANGED <<ring, accepted, signalled, processing>>
          /\ \/ /\ ~Drained(ready_count')
                /\ handler_waiting' = TRUE
                /\ user' = "finalizing"
                /\ UNCHANGED <<error, finalized, status>>
             \/ /\ Drained(ready_count')
                /\ finalized' = TRUE /\ status' = "finalized" /\ user' = "idle"
                /\ UNCHANGED <<handler_waiting, error>>
             \/ /\ Drained(ready_count') /\ fsync
                /\ error' = TRUE /\ status' = "error" /\ user' = "idle"
                /\ UNCHANGED <<handler_waiting, finalized>>
    /\ UNCHANGED <<quit, handler, options, target, thread, given>>

(* The user calls get_write_buffer() when its buffer is full enough, also  *)
(* again while it waits, and has set itself as handler first.              *)
GetWriteBuffer ==
    /\ user \in {"idle", "waiting"} /\ status = "open" /\ handler # NoHandler
    /\ \E n \in Fillings : get_write_buffer(n)
    /\ UNCHANGED events

Retire ==
    /\ user = "idle" /\ status = "open" /\ processing
    /\ \E n \in Fillings : retire(n)
    /\ UNCHANGED events

(* At the end of the data, also while waiting for a buffer *)
Finalize ==
    /\ user \in {"idle", "waiting", "finalizing"} /\ status = "open" /\ handler # NoHandler
    /\ \E n \in Fillings : finalize(n)
    /\ UNCHANGED events

(* The event loop hands out a write_ready_event; a user that waits repeats *)
(* the call that made it wait.                                             *)
WriteReady ==
    /\ user \in {"idle", "waiting", "finalizing"}
    /\ \E h \in Handlers :
          /\ events[h] > 0
          /\ events' = [events EXCEPT ![h] = @ - 1]
          /\ \/ h = handler /\ user = "waiting" /\ get_write_buffer(0)
             \/ h = handler /\ user = "finalizing" /\ finalize(0)
             \/ /\ h # handler \/ user = "idle"
                /\ UNCHANGED <<ring, processing, quit, error, finalized, handler_waiting, handler,
                               options, target, signalled, thread, user, given, accepted, status>>

(* change_event_handler, or remove_writer_events if there is no new one *)
MovedEvents(h) ==
    IF handler = NoHandler THEN events
    ELSE [g \in Handlers |-> CASE g = handler -> 0
                               [] g = h       -> events[g] + events[handler]
                               [] OTHER       -> events[g]]

(* writer_base::set_handler.  A user that withdraws gives up waiting. *)
set_handler ==
    /\ user \in {"idle", "waiting", "finalizing"}
    /\ \E h \in (Handlers \cup {NoHandler}) \ {handler} :
          /\ handler' = h
          /\ events' = MovedEvents(h)
          /\ user' = IF h = NoHandler THEN "idle" ELSE user
    /\ UNCHANGED <<ring, processing, quit, error, finalized, handler_waiting, options, target,
                   signalled, thread, given, accepted, status>>

(* file_writer::preallocate, which the operations call right after open(), *)
(* before there is anything to write: the file grows behind its position   *)
(* unless truncate() fails; if the position cannot be restored the writer  *)
(* is in error.                                                            *)
preallocate ==
    /\ user = "idle" /\ status = "open" /\ accepted = 0 /\ ~preallocated
    /\ ~error
    /\ \/ /\ excess' \in {"none", "ahead"}
          /\ preallocated' = TRUE
          /\ UNCHANGED <<error, status>>
       \/ /\ excess' \in {"none", "behind"}
          /\ error' = TRUE /\ status' = "error"
          /\ UNCHANGED preallocated
    /\ UNCHANGED <<ring, processing, quit, finalized, handler_waiting, handler, options, file, disk,
                   signalled, thread, events, user, given, accepted>>

(* quit_ is set and cond_ signalled. *)
QuitWorker == quit' = TRUE /\ signalled' = TRUE

(* file_writer::close, also from the destructor: the worker is told to     *)
(* quit and joined.                                                        *)
Close ==
    /\ user \in {"idle", "waiting", "finalizing"}
    /\ QuitWorker
    /\ user' = "close join"
    /\ UNCHANGED <<ring, processing, error, finalized, handler_waiting, handler, options, target,
                   thread, events, given, accepted, status>>

(* Variant: only a file that was never finished is cut to its length. *)
CutUnfinished == IF preallocated /\ ~finalized THEN excess' = "none" ELSE UNCHANGED excess

(* if (preallocated_) file_.truncate() *)
CutToLength == IF preallocated THEN excess' = "none" ELSE UNCHANGED excess

(* A freshly created file to which nothing has been written *)
Worthless == from_beginning /\ file = << >> /\ excess # "behind" /\ ~finalized

(* remove_writer_events(handler_, this) *)
RemoveEvents == events' = [g \in Handlers |-> IF g = handler THEN 0 ELSE events[g]]

CloseJoined ==
    /\ user = "close join" /\ thread = "done"
    /\ ready_count' = 0
    /\ RemoveEvents
    /\ \/ Worthless /\ disk' = "nothing" /\ UNCHANGED excess
       \/ ~Worthless /\ CutToLength /\ UNCHANGED disk
    /\ user' = "closed" /\ status' = "closed"
    /\ UNCHANGED <<buffers, ready_pos, processing, quit, error, finalized, handler_waiting, handler,
                   options, file, preallocated, signalled, thread, given, accepted>>

User ==
    \/ GetWriteBuffer \/ Retire \/ Finalize \/ WriteReady \/ set_handler \/ preallocate
    \/ Close \/ CloseJoined

(* After file_writer::open: the worker has been spawned. *)
Init ==
    /\ buffers = [b \in Slots |-> << >>] /\ ready_pos = 0 /\ ready_count = 0
    /\ processing = FALSE /\ quit = FALSE /\ error = FALSE /\ finalized = FALSE
    /\ handler_waiting = FALSE /\ signalled = FALSE
    /\ handler \in Handlers \cup {NoHandler}
    /\ fsync \in BOOLEAN /\ from_beginning \in BOOLEAN
    /\ preallocated = FALSE /\ excess = "none" /\ disk = "file" /\ file = << >>
    /\ thread = "loop"
    /\ events = [h \in Handlers |-> 0]
    /\ user = "idle" /\ given = 0 /\ accepted = 0 /\ status = "open"

Next == Worker \/ User

(* The worker runs, file_.write returns, the event loop hands out events   *)
(* and close() does not stop half way.                                     *)
Fairness == WF_vars(Worker) /\ WF_vars(WriteReady) /\ WF_vars(CloseJoined)

Spec == Init /\ [][Next]_vars /\ Fairness

-------------------------------------------------------------------------------
(***************************************************************************)
(* Properties                                                              *)
(***************************************************************************)

(* close() leaves nothing that the user did not write: no space from       *)
(* preallocation and no freshly created empty file, unless it was to be    *)
(* empty.  If preallocate() could not restore the position of the file,    *)
(* its error is all the user gets.  The ring keeps its bounds.             *)
CleanEnd ==
    /\ TypeOK
    /\ user = "closed" /\ excess # "behind" =>
          \/ disk = "nothing" /\ file = << >> /\ ~finalized
          \/ disk = "file" /\ excess = "none" /\ (file # << >> \/ finalized \/ ~from_beginning)

(* The blocks arrive in order and finalize() tells the truth, as           *)
(* WriteStream says.                                                       *)
Stream == INSTANCE WriteStream WITH stored <- file
ImplementsWriteStream == Stream!Spec

(* A user that waits does not wait forever, and close() returns.  No       *)
(* write_ready_event outlives the writer.                                  *)
WaitEnds ==
    /\ user \in {"waiting", "finalizing"} ~> user \notin {"waiting", "finalizing"}
    /\ user = "close join" ~> user = "closed"
    /\ [](user = "closed" => \A h \in Handlers : events[h] = 0)

===============================================================================
