------------------------------ MODULE FileReader ------------------------------
(***************************************************************************)
(* file_reader (src/engine/reader.cpp): a worker thread reads the file     *)
(* ahead into a ring of buffers; the operation that uses the reader takes  *)
(* them with read() and is told by a read_ready_event when it had to wait. *)
(*                                                                         *)
(* Everything between taking and giving up mtx_ is one step.  The worker   *)
(* gives it up while it waits on cond_ and while it reads from the file.   *)
(* The user of the reader runs in the event loop's thread; it blocks in    *)
(* seek() and close() until the worker has ended.                          *)
(*                                                                         *)
(* Bytes are counted in blocks; a block is represented by its position in  *)
(* the file.                                                               *)
(***************************************************************************)
EXTENDS Integers, Sequences

CONSTANTS
    BufferCount,    \* aio_base::buffer_count
    BufferSize,     \* blocks that fit a buffer
    FileSize,       \* blocks in the file
    Offsets,        \* arguments of seek() in use
    MaxSizes,       \* arguments max_size of seek(); nosize where there is none
    nosize,
    Handlers,       \* event handlers that use the reader
    NoHandler,      \* nullptr
    MaxSeeks        \* bound: calls of seek() after open()

ASSUME BufferAssumption == BufferCount \in Nat \ {0} /\ BufferSize \in Nat \ {0}
ASSUME FileAssumption ==
    /\ FileSize \in Nat /\ Offsets \subseteq Nat /\ MaxSizes \subseteq Nat \cup {nosize}
    /\ nosize \notin Nat /\ MaxSeeks \in Nat
ASSUME HandlerAssumption == NoHandler \notin Handlers

VARIABLES
    buffers, ready_pos, ready_count,    \* the ring; indices start at 0
    processing, quit, error, handler_waiting, handler,
    start_offset, max_size, size, called_read, remaining,
    signalled,      \* cond_ was signalled since the last wait
    file_pos,       \* position of file_
    thread,         \* the worker: "none", "loop" (about to take mtx_),
                    \* "cond", "io" (in file_.read) or "done"
    slot,           \* buffer the worker fills
    events,         \* read_ready_events in the event loop, by handler
    user,           \* what the user of the reader is doing
    holding,        \* blocks in the buffer the user got last
    delivered,      \* blocks the user has got since open() or seek()
    status,         \* how the stream stands for the user
    request,        \* arguments of the seek() under way
    seeks           \* calls of seek() so far

ring == <<buffers, ready_pos, ready_count>>
flags == <<processing, quit, error, handler_waiting, called_read, signalled>>
range == <<start_offset, max_size, size>>
progress == <<remaining, file_pos, thread, slot>>
client == <<holding, delivered, status>>
vars == <<ring, flags, range, progress, client, handler, events, user, request, seeks>>

Slots == 0..(BufferCount - 1)
Min(a, b) == IF a < b THEN a ELSE b
Bytes(from, n) == [i \in 1..n |-> from + i - 1]

TypeOK ==
    /\ buffers \in [Slots -> Seq(Nat)] /\ ready_pos \in Slots
    /\ ready_count \in 0..BufferCount /\ slot \in Slots
    /\ {processing, quit, error, handler_waiting, called_read, signalled} \subseteq BOOLEAN
    /\ handler \in Handlers \cup {NoHandler}
    /\ start_offset \in Nat /\ size \in Nat /\ remaining \in Nat /\ file_pos \in Nat
    /\ max_size \in Nat \cup {nosize}
    /\ thread \in {"none", "loop", "cond", "io", "done"}
    /\ events \in [Handlers -> Nat]
    /\ user \in {"idle", "waiting", "seek", "seek join", "close join", "closed"}
    /\ holding \in Seq(Nat) /\ delivered \in Seq(Nat)
    /\ status \in {"open", "eof", "error", "closed"}
    /\ request \in (Offsets \cup {nosize}) \X (MaxSizes \cup {nosize})
    /\ seeks \in 0..MaxSeeks

-------------------------------------------------------------------------------
(***************************************************************************)
(* The worker: file_reader::entry                                          *)
(***************************************************************************)

Full == ready_count >= BufferCount

(* Variant: the buffer in the user's hands is taken for free. *)
NextSlotInUse == (ready_pos + ready_count - (IF processing THEN 1 ELSE 0)) % BufferCount

NextSlot == (ready_pos + ready_count) % BufferCount

(* handler_waiting_ is answered with an event, if there is a handler. *)
NotifyHandler ==
    /\ handler_waiting' = FALSE
    /\ events' = IF handler_waiting /\ handler # NoHandler
                 THEN [events EXCEPT ![handler] = @ + 1] ELSE events

(* n blocks were read into buffer b; n < 0 is an error, n = 0 the end. *)
Completed(b, n) ==
    /\ \/ /\ n >= 0
          /\ buffers' = [buffers EXCEPT ![b] = Bytes(file_pos, n)]
          /\ ready_count' = ready_count + 1
          /\ remaining' = remaining - n
          /\ file_pos' = file_pos + n
          /\ UNCHANGED error
       \/ /\ n < 0
          /\ error' = TRUE
          /\ UNCHANGED <<buffers, ready_count, remaining, file_pos>>
    /\ NotifyHandler
    /\ thread' = IF n <= 0 THEN "done" ELSE "loop"

WorkerQuit ==
    /\ thread = "loop"
    /\ quit \/ error
    /\ thread' = "done"
    /\ UNCHANGED <<ring, flags, range, remaining, file_pos, slot, client, handler, events, user, request, seeks>>

WorkerFull ==
    /\ thread = "loop"
    /\ ~quit /\ ~error /\ Full
    /\ thread' = "cond"
    /\ UNCHANGED <<ring, flags, range, remaining, file_pos, slot, client, handler, events, user, request, seeks>>

WorkerWake ==
    /\ thread = "cond" /\ signalled
    /\ signalled' = FALSE
    /\ thread' = "loop"
    /\ UNCHANGED <<ring, processing, quit, error, handler_waiting, called_read, range,
                   remaining, file_pos, slot, client, handler, events, user, request, seeks>>

(* The next buffer is emptied; if there is anything left to read the mutex *)
(* is given up and the buffer's memory overwritten.                        *)
WorkerNext ==
    /\ thread = "loop"
    /\ ~quit /\ ~error /\ ~Full
    /\ slot' = NextSlot
    /\ \/ /\ remaining > 0
          /\ buffers' = [buffers EXCEPT ![slot'] = << >>]
          /\ thread' = "io"
          /\ UNCHANGED <<ready_count, error, remaining, file_pos, handler_waiting, events>>
       \/ /\ remaining = 0
          /\ Completed(slot', 0)
    /\ UNCHANGED <<ready_pos, processing, quit, called_read, signalled, range,
                   client, handler, user, request, seeks>>

(* file_.read returns: some blocks, nothing at the end of the file (which  *)
(* may have been truncated meanwhile) or an error.                         *)
WorkerRead ==
    /\ thread = "io"
    /\ \/ /\ quit
          /\ thread' = "done"
          /\ UNCHANGED <<buffers, ready_count, error, remaining, file_pos, handler_waiting, events>>
       \/ /\ ~quit
          /\ \E n \in -1..Min(Min(BufferSize, remaining), FileSize - file_pos) : Completed(slot, n)
    /\ UNCHANGED <<ready_pos, slot, processing, quit, called_read, signalled, range,
                   client, handler, user, request, seeks>>

Worker == WorkerQuit \/ WorkerFull \/ WorkerWake \/ WorkerNext \/ WorkerRead

-------------------------------------------------------------------------------
(***************************************************************************)
(* The user of the reader                                                  *)
(***************************************************************************)

(* reader_base::read, after the buffer in use was given back and `count`   *)
(* buffers are left, the first of them at `pos`                            *)
TakeBuffer(pos, count) ==
    \/ /\ count > 0
       /\ called_read' = TRUE /\ processing' = TRUE
       /\ user' = "idle"
       /\ holding' = buffers[pos]
       /\ delivered' = delivered \o buffers[pos]
       /\ status' = IF buffers[pos] = << >> THEN "eof" ELSE "open"
       /\ UNCHANGED handler_waiting
    \/ /\ count = 0
       /\ handler_waiting' = TRUE /\ processing' = FALSE
       /\ user' = "waiting"
       /\ holding' = << >>
       /\ UNCHANGED <<called_read, delivered, status>>

(* reader_base::read *)
read ==
    /\ \/ /\ error
          /\ status' = "error" /\ user' = "idle"
          /\ UNCHANGED <<ring, processing, handler_waiting, called_read, signalled, holding, delivered>>
       \/ /\ ~error /\ processing
          /\ ready_pos' = (ready_pos + 1) % BufferCount
          /\ ready_count' = ready_count - 1
          /\ signalled' = (signalled \/ ready_count = BufferCount)
          /\ TakeBuffer(ready_pos', ready_count')
          /\ UNCHANGED buffers
       \/ /\ ~error /\ ~processing
          /\ TakeBuffer(ready_pos, ready_count)
          /\ UNCHANGED <<ring, signalled>>
    /\ UNCHANGED <<quit, error, range, progress, handler, request, seeks>>

(* A user calls read() when it is done with its buffer, also on its own    *)
(* while it waits; after the end or an error it does not call it again.    *)
(* It has set itself as handler first.                                     *)
Read ==
    /\ user \in {"idle", "waiting"} /\ status = "open" /\ handler # NoHandler
    /\ read
    /\ UNCHANGED events

(* The event loop hands out a read_ready_event; a user that waits reads. *)
ReadReady ==
    /\ user \in {"idle", "waiting"}
    /\ \E h \in Handlers :
          /\ events[h] > 0
          /\ events' = [events EXCEPT ![h] = @ - 1]
          /\ \/ h = handler /\ user = "waiting" /\ read
             \/ ~(h = handler /\ user = "waiting")
                /\ UNCHANGED <<ring, flags, range, progress, client, handler, user, request, seeks>>

(* change_event_handler, or remove_reader_events if there is no new one *)
MovedEvents(h) ==
    IF handler = NoHandler THEN events
    ELSE [g \in Handlers |-> CASE g = handler -> 0
                               [] g = h       -> events[g] + events[handler]
                               [] OTHER       -> events[g]]

(* reader_base::set_handler: events for the old handler are moved to the   *)
(* new one or removed.  Without a handler the user has given up waiting.   *)
(* The worker sends to the new handler as soon as it is set, so that the   *)
(* filter over the event queue can be part of the step.                    *)
set_handler ==
    /\ user \in {"idle", "waiting"}
    /\ \E h \in (Handlers \cup {NoHandler}) \ {handler} :
          /\ handler' = h
          /\ events' = MovedEvents(h)
          /\ user' = IF h = NoHandler THEN "idle" ELSE user
    /\ UNCHANGED <<ring, flags, range, progress, client, request, seeks>>

(* remove_reader_events(handler_, this) *)
RemoveEvents == events' = [g \in Handlers |-> IF g = handler THEN 0 ELSE events[g]]

(* file_reader::seek, before it takes the mutex: error_ is looked at. *)
SeekBegin ==
    /\ user \in {"idle", "waiting"} /\ seeks < MaxSeeks
    /\ \/ error /\ status' = "error" /\ UNCHANGED <<user, request, seeks>>
       \/ /\ ~error
          /\ user' = "seek" /\ seeks' = seeks + 1
          /\ request' \in (Offsets \X MaxSizes) \cup {<<nosize, nosize>>}
          /\ UNCHANGED status
    /\ UNCHANGED <<ring, flags, range, progress, holding, delivered, handler, events>>

(* Does seek() have to start over?  A rewind has the offset nosize. *)
SeekChanges ==
    \/ thread = "none"
    \/ called_read
    \/ request[1] # nosize /\ request # <<start_offset, max_size>>

(* Variant: the buffers read before the seek stay in the ring. *)
ResetPos == ready_pos' = 0 /\ UNCHANGED ready_count

ResetRing == ready_pos' = 0 /\ ready_count' = 0

(* The rest of seek() once no worker runs: everything starts over, unless  *)
(* the file cannot be positioned or the worker cannot be spawned.          *)
Restart ==
    LET offset == IF request[1] = nosize THEN start_offset ELSE request[1]
        limit  == IF request[1] = nosize THEN max_size ELSE request[2]
    IN
    /\ ResetRing
    /\ processing' = FALSE /\ quit' = FALSE /\ handler_waiting' = FALSE /\ called_read' = FALSE
    /\ start_offset' = offset /\ max_size' = limit
    /\ holding' = << >>
    /\ user' = "idle"
    /\ \/ /\ offset <= FileSize
          /\ size' = IF limit = nosize THEN FileSize - offset ELSE Min(limit, FileSize - offset)
          /\ remaining' = size' /\ file_pos' = offset
          /\ thread' = "loop"
          /\ delivered' = << >> /\ status' = "open"
          /\ UNCHANGED error
       \/ /\ error' = TRUE
          /\ thread' = "none"
          /\ status' = "error"
          /\ UNCHANGED <<size, remaining, file_pos, delivered>>
    /\ UNCHANGED <<buffers, slot, signalled, handler, request, seeks>>

(* Variant: the worker is not woken. *)
QuitOnly == quit' = TRUE /\ UNCHANGED signalled

(* quit_ is set and cond_ signalled. *)
QuitWorker == quit' = TRUE /\ signalled' = TRUE

(* seek() under the mutex: a worker that runs is told to quit. *)
SeekLocked ==
    /\ user = "seek"
    /\ \/ /\ ~SeekChanges
          /\ user' = "idle"
          /\ UNCHANGED <<quit, signalled>>
       \/ /\ SeekChanges
          /\ QuitWorker
          /\ user' = "seek join"
    /\ UNCHANGED <<ring, processing, error, handler_waiting, called_read, range, progress,
                   client, handler, events, request, seeks>>

(* thread_.join() returns in seek(). *)
SeekJoined ==
    /\ user = "seek join" /\ thread \in {"none", "done"}
    /\ RemoveEvents
    /\ Restart

(* file_reader::close, also from the destructor *)
Close ==
    /\ user \in {"idle", "waiting"}
    /\ QuitWorker
    /\ user' = "close join"
    /\ UNCHANGED <<ring, processing, error, handler_waiting, called_read, range, progress,
                   client, handler, events, request, seeks>>

CloseJoined ==
    /\ user = "close join" /\ thread \in {"none", "done"}
    /\ thread' = "none"
    /\ ready_count' = 0
    /\ RemoveEvents
    /\ user' = "closed" /\ status' = "closed" /\ holding' = << >>
    /\ UNCHANGED <<buffers, ready_pos, flags, range, remaining, file_pos, slot, delivered, handler, request, seeks>>

User == Read \/ ReadReady \/ set_handler \/ SeekBegin \/ SeekLocked \/ SeekJoined \/ Close \/ CloseJoined

(* After open(): seek() has spawned the worker. *)
Init ==
    /\ buffers = [b \in Slots |-> << >>] /\ ready_pos = 0 /\ ready_count = 0
    /\ processing = FALSE /\ quit = FALSE /\ error = FALSE
    /\ handler_waiting = FALSE /\ called_read = FALSE /\ signalled = FALSE
    /\ handler \in Handlers \cup {NoHandler}
    /\ start_offset \in {o \in Offsets : o <= FileSize} /\ max_size \in MaxSizes
    /\ size = IF max_size = nosize THEN FileSize - start_offset
              ELSE Min(max_size, FileSize - start_offset)
    /\ remaining = size /\ file_pos = start_offset
    /\ thread = "loop" /\ slot = 0
    /\ events = [h \in Handlers |-> 0]
    /\ user = "idle" /\ holding = << >> /\ delivered = << >> /\ status = "open"
    /\ request = <<nosize, nosize>> /\ seeks = 0

Next == Worker \/ User

(* The worker runs, file_.read returns, the event loop hands out events    *)
(* and does not stop inside seek() or close().                             *)
Fairness ==
    /\ WF_vars(Worker)
    /\ WF_vars(ReadReady)
    /\ WF_vars(SeekLocked) /\ WF_vars(SeekJoined) /\ WF_vars(CloseJoined)

Spec == Init /\ [][Next]_vars /\ Fairness

-------------------------------------------------------------------------------
(***************************************************************************)
(* Properties                                                              *)
(***************************************************************************)

(* The ring keeps its bounds, and the buffer read() returned is not        *)
(* written to by the worker until the user gives it back.                  *)
HoldingIntact ==
    /\ TypeOK
    /\ processing /\ user # "closed" => ready_count > 0 /\ buffers[ready_pos] = holding

(* The blocks arrive in order, each once, as ReadStream says. *)
Stream == INSTANCE ReadStream WITH start <- start_offset
ImplementsReadStream == Stream!Spec

(* A user that waits does not wait forever, and seek() and close() return: *)
(* the worker can always be stopped.  No read_ready_event outlives the     *)
(* reader.                                                                 *)
WaitEnds ==
    /\ user = "waiting" ~> user # "waiting"
    /\ user \in {"seek join", "close join"} ~> user \in {"idle", "closed"}
    /\ [](user = "closed" => \A h \in Handlers : events[h] = 0)

===============================================================================
