---------------------------- MODULE OpLockManager ----------------------------
(***************************************************************************)
(* OpLockManager (src/engine/oplock_manager.cpp): the locks that keep two  *)
(* connections to one server from listing, or creating, the same directory *)
(* at the same time.  One manager is shared by all engines of the process. *)
(*                                                                         *)
(* socket_locks_ is a vector of per-socket vectors of locks; an OpLock is  *)
(* a pair of indices into them, so an entry may only be erased from the    *)
(* end and an entry released in the middle stays behind, marked released   *)
(* (a lock) or without a control socket (a socket_lock_info).  Indices     *)
(* start at 1 here and at 0 in the code.                                   *)
(*                                                                         *)
(* A method runs under the manager's mutex and is one step.  The clients   *)
(* are the operations of the control sockets: they may take locks as long  *)
(* as none of theirs is waiting, and release any of them, in any order     *)
(* (more than the operations really do).                                   *)
(***************************************************************************)
EXTENDS ServerPath, FiniteSets

CONSTANTS
    Sockets,        \* addresses at which a CControlSocket may live
    NoSocket,       \* nullptr
    Servers,
    CurrentServer,  \* the server each control socket is connected to
    Reasons,        \* locking_reason
    Paths,          \* server paths: sequences of segments
    Inclusive,      \* values of the parameter `inclusive` in use
    MaxHandles,     \* bound: OpLocks that exist at a time
    MaxLength,      \* bound: entries of socket_locks_ and of locks_; the vectors
                    \* only shrink from the end, so as long as a later entry
                    \* is in use they grow without limit
    MaxWakeups      \* bound: no lock is requested while a socket has this
                    \* many CObtainLockEvents pending

ASSUME SocketsAssumption == NoSocket \notin Sockets
ASSUME ServerAssumption == CurrentServer \in [Sockets -> Servers]
ASSUME PathsAssumption == \A p \in Paths : Len(p) \in Nat
ASSUME InclusiveAssumption == Inclusive \subseteq BOOLEAN
ASSUME BoundsAssumption == MaxHandles \in Nat /\ MaxLength \in Nat /\ MaxWakeups \in Nat

VARIABLES
    socket_locks,   \* OpLockManager::socket_locks_
    handles,        \* the OpLocks with a manager that each socket's operations own
    wakeups,        \* CObtainLockEvents in the event loop for each socket
    alive           \* FALSE once the socket's destructor called remove_handler()

vars == <<socket_locks, handles, wakeups, alive>>

lock_info ==
    [path : Paths, reason : Reasons, inclusive : BOOLEAN,
     waiting : BOOLEAN, released : BOOLEAN]

socket_lock_info ==
    [control_socket : Sockets \cup {NoSocket}, server : Servers,
     locks : Seq(lock_info)]

TypeOK ==
    /\ socket_locks \in Seq(socket_lock_info)
    /\ handles \in [Sockets -> SUBSET (Nat \X Nat)]
    /\ wakeups \in [Sockets -> Nat]
    /\ alive \in [Sockets -> BOOLEAN]

-------------------------------------------------------------------------------
(***************************************************************************)
(* Helpers                                                                 *)
(***************************************************************************)

(* A lock that is taken: neither waiting nor released. *)
Held(lock) == ~lock.waiting /\ ~lock.released

(* Variant: an inclusive lock is only looked for on the lock in place. *)
OverlapOneSided(lock, other) ==
    /\ lock.reason = other.reason
    /\ \/ lock.path = other.path
       \/ lock.inclusive /\ IsParentOf(lock.path, other.path)

(* Two locks exclude each other: the same path, or an inclusive lock on a  *)
(* parent of the other's path.                                             *)
Overlap(lock, other) ==
    /\ lock.reason = other.reason
    /\ \/ lock.path = other.path
       \/ lock.inclusive /\ IsParentOf(lock.path, other.path)
       \/ other.inclusive /\ IsParentOf(other.path, lock.path)

(* The test Lock and ObtainWaiting share: `other` keeps `lock` from being  *)
(* taken.                                                                  *)
Blocks(other, lock) == Held(other) /\ Overlap(other, lock)

(* OpLockManager::ObtainWaiting(sli, lock), the test: some lock of another *)
(* entry blocks.  Unlike Lock it does not compare the servers.             *)
BlockedWaiting(sl, i, lock) ==
    \E j \in DOMAIN sl \ {i} : \E k \in DOMAIN sl[j].locks : Blocks(sl[j].locks[k], lock)

(* OpLockManager::get_or_create *)
Registered(s) == \E i \in DOMAIN socket_locks : socket_locks[i].control_socket = s

get_or_create(s) ==
    IF Registered(s) THEN socket_locks
    ELSE Append(socket_locks,
                [control_socket |-> s, server |-> CurrentServer[s], locks |-> << >>])

(* socket_locks_ with other locks in its i-th entry *)
WithLocks(sl, i, locks) == [sl EXCEPT ![i].locks = locks]

(* socket_locks_ with an i-th entry that is no longer in use *)
WithoutSocket(sl, i) == [WithLocks(sl, i, << >>) EXCEPT ![i].control_socket = NoSocket]

LockOf(h) == socket_locks[h[1]].locks[h[2]]

(* OpLockManager::Waiting(socket) *)
Waiting(s) ==
    \E i \in DOMAIN socket_locks :
        /\ socket_locks[i].control_socket = s
        /\ \E k \in DOMAIN socket_locks[i].locks : socket_locks[i].locks[k].waiting

(* Variant: only the first socket that waits is woken. *)
WakeupFirst(sl) ==
    LET waits(i) == \E k \in DOMAIN sl[i].locks : sl[i].locks[k].waiting
    IN  [s \in Sockets |->
            IF alive[s] /\ \E i \in DOMAIN sl : /\ sl[i].control_socket = s
                                                /\ waits(i)
                                                /\ \A j \in 1..(i - 1) : ~waits(j)
            THEN wakeups[s] + 1 ELSE wakeups[s]]

(* OpLockManager::Wakeup: one CObtainLockEvent to every socket with a      *)
(* waiting lock.  An event sent to a handler that has been removed from    *)
(* the event loop is dropped.                                              *)
Wakeup(sl) ==
    [s \in Sockets |->
        IF alive[s] /\ \E i \in DOMAIN sl : /\ sl[i].control_socket = s
                                            /\ \E k \in DOMAIN sl[i].locks : sl[i].locks[k].waiting
        THEN wakeups[s] + 1 ELSE wakeups[s]]

-------------------------------------------------------------------------------
(***************************************************************************)
(* Actions                                                                 *)
(***************************************************************************)

(* Is a new lock of the i-th entry blocked?  OpLockManager::Lock looks at  *)
(* the locks of the other sockets on the same server.                      *)
BlockedNew(sl, i, lock) ==
    \E j \in DOMAIN sl :
        /\ sl[j].control_socket # sl[i].control_socket
        /\ sl[j].server = sl[i].server
        /\ \E k \in DOMAIN sl[j].locks : Blocks(sl[j].locks[k], lock)

NewLock(reason, path, inclusive, waiting) ==
    [path |-> path, reason |-> reason, inclusive |-> inclusive,
     waiting |-> waiting, released |-> FALSE]

(* OpLockManager::Lock, called by an operation's Send() *)
Lock(s, reason, path, inclusive) ==
    /\ alive[s] /\ ~Waiting(s)
    /\ Cardinality(UNION {handles[t] : t \in Sockets}) < MaxHandles
    /\ \A t \in Sockets : wakeups[t] < MaxWakeups
    /\ \E i \in DOMAIN get_or_create(s) :
         LET sl      == get_or_create(s)
             blocked == BlockedNew(sl, i, NewLock(reason, path, inclusive, FALSE))
         IN  /\ sl[i].control_socket = s
             /\ Len(sl) <= MaxLength /\ Len(sl[i].locks) < MaxLength
             /\ socket_locks' =
                    WithLocks(sl, i, Append(sl[i].locks, NewLock(reason, path, inclusive, blocked)))
             /\ handles' =
                    [handles EXCEPT ![s] = @ \cup {<<i, Len(sl[i].locks) + 1>>}]
    /\ UNCHANGED <<wakeups, alive>>

(* The last entry of socket_locks_ lost its last lock: pop it and every    *)
(* entry before it that has no control socket.                             *)
PopSockets ==
    \E m \in 0..(Len(socket_locks) - 1) :
        /\ m > 0 => socket_locks[m].control_socket # NoSocket
        /\ \A j \in (m + 1)..(Len(socket_locks) - 1) :
               socket_locks[j].control_socket = NoSocket
        /\ socket_locks' = SubSeq(socket_locks, 1, m)

(* Variant: an entry without locks is erased wherever it is. *)
PopLocksErase(i) ==
    LET locks == socket_locks[i].locks
    IN  \E n \in 0..(Len(locks) - 1) :
            /\ n > 0 => ~locks[n].released
            /\ \A k \in (n + 1)..(Len(locks) - 1) : locks[k].released
            /\ socket_locks' =
                 IF n > 0 THEN WithLocks(socket_locks, i, SubSeq(locks, 1, n))
                 ELSE SubSeq(socket_locks, 1, i - 1) \o SubSeq(socket_locks, i + 1, Len(socket_locks))

(* The last lock of the i-th entry is released: pop it and every released  *)
(* lock before it; an entry without locks is popped or loses its socket.   *)
PopLocks(i) ==
    LET locks == socket_locks[i].locks
    IN  \E n \in 0..(Len(locks) - 1) :
            /\ n > 0 => ~locks[n].released
            /\ \A k \in (n + 1)..(Len(locks) - 1) : locks[k].released
            /\ \/ /\ n > 0
                  /\ socket_locks' = WithLocks(socket_locks, i, SubSeq(locks, 1, n))
               \/ /\ n = 0
                  /\ i < Len(socket_locks)
                  /\ socket_locks' = WithoutSocket(socket_locks, i)
               \/ /\ n = 0
                  /\ i = Len(socket_locks)
                  /\ PopSockets

(* Variant: the locks after it move up, as std::remove moves them. *)
MoveUp(i, k) ==
    LET locks == socket_locks[i].locks
    IN  socket_locks' = WithLocks(socket_locks, i,
                            [l \in DOMAIN locks |->
                                IF l < k \/ l = Len(locks) THEN locks[l] ELSE locks[l + 1]])

(* A lock before the last one is only marked. *)
MarkReleased(i, k) ==
    socket_locks' = WithLocks(socket_locks, i,
                        [socket_locks[i].locks EXCEPT
                            ![k] = [@ EXCEPT !.waiting = FALSE, !.released = TRUE]])

(* OpLockManager::Unlock, from the destructor of the OpLock *)
Unlock(s, h) ==
    /\ h \in handles[s]
    /\ \/ h[2] = Len(socket_locks[h[1]].locks) /\ PopLocks(h[1])
       \/ h[2] # Len(socket_locks[h[1]].locks) /\ MarkReleased(h[1], h[2])
    /\ handles' = [handles EXCEPT ![s] = @ \ {h}]
    /\ wakeups' = IF LockOf(h).waiting THEN wakeups ELSE Wakeup(socket_locks')
    /\ UNCHANGED alive

(* CControlSocket::OnObtainLock: OpLockManager::ObtainWaiting(socket) takes *)
(* every waiting lock of the socket that nothing blocks any more.           *)
OnObtainLock(s) ==
    /\ alive[s] /\ wakeups[s] > 0
    /\ wakeups' = [wakeups EXCEPT ![s] = @ - 1]
    /\ socket_locks' =
        [i \in DOMAIN socket_locks |->
            IF socket_locks[i].control_socket = s
            THEN [socket_locks[i] EXCEPT !.locks =
                    [k \in DOMAIN @ |->
                        IF BlockedWaiting(socket_locks, i, @[k]) THEN @[k]
                        ELSE [@[k] EXCEPT !.waiting = FALSE]]]
            ELSE socket_locks[i]]
    /\ UNCHANGED <<handles, alive>>

(* CControlSocket::~CControlSocket: remove_handler() drops the socket's    *)
(* events; DoClose() then destroys the operations, whose OpLocks unlock.   *)
Destroy(s) ==
    /\ alive[s]
    /\ alive' = [alive EXCEPT ![s] = FALSE]
    /\ wakeups' = [wakeups EXCEPT ![s] = 0]
    /\ UNCHANGED <<socket_locks, handles>>

(* A new control socket is allocated at the address of one that is gone. *)
Create(s) ==
    /\ ~alive[s] /\ handles[s] = {}
    /\ alive' = [alive EXCEPT ![s] = TRUE]
    /\ UNCHANGED <<socket_locks, handles, wakeups>>

Init ==
    /\ socket_locks = << >>
    /\ handles = [s \in Sockets |-> {}]
    /\ wakeups = [s \in Sockets |-> 0]
    /\ alive = [s \in Sockets |-> TRUE]

Next ==
    \E s \in Sockets :
        \/ \E r \in Reasons, p \in Paths, incl \in Inclusive : Lock(s, r, p, incl)
        \/ \E h \in handles[s] : Unlock(s, h)
        \/ OnObtainLock(s)
        \/ Destroy(s)
        \/ Create(s)

Spec == Init /\ [][Next]_vars

-------------------------------------------------------------------------------
(***************************************************************************)
(* Properties                                                              *)
(***************************************************************************)

(* Two sockets connected to one server never hold locks that exclude each  *)
(* other, whichever of Lock and ObtainWaiting gave them out.               *)
MutualExclusion ==
    \A i, j \in DOMAIN socket_locks :
        /\ i # j
        /\ socket_locks[i].server = socket_locks[j].server
        => \A k \in DOMAIN socket_locks[i].locks, m \in DOMAIN socket_locks[j].locks :
               ~ /\ Held(socket_locks[i].locks[k])
                 /\ Blocks(socket_locks[j].locks[m], socket_locks[i].locks[k])

(* No wakeup is lost: a lock that waits without being blocked belongs to a *)
(* socket with a CObtainLockEvent on its way (or to one that is being      *)
(* destroyed).                                                             *)
NoLostWakeup ==
    \A i \in DOMAIN socket_locks : \A k \in DOMAIN socket_locks[i].locks :
        socket_locks[i].locks[k].waiting
        => \/ BlockedWaiting(socket_locks, i, socket_locks[i].locks[k])
           \/ wakeups[socket_locks[i].control_socket] > 0
           \/ ~alive[socket_locks[i].control_socket]

(* The assertions of Unlock and Waiting: the indices an OpLock keeps stay  *)
(* inside the vectors, and lead to a lock of its own socket that has not   *)
(* been released.                                                          *)
HandlesValid ==
    \A s \in Sockets : \A h \in handles[s] :
        /\ h[1] \in DOMAIN socket_locks
        /\ socket_locks[h[1]].control_socket = s
        /\ h[2] \in DOMAIN socket_locks[h[1]].locks
        /\ ~socket_locks[h[1]].locks[h[2]].released

(* As long as an OpLock lives it denotes the same lock, although entries   *)
(* before and after it come and go and their indices are used again; and   *)
(* a lock that was obtained never waits again.                             *)
HandleStable ==
    [][\A s \in Sockets : \A h \in handles[s] \cap handles'[s] :
          /\ LockOf(h)'.path = LockOf(h).path
          /\ LockOf(h)'.reason = LockOf(h).reason
          /\ LockOf(h)'.waiting => LockOf(h).waiting]_vars

===============================================================================
