----------------------------- MODULE SharedProofs -----------------------------
(***************************************************************************)
(* Proofs about two objects that all engines share.                        *)
(*                                                                         *)
(* OpLockManager: for any number of sockets, servers, paths and locks.     *)
(*                                                                         *)
(* DirectoryCache: what the cache does not mark is true, for any tree,     *)
(* names, limits and number of commands.  In the second half of this       *)
(* module; see there.                                                      *)
(***************************************************************************)
EXTENDS OpLockManager, DirectoryCache, TLAPS

(***************************************************************************)
(* Types                                                                   *)
(***************************************************************************)

(* get_or_create returns a well-formed socket_locks_ that has an entry for *)
(* the socket and is otherwise unchanged.                                  *)
LEMMA GetOrCreate ==
    ASSUME TypeOK, NEW s \in Sockets
    PROVE  /\ get_or_create(s) \in Seq(socket_lock_info)
           /\ \A i \in DOMAIN socket_locks :
                  i \in DOMAIN get_or_create(s) /\ get_or_create(s)[i] = socket_locks[i]
           /\ \A i \in DOMAIN get_or_create(s) \ DOMAIN socket_locks :
                  /\ ~Registered(s)
                  /\ i = Len(socket_locks) + 1
                  /\ get_or_create(s)[i] = [control_socket |-> s, server |-> CurrentServer[s],
                                            locks |-> << >>]
<1> DEFINE new == [control_socket |-> s, server |-> CurrentServer[s], locks |-> << >>]
<1>1. new \in socket_lock_info
  BY ServerAssumption DEF socket_lock_info
<1>2. CASE Registered(s)
  BY <1>2 DEF get_or_create, TypeOK
<1>3. CASE ~Registered(s)
  <2> HIDE DEF new
  <2>1. get_or_create(s) = Append(socket_locks, new)
    BY <1>3 DEF get_or_create, new
  <2>2. /\ Append(socket_locks, new) \in Seq(socket_lock_info)
        /\ Len(Append(socket_locks, new)) = Len(socket_locks) + 1
        /\ \A i \in 1..Len(socket_locks) : Append(socket_locks, new)[i] = socket_locks[i]
        /\ Append(socket_locks, new)[Len(socket_locks) + 1] = new
    BY <1>1 DEF TypeOK
  <2>3. DOMAIN socket_locks = 1..Len(socket_locks) /\ Len(socket_locks) \in Nat
    BY DEF TypeOK
  <2>4. DOMAIN get_or_create(s) = 1..(Len(socket_locks) + 1)
    BY <2>1, <2>2
  <2> QED
    BY <1>3, <2>1, <2>2, <2>3, <2>4 DEF new
<1> QED
  BY <1>2, <1>3

(* Replacing the locks of one entry. *)
LEMMA ReplaceLocks ==
    ASSUME NEW sl \in Seq(socket_lock_info), NEW i \in DOMAIN sl, NEW locks \in Seq(lock_info)
    PROVE  LET t == WithLocks(sl, i, locks)
           IN  /\ t \in Seq(socket_lock_info)
               /\ Len(t) = Len(sl)
               /\ \A j \in DOMAIN sl \ {i} : t[j] = sl[j]
               /\ t[i].control_socket = sl[i].control_socket
               /\ t[i].server = sl[i].server
               /\ t[i].locks = locks
<1> DEFINE entry == [sl[i] EXCEPT !.locks = locks]
           t == WithLocks(sl, i, locks)
<1>1. sl[i] \in socket_lock_info
  OBVIOUS
<1>2. entry \in socket_lock_info
  BY <1>1 DEF socket_lock_info
<1>3. entry.control_socket = sl[i].control_socket
  BY <1>1 DEF socket_lock_info
<1>4. entry.server = sl[i].server
  BY <1>1 DEF socket_lock_info
<1>5. entry.locks = locks
  BY <1>1 DEF socket_lock_info
<1>6. t = [sl EXCEPT ![i] = entry]
  BY DEF WithLocks
<1> HIDE DEF entry, t
<1>7. /\ t \in Seq(socket_lock_info)
      /\ Len(t) = Len(sl)
      /\ \A j \in DOMAIN sl \ {i} : t[j] = sl[j]
      /\ t[i] = entry
  BY <1>2, <1>6
<1> QED
  BY <1>3, <1>4, <1>5, <1>7 DEF t

(* What Lock does to socket_locks_: one lock is appended to the entry of   *)
(* the socket in what get_or_create returned.                              *)
Appended(s, r, p, incl, i, new) ==
    LET sl == get_or_create(s)
    IN  /\ sl[i].control_socket = s
        /\ new = NewLock(r, p, incl, BlockedNew(sl, i, NewLock(r, p, incl, FALSE)))
        /\ socket_locks' \in Seq(socket_lock_info)
        /\ Len(socket_locks') = Len(sl)
        /\ \A j \in DOMAIN sl \ {i} : socket_locks'[j] = sl[j]
        /\ socket_locks'[i].control_socket = s
        /\ socket_locks'[i].server = sl[i].server
        /\ socket_locks'[i].locks = Append(sl[i].locks, new)
        /\ handles' = [handles EXCEPT ![s] = handles[s] \cup {<<i, Len(sl[i].locks) + 1>>}]

(* What Lock does to the locks, the OpLocks and the events. *)
LEMMA LockEffect ==
    ASSUME TypeOK, NEW s \in Sockets, NEW r \in Reasons, NEW p \in Paths,
           NEW incl \in Inclusive, Lock(s, r, p, incl)
    PROVE  \E i \in DOMAIN get_or_create(s), new \in lock_info : Appended(s, r, p, incl, i, new)
<1> DEFINE sl == get_or_create(s)
<1> DEFINE new(i) == NewLock(r, p, incl, BlockedNew(sl, i, NewLock(r, p, incl, FALSE)))
<1>1. PICK i \in DOMAIN sl :
        /\ sl[i].control_socket = s
        /\ socket_locks' = WithLocks(sl, i, Append(sl[i].locks, new(i)))
        /\ handles' = [handles EXCEPT ![s] = handles[s] \cup {<<i, Len(sl[i].locks) + 1>>}]
  BY DEF Lock
<1>2. sl \in Seq(socket_lock_info) /\ sl[i] \in socket_lock_info
  BY GetOrCreate
<1>3. BlockedNew(sl, i, NewLock(r, p, incl, FALSE)) \in BOOLEAN
  BY DEF BlockedNew
<1>4. new(i) \in lock_info
  BY <1>3, InclusiveAssumption DEF lock_info, NewLock
<1> HIDE DEF sl, new
<1>5. Append(sl[i].locks, new(i)) \in Seq(lock_info)
  BY <1>2, <1>4 DEF socket_lock_info
<1>6. /\ socket_locks' \in Seq(socket_lock_info)
      /\ Len(socket_locks') = Len(sl)
      /\ \A j \in DOMAIN sl \ {i} : socket_locks'[j] = sl[j]
      /\ socket_locks'[i].control_socket = sl[i].control_socket
      /\ socket_locks'[i].server = sl[i].server
      /\ socket_locks'[i].locks = Append(sl[i].locks, new(i))
  BY <1>1, <1>2, <1>5, ReplaceLocks
<1> QED
  BY <1>1, <1>4, <1>6 DEF sl, new, Appended

-------------------------------------------------------------------------------
(***************************************************************************)
(* The inductive invariant.  MutualExclusion alone is not inductive: it    *)
(* takes that a socket has one entry (a second one would hide its locks    *)
(* from nobody, but Lock compares sockets and ObtainWaiting indices), that *)
(* OpLocks lead to the locks they stand for, and that an entry whose       *)
(* socket is gone has no locks.                                            *)
(***************************************************************************)
OneEntryPerSocket ==
    \A i, j \in DOMAIN socket_locks :
        /\ socket_locks[i].control_socket = socket_locks[j].control_socket
        /\ socket_locks[i].control_socket # NoSocket
        => i = j

NoLocksWithoutSocket ==
    \A i \in DOMAIN socket_locks :
        socket_locks[i].control_socket = NoSocket => DOMAIN socket_locks[i].locks = {}

IInv == TypeOK /\ HandlesValid /\ OneEntryPerSocket /\ NoLocksWithoutSocket

(* Dropping the last entries of socket_locks_, or emptying one. *)
LEMMA PopSocketsEffect ==
    ASSUME TypeOK, socket_locks # << >>, PopSockets
    PROVE  /\ socket_locks' \in Seq(socket_lock_info)
           /\ Len(socket_locks') < Len(socket_locks)
           /\ \A j \in DOMAIN socket_locks' : socket_locks'[j] = socket_locks[j]
           /\ \A j \in DOMAIN socket_locks \ DOMAIN socket_locks' :
                  j = Len(socket_locks) \/ socket_locks[j].control_socket = NoSocket
<1>1. PICK m \in 0..(Len(socket_locks) - 1) :
        /\ \A j \in (m + 1)..(Len(socket_locks) - 1) : socket_locks[j].control_socket = NoSocket
        /\ socket_locks' = SubSeq(socket_locks, 1, m)
  BY DEF PopSockets
<1>2. /\ Len(socket_locks) \in Nat
      /\ DOMAIN socket_locks = 1..Len(socket_locks)
      /\ \A j \in 1..Len(socket_locks) : socket_locks[j] \in socket_lock_info
  BY DEF TypeOK
<1>3. /\ socket_locks' \in Seq(socket_lock_info)
      /\ Len(socket_locks') = m
      /\ DOMAIN socket_locks' = 1..m
      /\ \A j \in 1..m : socket_locks'[j] = socket_locks[j]
  BY <1>1, <1>2
<1> QED
  BY <1>1, <1>2, <1>3

(* What is left of the locks when a socket has been popped. *)
LEMMA WithoutSocketEffect ==
    ASSUME NEW sl \in Seq(socket_lock_info), NEW i \in DOMAIN sl
    PROVE  LET t == WithoutSocket(sl, i)
           IN  /\ t \in Seq(socket_lock_info)
               /\ Len(t) = Len(sl)
               /\ \A j \in DOMAIN sl \ {i} : t[j] = sl[j]
               /\ t[i].control_socket = NoSocket
               /\ t[i].server = sl[i].server
               /\ t[i].locks = << >>
<1> DEFINE none == << >>
           u == WithLocks(sl, i, none)
           entry == [u[i] EXCEPT !.control_socket = NoSocket]
           t == WithoutSocket(sl, i)
<1>0. none \in Seq(lock_info)
  OBVIOUS
<1> HIDE DEF none
<1>1. /\ u \in Seq(socket_lock_info)
      /\ Len(u) = Len(sl)
      /\ \A j \in DOMAIN sl \ {i} : u[j] = sl[j]
      /\ u[i].server = sl[i].server
      /\ u[i].locks = none
  BY <1>0, ReplaceLocks
<1> HIDE DEF u
<1>2. u[i] \in socket_lock_info /\ i \in DOMAIN u
  BY <1>1
<1>3. entry \in socket_lock_info
  BY <1>2 DEF socket_lock_info
<1>4. entry.control_socket = NoSocket
  BY <1>2 DEF socket_lock_info
<1>5. entry.server = u[i].server
  BY <1>2 DEF socket_lock_info
<1>6. entry.locks = u[i].locks
  BY <1>2 DEF socket_lock_info
<1>7. t = [u EXCEPT ![i] = entry]
  BY DEF WithoutSocket, u, none
<1> HIDE DEF entry, t
<1>8. /\ t \in Seq(socket_lock_info)
      /\ Len(t) = Len(u)
      /\ \A j \in DOMAIN u \ {i} : t[j] = u[j]
      /\ t[i] = entry
  BY <1>1, <1>2, <1>3, <1>7
<1> QED
  BY <1>1, <1>4, <1>5, <1>6, <1>8 DEF t, none

(* Marking a lock leaves it in its place, neither waiting nor taken. *)
LEMMA MarkReleasedEffect ==
    ASSUME TypeOK, NEW i \in DOMAIN socket_locks, NEW k \in DOMAIN socket_locks[i].locks,
           MarkReleased(i, k)
    PROVE  /\ socket_locks' \in Seq(socket_lock_info)
           /\ Len(socket_locks') = Len(socket_locks)
           /\ \A j \in DOMAIN socket_locks \ {i} : socket_locks'[j] = socket_locks[j]
           /\ socket_locks'[i].control_socket = socket_locks[i].control_socket
           /\ socket_locks'[i].server = socket_locks[i].server
           /\ Len(socket_locks'[i].locks) = Len(socket_locks[i].locks)
           /\ \A l \in DOMAIN socket_locks[i].locks \ {k} :
                  socket_locks'[i].locks[l] = socket_locks[i].locks[l]
           /\ socket_locks'[i].locks[k].released
           /\ ~socket_locks'[i].locks[k].waiting
<1> DEFINE old == socket_locks[i].locks
           lock == [old[k] EXCEPT !.waiting = FALSE, !.released = TRUE]
           locks == [old EXCEPT ![k] = lock]
<1>1. socket_locks \in Seq(socket_lock_info) /\ old \in Seq(lock_info) /\ old[k] \in lock_info
  <2>1. socket_locks \in Seq(socket_lock_info) /\ socket_locks[i] \in socket_lock_info
    BY DEF TypeOK
  <2>2. old \in Seq(lock_info)
    BY <2>1 DEF socket_lock_info
  <2> QED
    BY <2>1, <2>2
<1>2. lock \in lock_info
  BY <1>1 DEF lock_info
<1>3. lock.released /\ ~lock.waiting
  BY <1>1 DEF lock_info
<1>4. socket_locks' = WithLocks(socket_locks, i, locks)
  BY DEF MarkReleased
<1> HIDE DEF lock
<1>5. /\ locks \in Seq(lock_info)
      /\ Len(locks) = Len(old)
      /\ \A l \in DOMAIN old \ {k} : locks[l] = old[l]
      /\ locks[k] = lock
  BY <1>1, <1>2
<1> HIDE DEF locks
<1>6. /\ socket_locks' \in Seq(socket_lock_info)
      /\ Len(socket_locks') = Len(socket_locks)
      /\ \A j \in DOMAIN socket_locks \ {i} : socket_locks'[j] = socket_locks[j]
      /\ socket_locks'[i].control_socket = socket_locks[i].control_socket
      /\ socket_locks'[i].server = socket_locks[i].server
      /\ socket_locks'[i].locks = locks
  BY <1>1, <1>4, <1>5, ReplaceLocks
<1> QED
  BY <1>3, <1>5, <1>6

(* What Unlock leaves of socket_locks_: every lock but the one released is *)
(* either unchanged or was released before, and no entry moves.            *)
UnlockedFrom(h) ==
    /\ socket_locks' \in Seq(socket_lock_info)
    /\ \A j \in DOMAIN socket_locks' :
          /\ j \in DOMAIN socket_locks
          /\ socket_locks'[j].server = socket_locks[j].server
          /\ \/ socket_locks'[j].control_socket = socket_locks[j].control_socket
             \/ socket_locks'[j].control_socket = NoSocket /\ DOMAIN socket_locks'[j].locks = {}
          /\ \A k \in DOMAIN socket_locks'[j].locks :
                /\ k \in DOMAIN socket_locks[j].locks
                /\ \/ socket_locks'[j].locks[k] = socket_locks[j].locks[k] /\ <<j, k>> # h
                   \/ socket_locks'[j].locks[k].released /\ ~socket_locks'[j].locks[k].waiting
    /\ \A j \in DOMAIN socket_locks : \A k \in DOMAIN socket_locks[j].locks :
          <<j, k>> # h /\ ~socket_locks[j].locks[k].released
          => /\ j \in DOMAIN socket_locks'
             /\ k \in DOMAIN socket_locks'[j].locks
             /\ socket_locks'[j].control_socket = socket_locks[j].control_socket
             /\ socket_locks'[j].locks[k] = socket_locks[j].locks[k]

(* What Unlock does to the locks, the OpLocks and the events. *)
LEMMA UnlockEffect ==
    ASSUME IInv, NEW s \in Sockets, NEW h \in handles[s], Unlock(s, h)
    PROVE  UnlockedFrom(h)
<1> DEFINE i == h[1]
           locks == socket_locks[i].locks
<1>1. h \in Nat \X Nat /\ h = <<h[1], h[2]>>
  BY DEF IInv, TypeOK
<1>2. /\ i \in DOMAIN socket_locks
      /\ h[2] \in DOMAIN locks
      /\ socket_locks[i].control_socket = s
  BY DEF IInv, HandlesValid
<1>3. /\ socket_locks \in Seq(socket_lock_info)
      /\ DOMAIN socket_locks = 1..Len(socket_locks)
      /\ Len(socket_locks) \in Nat
      /\ \A j \in DOMAIN socket_locks : socket_locks[j] \in socket_lock_info
  BY DEF IInv, TypeOK
<1>4. \A j \in DOMAIN socket_locks :
        /\ socket_locks[j].locks \in Seq(lock_info)
        /\ DOMAIN socket_locks[j].locks = 1..Len(socket_locks[j].locks)
        /\ Len(socket_locks[j].locks) \in Nat
  BY <1>3 DEF socket_lock_info
<1>5. CASE h[2] # Len(locks) /\ MarkReleased(i, h[2])
  <2>1. /\ socket_locks' \in Seq(socket_lock_info)
        /\ Len(socket_locks') = Len(socket_locks)
        /\ \A j \in DOMAIN socket_locks \ {i} : socket_locks'[j] = socket_locks[j]
        /\ socket_locks'[i].control_socket = socket_locks[i].control_socket
        /\ socket_locks'[i].server = socket_locks[i].server
        /\ Len(socket_locks'[i].locks) = Len(socket_locks[i].locks)
        /\ \A l \in DOMAIN socket_locks[i].locks \ {h[2]} :
               socket_locks'[i].locks[l] = socket_locks[i].locks[l]
        /\ socket_locks'[i].locks[h[2]].released
        /\ ~socket_locks'[i].locks[h[2]].waiting
    BY <1>2, <1>5, MarkReleasedEffect DEF IInv
  <2>2. DOMAIN socket_locks' = DOMAIN socket_locks
    BY <1>3, <2>1
  <2>3. socket_locks'[i] \in socket_lock_info
    BY <1>2, <2>1, <2>2
  <2>4. DOMAIN socket_locks'[i].locks = DOMAIN socket_locks[i].locks
    BY <1>2, <1>4, <2>1, <2>3 DEF socket_lock_info
  <2> HIDE DEF i, locks
  <2> QED
    BY <1>1, <1>2, <2>1, <2>2, <2>4 DEF UnlockedFrom, i, locks
<1>6. CASE h[2] = Len(locks) /\ PopLocks(i)
  <2>1. PICK n \in 0..(Len(locks) - 1) :
          /\ \A k \in (n + 1)..(Len(locks) - 1) : locks[k].released
          /\ \/ n > 0 /\ socket_locks' = WithLocks(socket_locks, i, SubSeq(locks, 1, n))
             \/ n = 0 /\ i < Len(socket_locks) /\ socket_locks' = WithoutSocket(socket_locks, i)
             \/ n = 0 /\ i = Len(socket_locks) /\ PopSockets
    BY <1>6 DEF PopLocks
  <2>2. \A k \in DOMAIN locks : k > n => k = h[2] \/ locks[k].released
    BY <1>2, <1>4, <1>6, <2>1
  <2>3. CASE n > 0 /\ socket_locks' = WithLocks(socket_locks, i, SubSeq(locks, 1, n))
    <3> DEFINE rest == SubSeq(locks, 1, n)
    <3>1. /\ rest \in Seq(lock_info)
          /\ DOMAIN rest = 1..n
          /\ \A k \in 1..n : rest[k] = locks[k] /\ k \in DOMAIN locks /\ k # h[2]
      BY <1>2, <1>4, <1>6, <2>1
    <3>a. socket_locks' = WithLocks(socket_locks, i, rest)
      BY <2>3
    <3>b. rest \in Seq(lock_info) /\ i \in DOMAIN socket_locks
      BY <1>2, <3>1
    <3> HIDE DEF rest, i, locks
    <3>2. /\ socket_locks' \in Seq(socket_lock_info)
          /\ Len(socket_locks') = Len(socket_locks)
          /\ \A j \in DOMAIN socket_locks \ {i} : socket_locks'[j] = socket_locks[j]
          /\ socket_locks'[i].control_socket = socket_locks[i].control_socket
          /\ socket_locks'[i].server = socket_locks[i].server
          /\ socket_locks'[i].locks = rest
      BY <1>3, <3>a, <3>b, ReplaceLocks
    <3>3. DOMAIN socket_locks' = DOMAIN socket_locks
      BY <1>3, <3>2
    <3>4. \A k \in DOMAIN locks : <<i, k>> # h /\ ~locks[k].released => k \in 1..n
      BY <1>1, <1>2, <1>4, <2>2 DEF i, locks
    <3> SUFFICES ASSUME NEW j \in DOMAIN socket_locks
                 PROVE  /\ socket_locks'[j].server = socket_locks[j].server
                        /\ socket_locks'[j].control_socket = socket_locks[j].control_socket
                        /\ \A k \in DOMAIN socket_locks'[j].locks :
                              /\ k \in DOMAIN socket_locks[j].locks
                              /\ socket_locks'[j].locks[k] = socket_locks[j].locks[k]
                              /\ <<j, k>> # h
                        /\ \A k \in DOMAIN socket_locks[j].locks :
                              <<j, k>> # h /\ ~socket_locks[j].locks[k].released
                              => k \in DOMAIN socket_locks'[j].locks
      BY <3>2, <3>3 DEF UnlockedFrom
    <3>c. \A k : <<i, k>> = h <=> k = h[2]
      BY <1>1 DEF i
    <3>5. CASE j = i
      <4>1. \A k \in DOMAIN rest : k \in DOMAIN locks /\ rest[k] = locks[k] /\ <<i, k>> # h
        BY <3>1, <3>c
      <4>2. \A k \in DOMAIN locks : <<i, k>> # h /\ ~locks[k].released => k \in DOMAIN rest
        BY <3>1, <3>4
      <4> QED
        BY <3>2, <3>5, <4>1, <4>2 DEF locks
    <3>6. CASE j # i
      BY <1>1, <3>2, <3>6 DEF i
    <3> QED
      BY <3>5, <3>6
  <2>4. CASE n = 0 /\ socket_locks' = WithoutSocket(socket_locks, i)
    <3>1. /\ socket_locks' \in Seq(socket_lock_info)
          /\ Len(socket_locks') = Len(socket_locks)
          /\ \A j \in DOMAIN socket_locks \ {i} : socket_locks'[j] = socket_locks[j]
          /\ socket_locks'[i].control_socket = NoSocket
          /\ socket_locks'[i].server = socket_locks[i].server
          /\ socket_locks'[i].locks = << >>
      BY <1>2, <1>3, <2>4, WithoutSocketEffect
    <3>2. DOMAIN socket_locks' = DOMAIN socket_locks
      BY <1>3, <3>1
    <3>3. \A k \in DOMAIN locks : <<i, k>> = h \/ locks[k].released
      BY <1>1, <1>2, <1>4, <2>2, <2>4
    <3>4. DOMAIN socket_locks'[i].locks = {}
      BY <3>1
    <3>5. \A j \in DOMAIN socket_locks \ {i} : \A k : <<j, k>> # h
      BY <1>1
    <3> HIDE DEF i, locks
    <3> QED
      BY <1>2, <3>1, <3>2, <3>3, <3>4, <3>5 DEF UnlockedFrom, locks
  <2>5. CASE n = 0 /\ i = Len(socket_locks) /\ PopSockets
    <3>1. /\ socket_locks' \in Seq(socket_lock_info)
          /\ Len(socket_locks') < Len(socket_locks)
          /\ \A j \in DOMAIN socket_locks' : socket_locks'[j] = socket_locks[j]
          /\ \A j \in DOMAIN socket_locks \ DOMAIN socket_locks' :
                 j = Len(socket_locks) \/ socket_locks[j].control_socket = NoSocket
      BY <1>2, <1>3, <2>5, PopSocketsEffect DEF IInv
    <3>2. DOMAIN socket_locks' \subseteq DOMAIN socket_locks /\ i \notin DOMAIN socket_locks'
      BY <1>3, <2>5, <3>1
    <3>3. \A k \in DOMAIN locks : <<i, k>> = h \/ locks[k].released
      BY <1>1, <1>2, <1>4, <2>2, <2>5
    <3>4. \A j \in DOMAIN socket_locks : socket_locks[j].control_socket = NoSocket
             => DOMAIN socket_locks[j].locks = {}
      BY DEF IInv, NoLocksWithoutSocket
    <3> HIDE DEF i, locks
    <3> QED
      BY <1>1, <1>2, <2>5, <3>1, <3>2, <3>3, <3>4 DEF UnlockedFrom, i, locks
  <2> QED
    BY <2>1, <2>3, <2>4, <2>5
<1> QED
  BY <1>5, <1>6 DEF Unlock

(* OnObtainLock only clears the flag `waiting` of locks of the socket that *)
(* nothing blocks.                                                         *)
ObtainedBy(s) ==
    /\ socket_locks' \in Seq(socket_lock_info)
    /\ DOMAIN socket_locks' = DOMAIN socket_locks
    /\ \A i \in DOMAIN socket_locks :
          /\ socket_locks'[i].control_socket = socket_locks[i].control_socket
          /\ socket_locks'[i].server = socket_locks[i].server
          /\ DOMAIN socket_locks'[i].locks = DOMAIN socket_locks[i].locks
          /\ \A k \in DOMAIN socket_locks[i].locks :
                LET old == socket_locks[i].locks[k]
                    new == socket_locks'[i].locks[k]
                IN  \/ /\ new = old
                       /\ \/ socket_locks[i].control_socket # s
                          \/ BlockedWaiting(socket_locks, i, old)
                    \/ /\ socket_locks[i].control_socket = s
                       /\ ~BlockedWaiting(socket_locks, i, old)
                       /\ new.path = old.path /\ new.reason = old.reason
                       /\ new.inclusive = old.inclusive /\ new.released = old.released
                       /\ ~new.waiting

(* What a wake-up does to the lock that was waiting. *)
LEMMA OnObtainLockEffect ==
    ASSUME IInv, NEW s \in Sockets, OnObtainLock(s)
    PROVE  ObtainedBy(s)
<1> DEFINE Obtain(i, lock) ==
               IF BlockedWaiting(socket_locks, i, lock) THEN lock
               ELSE [lock EXCEPT !.waiting = FALSE]
           Locks(i) == [k \in DOMAIN socket_locks[i].locks |-> Obtain(i, socket_locks[i].locks[k])]
           Entry(i) == [socket_locks[i] EXCEPT !.locks = Locks(i)]
<1>1. socket_locks' = [i \in DOMAIN socket_locks |->
                          IF socket_locks[i].control_socket = s THEN Entry(i) ELSE socket_locks[i]]
  BY DEF OnObtainLock
<1>2. /\ socket_locks \in Seq(socket_lock_info)
      /\ DOMAIN socket_locks = 1..Len(socket_locks)
      /\ Len(socket_locks) \in Nat
      /\ \A i \in DOMAIN socket_locks : socket_locks[i] \in socket_lock_info
  BY DEF IInv, TypeOK
<1>3. \A i \in DOMAIN socket_locks :
        /\ socket_locks[i].locks \in Seq(lock_info)
        /\ DOMAIN socket_locks[i].locks = 1..Len(socket_locks[i].locks)
        /\ Len(socket_locks[i].locks) \in Nat
        /\ \A k \in DOMAIN socket_locks[i].locks : socket_locks[i].locks[k] \in lock_info
  BY <1>2 DEF socket_lock_info
<1>4. ASSUME NEW i, NEW lock \in lock_info
      PROVE  /\ Obtain(i, lock) \in lock_info
             /\ \/ Obtain(i, lock) = lock /\ BlockedWaiting(socket_locks, i, lock)
                \/ /\ ~BlockedWaiting(socket_locks, i, lock)
                   /\ Obtain(i, lock).path = lock.path /\ Obtain(i, lock).reason = lock.reason
                   /\ Obtain(i, lock).inclusive = lock.inclusive
                   /\ Obtain(i, lock).released = lock.released
                   /\ ~Obtain(i, lock).waiting
  <2>1. CASE BlockedWaiting(socket_locks, i, lock)
    BY <2>1
  <2>2. CASE ~BlockedWaiting(socket_locks, i, lock)
    <3>1. Obtain(i, lock) = [lock EXCEPT !.waiting = FALSE]
      BY <2>2
    <3>2. Obtain(i, lock) \in lock_info
      BY <3>1 DEF lock_info
    <3>3. Obtain(i, lock).path = lock.path /\ Obtain(i, lock).reason = lock.reason
      BY <3>1 DEF lock_info
    <3>4. Obtain(i, lock).inclusive = lock.inclusive
      BY <3>1 DEF lock_info
    <3>5. Obtain(i, lock).released = lock.released
      BY <3>1 DEF lock_info
    <3>6. ~Obtain(i, lock).waiting
      BY <3>1 DEF lock_info
    <3> HIDE DEF Obtain
    <3> QED
      BY <2>2, <3>2, <3>3, <3>4, <3>5, <3>6
  <2> QED
    BY <2>1, <2>2
<1> HIDE DEF Obtain
<1>5. ASSUME NEW i \in DOMAIN socket_locks
      PROVE  /\ Entry(i) \in socket_lock_info
             /\ Entry(i).control_socket = socket_locks[i].control_socket
             /\ Entry(i).server = socket_locks[i].server
             /\ Entry(i).locks = Locks(i)
  <2>1. Locks(i) \in Seq(lock_info)
    BY <1>3, <1>4
  <2>2. socket_locks[i] \in socket_lock_info
    BY <1>2
  <2> HIDE DEF Locks
  <2>3. Entry(i) \in socket_lock_info
    BY <2>1, <2>2 DEF socket_lock_info
  <2>4. Entry(i).control_socket = socket_locks[i].control_socket
    BY <2>2 DEF socket_lock_info
  <2>5. Entry(i).server = socket_locks[i].server
    BY <2>2 DEF socket_lock_info
  <2>6. Entry(i).locks = Locks(i)
    BY <2>2 DEF socket_lock_info
  <2> QED
    BY <2>3, <2>4, <2>5, <2>6
<1> HIDE DEF Entry
<1>6. socket_locks' \in Seq(socket_lock_info) /\ DOMAIN socket_locks' = DOMAIN socket_locks
  <2> DEFINE NewEntry(i) == IF socket_locks[i].control_socket = s THEN Entry(i) ELSE socket_locks[i]
  <2>1. \A i \in 1..Len(socket_locks) : NewEntry(i) \in socket_lock_info
    BY <1>2, <1>5
  <2>2. socket_locks' = [i \in 1..Len(socket_locks) |-> NewEntry(i)]
    BY <1>1, <1>2
  <2> HIDE DEF NewEntry
  <2> QED
    BY <1>2, <2>1, <2>2
<1>7. ASSUME NEW i \in DOMAIN socket_locks, socket_locks[i].control_socket = s
      PROVE  /\ DOMAIN socket_locks'[i].locks = DOMAIN socket_locks[i].locks
             /\ socket_locks'[i].control_socket = socket_locks[i].control_socket
             /\ socket_locks'[i].server = socket_locks[i].server
             /\ \A k \in DOMAIN socket_locks[i].locks :
                    socket_locks'[i].locks[k] = Obtain(i, socket_locks[i].locks[k])
  BY <1>1, <1>5, <1>7
<1>8. ASSUME NEW i \in DOMAIN socket_locks, socket_locks[i].control_socket # s
      PROVE  socket_locks'[i] = socket_locks[i]
  BY <1>1, <1>8
<1> HIDE DEF Locks
<1> QED
  BY <1>3, <1>4, <1>6, <1>7, <1>8 DEF ObtainedBy

-------------------------------------------------------------------------------
(***************************************************************************)
(* Every step preserves the inductive invariant.                           *)
(***************************************************************************)

(* The domains and the entries of a well-typed socket_locks_. *)
LEMMA Entries ==
    ASSUME NEW sl \in Seq(socket_lock_info)
    PROVE  /\ DOMAIN sl = 1..Len(sl) /\ Len(sl) \in Nat
           /\ \A i \in DOMAIN sl :
                 /\ sl[i] \in socket_lock_info
                 /\ sl[i].control_socket \in Sockets \cup {NoSocket}
                 /\ sl[i].locks \in Seq(lock_info)
                 /\ DOMAIN sl[i].locks = 1..Len(sl[i].locks)
                 /\ Len(sl[i].locks) \in Nat
                 /\ \A k \in DOMAIN sl[i].locks : sl[i].locks[k] \in lock_info
<1>1. /\ DOMAIN sl = 1..Len(sl) /\ Len(sl) \in Nat
      /\ \A i \in DOMAIN sl : sl[i] \in socket_lock_info
  OBVIOUS
<1>2. \A i \in DOMAIN sl : /\ sl[i].control_socket \in Sockets \cup {NoSocket}
                           /\ sl[i].locks \in Seq(lock_info)
  BY <1>1 DEF socket_lock_info
<1>3. \A q \in Seq(lock_info) : /\ DOMAIN q = 1..Len(q) /\ Len(q) \in Nat
                                 /\ \A k \in DOMAIN q : q[k] \in lock_info
  OBVIOUS
<1> QED
  BY <1>1, <1>2, <1>3

(* Lock as the proofs below use it: where the new lock is, and that all    *)
(* the others are where they were.                                         *)
LockedAt(s, i, n, new) ==
    /\ socket_locks' \in Seq(socket_lock_info)
    /\ i \in DOMAIN socket_locks' /\ n \in DOMAIN socket_locks'[i].locks
    /\ socket_locks'[i].control_socket = s
    /\ socket_locks'[i].locks[n] = new
    /\ i \in DOMAIN socket_locks \/ ~Registered(s)
    /\ DOMAIN socket_locks \subseteq DOMAIN socket_locks'
    /\ DOMAIN socket_locks' \subseteq DOMAIN socket_locks \cup {i}
    /\ \A j \in DOMAIN socket_locks :
          /\ socket_locks'[j].control_socket = socket_locks[j].control_socket
          /\ socket_locks'[j].server = socket_locks[j].server
          /\ j # i => socket_locks'[j] = socket_locks[j]
          /\ DOMAIN socket_locks[j].locks \subseteq DOMAIN socket_locks'[j].locks
          /\ \A k \in DOMAIN socket_locks[j].locks :
                /\ socket_locks'[j].locks[k] = socket_locks[j].locks[k]
                /\ <<j, k>> # <<i, n>>
    /\ \A j \in DOMAIN socket_locks' : \A k \in DOMAIN socket_locks'[j].locks :
          <<j, k>> = <<i, n>> \/ (j \in DOMAIN socket_locks /\ k \in DOMAIN socket_locks[j].locks)
    /\ handles' = [handles EXCEPT ![s] = handles[s] \cup {<<i, n>>}]
    /\ i \in Nat /\ n \in Nat

(* Lock keeps types and indices good. *)
LEMMA LockStep ==
    ASSUME IInv, NEW s \in Sockets, NEW r \in Reasons, NEW p \in Paths,
           NEW incl \in Inclusive, Lock(s, r, p, incl)
    PROVE  \E i \in DOMAIN get_or_create(s), n \in Nat, new \in lock_info :
               /\ LockedAt(s, i, n, new)
               /\ get_or_create(s)[i].control_socket = s
               /\ socket_locks'[i].server = get_or_create(s)[i].server
               /\ new = NewLock(r, p, incl,
                                BlockedNew(get_or_create(s), i, NewLock(r, p, incl, FALSE)))
<1> DEFINE sl == get_or_create(s)
<1>1. TypeOK
  BY DEF IInv
<1>a. PICK i \in DOMAIN sl, new \in lock_info : Appended(s, r, p, incl, i, new)
  BY <1>1, LockEffect
<1>2. /\ sl[i].control_socket = s
      /\ new = NewLock(r, p, incl, BlockedNew(sl, i, NewLock(r, p, incl, FALSE)))
      /\ socket_locks' \in Seq(socket_lock_info)
      /\ Len(socket_locks') = Len(sl)
      /\ \A j \in DOMAIN sl \ {i} : socket_locks'[j] = sl[j]
      /\ socket_locks'[i].control_socket = s
      /\ socket_locks'[i].server = sl[i].server
      /\ socket_locks'[i].locks = Append(sl[i].locks, new)
      /\ handles' = [handles EXCEPT ![s] = handles[s] \cup {<<i, Len(sl[i].locks) + 1>>}]
  BY <1>a DEF Appended
<1>3. /\ sl \in Seq(socket_lock_info)
      /\ \A j \in DOMAIN socket_locks : j \in DOMAIN sl /\ sl[j] = socket_locks[j]
      /\ \A j \in DOMAIN sl \ DOMAIN socket_locks :
            /\ ~Registered(s)
            /\ j = Len(socket_locks) + 1
            /\ sl[j] = [control_socket |-> s, server |-> CurrentServer[s], locks |-> << >>]
  BY <1>1, GetOrCreate
<1> HIDE DEF sl
<1> DEFINE n == Len(sl[i].locks) + 1
           old == sl[i].locks
<1>4. /\ old \in Seq(lock_info) /\ Len(old) \in Nat /\ DOMAIN old = 1..Len(old)
      /\ i \in Nat /\ n \in Nat
  BY <1>2, <1>3, Entries
<1>5. /\ DOMAIN Append(old, new) = 1..n
      /\ \A k \in 1..Len(old) : Append(old, new)[k] = old[k]
      /\ Append(old, new)[n] = new
  <2> HIDE DEF old
  <2>1. n = Len(old) + 1
    BY DEF old
  <2> HIDE DEF n
  <2> QED
    BY <1>4, <2>1
<1>6. DOMAIN socket_locks' = DOMAIN sl
  BY <1>2, <1>3, Entries
<1>7. \A j \in DOMAIN sl \ DOMAIN socket_locks : j = i
  <2> SUFFICES ASSUME NEW j \in DOMAIN sl \ DOMAIN socket_locks PROVE j = i
    OBVIOUS
  <2>1. ~Registered(s) /\ j = Len(socket_locks) + 1
    BY <1>3
  <2>2. i \notin DOMAIN socket_locks
    BY <1>2, <1>3, <2>1 DEF Registered
  <2> QED
    BY <1>3, <2>1, <2>2
<1>8. i \notin DOMAIN socket_locks => old = << >> /\ ~Registered(s)
  BY <1>2, <1>3
<1> DEFINE app == Append(old, new)
<1>9. app = Append(old, new) /\ socket_locks'[i].locks = app
  BY <1>2
<1> HIDE DEF old, n, app
<1>10. /\ \A j \in DOMAIN socket_locks \ {i} : socket_locks'[j] = socket_locks[j]
       /\ i \in DOMAIN socket_locks => socket_locks[i].locks = old /\ socket_locks[i] = sl[i]
  BY <1>2, <1>3 DEF old
<1>11. /\ DOMAIN app = 1..n
       /\ \A k \in DOMAIN old : app[k] = old[k] /\ k \in 1..n /\ k # n
       /\ \A k \in 1..n : k = n \/ k \in DOMAIN old
       /\ app[n] = new /\ n \in 1..n
  BY <1>4, <1>5, <1>9 DEF n, old
<1>12. LockedAt(s, i, n, new)
  <2>1. \A j \in DOMAIN socket_locks :
          /\ socket_locks'[j].control_socket = socket_locks[j].control_socket
          /\ socket_locks'[j].server = socket_locks[j].server
          /\ j # i => socket_locks'[j] = socket_locks[j]
          /\ DOMAIN socket_locks[j].locks \subseteq DOMAIN socket_locks'[j].locks
          /\ \A k \in DOMAIN socket_locks[j].locks :
                /\ socket_locks'[j].locks[k] = socket_locks[j].locks[k]
                /\ <<j, k>> # <<i, n>>
    BY <1>2, <1>9, <1>10, <1>11
  <2>2. \A j \in DOMAIN socket_locks' : \A k \in DOMAIN socket_locks'[j].locks :
          <<j, k>> = <<i, n>> \/ (j \in DOMAIN socket_locks /\ k \in DOMAIN socket_locks[j].locks)
    BY <1>6, <1>7, <1>8, <1>9, <1>10, <1>11
  <2>3. /\ DOMAIN socket_locks \subseteq DOMAIN socket_locks'
        /\ DOMAIN socket_locks' \subseteq DOMAIN socket_locks \cup {i}
        /\ i \in DOMAIN socket_locks \/ ~Registered(s)
        /\ handles' = [handles EXCEPT ![s] = handles[s] \cup {<<i, n>>}]
        /\ i \in DOMAIN socket_locks' /\ n \in DOMAIN socket_locks'[i].locks
    BY <1>2, <1>3, <1>6, <1>7, <1>8, <1>9, <1>11 DEF n, old
  <2> QED
    BY <1>2, <1>4, <1>9, <1>11, <2>1, <2>2, <2>3 DEF LockedAt
<1> QED
  BY <1>2, <1>4, <1>12 DEF sl

(* Lock preserves the invariant. *)
LEMMA LockInv ==
    ASSUME IInv, NEW s \in Sockets, NEW r \in Reasons, NEW p \in Paths,
           NEW incl \in Inclusive, Lock(s, r, p, incl)
    PROVE  IInv'
<1>1. PICK i \in DOMAIN get_or_create(s), n \in Nat, new \in lock_info :
        /\ LockedAt(s, i, n, new)
        /\ new = NewLock(r, p, incl, BlockedNew(get_or_create(s), i, NewLock(r, p, incl, FALSE)))
  BY LockStep
<1>2. ~new.released
  BY <1>1 DEF NewLock
<1> USE SocketsAssumption
<1>3. TypeOK'
  <2>1. handles' \in [Sockets -> SUBSET (Nat \X Nat)]
    BY <1>1 DEF LockedAt, IInv, TypeOK
  <2>2. wakeups' = wakeups /\ alive' = alive
    BY DEF Lock
  <2> QED
    BY <1>1, <2>1, <2>2 DEF LockedAt, IInv, TypeOK
<1>4. HandlesValid'
  <2> SUFFICES ASSUME NEW t \in Sockets, NEW h \in handles'[t]
               PROVE  /\ h[1] \in DOMAIN socket_locks'
                      /\ socket_locks'[h[1]].control_socket = t
                      /\ h[2] \in DOMAIN socket_locks'[h[1]].locks
                      /\ ~socket_locks'[h[1]].locks[h[2]].released
    BY DEF HandlesValid
  <2>1. CASE h \in handles[t]
    BY <1>1, <2>1 DEF LockedAt, IInv, HandlesValid
  <2>2. CASE t = s /\ h = <<i, n>>
    BY <1>1, <1>2, <2>2 DEF LockedAt
  <2>3. h \in handles[t] \/ (t = s /\ h = <<i, n>>)
    BY <1>1 DEF LockedAt, IInv, TypeOK
  <2> QED
    BY <2>1, <2>2, <2>3
<1>5. OneEntryPerSocket'
  BY <1>1 DEF LockedAt, IInv, OneEntryPerSocket, Registered
<1>6. NoLocksWithoutSocket'
  BY <1>1 DEF LockedAt, IInv, NoLocksWithoutSocket
<1> QED
  BY <1>3, <1>4, <1>5, <1>6 DEF IInv

(* Unlock preserves the invariant. *)
LEMMA UnlockInv ==
    ASSUME IInv, NEW s \in Sockets, NEW h \in handles[s], Unlock(s, h)
    PROVE  IInv'
<1>1. UnlockedFrom(h)
  BY UnlockEffect
<1>2. handles' = [handles EXCEPT ![s] = handles[s] \ {h}] /\ alive' = alive
  BY DEF Unlock
<1>3. TypeOK'
  <2>1. wakeups' \in [Sockets -> Nat]
    BY DEF Unlock, Wakeup, IInv, TypeOK
  <2> QED
    BY <1>1, <1>2, <2>1 DEF UnlockedFrom, IInv, TypeOK
<1>4. HandlesValid'
  <2> SUFFICES ASSUME NEW t \in Sockets, NEW g \in handles'[t]
               PROVE  /\ g[1] \in DOMAIN socket_locks'
                      /\ socket_locks'[g[1]].control_socket = t
                      /\ g[2] \in DOMAIN socket_locks'[g[1]].locks
                      /\ ~socket_locks'[g[1]].locks[g[2]].released
    BY DEF HandlesValid
  <2>1. g \in handles[t] /\ (t = s => g # h) /\ g = <<g[1], g[2]>>
    BY <1>2 DEF IInv, TypeOK
  <2>2. /\ g[1] \in DOMAIN socket_locks
        /\ socket_locks[g[1]].control_socket = t
        /\ g[2] \in DOMAIN socket_locks[g[1]].locks
        /\ ~socket_locks[g[1]].locks[g[2]].released
    BY <2>1 DEF IInv, HandlesValid
  <2>3. socket_locks[h[1]].control_socket = s
    BY DEF IInv, HandlesValid
  <2>4. g # h
    BY <2>1, <2>2, <2>3
  <2> QED
    BY <1>1, <2>1, <2>2, <2>4 DEF UnlockedFrom
<1>5. OneEntryPerSocket'
  BY <1>1 DEF UnlockedFrom, IInv, OneEntryPerSocket
<1>6. NoLocksWithoutSocket'
  BY <1>1 DEF UnlockedFrom, IInv, NoLocksWithoutSocket
<1> QED
  BY <1>3, <1>4, <1>5, <1>6 DEF IInv

(* A wake-up preserves the invariant. *)
LEMMA OnObtainLockInv ==
    ASSUME IInv, NEW s \in Sockets, OnObtainLock(s)
    PROVE  IInv'
<1>1. ObtainedBy(s)
  BY OnObtainLockEffect
<1>2. handles' = handles /\ alive' = alive
  BY DEF OnObtainLock
<1>3. TypeOK'
  <2>1. wakeups' \in [Sockets -> Nat]
    BY DEF OnObtainLock, IInv, TypeOK
  <2> QED
    BY <1>1, <1>2, <2>1 DEF ObtainedBy, IInv, TypeOK
<1>4. HandlesValid'
  BY <1>1, <1>2 DEF ObtainedBy, IInv, HandlesValid
<1>5. OneEntryPerSocket'
  BY <1>1 DEF ObtainedBy, IInv, OneEntryPerSocket
<1>6. NoLocksWithoutSocket'
  BY <1>1 DEF ObtainedBy, IInv, NoLocksWithoutSocket
<1> QED
  BY <1>3, <1>4, <1>5, <1>6 DEF IInv

(* The invariant holds when there are no locks. *)
LEMMA InitIInv == Init => IInv
<1> SUFFICES ASSUME Init PROVE IInv
  OBVIOUS
<1>1. TypeOK
  BY DEF Init, TypeOK
<1>2. HandlesValid /\ OneEntryPerSocket /\ NoLocksWithoutSocket
  BY DEF Init, HandlesValid, OneEntryPerSocket, NoLocksWithoutSocket
<1> QED
  BY <1>1, <1>2 DEF IInv

(* Every step preserves the invariant. *)
LEMMA NextIInv == IInv /\ [Next]_vars => IInv'
<1> SUFFICES ASSUME IInv, [Next]_vars PROVE IInv'
  OBVIOUS
<1>1. ASSUME NEW s \in Sockets, NEW r \in Reasons, NEW p \in Paths, NEW incl \in Inclusive,
             Lock(s, r, p, incl)
      PROVE  IInv'
  BY <1>1, LockInv
<1>2. ASSUME NEW s \in Sockets, NEW h \in handles[s], Unlock(s, h)
      PROVE  IInv'
  BY <1>2, UnlockInv
<1>3. ASSUME NEW s \in Sockets, OnObtainLock(s)
      PROVE  IInv'
  BY <1>3, OnObtainLockInv
<1>4. ASSUME NEW s \in Sockets, Destroy(s) \/ Create(s)
      PROVE  IInv'
  <2>1. socket_locks' = socket_locks /\ handles' = handles
    BY <1>4 DEF Destroy, Create
  <2>2. TypeOK'
    <3>1. alive' \in [Sockets -> BOOLEAN]
      BY <1>4, Zenon DEF Destroy, Create, IInv, TypeOK
    <3>2. wakeups' \in [Sockets -> Nat]
      BY <1>4 DEF Destroy, Create, IInv, TypeOK
    <3> QED
      BY <2>1, <3>1, <3>2 DEF IInv, TypeOK
  <2>3. HandlesValid' /\ OneEntryPerSocket' /\ NoLocksWithoutSocket'
    BY <2>1 DEF IInv, HandlesValid, OneEntryPerSocket, NoLocksWithoutSocket
  <2> QED
    BY <2>2, <2>3 DEF IInv
<1>5. CASE UNCHANGED vars
  BY <1>5 DEF vars, IInv, TypeOK, HandlesValid, OneEntryPerSocket, NoLocksWithoutSocket
<1> QED
  BY <1>1, <1>2, <1>3, <1>4, <1>5 DEF Next

(* In every reachable state socket_locks_, the OpLocks and the events have *)
(* the types the code declares.                                            *)
THEOREM TypeCorrectness == Spec => []TypeOK
<1>1. IInv => TypeOK
  BY DEF IInv
<1> QED
  BY <1>1, InitIInv, NextIInv, PTL DEF Spec

(* The assertions of OpLockManager::Unlock and Waiting never fail: an      *)
(* OpLock's indices always lead to a lock of its own socket.               *)
THEOREM HandlesAreValid == Spec => []HandlesValid
<1>1. IInv => HandlesValid
  BY DEF IInv
<1> QED
  BY <1>1, InitIInv, NextIInv, PTL DEF Spec

-------------------------------------------------------------------------------
(***************************************************************************)
(* Mutual exclusion                                                        *)
(***************************************************************************)
LEMMA OverlapSymmetric ==
    ASSUME NEW x, NEW y, Overlap(x, y) PROVE Overlap(y, x)
BY DEF Overlap

(* A lock Lock() gives out at once is blocked by no lock of another entry. *)
LEMMA LockExclusive ==
    ASSUME IInv, MutualExclusion, NEW s \in Sockets, NEW r \in Reasons, NEW p \in Paths,
           NEW incl \in Inclusive, Lock(s, r, p, incl)
    PROVE  MutualExclusion'
<1> DEFINE sl == get_or_create(s)
<1>1. PICK i \in DOMAIN sl, n \in Nat, new \in lock_info :
        /\ LockedAt(s, i, n, new)
        /\ sl[i].control_socket = s
        /\ socket_locks'[i].server = sl[i].server
        /\ new = NewLock(r, p, incl, BlockedNew(sl, i, NewLock(r, p, incl, FALSE)))
  BY LockStep
<1> DEFINE info == NewLock(r, p, incl, FALSE)
<1>2. /\ new.path = info.path /\ new.reason = info.reason /\ new.inclusive = info.inclusive
      /\ Held(new) => ~BlockedNew(sl, i, info)
  BY <1>1 DEF NewLock, Held
<1>3. \A j \in DOMAIN socket_locks : j \in DOMAIN sl /\ sl[j] = socket_locks[j]
  BY GetOrCreate DEF IInv
<1> HIDE DEF sl, info
<1>4. \A j \in DOMAIN socket_locks : j # i => socket_locks[j].control_socket # s
  BY <1>1, <1>3, SocketsAssumption DEF IInv, OneEntryPerSocket, LockedAt, Registered
<1>5. \A x : Blocks(x, new) <=> Blocks(x, info)
  BY <1>2 DEF Blocks, Overlap
<1>6. ASSUME Held(new), NEW j \in DOMAIN socket_locks, j # i,
             socket_locks[j].server = socket_locks'[i].server,
             NEW k \in DOMAIN socket_locks[j].locks
      PROVE  ~Blocks(socket_locks[j].locks[k], new)
  BY <1>1, <1>2, <1>3, <1>4, <1>5, <1>6 DEF BlockedNew
<1> SUFFICES ASSUME NEW a \in DOMAIN socket_locks', NEW b \in DOMAIN socket_locks', a # b,
                    socket_locks'[a].server = socket_locks'[b].server,
                    NEW k \in DOMAIN socket_locks'[a].locks,
                    NEW m \in DOMAIN socket_locks'[b].locks,
                    Held(socket_locks'[a].locks[k]),
                    Blocks(socket_locks'[b].locks[m], socket_locks'[a].locks[k])
             PROVE  FALSE
  BY DEF MutualExclusion
<1>7. CASE a # i /\ b # i
  BY <1>1, <1>7 DEF LockedAt, MutualExclusion
<1>8. ASSUME NEW c \in DOMAIN socket_locks', c # i
      PROVE  c \in DOMAIN socket_locks /\ socket_locks'[c] = socket_locks[c]
  BY <1>1, <1>8 DEF LockedAt
<1>9. CASE a = i
  <2>1. CASE k = n
    <3>1. socket_locks'[a].locks[k] = new
      BY <1>1, <1>9, <2>1 DEF LockedAt
    <3>2. b \in DOMAIN socket_locks /\ socket_locks'[b] = socket_locks[b]
      BY <1>8, <1>9
    <3> QED
      BY <1>6, <1>9, <3>1, <3>2
  <2>2. CASE k # n
    BY <1>1, <1>8, <1>9, <2>2 DEF LockedAt, MutualExclusion
  <2> QED
    BY <2>1, <2>2
<1>10. CASE b = i
  <2>1. CASE m = n
    <3>1. /\ Held(new) /\ Overlap(new, socket_locks[a].locks[k])
          /\ a \in DOMAIN socket_locks /\ k \in DOMAIN socket_locks[a].locks
          /\ Held(socket_locks[a].locks[k])
          /\ socket_locks[a].server = socket_locks'[i].server
      BY <1>1, <1>8, <1>10, <2>1 DEF LockedAt, Blocks
    <3>2. Blocks(socket_locks[a].locks[k], new)
      BY <3>1, OverlapSymmetric DEF Blocks
    <3> QED
      BY <1>6, <1>10, <3>1, <3>2
  <2>2. CASE m # n
    BY <1>1, <1>8, <1>10, <2>2 DEF LockedAt, MutualExclusion
  <2> QED
    BY <2>1, <2>2
<1> QED
  BY <1>7, <1>9, <1>10

(* Unlock gives out nothing. *)
LEMMA UnlockExclusive ==
    ASSUME IInv, MutualExclusion, NEW s \in Sockets, NEW h \in handles[s], Unlock(s, h)
    PROVE  MutualExclusion'
<1>1. UnlockedFrom(h)
  BY UnlockEffect
<1>2. ASSUME NEW j \in DOMAIN socket_locks', NEW k \in DOMAIN socket_locks'[j].locks,
             Held(socket_locks'[j].locks[k])
      PROVE  /\ j \in DOMAIN socket_locks /\ k \in DOMAIN socket_locks[j].locks
             /\ socket_locks'[j].locks[k] = socket_locks[j].locks[k]
             /\ socket_locks'[j].server = socket_locks[j].server
  BY <1>1, <1>2 DEF UnlockedFrom, Held
<1> QED
  BY <1>2 DEF MutualExclusion, Blocks

(* What OnObtainLock gives out was blocked by no lock of another entry, of *)
(* whichever server.                                                       *)
LEMMA OnObtainLockExclusive ==
    ASSUME IInv, MutualExclusion, NEW s \in Sockets, OnObtainLock(s)
    PROVE  MutualExclusion'
<1>1. ObtainedBy(s)
  BY OnObtainLockEffect
<1>2. \A i, j \in DOMAIN socket_locks :
        i # j /\ socket_locks[i].control_socket = s => socket_locks[j].control_socket # s
  BY SocketsAssumption DEF IInv, OneEntryPerSocket
<1> SUFFICES ASSUME NEW a \in DOMAIN socket_locks, NEW b \in DOMAIN socket_locks, a # b,
                    socket_locks[a].server = socket_locks[b].server,
                    NEW k \in DOMAIN socket_locks[a].locks,
                    NEW m \in DOMAIN socket_locks[b].locks,
                    Held(socket_locks'[a].locks[k]),
                    Blocks(socket_locks'[b].locks[m], socket_locks'[a].locks[k])
             PROVE  FALSE
  BY <1>1 DEF MutualExclusion, ObtainedBy
<1> DEFINE x  == socket_locks[a].locks[k]
           x1 == socket_locks'[a].locks[k]
           y  == socket_locks[b].locks[m]
           y1 == socket_locks'[b].locks[m]
<1>3. Held(x1) /\ Held(y1) /\ Overlap(y1, x1)
  BY DEF Blocks
<1>4. /\ x1.path = x.path /\ x1.reason = x.reason /\ x1.inclusive = x.inclusive
      /\ y1.path = y.path /\ y1.reason = y.reason /\ y1.inclusive = y.inclusive
  BY <1>1 DEF ObtainedBy
<1>5. Overlap(y, x) /\ Overlap(x, y)
  BY <1>3, <1>4 DEF Overlap
<1>6. CASE x1 = x /\ y1 = y
  BY <1>3, <1>5, <1>6 DEF MutualExclusion, Blocks
<1>7. CASE x1 # x
  <2>1. socket_locks[a].control_socket = s /\ ~BlockedWaiting(socket_locks, a, x)
    BY <1>1, <1>7 DEF ObtainedBy
  <2>2. y1 = y
    BY <1>1, <1>2, <2>1 DEF ObtainedBy
  <2> QED
    BY <1>3, <1>5, <2>1, <2>2 DEF BlockedWaiting, Blocks
<1>8. CASE y1 # y
  <2>1. socket_locks[b].control_socket = s /\ ~BlockedWaiting(socket_locks, b, y)
    BY <1>1, <1>8 DEF ObtainedBy
  <2>2. x1 = x
    BY <1>1, <1>2, <2>1 DEF ObtainedBy
  <2> QED
    BY <1>3, <1>5, <2>1, <2>2 DEF BlockedWaiting, Blocks
<1> QED
  BY <1>6, <1>7, <1>8

(* Two sockets on one server never hold locks that exclude each other: the *)
(* promise of Lock and ObtainWaiting, for any number of sockets, paths and *)
(* locks.                                                                  *)
THEOREM LocksExclude == Spec => []MutualExclusion
<1>1. Init => MutualExclusion
  BY DEF Init, MutualExclusion
<1>2. IInv /\ MutualExclusion /\ [Next]_vars => MutualExclusion'
  <2> SUFFICES ASSUME IInv, MutualExclusion, [Next]_vars PROVE MutualExclusion'
    OBVIOUS
  <2>1. ASSUME NEW s \in Sockets, NEW r \in Reasons, NEW p \in Paths, NEW incl \in Inclusive,
               Lock(s, r, p, incl)
        PROVE  MutualExclusion'
    BY <2>1, LockExclusive
  <2>2. ASSUME NEW s \in Sockets, NEW h \in handles[s], Unlock(s, h)
        PROVE  MutualExclusion'
    BY <2>2, UnlockExclusive
  <2>3. ASSUME NEW s \in Sockets, OnObtainLock(s)
        PROVE  MutualExclusion'
    BY <2>3, OnObtainLockExclusive
  <2>4. ASSUME NEW s \in Sockets, Destroy(s) \/ Create(s)
        PROVE  MutualExclusion'
    BY <2>4 DEF Destroy, Create, MutualExclusion
  <2>5. CASE UNCHANGED vars
    BY <2>5 DEF vars, MutualExclusion
  <2> QED
    BY <2>1, <2>2, <2>3, <2>4, <2>5 DEF Next
<1> QED
  BY <1>1, <1>2, InitIInv, NextIInv, PTL DEF Spec

-------------------------------------------------------------------------------
(***************************************************************************)
(* Wake-ups                                                                *)
(***************************************************************************)

(* A lock that waits belongs to an OpLock of its socket.  Without this, a  *)
(* socket created at the address of one that is gone could inherit a lock  *)
(* whose wake-up went with the old one.                                    *)
WaitingIsOwned ==
    \A i \in DOMAIN socket_locks : \A k \in DOMAIN socket_locks[i].locks :
        socket_locks[i].locks[k].waiting =>
            /\ socket_locks[i].control_socket \in Sockets
            /\ <<i, k>> \in handles[socket_locks[i].control_socket]

WInv == WaitingIsOwned /\ NoLostWakeup

(* A lock that has to wait is blocked by a lock of another entry. *)
LEMMA LockWakeup ==
    ASSUME IInv, WInv, NEW s \in Sockets, NEW r \in Reasons, NEW p \in Paths,
           NEW incl \in Inclusive, Lock(s, r, p, incl)
    PROVE  WInv'
<1> DEFINE sl == get_or_create(s)
<1>1. PICK i \in DOMAIN sl, n \in Nat, new \in lock_info :
        /\ LockedAt(s, i, n, new)
        /\ sl[i].control_socket = s
        /\ socket_locks'[i].server = sl[i].server
        /\ new = NewLock(r, p, incl, BlockedNew(sl, i, NewLock(r, p, incl, FALSE)))
  BY LockStep
<1> DEFINE info == NewLock(r, p, incl, FALSE)
<1>2. new.path = info.path /\ new.reason = info.reason /\ new.inclusive = info.inclusive
      /\ new.waiting = BlockedNew(sl, i, info)
  BY <1>1 DEF NewLock
<1>3. \A j \in DOMAIN sl : j # i => j \in DOMAIN socket_locks /\ sl[j] = socket_locks[j]
  <2>1. /\ \A j \in DOMAIN socket_locks : sl[j] = socket_locks[j]
        /\ \A j \in DOMAIN sl \ DOMAIN socket_locks : ~Registered(s) /\ j = Len(socket_locks) + 1
    BY GetOrCreate DEF IInv
  <2>2. DOMAIN socket_locks = 1..Len(socket_locks) /\ Len(socket_locks) \in Nat
    BY Entries DEF IInv, TypeOK
  <2>3. i \notin DOMAIN socket_locks \/ i # Len(socket_locks) + 1
    BY <2>2
  <2>4. i \in DOMAIN socket_locks => Registered(s)
    BY <1>1, <2>1 DEF Registered
  <2> HIDE DEF sl
  <2> QED BY <1>1, <2>1, <2>4
<1>4. wakeups' = wakeups /\ alive' = alive
  BY DEF Lock
<1> HIDE DEF sl, info
<1>5. \A x : Blocks(x, new) <=> Blocks(x, info)
  BY <1>2 DEF Blocks, Overlap
<1>6. new.waiting => BlockedWaiting(socket_locks', i, new)
  <2> SUFFICES ASSUME new.waiting PROVE BlockedWaiting(socket_locks', i, new)
    OBVIOUS
  <2>1. PICK j \in DOMAIN sl : /\ sl[j].control_socket # sl[i].control_socket
                               /\ \E k \in DOMAIN sl[j].locks : Blocks(sl[j].locks[k], info)
    BY <1>2 DEF BlockedNew
  <2>2. j # i /\ j \in DOMAIN socket_locks /\ sl[j] = socket_locks[j]
    BY <1>3, <2>1
  <2>3. j \in DOMAIN socket_locks' /\ socket_locks'[j] = socket_locks[j]
    BY <1>1, <2>2 DEF LockedAt
  <2> QED BY <1>5, <2>1, <2>2, <2>3 DEF BlockedWaiting
<1>7. ASSUME NEW j \in DOMAIN socket_locks', NEW k \in DOMAIN socket_locks'[j].locks,
             <<j, k>> # <<i, n>>
      PROVE  /\ j \in DOMAIN socket_locks /\ k \in DOMAIN socket_locks[j].locks
             /\ socket_locks'[j].locks[k] = socket_locks[j].locks[k]
             /\ socket_locks'[j].control_socket = socket_locks[j].control_socket
  BY <1>1, <1>7 DEF LockedAt
<1>8. ASSUME NEW j, NEW lock, BlockedWaiting(socket_locks, j, lock)
      PROVE  BlockedWaiting(socket_locks', j, lock)
  BY <1>1, <1>8 DEF LockedAt, BlockedWaiting
<1>9. /\ socket_locks'[i].control_socket = s /\ socket_locks'[i].locks[n] = new
      /\ <<i, n>> \in handles'[s] /\ \A t \in Sockets : handles[t] \subseteq handles'[t]
  BY <1>1 DEF LockedAt, IInv, TypeOK
<1>10. WaitingIsOwned'
  <2> SUFFICES ASSUME NEW j \in DOMAIN socket_locks', NEW k \in DOMAIN socket_locks'[j].locks,
                      socket_locks'[j].locks[k].waiting
               PROVE  /\ socket_locks'[j].control_socket \in Sockets
                      /\ <<j, k>> \in handles'[socket_locks'[j].control_socket]
    BY DEF WaitingIsOwned
  <2>1. CASE <<j, k>> = <<i, n>>
    BY <1>9, <2>1
  <2>2. CASE <<j, k>> # <<i, n>>
    BY <1>7, <1>9, <2>2 DEF WInv, WaitingIsOwned
  <2> QED BY <2>1, <2>2
<1>11. NoLostWakeup'
  <2> SUFFICES ASSUME NEW j \in DOMAIN socket_locks', NEW k \in DOMAIN socket_locks'[j].locks,
                      socket_locks'[j].locks[k].waiting
               PROVE  \/ BlockedWaiting(socket_locks', j, socket_locks'[j].locks[k])
                      \/ wakeups'[socket_locks'[j].control_socket] > 0
                      \/ ~alive'[socket_locks'[j].control_socket]
    BY DEF NoLostWakeup
  <2>1. CASE <<j, k>> = <<i, n>>
    <3>1. j = i /\ k = n
      BY <2>1
    <3> QED BY <1>6, <1>9, <3>1
  <2>2. CASE <<j, k>> # <<i, n>>
    BY <1>4, <1>7, <1>8, <2>2 DEF WInv, NoLostWakeup
  <2> QED BY <2>1, <2>2
<1> QED BY <1>10, <1>11 DEF WInv

(* A lock that waited blocked nobody; for one that was held, everybody is  *)
(* woken.                                                                  *)
LEMMA UnlockWakeup ==
    ASSUME IInv, WInv, NEW s \in Sockets, NEW h \in handles[s], Unlock(s, h)
    PROVE  WInv'
<1>1. UnlockedFrom(h)
  BY UnlockEffect
<1>2. handles' = [handles EXCEPT ![s] = handles[s] \ {h}] /\ alive' = alive
  BY DEF Unlock
<1>3. ASSUME NEW j \in DOMAIN socket_locks', NEW k \in DOMAIN socket_locks'[j].locks,
             socket_locks'[j].locks[k].waiting
      PROVE  /\ j \in DOMAIN socket_locks /\ k \in DOMAIN socket_locks[j].locks
             /\ socket_locks'[j].locks[k] = socket_locks[j].locks[k] /\ <<j, k>> # h
             /\ socket_locks'[j].control_socket = socket_locks[j].control_socket
  BY <1>1, <1>3 DEF UnlockedFrom
<1>4. \A t \in Sockets : \A g \in handles[t] : g # h => g \in handles'[t]
  BY <1>2 DEF IInv, TypeOK
<1>5. WaitingIsOwned'
  BY <1>3, <1>4 DEF WInv, WaitingIsOwned
<1>6. CASE LockOf(h).waiting
  <2>1. wakeups' = wakeups
    BY <1>6 DEF Unlock
  <2>2. ASSUME NEW j, NEW lock, BlockedWaiting(socket_locks, j, lock)
        PROVE  BlockedWaiting(socket_locks', j, lock)
    <3>0. PICK a \in DOMAIN socket_locks \ {j} :
            \E m \in DOMAIN socket_locks[a].locks : Blocks(socket_locks[a].locks[m], lock)
      BY <2>2 DEF BlockedWaiting
    <3>1. PICK m \in DOMAIN socket_locks[a].locks : Blocks(socket_locks[a].locks[m], lock)
      BY <3>0
    <3>2. ~socket_locks[a].locks[m].waiting /\ ~socket_locks[a].locks[m].released
      BY <3>1 DEF Blocks, Held
    <3>3. <<a, m>> # h
      BY <1>6, <3>2 DEF LockOf
    <3>4. /\ a \in DOMAIN socket_locks' /\ m \in DOMAIN socket_locks'[a].locks
          /\ socket_locks'[a].locks[m] = socket_locks[a].locks[m]
      BY <1>1, <3>2, <3>3 DEF UnlockedFrom
    <3> QED BY <3>1, <3>4 DEF BlockedWaiting
  <2>3. NoLostWakeup'
    BY <1>2, <1>3, <2>1, <2>2 DEF WInv, NoLostWakeup
  <2> QED BY <1>5, <2>3 DEF WInv
<1>7. CASE ~LockOf(h).waiting
  <2>1. wakeups' = Wakeup(socket_locks')
    BY <1>7 DEF Unlock
  <2>2. ASSUME NEW j \in DOMAIN socket_locks', NEW k \in DOMAIN socket_locks'[j].locks,
               socket_locks'[j].locks[k].waiting, alive[socket_locks'[j].control_socket]
        PROVE  wakeups'[socket_locks'[j].control_socket] > 0
    <3>1. socket_locks'[j].control_socket \in Sockets
      BY <1>5, <2>2 DEF WaitingIsOwned
    <3>2. wakeups'[socket_locks'[j].control_socket] = wakeups[socket_locks'[j].control_socket] + 1
      BY <2>1, <2>2, <3>1 DEF Wakeup
    <3>3. wakeups[socket_locks'[j].control_socket] \in Nat
      BY <3>1 DEF IInv, TypeOK
    <3> QED BY <3>2, <3>3
  <2>3. NoLostWakeup'
    BY <1>2, <2>2 DEF NoLostWakeup
  <2> QED BY <1>5, <2>3 DEF WInv
<1> QED BY <1>6, <1>7

(* The event takes every lock of its socket that is not blocked, so that   *)
(* those that still wait need no other event.                              *)
LEMMA OnObtainLockWakeup ==
    ASSUME IInv, WInv, NEW s \in Sockets, OnObtainLock(s)
    PROVE  WInv'
<1>1. ObtainedBy(s)
  BY OnObtainLockEffect
<1>2. handles' = handles /\ alive' = alive
  BY DEF OnObtainLock
<1>3. \A t \in Sockets : t # s => wakeups'[t] = wakeups[t]
  BY DEF OnObtainLock, IInv, TypeOK
<1>4. ASSUME NEW j \in DOMAIN socket_locks', NEW k \in DOMAIN socket_locks'[j].locks,
             socket_locks'[j].locks[k].waiting
      PROVE  /\ j \in DOMAIN socket_locks /\ k \in DOMAIN socket_locks[j].locks
             /\ socket_locks'[j].locks[k] = socket_locks[j].locks[k]
             /\ socket_locks'[j].control_socket = socket_locks[j].control_socket
             /\ \/ socket_locks[j].control_socket # s
                \/ BlockedWaiting(socket_locks, j, socket_locks[j].locks[k])
  BY <1>1, <1>4 DEF ObtainedBy
<1>5. ASSUME NEW j, NEW lock, BlockedWaiting(socket_locks, j, lock)
      PROVE  BlockedWaiting(socket_locks', j, lock)
  <2>0. PICK a \in DOMAIN socket_locks \ {j} :
          \E m \in DOMAIN socket_locks[a].locks : Blocks(socket_locks[a].locks[m], lock)
    BY <1>5 DEF BlockedWaiting
  <2>1. PICK m \in DOMAIN socket_locks[a].locks : Blocks(socket_locks[a].locks[m], lock)
    BY <2>0
  <2>2. /\ a \in DOMAIN socket_locks' \ {j} /\ m \in DOMAIN socket_locks'[a].locks
        /\ Blocks(socket_locks'[a].locks[m], lock)
    BY <1>1, <2>1 DEF ObtainedBy, Blocks, Held, Overlap
  <2> QED BY <2>2 DEF BlockedWaiting
<1>6. WaitingIsOwned'
  BY <1>2, <1>4 DEF WInv, WaitingIsOwned
<1>7. NoLostWakeup'
  <2> SUFFICES ASSUME NEW j \in DOMAIN socket_locks', NEW k \in DOMAIN socket_locks'[j].locks,
                      socket_locks'[j].locks[k].waiting
               PROVE  \/ BlockedWaiting(socket_locks', j, socket_locks'[j].locks[k])
                      \/ wakeups'[socket_locks'[j].control_socket] > 0
                      \/ ~alive'[socket_locks'[j].control_socket]
    BY DEF NoLostWakeup
  <2>1. CASE BlockedWaiting(socket_locks, j, socket_locks[j].locks[k])
    BY <1>4, <1>5, <2>1
  <2>2. CASE ~BlockedWaiting(socket_locks, j, socket_locks[j].locks[k])
    <3>1. socket_locks[j].control_socket \in Sockets /\ socket_locks[j].control_socket # s
      BY <1>4, <2>2 DEF WInv, WaitingIsOwned
    <3> QED BY <1>2, <1>3, <1>4, <2>2, <3>1 DEF WInv, NoLostWakeup
  <2> QED BY <2>1, <2>2
<1> QED BY <1>6, <1>7 DEF WInv

(* No socket waits for a lock that is free without an event on its way: a  *)
(* listing or the creation of a directory that had to wait goes on.        *)
THEOREM NoWakeupIsLost == Spec => []NoLostWakeup
<1>1. Init => WInv
  BY DEF Init, WInv, WaitingIsOwned, NoLostWakeup
<1>2. IInv /\ WInv /\ [Next]_vars => WInv'
  <2> SUFFICES ASSUME IInv, WInv, [Next]_vars PROVE WInv'
    OBVIOUS
  <2>1. ASSUME NEW s \in Sockets, NEW r \in Reasons, NEW p \in Paths, NEW incl \in Inclusive,
               Lock(s, r, p, incl)
        PROVE  WInv'
    BY <2>1, LockWakeup
  <2>2. ASSUME NEW s \in Sockets, NEW h \in handles[s], Unlock(s, h)
        PROVE  WInv'
    BY <2>2, UnlockWakeup
  <2>3. ASSUME NEW s \in Sockets, OnObtainLock(s)
        PROVE  WInv'
    BY <2>3, OnObtainLockWakeup
  <2>4. ASSUME NEW s \in Sockets, Destroy(s)
        PROVE  WInv'
    <3>1. /\ socket_locks' = socket_locks /\ handles' = handles
          /\ ~alive'[s]
          /\ \A t \in Sockets : t # s => wakeups'[t] = wakeups[t] /\ alive'[t] = alive[t]
      BY <2>4 DEF Destroy, IInv, TypeOK
    <3>2. WaitingIsOwned'
      BY <3>1 DEF WInv, WaitingIsOwned
    <3>3. NoLostWakeup'
      BY <3>1 DEF WInv, WaitingIsOwned, NoLostWakeup, BlockedWaiting
    <3> QED BY <3>2, <3>3 DEF WInv
  <2>5. ASSUME NEW s \in Sockets, Create(s)
        PROVE  WInv'
    <3>1. /\ socket_locks' = socket_locks /\ handles' = handles /\ wakeups' = wakeups
          /\ handles[s] = {}
          /\ \A t \in Sockets : t # s => alive'[t] = alive[t]
      BY <2>5 DEF Create, IInv, TypeOK
    <3>2. WaitingIsOwned'
      BY <3>1 DEF WInv, WaitingIsOwned
    <3>3. NoLostWakeup'
      BY <3>1 DEF WInv, WaitingIsOwned, NoLostWakeup, BlockedWaiting
    <3> QED BY <3>2, <3>3 DEF WInv
  <2>6. CASE UNCHANGED vars
    BY <2>6 DEF vars, WInv, WaitingIsOwned, NoLostWakeup, BlockedWaiting
  <2> QED
    BY <2>1, <2>2, <2>3, <2>4, <2>5, <2>6 DEF Next
<1>3. WInv => NoLostWakeup
  BY DEF WInv
<1> QED
  BY <1>1, <1>2, <1>3, InitIInv, NextIInv, PTL DEF Spec

-------------------------------------------------------------------------------
(***************************************************************************)
(* OpLocks and the locks they denote                                       *)
(***************************************************************************)

(* An OpLock denotes the same lock for as long as it lives, although other *)
(* entries come and go and their indices are used again, and a lock that   *)
(* was obtained never waits again.                                         *)
THEOREM HandlesAreStable == Spec => HandleStable
<1> DEFINE Stable == \A s \in Sockets : \A h \in handles[s] \cap handles'[s] :
                         /\ LockOf(h)'.path = LockOf(h).path
                         /\ LockOf(h)'.reason = LockOf(h).reason
                         /\ LockOf(h)'.waiting => LockOf(h).waiting
<1>1. ASSUME IInv, [Next]_vars
      PROVE  [Stable]_vars
  <2> SUFFICES ASSUME NEW t \in Sockets, NEW g \in handles[t], g \in handles'[t]
               PROVE  /\ LockOf(g)'.path = LockOf(g).path
                      /\ LockOf(g)'.reason = LockOf(g).reason
                      /\ LockOf(g)'.waiting => LockOf(g).waiting
    OBVIOUS
  <2>1. /\ g = <<g[1], g[2]>>
        /\ g[1] \in DOMAIN socket_locks
        /\ socket_locks[g[1]].control_socket = t
        /\ g[2] \in DOMAIN socket_locks[g[1]].locks
        /\ ~socket_locks[g[1]].locks[g[2]].released
    <3>1. g = <<g[1], g[2]>>
      BY <1>1 DEF IInv, TypeOK
    <3> QED BY <1>1, <3>1 DEF IInv, HandlesValid
  <2>2. ASSUME NEW s \in Sockets, NEW r \in Reasons, NEW p \in Paths, NEW incl \in Inclusive,
               Lock(s, r, p, incl)
        PROVE  LockOf(g)' = LockOf(g)
    <3>1. PICK i, n, new : LockedAt(s, i, n, new)
      BY <1>1, <2>2, LockStep
    <3> QED BY <2>1, <3>1 DEF LockedAt, LockOf
  <2>3. ASSUME NEW s \in Sockets, NEW h \in handles[s], Unlock(s, h)
        PROVE  LockOf(g)' = LockOf(g)
    <3>1. UnlockedFrom(h)
      BY <1>1, <2>3, UnlockEffect
    <3>2. handles' = [handles EXCEPT ![s] = handles[s] \ {h}]
      BY <2>3 DEF Unlock
    <3>3. g # h
      <4>1. CASE t = s
        BY <1>1, <3>2, <4>1 DEF IInv, TypeOK
      <4>2. CASE t # s
        BY <1>1, <2>1, <4>2 DEF IInv, HandlesValid
      <4> QED BY <4>1, <4>2
    <3> QED BY <2>1, <3>1, <3>3 DEF UnlockedFrom, LockOf
  <2>4. ASSUME NEW s \in Sockets, OnObtainLock(s)
        PROVE  /\ LockOf(g)'.path = LockOf(g).path
               /\ LockOf(g)'.reason = LockOf(g).reason
               /\ LockOf(g)'.waiting => LockOf(g).waiting
    <3>1. ObtainedBy(s)
      BY <1>1, <2>4, OnObtainLockEffect
    <3> QED BY <2>1, <3>1 DEF ObtainedBy, LockOf
  <2>5. ASSUME NEW s \in Sockets, Destroy(s) \/ Create(s)
        PROVE  LockOf(g)' = LockOf(g)
    BY <2>5 DEF Destroy, Create, LockOf
  <2>6. CASE UNCHANGED vars
    BY <2>6 DEF vars, LockOf
  <2> QED
    BY <1>1, <2>2, <2>3, <2>4, <2>5, <2>6 DEF Next
<1> QED
  BY <1>1, InitIInv, NextIInv, PTL DEF Spec, HandleStable

-------------------------------------------------------------------------------
(***************************************************************************)
(* The directory cache.  It shares no state with the lock manager.         *)
(*                                                                         *)
(* SureIsTrue and AbsentIsAbsent speak of the moments when no reply is     *)
(* outstanding, and are not inductive.  CInv says what holds between the   *)
(* moment the server carries out a command and the reply: all listings     *)
(* are right but one that is gone, all entries but one that is open        *)
(* (Honest); and the entries the command changes have been marked before   *)
(* it was sent, and stay marked (Under).  The functions of the cache come  *)
(* first, with what each keeps, marks and removes; then the operations.    *)
(***************************************************************************)

(* The hypotheses: names differ in more than case, there is one            *)
(* connection, MKD with a full path fails, and no command is cancelled     *)
(* that changes directories.  With any of them dropped, TLC finds a        *)
(* counterexample (README, Findings).                                      *)
NamesDiffer == Fold \in [Names -> Names] /\ \A m, n \in Names : Fold[m] = Fold[n] => m = n
Alone == \E c \in Conns : Conns = {c}
Harmless ==
    /\ Ops \subseteq AllOps /\ Abandon \subseteq Ops /\ Abandon \cap {"rmd", "mkd", "rename"} = {}
    /\ MkdFullPath = FALSE

(* A directory is in the root, and one that does not exist has no files. *)
Grown(f) ==
    /\ f \in [Dirs -> [Names -> {"none", "dir", "small", "large"}]]
    /\ \A d \in Dirs \ {Root}, n \in Names : f[d][n] # "dir"
    /\ \A n \in Names : f[Root][n] # "dir" => f[<<n>>] = Empty

(* What the theorems assume of the constants *)
Scope == Names # {} /\ NamesDiffer /\ Alone /\ Harmless /\ (\A f \in Trees : Grown(f))

(* The connection, its command and the listings in the cache *)
Conn == CHOOSE c \in Conns : Conns = {c}
K == cmd[Conn]
L == dc.listings

(* The state of CDirectoryCache, as far as listings go *)
Cache(c) == c \in [listings : [Dirs -> Listings], lru : {c.lru}, total : {c.total}]

(* The commands of a connection *)
Commands == [op : AllOps \cup {"none"}, dir : Dirs, name : Names, toDir : Dirs, toName : Names,
             kind : {"none", "small", "large"}, state : {"sent", "done"}, ok : BOOLEAN,
             seen : [Names -> {"none", "dir", "small", "large"}], abandoned : BOOLEAN]

(* Types *)
Types == cmd \in [Conns -> Commands] /\ Cache(dc) /\ Grown(files) /\ mistaken \in BOOLEAN

(* What the fields of a command have to do with each other *)
Shapes ==
    /\ K.op = "rename" => <<K.dir, K.name>> # <<K.toDir, K.toName>>
    /\ K.op \in {"rmd", "mkd"} => K.dir = Root
    /\ K.abandoned => K.op \in Abandon
    /\ K.op = "stor" /\ (K.state = "sent" \/ K.ok) => K.kind # "none"
    /\ K.state = "sent" => ~K.ok
    /\ K.op = "none" => K = NoCommand

(* What listing l[e] says about one name is true of the files f, as far as *)
(* it says so.                                                             *)
Fits(l, f, e, m) ==
    /\ ~l[e].unsure => l[e].entries[m] = f[e][m]
    /\ l[e].entries[m] # "none" /\ m \notin l[e].unsureNames => l[e].entries[m] = f[e][m]
    /\ l[e].entries[m] = "none" => f[e][m] = "none"

(* The server has carried out the command. *)
Carried == K.state = "done" /\ K.ok

(* The directory that is gone, and the entries the reply will correct *)
Gone(e) ==
    /\ Carried /\ e = <<K.name>>
    /\ \/ K.op = "rmd"
       \/ K.op = "rename" /\ K.dir = Root /\ (Root \in Cached(dc) => L[Root].entries[K.name] = "dir")

Open(e, m) ==
    \/ K.op = "mkd" /\ Carried /\ e = K.dir /\ m = K.name
    \/ K.op = "stor" /\ K.state = "done" /\ ~K.abandoned /\ K.kind # "none" /\ e = K.dir /\ m = K.name
    \/ K.op = "rename" /\ Carried /\ e = K.toDir /\ m = K.toName

(* All other listings, and all other entries, are right. *)
Honest ==
    \A e \in Cached(dc) : Gone(e) \/ (Has(e) /\ \A m \in Names : Open(e, m) \/ Fits(L, files, e, m))

(* The entry is marked or missing, in a listing that is marked. *)
Prepared(e, m) == e \in Cached(dc) => L[e].unsure /\ (L[e].entries[m] = "none" \/ m \in L[e].unsureNames)

(* What holds while a command is under way *)
Under ==
    /\ K.op = "list" /\ Carried => Has(K.dir) /\ K.seen = files[K.dir]
    /\ K.op \in {"dele", "rmd", "rename"} => Prepared(K.dir, K.name)
    /\ K.op = "rename" => Prepared(K.toDir, K.toName)
    /\ K.op \in {"dele", "rmd", "rename"} /\ Carried => files[K.dir][K.name] = "none"
    /\ K.op = "rename" /\ Carried /\ K.dir \in Cached(dc) => L[K.dir].entries[K.name] # "none"
    /\ K.op = "raw" => Cached(dc) = {}
    /\ K.op = "stor" /\ K.abandoned /\ K.dir \in Cached(dc) =>
          L[K.dir].unsure /\ K.name \in L[K.dir].unsureNames /\ L[K.dir].entries[K.name] # "none"

(* All this is claimed until the cache takes a directory for a file. *)
Truth == ~mistaken => Honest /\ Under

(* The inductive invariant *)
CInv == Types /\ Shapes /\ Truth

-------------------------------------------------------------------------------
(* How an entry can change from listings c to listings r: it stays, or is  *)
(* marked; it is there and marked; it is not there.                        *)
Keeps(r, c, e, m) ==
    /\ r[e].entries[m] = c[e].entries[m]
    /\ m \in c[e].unsureNames => m \in r[e].unsureNames
    /\ c[e].unsure => r[e].unsure
Marks(r, e, m) == r[e].unsure /\ r[e].entries[m] # "none" /\ m \in r[e].unsureNames
Lacks(r, e, m) == r[e].unsure /\ r[e].entries[m] = "none"

(* Which listings there are *)
Listed(r) == {e \in Dirs : r[e] # NoListing}

(* An entry that stays fits if its file stays, one that is marked always   *)
(* does, and one that is not there does if there is no such file.          *)
LEMMA FitsStill ==
    ASSUME NEW r, NEW c, NEW f, NEW g, NEW e, NEW m,
           \/ Keeps(r, c, e, m) /\ Fits(c, f, e, m) /\ g[e][m] = f[e][m]
           \/ Marks(r, e, m)
           \/ Lacks(r, e, m) /\ g[e][m] = "none"
    PROVE  Fits(r, g, e, m)
BY DEF Fits, Keeps, Marks, Lacks

(* A directory has one spelling. *)
LEMMA OneSpelling ==
    ASSUME NamesDiffer, NEW c, NEW d \in Dirs
    PROVE  Spellings(c, d) = {d} \cap Cached(c)
<1>1. ASSUME NEW e \in Dirs PROVE SamePath(d, e) <=> d = e
  <2>1. CASE d = Root
    BY <2>1, <1>1 DEF SamePath, Dirs, Root
  <2>2. CASE d # Root /\ e = Root
    BY <2>2 DEF SamePath, Dirs, Root
  <2>3. CASE d # Root /\ e # Root
    <3>1. PICK m \in Names : d = <<m>>
      BY <2>3 DEF Dirs
    <3>2. PICK n \in Names : e = <<n>>
      BY <2>3, <1>1 DEF Dirs
    <3>3. SamePath(d, e) <=> Fold[m] = Fold[n]
      BY <3>1, <3>2 DEF SamePath
    <3> QED
      BY <3>1, <3>2, <3>3 DEF NamesDiffer
  <2> QED
    BY <2>1, <2>2, <2>3
<1> QED
  BY <1>1 DEF Spellings, Cached

(* So does a name. *)
LEMMA OneName ==
    ASSUME NamesDiffer, NEW n \in Names
    PROVE  {m \in Names : SameName(m, n)} = {n}
BY DEF SameName, NamesDiffer

(* UpdateLru leaves the listings alone. *)
LEMMA LookupKeeps ==
    ASSUME NEW c, Cache(c), NEW S
    PROVE  Cache(UpdateLru(c, S)) /\ UpdateLru(c, S).listings = c.listings
BY DEF UpdateLru, Cache

(* No listing is a value like any other. *)
LEMMA NoListingType == NoListing \in Listings
BY DEF NoListing, Listings, Listing, Empty

(* Change replaces the listings in the domain of new. *)
LEMMA ChangeIs ==
    ASSUME NEW c, Cache(c), NEW S \in SUBSET Dirs, NEW new \in [S -> Listings], NEW t
    PROVE  /\ Cache(Change(c, new, t))
           /\ Change(c, new, t).listings = [e \in Dirs |-> IF e \in S THEN new[e] ELSE c.listings[e]]
<1>1. DOMAIN new = S
  OBVIOUS
<1> DEFINE u == UpdateLru(c, S)
           l == [e \in Dirs |-> IF e \in S THEN new[e] ELSE c.listings[e]]
<1>2. Cache(u)
  BY LookupKeeps
<1>3. Change(c, new, t) = [u EXCEPT !.listings = l, !.total = t]
  BY <1>1 DEF Change
<1>4. l \in [Dirs -> Listings]
  BY DEF Cache
<1> HIDE DEF u, l
<1> QED
  <2>1. Change(c, new, t).listings = l
    BY <1>2, <1>3 DEF Cache
  <2>2. Cache(Change(c, new, t))
    BY <1>2, <1>3, <1>4 DEF Cache
  <2> QED
    BY <2>1, <2>2 DEF l

(* Erase removes those of S. *)
LEMMA EraseIs ==
    ASSUME NEW c, Cache(c), NEW S
    PROVE  /\ Cache(Erase(c, S))
           /\ Erase(c, S).listings = [e \in Dirs |-> IF e \in S THEN NoListing ELSE c.listings[e]]
BY NoListingType DEF Erase, Cache

(* Marking keeps the type of a listing. *)
LEMMA MarkedType ==
    ASSUME NEW l \in Listings, NEW S \in SUBSET Names
    PROVE  /\ Unsure(l) \in Listings /\ Marked(l, S) \in Listings /\ Unsure(Marked(l, S)) \in Listings
           /\ Unsure(l).entries = l.entries /\ Unsure(l).unsureNames = l.unsureNames /\ Unsure(l).unsure = TRUE
           /\ Unsure(Marked(l, S)).entries = l.entries /\ Unsure(Marked(l, S)).unsure = TRUE
           /\ Unsure(Marked(l, S)).unsureNames = l.unsureNames \cup {n \in S : l.entries[n] # "none"}
<1>1. Unsure(l) \in Listings /\ Unsure(l).entries = l.entries /\ Unsure(l).unsureNames = l.unsureNames
         /\ Unsure(l).unsure = TRUE
  BY DEF Unsure, Listings
<1>2. Marked(l, S) \in Listings /\ Marked(l, S).entries = l.entries
         /\ Marked(l, S).unsureNames = l.unsureNames \cup {n \in S : l.entries[n] # "none"}
  BY DEF Marked, Listings
<1> DEFINE k == Marked(l, S)
<1>3. k \in Listings /\ k.entries = l.entries
         /\ k.unsureNames = l.unsureNames \cup {n \in S : l.entries[n] # "none"}
  BY <1>2
<1> HIDE DEF k
<1>4. Unsure(k) \in Listings /\ Unsure(k).entries = k.entries /\ Unsure(k).unsureNames = k.unsureNames
         /\ Unsure(k).unsure = TRUE
  BY <1>3 DEF Unsure, Listings
<1> QED
  BY <1>1, <1>2, <1>3, <1>4 DEF k

(* InvalidateFile marks, and the entry it is about in any case. *)
LEMMA InvalidateIs ==
    ASSUME NamesDiffer, NEW c, Cache(c), NEW d \in Dirs, NEW n \in Names
    PROVE  LET r == InvalidateFile(c, d, n) IN
           /\ Cache(r) /\ Listed(r.listings) \subseteq Listed(c.listings)
           /\ \A e \in Dirs, m \in Names : Keeps(r.listings, c.listings, e, m)
           /\ d \in Listed(c.listings) => r.listings[d].unsure
                  /\ (r.listings[d].entries[n] = "none" \/ n \in r.listings[d].unsureNames)
<1> DEFINE S == {d} \cap Cached(c)
           same == {n}
           new == [e \in S |-> Unsure(Marked(c.listings[e], same))]
           marked == Change(c, new, c.total)
           below == IF d = Root /\ \E e \in S, m \in same : c.listings[e].entries[m] = "dir"
                    THEN Cached(c) \ {Root} ELSE {}
           l == [e \in Dirs |-> IF e \in below THEN Unsure(marked.listings[e]) ELSE marked.listings[e]]
           r == InvalidateFile(c, d, n)
<1>1. r = [marked EXCEPT !.listings = l]
  <2>1. (IF CaseSensitive THEN {d} \cap Cached(c) ELSE Spellings(c, d)) = S
    BY OneSpelling
  <2>2. {m \in Names : IF CaseSensitive THEN m = n ELSE SameName(m, n)} = same
    BY OneName
  <2> QED
    BY <2>1, <2>2 DEF InvalidateFile
<1>2. c.listings \in [Dirs -> Listings]
  BY DEF Cache
<1>3. S \in SUBSET Dirs /\ same \in SUBSET Names
  OBVIOUS
<1>4. new \in [S -> Listings]
  BY <1>2, <1>3, MarkedType
<1>5. Cache(marked) /\ marked.listings = [e \in Dirs |-> IF e \in S THEN new[e] ELSE c.listings[e]]
  BY <1>3, <1>4, ChangeIs
<1>6. below \subseteq Cached(c)
  OBVIOUS
<1>7. ASSUME NEW e \in S
      PROVE  /\ marked.listings[e] \in Listings /\ marked.listings[e].unsure = TRUE
             /\ marked.listings[e].entries = c.listings[e].entries
             /\ marked.listings[e].unsureNames = c.listings[e].unsureNames
                   \cup {m \in same : c.listings[e].entries[m] # "none"}
  <2>1. c.listings[e] \in Listings /\ marked.listings[e] = Unsure(Marked(c.listings[e], same))
    BY <1>2, <1>3, <1>5, <1>7
  <2> DEFINE k == c.listings[e]
             u == Unsure(Marked(k, same))
  <2>2. k \in Listings
    BY <2>1
  <2> HIDE DEF marked, same, k
  <2>3. /\ u \in Listings /\ u.unsure = TRUE /\ u.entries = k.entries
        /\ u.unsureNames = k.unsureNames \cup {m \in same : k.entries[m] # "none"}
    BY <1>3, <2>2, MarkedType
  <2> QED
    BY <2>1, <2>3 DEF k
<1>8. \A e \in Dirs \ S : marked.listings[e] = c.listings[e]
  BY <1>5
<1> HIDE DEF marked, below, new
<1>9. \A e \in Dirs : marked.listings[e] \in Listings
  BY <1>5 DEF Cache
<1>10. \A e \in Dirs : /\ l[e] \in Listings /\ l[e].entries = marked.listings[e].entries
                       /\ l[e].unsureNames = marked.listings[e].unsureNames
                       /\ (marked.listings[e].unsure => l[e].unsure)
                       /\ (e \notin below => l[e] = marked.listings[e])
  BY <1>9, MarkedType
<1>11. l \in [Dirs -> Listings]
  BY <1>10
<1> HIDE DEF l
<1>12. Cache(r) /\ r.listings = l
  <2> HIDE DEF r
  <2> QED
    BY <1>1, <1>5, <1>11 DEF Cache
<1> HIDE DEF r
<1>13. Listed(l) \subseteq Listed(c.listings)
  BY <1>6, <1>8, <1>10 DEF Listed, Cached
<1>14. ASSUME NEW e \in Dirs, NEW m \in Names PROVE Keeps(l, c.listings, e, m)
  BY <1>7, <1>8, <1>10, <1>14 DEF Keeps
<1>15. ASSUME d \in Listed(c.listings)
       PROVE  l[d].unsure /\ (l[d].entries[n] = "none" \/ n \in l[d].unsureNames)
  <2>1. d \in S
    BY <1>15 DEF Listed, Cached
  <2>2. marked.listings[d].unsure = TRUE /\ marked.listings[d].entries = c.listings[d].entries
    BY <1>7, <2>1
  <2>3. c.listings[d].entries[n] # "none" => n \in marked.listings[d].unsureNames
    BY <1>7, <2>1
  <2> QED
    BY <1>10, <2>2, <2>3
<1> QED
  BY <1>12, <1>13, <1>14, <1>15 DEF r

(* UpdateFile marks the entry, adding it if need be. *)
LEMMA UpdateIs ==
    ASSUME NamesDiffer, NEW c, Cache(c), NEW d \in Dirs, NEW n \in Names, NEW may \in BOOLEAN, NEW type,
           NEW kind \in {"none", "dir"} \cup FileKinds
    PROVE  LET r == UpdateFile(c, d, n, may, type, kind) IN
           /\ Cache(r) /\ Listed(r.listings) \subseteq Listed(c.listings)
           /\ \A e \in Dirs, m \in Names : e # d \/ m # n => Keeps(r.listings, c.listings, e, m)
           /\ d \in Listed(c.listings)
                 /\ (c.listings[d].entries[n] # "none" \/ (may /\ type # "unknown" /\ kind # "none"))
                 => Marks(r.listings, d, n)
           /\ d \notin Listed(c.listings) \/ c.listings[d].entries[n] # "none" \/ ~may
                 => Keeps(r.listings, c.listings, d, n)
<1> DEFINE S == {d} \cap Cached(c)
           l == c.listings[d]
           marked == Unsure(Marked(l, {n}))
           one == IF l.entries[n] = "none" /\ type # "unknown" /\ may
                  THEN [marked EXCEPT !.entries[n] = kind, !.unsureNames = @ \cup {n}]
                  ELSE marked
           new == [e \in S |-> one]
           adds == {e \in S : c.listings[e].entries[n] = "none" /\ type # "unknown" /\ may}
           t == c.total + Cardinality(adds)
           r == UpdateFile(c, d, n, may, type, kind)
<1>1. r = Change(c, new, t)
  <2>1. Spellings(c, d) = S
    BY OneSpelling
  <2>2. \A e \in S : /\ (IF c.listings[e].entries[n] # "none" THEN {n} ELSE {m \in Names : SameName(m, n)}) = {n}
                     /\ e = d
    BY OneName
  <2>3. [e \in S |->
        LET k == c.listings[e]
            same == IF k.entries[n] # "none" THEN {n} ELSE {m \in Names : SameName(m, n)}
            mk == Unsure(Marked(k, same))
        IN  IF k.entries[n] = "none" /\ type # "unknown" /\ may
            THEN [mk EXCEPT !.entries[n] = kind, !.unsureNames = @ \cup {n}]
            ELSE mk] = new
    BY <2>2
  <2> QED
    BY <2>1, <2>3 DEF UpdateFile
<1>2. c.listings \in [Dirs -> Listings] /\ l \in Listings
  BY DEF Cache
<1>3. /\ marked \in Listings /\ marked.entries = l.entries /\ marked.unsure = TRUE
      /\ marked.unsureNames = l.unsureNames \cup {m \in {n} : l.entries[m] # "none"}
  <2>1. {n} \in SUBSET Names
    OBVIOUS
  <2> HIDE DEF l
  <2> QED
    BY <1>2, <2>1, MarkedType
<1> HIDE DEF marked, l
<1>4. /\ one \in Listings /\ one.unsure = TRUE
      /\ \A m \in Names \ {n} : one.entries[m] = l.entries[m]
      /\ l.unsureNames \subseteq one.unsureNames
      /\ (l.entries[n] # "none" => one.entries[n] = l.entries[n] /\ n \in one.unsureNames)
      /\ (l.entries[n] = "none" /\ type # "unknown" /\ may => one.entries[n] = kind /\ n \in one.unsureNames)
      /\ (~may => one.entries[n] = l.entries[n])
  <2>1. CASE l.entries[n] = "none" /\ type # "unknown" /\ may
    <3> DEFINE o == [marked EXCEPT !.entries[n] = kind, !.unsureNames = @ \cup {n}]
    <3>1. one = o
      BY <2>1
    <3>2. /\ o.entries = [marked.entries EXCEPT ![n] = kind] /\ o.unsureNames = marked.unsureNames \cup {n}
          /\ o.unsure = TRUE /\ o \in Listings
      BY <1>3 DEF Listings
    <3> HIDE DEF o, one
    <3>3. marked.entries \in [Names -> {"none", "dir"} \cup FileKinds]
      BY <1>3 DEF Listings
    <3> QED
      BY <1>3, <2>1, <3>1, <3>2, <3>3
  <2>2. CASE ~(l.entries[n] = "none" /\ type # "unknown" /\ may)
    BY <1>3, <2>2
  <2> QED
    BY <2>1, <2>2
<1> HIDE DEF one, r, t
<1>5. S \in SUBSET Dirs /\ new \in [S -> Listings]
  BY <1>4
<1>6. Cache(r) /\ r.listings = [e \in Dirs |-> IF e \in S THEN new[e] ELSE c.listings[e]]
  BY <1>1, <1>5, ChangeIs
<1>7. (d \in S => r.listings[d] = one) /\ \A e \in Dirs \ S : r.listings[e] = c.listings[e]
  BY <1>6
<1>8. S = {d} \cap Listed(c.listings)
  BY DEF Listed, Cached
<1> HIDE DEF S
<1>9. Listed(r.listings) \subseteq Listed(c.listings)
  BY <1>7, <1>8 DEF Listed
<1>10. ASSUME NEW e \in Dirs, NEW m \in Names, e # d \/ m # n PROVE Keeps(r.listings, c.listings, e, m)
  <2>1. CASE e \in S
    BY <1>4, <1>7, <1>8, <1>10, <2>1 DEF Keeps, l
  <2>2. CASE e \notin S
    BY <1>7, <1>10, <2>2 DEF Keeps
  <2> QED
    BY <2>1, <2>2
<1>11. d \in S /\ (l.entries[n] # "none" \/ (may /\ type # "unknown" /\ kind # "none")) => Marks(r.listings, d, n)
  BY <1>4, <1>7 DEF Marks
<1>12. ASSUME d \notin S \/ l.entries[n] # "none" \/ ~may PROVE Keeps(r.listings, c.listings, d, n)
  BY <1>4, <1>7, <1>12 DEF Keeps, l
<1> QED
  BY <1>6, <1>8, <1>9, <1>10, <1>11, <1>12 DEF r, l

(* RemoveFile removes the entry and keeps the others. *)
LEMMA RemoveIs ==
    ASSUME NamesDiffer, NEW c, Cache(c), NEW d \in Dirs, NEW n \in Names
    PROVE  LET r == RemoveFile(c, d, n) IN
           /\ Cache(r) /\ Listed(r.listings) \subseteq Listed(c.listings)
           /\ \A e \in Dirs, m \in Names : e # d \/ m # n => Keeps(r.listings, c.listings, e, m)
           /\ d \in Listed(c.listings) => Lacks(r.listings, d, n)
           /\ d \notin Listed(c.listings) => r.listings[d] = c.listings[d]
<1> DEFINE S == {d} \cap Cached(c)
           l == c.listings[d]
           marked == Unsure(Marked(l, {n}))
           gone == [Unsure(l) EXCEPT !.entries[n] = "none", !.unsureNames = @ \ {n}]
           one == IF l.entries[n] # "none" THEN gone ELSE marked
           new == [e \in S |-> one]
           t == c.total - Cardinality({e \in S : c.listings[e].entries[n] # "none"})
           r == RemoveFile(c, d, n)
<1>1. r = Change(c, new, t)
  <2>1. Spellings(c, d) = S
    BY OneSpelling
  <2>2. {m \in Names : SameName(m, n)} = {n} /\ \A e \in S : e = d
    BY OneName
  <2>3. [e \in S |->
        LET k == c.listings[e]
        IN  IF k.entries[n] # "none"
            THEN [Unsure(k) EXCEPT !.entries[n] = "none", !.unsureNames = @ \ {n}]
            ELSE Unsure(Marked(k, {m \in Names : SameName(m, n)}))] = new
    BY <2>2
  <2> QED
    BY <2>1, <2>3 DEF RemoveFile
<1>2. c.listings \in [Dirs -> Listings] /\ l \in Listings
  BY DEF Cache
<1> HIDE DEF l
<1>3. /\ marked \in Listings /\ marked.entries = l.entries /\ marked.unsure = TRUE
      /\ l.unsureNames \subseteq marked.unsureNames
  <2>1. {n} \in SUBSET Names
    OBVIOUS
  <2> QED
    BY <1>2, <2>1, MarkedType
<1>4. /\ gone.entries = [l.entries EXCEPT ![n] = "none"] /\ gone.unsureNames = l.unsureNames \ {n}
      /\ gone.unsure = TRUE /\ gone \in Listings
  <2> DEFINE u == Unsure(l)
  <2>1. u \in Listings /\ u.entries = l.entries /\ u.unsureNames = l.unsureNames /\ u.unsure = TRUE
    BY <1>2, MarkedType
  <2> HIDE DEF u
  <2>2. gone = [u EXCEPT !.entries[n] = "none", !.unsureNames = @ \ {n}]
    BY DEF u
  <2> HIDE DEF gone
  <2> QED
    BY <2>1, <2>2 DEF Listings
<1> HIDE DEF marked, gone
<1>5. /\ one \in Listings /\ one.unsure = TRUE /\ one.entries[n] = "none"
      /\ \A m \in Names \ {n} : one.entries[m] = l.entries[m]
      /\ \A m \in Names \ {n} : m \in l.unsureNames => m \in one.unsureNames
  <2>1. l.entries \in [Names -> {"none", "dir"} \cup FileKinds]
    BY <1>2 DEF Listings
  <2> QED
    BY <1>3, <1>4, <2>1
<1> HIDE DEF one, r, t
<1>6. S \in SUBSET Dirs /\ new \in [S -> Listings]
  BY <1>5
<1>7. Cache(r) /\ r.listings = [e \in Dirs |-> IF e \in S THEN new[e] ELSE c.listings[e]]
  BY <1>1, <1>6, ChangeIs
<1>8. (d \in S => r.listings[d] = one) /\ \A e \in Dirs \ S : r.listings[e] = c.listings[e]
  BY <1>7
<1>9. S = {d} \cap Listed(c.listings)
  BY DEF Listed, Cached
<1> HIDE DEF S
<1>10. Listed(r.listings) \subseteq Listed(c.listings)
  BY <1>8, <1>9 DEF Listed
<1>11. ASSUME NEW e \in Dirs, NEW m \in Names, e # d \/ m # n PROVE Keeps(r.listings, c.listings, e, m)
  <2>1. CASE e \in S
    BY <1>5, <1>8, <1>9, <1>11, <2>1 DEF Keeps, l
  <2>2. CASE e \notin S
    BY <1>8, <1>11, <2>2 DEF Keeps
  <2> QED
    BY <2>1, <2>2
<1>12. d \in S => Lacks(r.listings, d, n)
  BY <1>5, <1>8 DEF Lacks
<1> QED
  BY <1>7, <1>8, <1>9, <1>10, <1>11, <1>12 DEF r

(* RemoveDir also drops the listing of the directory. *)
LEMMA RemoveDirIs ==
    ASSUME NamesDiffer, NEW c, Cache(c), NEW d \in Dirs, NEW n \in Names
    PROVE  LET r == RemoveDir(c, d, n) IN
           /\ Cache(r) /\ Listed(r.listings) \subseteq Listed(c.listings)
           /\ d = Root => <<n>> \notin Listed(r.listings)
           /\ \A e \in Listed(r.listings), m \in Names : e # d \/ m # n => Keeps(r.listings, c.listings, e, m)
           /\ d \in Listed(r.listings) => Lacks(r.listings, d, n)
<1> DEFINE S == IF d = Root THEN Cached(c) \cap {<<n>>} ELSE {}
           u == Erase(c, S)
           r == RemoveDir(c, d, n)
<1>1. Cache(u) /\ u.listings = [e \in Dirs |-> IF e \in S THEN NoListing ELSE c.listings[e]]
  BY EraseIs
<1>2. Listed(u.listings) = Listed(c.listings) \ (IF d = Root THEN {<<n>>} ELSE {})
  BY <1>1 DEF Listed, Cached
<1>3. \A e \in Listed(u.listings) : u.listings[e] = c.listings[e]
  BY <1>1 DEF Listed, Cached
<1>4. r = RemoveFile(u, d, n)
  BY DEF RemoveDir
<1> HIDE DEF u, r
<1>5. /\ Cache(r) /\ Listed(r.listings) \subseteq Listed(u.listings)
      /\ \A e \in Dirs, m \in Names : e # d \/ m # n => Keeps(r.listings, u.listings, e, m)
      /\ d \in Listed(u.listings) => Lacks(r.listings, d, n)
  BY <1>1, <1>4, RemoveIs
<1>6. ASSUME NEW e \in Listed(r.listings), NEW m \in Names, e # d \/ m # n
      PROVE  Keeps(r.listings, c.listings, e, m)
  <2>1. e \in Dirs /\ u.listings[e] = c.listings[e] /\ Keeps(r.listings, u.listings, e, m)
    BY <1>3, <1>5, <1>6 DEF Listed
  <2> QED
    BY <2>1 DEF Keeps
<1> QED
  BY <1>2, <1>5, <1>6 DEF r

(* Store puts the listing in place and may drop any listing. *)
LEMMA StoreIs ==
    ASSUME NEW c, Cache(c), NEW d \in Dirs, NEW entries \in [Names -> {"none", "dir", "small", "large"}]
    PROVE  LET r == Store(c, d, entries) IN
           /\ Cache(r)
           /\ \A e \in Listed(r.listings) : r.listings[e] = IF e = d THEN Listing(entries) ELSE c.listings[e]
<1> DEFINE l == [c.listings EXCEPT ![d] = Listing(entries)]
           new == [c EXCEPT !.listings[d] = Listing(entries),
                            !.total = (@ + Size(Listing(entries))) - Size(c.listings[d])]
           u == UpdateLru(new, {d})
<1>1. Listing(entries) \in Listings
  BY DEF Listing, Listings, FileKinds
<1>2. l \in [Dirs -> Listings]
  BY <1>1 DEF Cache
<1>3. new = [c EXCEPT !.listings = l, !.total = (c.total + Size(Listing(entries))) - Size(c.listings[d])]
  BY DEF Cache
<1>4. Cache(new) /\ new.listings = l
  <2> DEFINE t == (c.total + Size(Listing(entries))) - Size(c.listings[d])
  <2> HIDE DEF new, t, l
  <2> QED
    BY <1>2, <1>3 DEF Cache, t
<1> HIDE DEF new
<1>5. Cache(u) /\ u.listings = l
  BY <1>4, LookupKeeps
<1>6. Store(c, d, entries) \in {u, Prune(u)}
  BY DEF Store, new
<1> HIDE DEF u, l
<1>7. PICK S : Prune(u) = Erase(u, S)
  BY DEF Prune
<1>8. Cache(Prune(u)) /\ \A e \in Listed(Prune(u).listings) : Prune(u).listings[e] = u.listings[e]
  <2>1. /\ Cache(Prune(u))
        /\ Prune(u).listings = [e \in Dirs |-> IF e \in S THEN NoListing ELSE u.listings[e]]
    <3>1. /\ Cache(Erase(u, S))
          /\ Erase(u, S).listings = [e \in Dirs |-> IF e \in S THEN NoListing ELSE u.listings[e]]
      <4>1. Cache(u)
        BY <1>5
      <4> QED
        BY <4>1, EraseIs
    <3> QED
      BY <1>7, <3>1
  <2> QED
    BY <2>1 DEF Listed
<1>9. \A e \in Dirs : l[e] = IF e = d THEN Listing(entries) ELSE c.listings[e]
  BY DEF Cache, l
<1> QED
  BY <1>5, <1>6, <1>8, <1>9 DEF Listed

(* Rename, if the entry is in the cache: the old one goes, the new one is  *)
(* marked, and the listing of a directory that moves goes.                 *)
LEMMA RenameIs ==
    ASSUME NamesDiffer, NEW c, Cache(c),
           NEW d \in Dirs, NEW n \in Names, NEW toDir \in Dirs, NEW toName \in Names,
           <<d, n>> # <<toDir, toName>>, d \in Listed(c.listings), c.listings[d].entries[n] # "none"
    PROVE  LET r == Rename(c, d, n, toDir, toName) IN
           /\ Cache(r) /\ Listed(r.listings) \subseteq Listed(c.listings)
           /\ d = Root /\ c.listings[d].entries[n] = "dir" => <<n>> \notin Listed(r.listings)
           /\ \A e \in Listed(r.listings), m \in Names :
                 \/ <<e, m>> = <<toDir, toName>> /\ Marks(r.listings, e, m)
                 \/ <<e, m>> = <<d, n>> /\ Lacks(r.listings, e, m)
                 \/ <<e, m>> # <<toDir, toName>> /\ <<e, m>> # <<d, n>> /\ Keeps(r.listings, c.listings, e, m)
<1> DEFINE used == Lookup(c, d)
           kind == c.listings[d].entries[n]
           type == IF kind = "dir" THEN "dir" ELSE "file"
           added == IF kind = "dir" THEN "dir" ELSE "unsized"
           Added(e) == UpdateFile(e, toDir, toName, TRUE, type, added)
           over == RemoveFile(used, d, toName)
           r == Rename(c, d, n, toDir, toName)
<1>1. Cache(used) /\ used.listings = c.listings
  BY LookupKeeps DEF Lookup
<1>2. d \in Cached(c) /\ kind \in {"none", "dir"} \cup FileKinds
  BY DEF Listed, Cached, Cache, Listings
<1>3. added \in {"none", "dir"} \cup FileKinds /\ type # "unknown" /\ added # "none"
  BY DEF FileKinds
<1>4. r = IF d = toDir
          THEN CASE over.listings[d].entries[n] = "none" -> over
                 [] over.listings[d].entries[n] = "dir" -> Added(RemoveDir(RemoveDir(over, d, n), d, toName))
                 [] OTHER -> [over EXCEPT !.listings[d] = Renamed(@, n, toName, kind)]
          ELSE CASE kind = "none" -> used
                 [] kind = "dir" -> Added(RemoveDir(used, d, n))
                 [] OTHER -> Added(RemoveFile(used, d, n))
  BY <1>2 DEF Rename
<1> HIDE DEF used, type, added, r
<1>5. ASSUME NEW e, Cache(e)
      PROVE  /\ Cache(Added(e)) /\ Listed(Added(e).listings) \subseteq Listed(e.listings)
             /\ \A g \in Dirs, m \in Names :
                   <<g, m>> # <<toDir, toName>> => Keeps(Added(e).listings, e.listings, g, m)
             /\ toDir \in Listed(e.listings) => Marks(Added(e).listings, toDir, toName)
  BY <1>3, <1>5, UpdateIs
<1> HIDE DEF Added
<1>6. CASE d # toDir /\ kind = "dir"
  <2> DEFINE u == RemoveDir(used, d, n)
  <2>1. r = Added(u)
    BY <1>4, <1>6
  <2>2. /\ Cache(u) /\ Listed(u.listings) \subseteq Listed(c.listings)
        /\ d = Root => <<n>> \notin Listed(u.listings)
        /\ \A e \in Listed(u.listings), m \in Names : e # d \/ m # n => Keeps(u.listings, c.listings, e, m)
        /\ d \in Listed(u.listings) => Lacks(u.listings, d, n)
    BY <1>1, RemoveDirIs
  <2> HIDE DEF u
  <2>3. /\ Cache(r) /\ Listed(r.listings) \subseteq Listed(u.listings)
        /\ \A g \in Dirs, m \in Names : <<g, m>> # <<toDir, toName>> => Keeps(r.listings, u.listings, g, m)
        /\ toDir \in Listed(u.listings) => Marks(r.listings, toDir, toName)
    BY <1>5, <2>1, <2>2
  <2> QED
    BY <1>6, <2>2, <2>3 DEF Keeps, Lacks, Listed, r
<1>7. CASE d # toDir /\ kind # "dir"
  <2> DEFINE u == RemoveFile(used, d, n)
  <2>1. r = Added(u)
    BY <1>4, <1>7
  <2>2. /\ Cache(u) /\ Listed(u.listings) \subseteq Listed(c.listings)
        /\ \A e \in Dirs, m \in Names : e # d \/ m # n => Keeps(u.listings, c.listings, e, m)
        /\ Lacks(u.listings, d, n)
    BY <1>1, RemoveIs
  <2> HIDE DEF u
  <2>3. /\ Cache(r) /\ Listed(r.listings) \subseteq Listed(u.listings)
        /\ \A g \in Dirs, m \in Names : <<g, m>> # <<toDir, toName>> => Keeps(r.listings, u.listings, g, m)
        /\ toDir \in Listed(u.listings) => Marks(r.listings, toDir, toName)
    BY <1>5, <2>1, <2>2
  <2> QED
    BY <1>7, <2>2, <2>3 DEF Keeps, Lacks, Listed, r
<1>8. CASE d = toDir
  <2>1. /\ Cache(over) /\ Listed(over.listings) \subseteq Listed(c.listings)
        /\ \A e \in Dirs, m \in Names : e # d \/ m # toName => Keeps(over.listings, c.listings, e, m)
        /\ Lacks(over.listings, d, toName)
    BY <1>1, RemoveIs
  <2>2. n # toName /\ over.listings[d].entries[n] = kind
    BY <1>8, <2>1 DEF Keeps
  <2> HIDE DEF over
  <2>3. CASE kind = "dir"
    <3> DEFINE u == RemoveDir(over, d, n)
               v == RemoveDir(u, d, toName)
    <3>1. r = Added(v)
      BY <1>4, <1>8, <2>2, <2>3
    <3>2. /\ Cache(u) /\ Listed(u.listings) \subseteq Listed(over.listings)
          /\ d = Root => <<n>> \notin Listed(u.listings)
          /\ \A e \in Listed(u.listings), m \in Names : e # d \/ m # n => Keeps(u.listings, over.listings, e, m)
          /\ d \in Listed(u.listings) => Lacks(u.listings, d, n)
      BY <2>1, RemoveDirIs
    <3> HIDE DEF u
    <3>3. /\ Cache(v) /\ Listed(v.listings) \subseteq Listed(u.listings)
          /\ \A e \in Listed(v.listings), m \in Names : e # d \/ m # toName => Keeps(v.listings, u.listings, e, m)
      BY <3>2, RemoveDirIs
    <3> HIDE DEF v
    <3>4. /\ Cache(r) /\ Listed(r.listings) \subseteq Listed(v.listings)
          /\ \A g \in Dirs, m \in Names : <<g, m>> # <<toDir, toName>> => Keeps(r.listings, v.listings, g, m)
          /\ toDir \in Listed(v.listings) => Marks(r.listings, toDir, toName)
      BY <1>5, <3>1, <3>3
    <3>5. ASSUME NEW e \in Listed(r.listings), NEW m \in Names
          PROVE  \/ <<e, m>> = <<toDir, toName>> /\ Marks(r.listings, e, m)
                 \/ <<e, m>> = <<d, n>> /\ Lacks(r.listings, e, m)
                 \/ <<e, m>> # <<toDir, toName>> /\ <<e, m>> # <<d, n>> /\ Keeps(r.listings, c.listings, e, m)
      <4>1. e \in Dirs /\ e \in Listed(v.listings) /\ e \in Listed(u.listings) /\ e \in Listed(over.listings)
        BY <3>2, <3>3, <3>4, <3>5 DEF Listed
      <4>2. CASE e = toDir /\ m = toName
        BY <3>4, <4>1, <4>2
      <4>3. CASE e # toDir \/ m # toName
        <5>1. Keeps(r.listings, v.listings, e, m) /\ Keeps(v.listings, u.listings, e, m)
          BY <1>8, <3>3, <3>4, <4>1, <4>3
        <5>2. CASE e = d /\ m = n
          BY <3>2, <4>1, <5>1, <5>2 DEF Keeps, Lacks
        <5>3. CASE e # d \/ m # n
          <6>1. Keeps(u.listings, over.listings, e, m) /\ Keeps(over.listings, c.listings, e, m)
            BY <1>8, <2>1, <3>2, <4>1, <4>3, <5>3
          <6> QED
            BY <4>3, <5>1, <5>3, <6>1 DEF Keeps
        <5> QED
          BY <5>2, <5>3
      <4> QED
        BY <4>2, <4>3
    <3>6. d = Root => <<n>> \notin Listed(r.listings)
      BY <3>2, <3>3, <3>4
    <3> QED
      BY <2>1, <3>2, <3>3, <3>4, <3>5, <3>6 DEF r
  <2>4. CASE kind # "dir"
    <3> DEFINE u == Unsure(over.listings[d])
               o == Renamed(over.listings[d], n, toName, kind)
               l == [over.listings EXCEPT ![d] = o]
    <3>1. r = [over EXCEPT !.listings[d] = Renamed(@, n, toName, kind)]
      BY <1>4, <1>8, <2>2, <2>4
    <3>2. over.listings \in [Dirs -> Listings] /\ over.listings[d] \in Listings
      BY <2>1 DEF Cache
    <3>3. /\ u \in Listings /\ u.entries = over.listings[d].entries
          /\ u.unsureNames = over.listings[d].unsureNames /\ u.unsure = TRUE
      BY <3>2, MarkedType
    <3> HIDE DEF kind
    <3>4. r = [over EXCEPT !.listings = l]
      BY <2>1, <3>1 DEF Cache
    <3> HIDE DEF u
    <3>5. /\ o \in Listings /\ o.unsure = TRUE /\ o.unsureNames = (u.unsureNames \ {n}) \cup {toName}
          /\ o.entries = [u.entries EXCEPT ![n] = "none", ![toName] = kind]
      <4>1. o = [u EXCEPT !.entries = [u.entries EXCEPT ![n] = "none", ![toName] = kind],
                          !.unsureNames = (u.unsureNames \ {n}) \cup {toName}]
        BY DEF Renamed, u
      <4>2. [u.entries EXCEPT ![n] = "none", ![toName] = kind] \in [Names -> {"none", "dir"} \cup FileKinds]
        BY <1>2, <3>3 DEF Listings
      <4> HIDE DEF o
      <4> QED
        BY <3>3, <4>1, <4>2 DEF Listings
    <3> HIDE DEF o
    <3>6. Cache(r) /\ r.listings = l
      <4>1. l \in [Dirs -> Listings]
        BY <3>2, <3>5
      <4> HIDE DEF l
      <4> QED
        BY <2>1, <3>4, <4>1 DEF Cache
    <3>7. r.listings[d] = o /\ \A e \in Dirs \ {d} : r.listings[e] = over.listings[e]
      BY <3>2, <3>6
    <3>8. /\ o.entries[n] = "none" /\ o.entries[toName] = kind
          /\ \A m \in Names \ {n, toName} : o.entries[m] = over.listings[d].entries[m]
      <4>1. u.entries \in [Names -> {"none", "dir"} \cup FileKinds]
        BY <3>3 DEF Listings
      <4> QED
        BY <2>2, <3>3, <3>5, <4>1
    <3>9. Listed(r.listings) \subseteq Listed(c.listings)
      BY <2>1, <3>7 DEF Listed
    <3>10. Marks(r.listings, d, toName) /\ Lacks(r.listings, d, n)
      BY <3>5, <3>7, <3>8 DEF Marks, Lacks, kind
    <3>11. ASSUME NEW e \in Dirs, NEW m \in Names, e # d \/ (m # n /\ m # toName)
           PROVE  Keeps(r.listings, c.listings, e, m)
      <4>1. Keeps(over.listings, c.listings, e, m)
        BY <2>1, <3>11
      <4>2. CASE e = d
        BY <3>3, <3>5, <3>7, <3>8, <3>11, <4>1, <4>2 DEF Keeps
      <4>3. CASE e # d
        <5>1. r.listings[e] = over.listings[e]
          BY <3>7, <4>3
        <5> QED
          BY <4>1, <5>1 DEF Keeps
      <4> QED
        BY <4>2, <4>3
    <3> QED
      BY <1>8, <2>4, <3>6, <3>9, <3>10, <3>11 DEF Listed, r, kind
  <2> QED
    BY <2>3, <2>4
<1> QED
  BY <1>6, <1>7, <1>8

-------------------------------------------------------------------------------
(* There is one connection. *)
LEMMA OneConnection ==
    ASSUME Scope
    PROVE  Conns = {Conn}
BY DEF Scope, Alone, Conn

(* The directory d exists among the files f. *)
HasIn(f, d) == d = Root \/ f[Root][Head(d)] = "dir"

(* All listings are right. *)
Plain == \A e \in Cached(dc) : Has(e) /\ \A m \in Names : Fits(L, files, e, m)

(* A connection without a command *)
LEMMA NoCommandIs ==
    ASSUME Scope
    PROVE  /\ NoCommand \in Commands /\ NoCommand.op = "none" /\ NoCommand.state = "sent"
           /\ NoCommand.ok = FALSE /\ NoCommand.abandoned = FALSE
<1>1. (CHOOSE n \in Names : TRUE) \in Names
  BY DEF Scope
<1>2. Empty \in [Names -> {"none", "dir", "small", "large"}]
  BY DEF Empty
<1>3. Root \in Dirs
  BY DEF Dirs
<1> QED
  BY <1>1, <1>2, <1>3 DEF NoCommand, Commands

(* Before a command is carried out, and without one, all are right. *)
LEMMA QuietIsPlain ==
    ASSUME Honest, K.op = "none" \/ K.state = "sent"
    PROVE  Plain
BY DEF Honest, Plain, Gone, Open, Carried

(* If all listings are right, the properties hold. *)
LEMMA PlainProperties ==
    ASSUME Types, Plain
    PROVE  SureIsTrue /\ AbsentIsAbsent
<1>1. L \in [Dirs -> Listings] /\ files \in [Dirs -> [Names -> {"none", "dir", "small", "large"}]]
  BY DEF Types, Cache, L, Grown
<1>2. ASSUME NEW d \in Cached(dc), ~L[d].unsure
      PROVE  L[d].entries = files[d]
  <2>1. d \in Dirs
    BY <1>2 DEF Cached
  <2>2. L[d] \in Listings /\ files[d] \in [Names -> {"none", "dir", "small", "large"}]
    BY <1>1, <2>1
  <2>3. L[d].entries \in [Names -> {"none", "dir"} \cup FileKinds]
    BY <2>2 DEF Listings
  <2>4. \A m \in Names : L[d].entries[m] = files[d][m]
    BY <1>2 DEF Plain, Fits
  <2> QED
    BY <2>2, <2>3, <2>4
<1>3. SureIsTrue
  BY <1>2 DEF SureIsTrue, Plain, Fits, L
<1>4. AbsentIsAbsent
  BY DEF AbsentIsAbsent, Plain, Fits, L
<1> QED
  BY <1>3, <1>4

(* The invariant implies the two properties. *)
LEMMA CacheImplied ==
    ASSUME Scope, CInv
    PROVE  SureIsTrue /\ AbsentIsAbsent
<1>1. CASE Quiet /\ ~mistaken
  <2>1. K.op = "none" \/ K.state = "sent"
    BY <1>1, OneConnection DEF Quiet, K
  <2>2. Plain
    BY <1>1, <2>1, QuietIsPlain DEF CInv, Truth
  <2> QED
    BY <2>2, PlainProperties DEF CInv
<1>2. CASE ~(Quiet /\ ~mistaken)
  BY <1>2 DEF SureIsTrue, AbsentIsAbsent
<1> QED
  BY <1>1, <1>2

(* An empty cache *)
LEMMA Initially ==
    ASSUME Scope, CacheInit
    PROVE  CInv
<1>1. Conns = {Conn} /\ K = NoCommand
  BY OneConnection DEF CacheInit, K
<1>2. Types
  <2>1. Cache(dc)
    BY NoListingType DEF CacheInit, Cache
  <2>2. cmd \in [Conns -> Commands]
    BY NoCommandIs DEF CacheInit
  <2> QED
    BY <2>1, <2>2 DEF Types, CacheInit, Scope
<1>3. Shapes
  BY <1>1, NoCommandIs DEF Shapes
<1>4. Cached(dc) = {}
  BY DEF CacheInit, Cached
<1>5. Truth
  BY <1>1, <1>4, NoCommandIs DEF Truth, Honest, Under
<1> QED
  BY <1>2, <1>3, <1>5 DEF CInv

(* The command of the connection after a step of the connection *)
LEMMA CommandAfter ==
    ASSUME Scope, Types, NEW c \in Conns, NEW k, cmd' = [cmd EXCEPT ![c] = k]
    PROVE  K' = k /\ (k \in Commands => cmd' \in [Conns -> Commands])
BY OneConnection DEF Types, K

(* A use of a listing changes nothing that matters. *)
LEMMA Used ==
    ASSUME Cache(dc'), L' = L, UNCHANGED <<files, cmd, mistaken>>, CInv
    PROVE  CInv'
<1>1. K' = K /\ Cached(dc)' = Cached(dc)
  BY DEF K, Cached, L
<1>2. Types'
  BY DEF CInv, Types, Grown
<1>3. Shapes'
  BY <1>1 DEF CInv, Shapes
<1>4. Honest' <=> Honest
  BY <1>1 DEF Honest, Gone, Open, Carried, Fits, Has
<1>5. Under' <=> Under
  BY <1>1 DEF Under, Carried, Prepared, Has
<1> QED
  BY <1>2, <1>3, <1>4, <1>5 DEF CInv, Truth

(* Look *)
LEMMA LookStep ==
    ASSUME CInv, NEW d \in Dirs, Look(d)
    PROVE  CInv'
<1>1. Cache(dc)
  BY DEF CInv, Types
<1>2. Cache(dc') /\ dc'.listings = dc.listings
  BY <1>1, LookupKeeps DEF Look, Lookup
<1> QED
  BY <1>2, Used DEF Look, L

(* Listings that are marked more than before are still right. *)
LEMMA StillPlain ==
    ASSUME Plain, files' = files, Listed(L') \subseteq Listed(L),
           \A e \in Listed(L'), m \in Names : Keeps(L', L, e, m)
    PROVE  Plain'
<1>1. Cached(dc) = Listed(L) /\ Cached(dc)' = Listed(L')
  BY DEF Cached, Listed, L
<1>2. ASSUME NEW e \in Listed(L') PROVE Has(e)' /\ \A m \in Names : Fits(L', files', e, m)
  <2>1. Has(e)'
    BY <1>1, <1>2 DEF Plain, Has
  <2>2. ASSUME NEW m \in Names PROVE Fits(L', files', e, m)
    <3>1. Fits(L, files, e, m) /\ Keeps(L', L, e, m)
      BY <1>1, <1>2, <2>2 DEF Plain
    <3> QED
      BY <3>1, FitsStill
  <2> QED
    BY <2>1, <2>2
<1> QED
  BY <1>1, <1>2 DEF Plain

(* What the user may ask for *)
LEMMA RequestsType ==
    ASSUME Scope, NEW k \in Requests, Ops \subseteq AllOps
    PROVE  /\ k \in Commands /\ k.op # "none" /\ k.state = "sent" /\ ~k.ok /\ ~k.abandoned
           /\ k.op = "rename" => <<k.dir, k.name>> # <<k.toDir, k.toName>>
           /\ k.op \in {"rmd", "mkd"} => k.dir = Root
           /\ k.op = "stor" => k.kind # "none"
<1>1. Empty \in [Names -> {"none", "dir", "small", "large"}]
  BY DEF Empty
<1>2. SentOps = Ops
  BY DEF SentOps, Scope, Harmless
<1>3. k \in Commands
  BY <1>1, <1>2 DEF Requests, Commands
<1> QED
  BY <1>2, <1>3 DEF Requests, AllOps

(* Send *)
LEMMA SendStep ==
    ASSUME Scope, CInv, NEW c \in Conns, Send(c)
    PROVE  CInv'
<1>1. Ops \subseteq AllOps
  BY DEF Scope, Harmless
<1>2. PICK k \in Requests : cmd' = [cmd EXCEPT ![c] = k] /\ dc' = Before(k)
  BY DEF Send
<1>3. Types /\ NamesDiffer /\ Cache(dc)
  BY DEF CInv, Scope, Types
<1>4. K' = k /\ cmd' \in [Conns -> Commands] /\ k \in Commands /\ k.state = "sent" /\ ~k.ok /\ ~k.abandoned
  BY <1>1, <1>2, <1>3, CommandAfter, RequestsType
<1>5. k.dir \in Dirs /\ k.toDir \in Dirs /\ k.name \in Names /\ k.toName \in Names
  BY <1>4 DEF Commands
<1>6. Shapes'
  BY <1>1, <1>4, RequestsType DEF Shapes
<1>7. K.op = "none"
  BY OneConnection, NoCommandIs DEF Send, K
<1>8. ~mistaken => Plain
  BY <1>7, QuietIsPlain DEF CInv, Truth
<1>9. ~Carried'
  BY <1>4 DEF Carried
<1> DEFINE one == InvalidateFile(dc, k.dir, k.name)
           two == InvalidateFile(one, k.toDir, k.toName)
<1>10. /\ Cache(one) /\ Listed(one.listings) \subseteq Listed(L)
       /\ \A e \in Dirs, m \in Names : Keeps(one.listings, L, e, m)
       /\ k.dir \in Listed(L) => one.listings[k.dir].unsure
              /\ (one.listings[k.dir].entries[k.name] = "none" \/ k.name \in one.listings[k.dir].unsureNames)
  BY <1>3, <1>5, InvalidateIs DEF L
<1> HIDE DEF one
<1>11. /\ Cache(two) /\ Listed(two.listings) \subseteq Listed(one.listings)
       /\ \A e \in Dirs, m \in Names : Keeps(two.listings, one.listings, e, m)
       /\ k.toDir \in Listed(one.listings) => two.listings[k.toDir].unsure
              /\ (two.listings[k.toDir].entries[k.toName] = "none" \/ k.toName \in two.listings[k.toDir].unsureNames)
  BY <1>3, <1>5, <1>10, InvalidateIs
<1> HIDE DEF two
<1>12. Cached(dc)' = Listed(L') /\ Cached(dc) = Listed(L)
  BY DEF Cached, Listed, L
<1>13. files' = files /\ mistaken' = mistaken
  BY DEF Send
<1>14. Cache(dc') /\ (~mistaken => Plain' /\ Under')
  <2>1. CASE k.op \in {"dele", "rmd"}
    <3>1. dc' = one
      BY <1>2, <2>1 DEF Before, SendDelete, SendRemoveDir, one
    <3>2. Listed(L') \subseteq Listed(L) /\ \A e \in Listed(L'), m \in Names : Keeps(L', L, e, m)
      BY <1>10, <3>1 DEF L, Listed
    <3>3. Prepared(k.dir, k.name)'
      BY <1>10, <1>12, <3>1, <3>2 DEF Prepared, L
    <3> QED
      BY <1>4, <1>8, <1>9, <1>10, <1>13, <2>1, <3>1, <3>2, <3>3, StillPlain DEF Under
  <2>2. CASE k.op = "rename"
    <3>1. dc' = two
      BY <1>2, <2>2 DEF Before, SendRename, one, two
    <3>2. Listed(L') \subseteq Listed(one.listings) /\ Listed(L') \subseteq Listed(L)
      BY <1>10, <1>11, <3>1 DEF L
    <3>3. \A e \in Listed(L'), m \in Names : Keeps(L', one.listings, e, m) /\ Keeps(one.listings, L, e, m)
      BY <1>10, <1>11, <3>1 DEF L, Listed
    <3>4. \A e \in Listed(L'), m \in Names : Keeps(L', L, e, m)
      BY <3>3 DEF Keeps
    <3>5. Prepared(k.toDir, k.toName)'
      BY <1>11, <1>12, <3>1, <3>2 DEF Prepared, L
    <3>6. Prepared(k.dir, k.name)'
      BY <1>5, <1>10, <1>12, <3>2, <3>3 DEF Prepared, Keeps
    <3> QED
      BY <1>4, <1>8, <1>9, <1>11, <1>13, <2>2, <3>1, <3>2, <3>4, <3>5, <3>6, StillPlain DEF Under
  <2>3. CASE k.op = "raw"
    <3>1. dc' = Erase(dc, Cached(dc))
      BY <1>2, <2>3 DEF Before, SendRawCommand, InvalidateServer
    <3>2. Cache(dc') /\ L' = [e \in Dirs |-> IF e \in Cached(dc) THEN NoListing ELSE dc.listings[e]]
      BY <1>3, <3>1, EraseIs DEF L
    <3>3. Cached(dc)' = {}
      BY <1>12, <3>2 DEF Listed, Cached
    <3> QED
      BY <1>4, <1>9, <2>3, <3>2, <3>3 DEF Plain, Under
  <2>4. CASE k.op \notin {"dele", "rmd", "rename", "raw"}
    <3>1. Cache(dc') /\ L' = L
      <4>1. dc' = dc \/ dc' = Lookup(dc, k.dir)
        BY <1>2, <2>4 DEF Before, SendList
      <4> QED
        BY <1>3, <4>1, LookupKeeps DEF Lookup, L
    <3>2. ~mistaken => Plain'
      BY <1>8, <1>12, <1>13, <3>1 DEF Plain, Fits, Has
    <3> QED
      BY <1>4, <1>9, <2>4, <3>1, <3>2 DEF Under
  <2> QED
    BY <2>1, <2>2, <2>3, <2>4
<1>15. Types'
  BY <1>3, <1>4, <1>13, <1>14 DEF Types, Grown
<1>16. Plain' => Honest'
  BY DEF Plain, Honest
<1> QED
  BY <1>6, <1>13, <1>14, <1>15, <1>16 DEF CInv, Truth

(* Rename of an entry that is not in the cache *)
LEMMA RenameNothing ==
    ASSUME NamesDiffer, NEW c, Cache(c),
           NEW d \in Dirs, NEW n \in Names, NEW toDir \in Dirs, NEW toName \in Names,
           <<d, n>> # <<toDir, toName>>
    PROVE  /\ d \in Listed(c.listings) /\ c.listings[d].entries[n] = "none" => Cache(Rename(c, d, n, toDir, toName))
           /\ d \notin Listed(c.listings) =>
                 Cache(Rename(c, d, n, toDir, toName)) /\ Listed(Rename(c, d, n, toDir, toName).listings) = {}
<1> DEFINE used == Lookup(c, d)
           over == RemoveFile(used, d, toName)
<1>1. Cache(used) /\ used.listings = c.listings
  BY LookupKeeps DEF Lookup
<1>2. Cached(c) = Listed(c.listings)
  BY DEF Cached, Listed
<1>3. CASE d \in Listed(c.listings) /\ c.listings[d].entries[n] = "none"
  <2>1. Cache(over) /\ \A e \in Dirs, m \in Names : e # d \/ m # toName => Keeps(over.listings, c.listings, e, m)
    BY <1>1, RemoveIs
  <2>2. d = toDir => over.listings[d].entries[n] = "none"
    BY <1>3, <2>1 DEF Keeps
  <2>3. Rename(c, d, n, toDir, toName) = IF d = toDir THEN over ELSE used
    BY <1>2, <1>3, <2>2 DEF Rename
  <2> QED
    BY <1>1, <1>3, <2>1, <2>3
<1>4. CASE d \notin Listed(c.listings)
  <2>1. Rename(c, d, n, toDir, toName) = Erase(c, Cached(c))
    BY <1>2, <1>4 DEF Rename, InvalidateServer
  <2>2. /\ Cache(Erase(c, Cached(c)))
        /\ Erase(c, Cached(c)).listings =
              [e \in Dirs |-> IF e \in Cached(c) THEN NoListing ELSE c.listings[e]]
    BY EraseIs
  <2>3. Listed(Erase(c, Cached(c)).listings) = {}
    BY <2>2 DEF Listed, Cached
  <2> QED
    BY <1>4, <2>1, <2>2, <2>3
<1> QED
  BY <1>3, <1>4

(* An update of the entry that was open makes all listings right. *)
LEMMA UpdatePlain ==
    ASSUME Scope, Cache(dc), NEW d \in Dirs, NEW n \in Names, NEW may \in BOOLEAN, NEW type,
           NEW kind \in {"none", "dir"} \cup FileKinds,
           \A e \in Cached(dc) : Has(e) /\ \A m \in Names : (e = d /\ m = n) \/ Fits(L, files, e, m),
           \/ may /\ type # "unknown" /\ kind # "none"
           \/ ~may /\ (d \in Cached(dc) => Fits(L, files, d, n)),
           files' = files, dc' = UpdateFile(dc, d, n, may, type, kind)
    PROVE  Plain' /\ (d \in Cached(dc)' /\ may => Marks(L', d, n))
<1>1. Cached(dc) = Listed(L) /\ Cached(dc)' = Listed(L') /\ NamesDiffer
  BY DEF Cached, Listed, L, Scope
<1>2. /\ Listed(L') \subseteq Listed(L)
      /\ \A e \in Dirs, m \in Names : e # d \/ m # n => Keeps(L', L, e, m)
      /\ d \in Listed(L) /\ (L[d].entries[n] # "none" \/ (may /\ type # "unknown" /\ kind # "none"))
            => Marks(L', d, n)
      /\ d \notin Listed(L) \/ L[d].entries[n] # "none" \/ ~may => Keeps(L', L, d, n)
  BY <1>1, UpdateIs DEF L
<1>3. ASSUME NEW e \in Listed(L') PROVE Has(e)' /\ \A m \in Names : Fits(L', files', e, m)
  <2>1. e \in Listed(L) /\ e \in Dirs
    BY <1>2, <1>3 DEF Listed
  <2>2. Has(e)'
    BY <1>1, <2>1 DEF Has
  <2>3. ASSUME NEW m \in Names PROVE Fits(L', files', e, m)
    <3>1. CASE e # d \/ m # n
      <4>1. Keeps(L', L, e, m) /\ Fits(L, files, e, m)
        BY <1>1, <1>2, <2>1, <2>3, <3>1
      <4> QED
        BY <4>1, FitsStill
    <3>2. CASE e = d /\ m = n /\ may
      BY <1>2, <2>1, <3>2, FitsStill
    <3>3. CASE e = d /\ m = n /\ ~may
      <4>1. Keeps(L', L, e, m) /\ Fits(L, files, e, m)
        BY <1>1, <1>2, <2>1, <3>3
      <4> QED
        BY <4>1, FitsStill
    <3> QED
      BY <3>1, <3>2, <3>3
  <2> QED
    BY <2>2, <2>3
<1> QED
  BY <1>1, <1>2, <1>3 DEF Plain

(* Cancel *)
LEMMA CancelStep ==
    ASSUME Scope, CInv, NEW c \in Conns, Cancel(c)
    PROVE  CInv'
<1>1. c = Conn /\ cmd[c] = K
  BY OneConnection DEF K
<1> DEFINE k == [K EXCEPT !.abandoned = TRUE]
           u == [K EXCEPT !.ok = FALSE]
<1>2. Types /\ K \in Commands /\ Cache(dc)
  BY <1>1 DEF CInv, Types
<1>3. cmd' = [cmd EXCEPT ![c] = k]
  BY <1>1, <1>2 DEF Cancel, Types
<1>4. /\ k \in Commands /\ k.op = K.op /\ k.dir = K.dir /\ k.name = K.name /\ k.toDir = K.toDir /\ k.kind = K.kind
      /\ k.toName = K.toName /\ k.state = K.state /\ k.ok = K.ok /\ k.seen = K.seen /\ k.abandoned = TRUE
  BY <1>2 DEF Commands
<1>5. u.ok = FALSE /\ u.dir = K.dir /\ u.name = K.name /\ u.kind = K.kind
  BY <1>2 DEF Commands
<1> HIDE DEF k
<1>6. K' = k /\ cmd' \in [Conns -> Commands]
  BY <1>2, <1>3, <1>4, CommandAfter
<1>7. /\ K.op \in Abandon /\ K.op \notin {"rmd", "mkd", "rename"} /\ ~K.abandoned
      /\ files' = files /\ mistaken' = mistaken
  BY <1>1 DEF Cancel, Scope, Harmless
<1>8. K.op # "none"
  BY <1>7 DEF Scope, Harmless, AllOps
<1>9. Shapes'
  BY <1>4, <1>6, <1>7, <1>8 DEF CInv, Shapes
<1>10. K.dir \in Dirs /\ K.name \in Names
  BY <1>2 DEF Commands
<1>11. \A e : ~Gone(e) /\ ~Gone(e)'
  BY <1>4, <1>6, <1>7 DEF Gone
<1>12. \A e, m : ~Open(e, m)' /\ (Open(e, m) => K.op = "stor" /\ e = K.dir /\ m = K.name)
  BY <1>4, <1>6, <1>7 DEF Open
<1>13. CASE K.op = "stor"
  <2>1. dc' = UpdateFile(dc, K.dir, K.name, TRUE, "file", "unsized")
    BY <1>1, <1>5, <1>13 DEF Cancel, Uploaded
  <2>2. Cache(dc')
    BY <1>2, <1>10, <2>1, UpdateIs DEF Scope, FileKinds
  <2>3. ASSUME ~mistaken PROVE Plain' /\ (K.dir \in Cached(dc)' => Marks(L', K.dir, K.name))
    <3>1. \A e \in Cached(dc) : Has(e) /\ \A m \in Names : (e = K.dir /\ m = K.name) \/ Fits(L, files, e, m)
      BY <1>11, <1>12, <2>3 DEF CInv, Truth, Honest
    <3>2. "unsized" \in {"none", "dir"} \cup FileKinds /\ TRUE \in BOOLEAN
      BY DEF FileKinds
    <3> QED
      BY <1>2, <1>7, <1>10, <2>1, <3>1, <3>2, UpdatePlain
  <2>4. ~mistaken => Honest' /\ Under'
    BY <1>4, <1>6, <1>13, <2>3 DEF Plain, Honest, Under, Marks
  <2>5. Types'
    BY <1>2, <1>6, <1>7, <2>2 DEF Types, Grown
  <2> QED
    BY <1>7, <1>9, <2>4, <2>5 DEF CInv, Truth
<1>14. CASE K.op # "stor"
  <2>1. dc' = dc /\ L' = L /\ Cached(dc)' = Cached(dc)
    BY <1>1, <1>14 DEF Cancel, L, Cached
  <2>2. ~mistaken => Honest'
    BY <1>7, <1>11, <1>12, <1>14, <2>1 DEF CInv, Truth, Honest, Fits, Has
  <2>3. ~mistaken => Under'
    BY <1>4, <1>6, <1>7, <1>14, <2>1 DEF CInv, Truth, Under, Carried, Prepared, Has
  <2>4. Types'
    BY <1>2, <1>6, <1>7, <2>1 DEF Types, Grown
  <2> QED
    BY <1>7, <1>9, <2>2, <2>3, <2>4 DEF CInv, Truth
<1> QED
  BY <1>13, <1>14

(* What comes out of After is a cache. *)
LEMMA AfterType ==
    ASSUME Scope, Cache(dc), K \in Commands, Shapes, NEW r \in After(K)
    PROVE  Cache(r)
<1>1. /\ K.dir \in Dirs /\ K.name \in Names /\ K.toDir \in Dirs /\ K.toName \in Names /\ NamesDiffer
      /\ K.kind \in {"none", "small", "large"} /\ K.seen \in [Names -> {"none", "dir", "small", "large"}]
  BY DEF Commands, Scope
<1>2. \A may \in BOOLEAN, kind \in {"none", "dir"} \cup FileKinds :
        \A type : Cache(UpdateFile(dc, K.dir, K.name, may, type, kind))
  BY <1>1, UpdateIs
<1>3. CASE K.op = "list"
  <2>1. r = dc \/ r = Store(dc, K.dir, K.seen)
    BY <1>3 DEF After, ListResult
  <2> QED
    BY <1>1, <2>1, StoreIs
<1>4. CASE K.op = "dele"
  <2>1. r = dc \/ r = RemoveFile(dc, K.dir, K.name)
    BY <1>4 DEF After, ParseDelete
  <2> QED
    BY <1>1, <2>1, RemoveIs
<1>5. CASE K.op = "rmd"
  <2>1. r = dc \/ r = RemoveDir(dc, K.dir, K.name)
    BY <1>5 DEF After, ParseRemoveDir
  <2>2. Cache(RemoveDir(dc, K.dir, K.name))
    BY <1>1, RemoveDirIs
  <2> QED
    BY <2>1, <2>2
<1>6. CASE K.op = "rename"
  <2>1. r = dc \/ r = Rename(dc, K.dir, K.name, K.toDir, K.toName)
    BY <1>6 DEF After, ParseRename
  <2>2. <<K.dir, K.name>> # <<K.toDir, K.toName>>
    BY <1>6 DEF Shapes
  <2>3. CASE K.dir \in Listed(dc.listings) /\ dc.listings[K.dir].entries[K.name] # "none"
    <3>1. Cache(Rename(dc, K.dir, K.name, K.toDir, K.toName))
      BY <1>1, <2>2, <2>3, RenameIs
    <3> QED
      BY <2>1, <3>1
  <2>4. CASE ~(K.dir \in Listed(dc.listings) /\ dc.listings[K.dir].entries[K.name] # "none")
    BY <1>1, <2>1, <2>2, <2>4, RenameNothing
  <2> QED
    BY <2>3, <2>4
<1>7. CASE K.op = "mkd"
  <2>1. r = dc \/ r = UpdateFile(dc, K.dir, K.name, TRUE, "dir", "dir")
    BY <1>7 DEF After, ParseMkdir
  <2> QED
    BY <1>2, <2>1
<1>8. CASE K.op = "chmod"
  <2>1. r = dc \/ r = UpdateFile(dc, K.dir, K.name, FALSE, "unknown", "none")
    BY <1>8 DEF After, ParseChmod
  <2> QED
    BY <1>2, <2>1
<1>9. CASE K.op = "stor"
  <2>1. r = dc \/ r = UpdateFile(dc, K.dir, K.name, TRUE, "file", IF K.ok THEN K.kind ELSE "unsized")
    BY <1>9 DEF After, Uploaded
  <2>2. (IF K.ok THEN K.kind ELSE "unsized") \in {"none", "dir"} \cup FileKinds
    BY <1>1 DEF FileKinds
  <2> QED
    BY <1>2, <2>1, <2>2
<1>10. CASE K.op \notin {"list", "dele", "rmd", "rename", "mkd", "chmod", "stor"}
  BY <1>10 DEF After
<1> QED
  BY <1>3, <1>4, <1>5, <1>6, <1>7, <1>8, <1>9, <1>10

(* The reply to a command that nobody cancelled makes all listings right. *)
LEMMA AfterPlain ==
    ASSUME Scope, CInv, ~mistaken, K.state = "done", ~K.abandoned, files' = files, dc' \in After(K)
    PROVE  Plain'
<1>1. /\ Types /\ Shapes /\ Honest /\ Under /\ NamesDiffer /\ Cache(dc) /\ K \in Commands
  BY OneConnection DEF CInv, Truth, Scope, Types, K
<1>2. /\ K.dir \in Dirs /\ K.name \in Names /\ K.toDir \in Dirs /\ K.toName \in Names
      /\ K.kind \in {"none", "small", "large"} /\ K.seen \in [Names -> {"none", "dir", "small", "large"}]
  BY <1>1 DEF Commands
<1>3. Cached(dc) = Listed(L) /\ Cached(dc)' = Listed(L') /\ L = dc.listings /\ L' = dc'.listings
  BY DEF Cached, Listed, L
<1>4. dc' = dc /\ Plain => Plain'
  BY <1>3 DEF Plain, Fits, Has
<1>5. ASSUME ~(K.ok /\ K.op \in {"rmd", "rename", "mkd"}), K.op # "stor" \/ K.kind = "none" PROVE Plain
  BY <1>1, <1>5 DEF Honest, Plain, Gone, Open, Carried
<1>6. CASE K.op = "list" /\ K.ok
  <2>1. dc' = Store(dc, K.dir, K.seen)
    BY <1>6 DEF After, ListResult
  <2>2. \A e \in Listed(L') : L'[e] = IF e = K.dir THEN Listing(K.seen) ELSE L[e]
    BY <1>1, <1>2, <1>3, <2>1, StoreIs
  <2>3. Has(K.dir) /\ K.seen = files[K.dir]
    BY <1>1, <1>6 DEF Under, Carried
  <2>4. Plain
    BY <1>5, <1>6
  <2>5. ASSUME NEW e \in Listed(L') PROVE Has(e)' /\ \A m \in Names : Fits(L', files', e, m)
    <3>1. CASE e = K.dir
      <4>1. L'[e].entries = K.seen /\ L'[e].unsure = FALSE /\ L'[e].unsureNames = {}
        BY <2>2, <2>5, <3>1 DEF Listing
      <4> QED
        BY <2>3, <3>1, <4>1 DEF Fits, Has
    <3>2. CASE e # K.dir
      <4>1. L'[e] = L[e] /\ e \in Listed(L)
        BY <2>2, <2>5, <3>2 DEF Listed
      <4> QED
        BY <1>3, <2>4, <4>1 DEF Plain, Fits, Has
    <3> QED
      BY <3>1, <3>2
  <2> QED
    BY <1>3, <2>5 DEF Plain
<1>7. CASE K.op = "dele" /\ K.ok
  <2>1. dc' = RemoveFile(dc, K.dir, K.name)
    BY <1>7 DEF After, ParseDelete
  <2>2. /\ Listed(L') \subseteq Listed(L) /\ (K.dir \in Listed(L) => Lacks(L', K.dir, K.name))
        /\ \A e \in Dirs, m \in Names : e # K.dir \/ m # K.name => Keeps(L', L, e, m)
    BY <1>1, <1>2, <1>3, <2>1, RemoveIs
  <2>3. Plain /\ files[K.dir][K.name] = "none"
    BY <1>1, <1>5, <1>7 DEF Under, Carried
  <2>4. ASSUME NEW e \in Listed(L'), NEW m \in Names PROVE Has(e)' /\ Fits(L', files', e, m)
    <3>1. e \in Dirs /\ e \in Listed(L) /\ Fits(L, files, e, m) /\ Has(e)'
      BY <1>3, <2>2, <2>3, <2>4 DEF Listed, Plain, Has
    <3> QED
      BY <2>2, <2>3, <3>1, FitsStill
  <2> QED
    BY <1>3, <1>4, <2>2, <2>3, <2>4 DEF Plain, Has
<1>8. CASE K.op = "rmd" /\ K.ok
  <2>1. dc' = RemoveDir(dc, K.dir, K.name)
    BY <1>8 DEF After, ParseRemoveDir
  <2>2. /\ Listed(L') \subseteq Listed(L) /\ (K.dir = Root => <<K.name>> \notin Listed(L'))
        /\ \A e \in Listed(L'), m \in Names : e # K.dir \/ m # K.name => Keeps(L', L, e, m)
        /\ K.dir \in Listed(L') => Lacks(L', K.dir, K.name)
    BY <1>1, <1>2, <1>3, <2>1, RemoveDirIs
  <2>3. K.dir = Root /\ files[K.dir][K.name] = "none"
    BY <1>1, <1>8 DEF Under, Carried, Shapes
  <2>4. ASSUME NEW e \in Listed(L') PROVE Has(e)' /\ \A m \in Names : Fits(L', files', e, m)
    <3>1. e \in Listed(L) /\ e # <<K.name>>
      BY <2>2, <2>3, <2>4
    <3>2. Has(e) /\ \A m \in Names : Fits(L, files, e, m)
      BY <1>1, <1>3, <1>8, <3>1 DEF Honest, Gone, Open
    <3>3. ASSUME NEW m \in Names PROVE Fits(L', files', e, m)
      BY <2>2, <2>3, <2>4, <3>2, <3>3, FitsStill
    <3> QED
      BY <3>2, <3>3 DEF Has
  <2> QED
    BY <1>3, <2>4 DEF Plain
<1>9. CASE K.op = "rename" /\ K.ok
  <2> DEFINE r == Rename(dc, K.dir, K.name, K.toDir, K.toName)
  <2>1. dc' = r /\ <<K.dir, K.name>> # <<K.toDir, K.toName>>
    BY <1>1, <1>9 DEF After, ParseRename, Shapes
  <2>2. CASE K.dir \notin Listed(L)
    <3>1. Listed(L') = {}
      BY <1>1, <1>2, <1>3, <2>1, <2>2, RenameNothing
    <3> QED
      BY <1>3, <3>1 DEF Plain
  <2>3. CASE K.dir \in Listed(L)
    <3>1. L[K.dir].entries[K.name] # "none" /\ files[K.dir][K.name] = "none"
      BY <1>1, <1>3, <1>9, <2>3 DEF Under, Carried
    <3>2. /\ Listed(L') \subseteq Listed(L)
          /\ K.dir = Root /\ L[K.dir].entries[K.name] = "dir" => <<K.name>> \notin Listed(L')
          /\ \A e \in Listed(L'), m \in Names :
                \/ <<e, m>> = <<K.toDir, K.toName>> /\ Marks(L', e, m)
                \/ <<e, m>> = <<K.dir, K.name>> /\ Lacks(L', e, m)
                \/ <<e, m>> # <<K.toDir, K.toName>> /\ <<e, m>> # <<K.dir, K.name>> /\ Keeps(L', L, e, m)
      <4>1. /\ Listed(r.listings) \subseteq Listed(dc.listings)
            /\ K.dir = Root /\ dc.listings[K.dir].entries[K.name] = "dir" => <<K.name>> \notin Listed(r.listings)
            /\ \A e \in Listed(r.listings), m \in Names :
                  \/ <<e, m>> = <<K.toDir, K.toName>> /\ Marks(r.listings, e, m)
                  \/ <<e, m>> = <<K.dir, K.name>> /\ Lacks(r.listings, e, m)
                  \/ /\ <<e, m>> # <<K.toDir, K.toName>> /\ <<e, m>> # <<K.dir, K.name>>
                     /\ Keeps(r.listings, dc.listings, e, m)
        <5>1. K.dir \in Listed(dc.listings) /\ dc.listings[K.dir].entries[K.name] # "none"
          BY <2>3, <3>1 DEF L
        <5> QED
          BY <1>1, <1>2, <2>1, <5>1, RenameIs
      <4> QED
        BY <1>3, <2>1, <4>1
    <3>3. ASSUME NEW e \in Listed(L') PROVE Has(e)' /\ \A m \in Names : Fits(L', files', e, m)
      <4>1. e \in Listed(L) /\ ~Gone(e)
        BY <1>3, <1>9, <2>3, <3>2, <3>3 DEF Gone
      <4>2. Has(e) /\ \A m \in Names : Open(e, m) \/ Fits(L, files, e, m)
        BY <1>1, <1>3, <4>1 DEF Honest
      <4>3. ASSUME NEW m \in Names PROVE Fits(L', files', e, m)
        <5>1. CASE <<e, m>> = <<K.toDir, K.toName>>
          BY <2>1, <3>2, <3>3, <4>3, <5>1, FitsStill
        <5>2. CASE <<e, m>> = <<K.dir, K.name>>
          BY <2>1, <3>1, <3>2, <3>3, <4>3, <5>2, FitsStill
        <5>3. CASE <<e, m>> # <<K.toDir, K.toName>> /\ <<e, m>> # <<K.dir, K.name>>
          <6>1. Keeps(L', L, e, m) /\ ~Open(e, m)
            BY <1>9, <3>2, <3>3, <4>3, <5>3 DEF Open
          <6> QED
            BY <4>2, <4>3, <6>1, FitsStill
        <5> QED
          BY <5>1, <5>2, <5>3
      <4> QED
        BY <4>2, <4>3 DEF Has
    <3> QED
      BY <1>3, <3>3 DEF Plain
  <2> QED
    BY <2>2, <2>3
<1>10. CASE K.op = "mkd"
  <2>1. (dc' = dc /\ ~K.ok) \/ dc' = UpdateFile(dc, K.dir, K.name, TRUE, "dir", "dir")
    BY <1>10 DEF After, ParseMkdir
  <2>2. \A e \in Cached(dc) : Has(e) /\ \A m \in Names : (e = K.dir /\ m = K.name) \/ Fits(L, files, e, m)
    BY <1>1, <1>10 DEF Honest, Gone, Open
  <2>3. CASE dc' = UpdateFile(dc, K.dir, K.name, TRUE, "dir", "dir")
    BY <1>1, <1>2, <2>2, <2>3, UpdatePlain
  <2>4. CASE dc' = dc /\ ~K.ok
    BY <1>4, <1>5, <1>10, <2>4
  <2> QED
    BY <2>1, <2>3, <2>4
<1>11. CASE K.op = "chmod" /\ K.ok
  <2>1. dc' = UpdateFile(dc, K.dir, K.name, FALSE, "unknown", "none")
    BY <1>11 DEF After, ParseChmod
  <2>2. Plain
    BY <1>5, <1>11
  <2>3. /\ \A e \in Cached(dc) : Has(e) /\ \A m \in Names : (e = K.dir /\ m = K.name) \/ Fits(L, files, e, m)
        /\ K.dir \in Cached(dc) => Fits(L, files, K.dir, K.name)
    BY <1>2, <2>2 DEF Plain
  <2> QED
    BY <1>1, <1>2, <2>1, <2>3, UpdatePlain
<1>12. CASE K.op = "stor"
  <2> DEFINE kind == IF K.ok THEN K.kind ELSE "unsized"
  <2>1. (dc' = dc /\ K.kind = "none") \/ dc' = UpdateFile(dc, K.dir, K.name, TRUE, "file", kind)
    BY <1>12 DEF After, Uploaded
  <2>2. kind \in {"none", "dir"} \cup FileKinds /\ kind # "none"
    BY <1>1, <1>2, <1>12 DEF FileKinds, Shapes
  <2>3. \A e \in Cached(dc) : Has(e) /\ \A m \in Names : (e = K.dir /\ m = K.name) \/ Fits(L, files, e, m)
    BY <1>1, <1>12 DEF Honest, Gone, Open
  <2> HIDE DEF kind
  <2>4. CASE dc' = UpdateFile(dc, K.dir, K.name, TRUE, "file", kind)
    BY <1>1, <1>2, <2>2, <2>3, <2>4, UpdatePlain
  <2>5. CASE dc' = dc /\ K.kind = "none"
    BY <1>4, <1>5, <1>12, <2>5
  <2> QED
    BY <2>1, <2>4, <2>5
<1>13. CASE \/ ~K.ok /\ K.op \in {"list", "dele", "rmd", "rename", "chmod"}
            \/ K.op \notin {"list", "dele", "rmd", "rename", "mkd", "chmod", "stor"}
  <2>1. dc' = dc
    BY <1>13 DEF After, ListResult, ParseDelete, ParseRemoveDir, ParseRename, ParseChmod
  <2> QED
    BY <1>4, <1>5, <1>13, <2>1
<1> QED
  BY <1>6, <1>7, <1>8, <1>9, <1>10, <1>11, <1>12, <1>13

(* Reply *)
LEMMA ReplyStep ==
    ASSUME Scope, CInv, NEW c \in Conns, Reply(c)
    PROVE  CInv'
<1>1. c = Conn /\ cmd[c] = K
  BY OneConnection DEF K
<1>2. Types /\ Shapes /\ Cache(dc) /\ K \in Commands /\ K.state = "done" /\ files' = files /\ mistaken' = mistaken
  BY <1>1 DEF CInv, Types, Reply
<1>3. Cache(dc') => Cached(dc)' = Listed(L') /\ Cached(dc) = Listed(L)
  BY DEF Cached, Listed, L
<1>4. ASSUME cmd' = [cmd EXCEPT ![c] = NoCommand], Cache(dc'), ~mistaken => Plain' PROVE CInv'
  <2>1. K' = NoCommand /\ cmd' \in [Conns -> Commands]
    BY <1>2, <1>4, CommandAfter, NoCommandIs
  <2>2. Types'
    BY <1>2, <1>4, <2>1 DEF Types, Grown
  <2>3. Shapes' /\ Under'
    BY <2>1, NoCommandIs DEF Shapes, Under
  <2>4. ~mistaken => Honest'
    BY <1>4 DEF Plain, Honest
  <2> QED
    BY <1>2, <2>2, <2>3, <2>4 DEF CInv, Truth
<1>5. CASE K.abandoned /\ cmd' = [cmd EXCEPT ![c] = NoCommand] /\ dc' = dc
  <2>1. K.op \notin {"rmd", "mkd", "rename"}
    BY <1>2, <1>5 DEF Shapes, Scope, Harmless
  <2>2. ~mistaken => Plain
    BY <1>5, <2>1 DEF CInv, Truth, Honest, Plain, Gone, Open
  <2>3. ~mistaken => Plain'
    BY <1>2, <1>5, <2>2 DEF Plain, Fits, Has, L, Cached
  <2> QED
    BY <1>2, <1>4, <1>5, <2>3
<1>6. CASE ~K.abandoned /\ cmd' = [cmd EXCEPT ![c] = NoCommand] /\ dc' \in After(K)
  <2>1. Cache(dc')
    BY <1>2, <1>6, AfterType
  <2>2. ~mistaken => Plain'
    BY <1>2, <1>6, AfterPlain
  <2> QED
    BY <1>4, <1>6, <2>1, <2>2
<1> QED
  BY <1>1, <1>5, <1>6 DEF Reply

-------------------------------------------------------------------------------
(* What there can be at a name *)
Kinds == {"none", "dir", "small", "large"}

(* Put changes one file. *)
LEMMA PutIs ==
    ASSUME NEW f \in [Dirs -> [Names -> Kinds]], NEW d \in Dirs, NEW n \in Names, NEW kind \in Kinds
    PROVE  /\ Put(f, d, n, kind) \in [Dirs -> [Names -> Kinds]]
           /\ Put(f, d, n, kind)[d][n] = kind
           /\ \A e \in Dirs, m \in Names : e # d \/ m # n => Put(f, d, n, kind)[e][m] = f[e][m]
           /\ \A e \in Dirs : e # d => Put(f, d, n, kind)[e] = f[e]
BY DEF Put, Kinds

(* Root and the directories in it *)
LEMMA DirsAre ==
    /\ Root \in Dirs
    /\ \A n \in Names : <<n>> \in Dirs /\ <<n>> # Root /\ Head(<<n>>) = n
    /\ \A m, n \in Names : <<m>> = <<n>> => m = n
    /\ \A d \in Dirs : d # Root => \E n \in Names : d = <<n>>
BY DEF Dirs, Root

(* It keeps the tree in shape if it does not make or remove a directory    *)
(* with files.                                                             *)
LEMMA PutGrown ==
    ASSUME NEW f, Grown(f), NEW d \in Dirs, NEW n \in Names, NEW kind \in Kinds,
           d = Root => f[Root][n] # "dir" \/ f[<<n>>] = Empty,
           d # Root => kind # "dir" /\ (HasIn(f, d) \/ kind = "none")
    PROVE  Grown(Put(f, d, n, kind))
<1> DEFINE g == Put(f, d, n, kind)
<1>1. /\ f \in [Dirs -> [Names -> Kinds]]
      /\ \A e \in Dirs \ {Root}, m \in Names : f[e][m] # "dir"
      /\ \A m \in Names : f[Root][m] # "dir" => f[<<m>>] = Empty
  BY DEF Grown, Kinds
<1>2. /\ g \in [Dirs -> [Names -> Kinds]] /\ g[d][n] = kind
      /\ \A e \in Dirs, m \in Names : e # d \/ m # n => g[e][m] = f[e][m]
      /\ \A e \in Dirs : e # d => g[e] = f[e]
  BY <1>1, PutIs
<1> HIDE DEF g
<1>3. ASSUME NEW e \in Dirs \ {Root}, NEW m \in Names PROVE g[e][m] # "dir"
  BY <1>1, <1>2, <1>3
<1>4. ASSUME NEW m \in Names, g[Root][m] # "dir" PROVE g[<<m>>] = Empty
  <2>1. <<m>> \in Dirs /\ <<m>> # Root /\ Root \in Dirs /\ Head(<<m>>) = m
    BY DirsAre
  <2>2. CASE d = Root
    <3>1. g[<<m>>] = f[<<m>>]
      BY <1>2, <2>1, <2>2
    <3>2. CASE m = n
      BY <1>1, <2>2, <3>1, <3>2
    <3>3. CASE m # n
      BY <1>1, <1>2, <1>4, <2>1, <3>1, <3>3
    <3> QED
      BY <3>2, <3>3
  <2>3. CASE d # Root /\ d # <<m>>
    BY <1>1, <1>2, <1>4, <2>1, <2>3
  <2>4. CASE d = <<m>>
    <3>1. f[Root][m] # "dir" /\ f[<<m>>] = Empty
      BY <1>1, <1>2, <1>4, <2>1, <2>4
    <3>2. kind = "none"
      BY <2>1, <2>4, <3>1 DEF HasIn
    <3>3. \A i \in Names : g[<<m>>][i] = "none"
      BY <1>2, <2>1, <2>4, <3>1, <3>2 DEF Empty
    <3>4. g[<<m>>] \in [Names -> Kinds]
      BY <1>2, <2>1
    <3> QED
      BY <3>3, <3>4 DEF Empty
  <2> QED
    BY <2>2, <2>3, <2>4
<1> QED
  BY <1>2, <1>3, <1>4 DEF Grown, g, Kinds

(* The command has been carried out: what has become of it *)
Done(f) ==
    /\ K'.state = "done" /\ K'.op = K.op /\ K'.dir = K.dir /\ K'.name = K.name /\ K'.toDir = K.toDir
    /\ K'.toName = K.toName /\ K'.abandoned = K.abandoned
    /\ dc' = dc /\ files' = f

(* If the files of all directories in the cache are still there, and all   *)
(* changes concern entries that are open or prepared, the listings are as  *)
(* right as they have to be.                                               *)
LEMMA DoneHonest ==
    ASSUME NEW f, Done(f), Plain,
           \A e \in Cached(dc) : Gone(e)' \/
              (HasIn(f, e) /\ \A m \in Names : Open(e, m)' \/ Fits(L, f, e, m))
    PROVE  Honest'
<1>1. Cached(dc)' = Cached(dc) /\ L' = L /\ files' = f
  BY DEF Done, L, Cached
<1> QED
  BY <1>1 DEF Honest, HasIn, Has, Fits

(* An upload, carried out or failing half-way *)
LEMMA DoneUpload ==
    ASSUME Scope, CInv, K.op = "stor", K.state = "sent", K' \in Commands, NEW kind \in {"none", "small", "large"},
           Has(K.dir), files[K.dir][K.name] # "dir", Done(Put(files, K.dir, K.name, kind)), K'.kind # "none"
    PROVE  Grown(files') /\ (~mistaken => Honest' /\ Under')
<1> DEFINE f == Put(files, K.dir, K.name, kind)
<1>1. K \in Commands /\ Grown(files) /\ files \in [Dirs -> [Names -> Kinds]]
  BY OneConnection DEF CInv, Types, K, Grown, Kinds
<1>2. K.dir \in Dirs /\ K.name \in Names /\ kind \in Kinds
  BY <1>1 DEF Commands, Kinds
<1>3. Grown(f)
  BY <1>1, <1>2, PutGrown DEF Has, HasIn
<1>4. /\ f[K.dir][K.name] = kind
      /\ \A e \in Dirs, m \in Names : e # K.dir \/ m # K.name => f[e][m] = files[e][m]
  BY <1>1, <1>2, PutIs
<1> HIDE DEF f
<1>5. ASSUME ~mistaken PROVE Honest' /\ Under'
  <2>1. Honest /\ Under /\ Plain
    BY <1>5, QuietIsPlain DEF CInv, Truth
  <2>2. Cached(dc)' = Cached(dc) /\ L' = L
    BY DEF Done, L, Cached
  <2>3. Under'
    BY <2>1, <2>2 DEF Under, Done
  <2>4. ASSUME NEW e \in Cached(dc)
        PROVE  HasIn(f, e) /\ \A m \in Names : Open(e, m)' \/ Fits(L, f, e, m)
    <3>1. e \in Dirs /\ Has(e) /\ \A m \in Names : Fits(L, files, e, m)
      BY <2>1, <2>4 DEF Plain, Cached
    <3>2. HasIn(f, e)
      <4>1. CASE e = Root
        BY <4>1 DEF HasIn
      <4>2. CASE e # Root
        <5>1. PICK n \in Names : e = <<n>> /\ Head(e) = n /\ Root \in Dirs
          BY <3>1, <4>2, DirsAre
        <5>2. files[Root][n] = "dir"
          BY <3>1, <4>2, <5>1 DEF Has
        <5> QED
          BY <1>4, <5>1, <5>2 DEF HasIn
      <4> QED
        BY <4>1, <4>2
    <3>3. ASSUME NEW m \in Names PROVE Open(e, m)' \/ Fits(L, f, e, m)
      <4>1. CASE e # K.dir \/ m # K.name
        BY <1>4, <3>1, <3>3, <4>1 DEF Fits
      <4>2. CASE e = K.dir /\ m = K.name /\ ~K.abandoned
        BY <4>2 DEF Open, Done
      <4>3. CASE e = K.dir /\ m = K.name /\ K.abandoned
        BY <2>1, <2>4, <4>3 DEF Under, Fits
      <4> QED
        BY <4>1, <4>2, <4>3
    <3> QED
      BY <3>2, <3>3
  <2>5. Done(f)
    BY DEF f
  <2> QED
    BY <2>1, <2>3, <2>4, <2>5, DoneHonest
<1> QED
  BY <1>3, <1>5 DEF Done, f

(* DELE, RMD and MKD *)
LEMMA DoneChange ==
    ASSUME Scope, CInv, K.op \in {"dele", "rmd", "mkd"}, K.state = "sent", K' \in Commands, K'.ok,
           NEW kind \in {"none", "dir"}, Done(Put(files, K.dir, K.name, kind)),
           K.op = "dele" => IsFile(K.dir, K.name) /\ kind = "none",
           K.op = "rmd" => files[Root][K.name] = "dir" /\ files[<<K.name>>] = Empty /\ kind = "none",
           K.op = "mkd" => files[Root][K.name] = "none" /\ kind = "dir"
    PROVE  Grown(files') /\ (~mistaken => Honest' /\ Under')
<1> DEFINE f == Put(files, K.dir, K.name, kind)
<1>1. K \in Commands /\ Grown(files) /\ files \in [Dirs -> [Names -> Kinds]]
  BY OneConnection DEF CInv, Types, K, Grown, Kinds
<1>2. K.dir \in Dirs /\ K.name \in Names /\ kind \in Kinds /\ (K.op # "dele" => K.dir = Root)
  BY <1>1 DEF Commands, Kinds, CInv, Shapes
<1>3. Grown(f)
  <2>1. K.dir = Root => files[Root][K.name] # "dir" \/ files[<<K.name>>] = Empty
    BY DEF IsFile
  <2>2. K.dir # Root => kind = "none"
    BY <1>2
  <2> QED
    BY <1>1, <1>2, <2>1, <2>2, PutGrown
<1>4. /\ f[K.dir][K.name] = kind
      /\ \A e \in Dirs, m \in Names : e # K.dir \/ m # K.name => f[e][m] = files[e][m]
  BY <1>1, <1>2, PutIs
<1> HIDE DEF f
<1>5. ASSUME ~mistaken PROVE Honest' /\ Under'
  <2>1. Honest /\ Under /\ Plain
    BY <1>5, QuietIsPlain DEF CInv, Truth
  <2>2. Cached(dc)' = Cached(dc) /\ L' = L /\ files' = f
    BY DEF Done, L, Cached, f
  <2>3. Under'
    BY <1>4, <2>1, <2>2 DEF Under, Done, Prepared
  <2>4. ASSUME NEW e \in Cached(dc)
        PROVE  Gone(e)' \/ (HasIn(f, e) /\ \A m \in Names : Open(e, m)' \/ Fits(L, f, e, m))
    <3>1. e \in Dirs /\ Has(e) /\ \A m \in Names : Fits(L, files, e, m)
      BY <2>1, <2>4 DEF Plain, Cached
    <3>2. CASE K.op = "rmd" /\ e = <<K.name>>
      BY <3>2 DEF Gone, Carried, Done
    <3>3. CASE K.op # "rmd" \/ e # <<K.name>>
      <4>1. HasIn(f, e)
        <5>1. CASE e = Root
          BY <5>1 DEF HasIn
        <5>2. CASE e # Root
          <6>1. PICK n \in Names : e = <<n>> /\ Head(e) = n /\ Root \in Dirs
            BY <3>1, <5>2, DirsAre
          <6>2. files[Root][n] = "dir"
            BY <3>1, <5>2, <6>1 DEF Has
          <6>3. K.dir = Root /\ n = K.name => K.op = "mkd"
            BY <3>3, <6>1, <6>2 DEF IsFile
          <6> QED
            BY <1>4, <6>1, <6>2, <6>3 DEF HasIn
        <5> QED
          BY <5>1, <5>2
      <4>2. ASSUME NEW m \in Names PROVE Open(e, m)' \/ Fits(L, f, e, m)
        <5>1. CASE e # K.dir \/ m # K.name
          BY <1>4, <3>1, <4>2, <5>1 DEF Fits
        <5>2. CASE e = K.dir /\ m = K.name /\ K.op = "mkd"
          BY <5>2 DEF Open, Done, Carried
        <5>3. CASE e = K.dir /\ m = K.name /\ K.op # "mkd"
          BY <1>4, <2>1, <2>4, <5>3 DEF Under, Prepared, Fits
        <5> QED
          BY <5>1, <5>2, <5>3
      <4> QED
        BY <4>1, <4>2
    <3> QED
      BY <3>2, <3>3
  <2>5. Done(f)
    BY DEF f
  <2> QED
    BY <2>1, <2>3, <2>4, <2>5, DoneHonest
<1> QED
  BY <1>3, <1>5 DEF Done, f

(* RNTO of a file *)
LEMMA DoneRename ==
    ASSUME Scope, CInv, K.op = "rename", K.state = "sent", K' \in Commands, K'.ok, Done(Moved(K)),
           Has(K.toDir), files[K.dir][K.name] \notin {"none", "dir"}, files[K.toDir][K.toName] # "dir"
    PROVE  Grown(files') /\ (~mistaken => Honest' /\ Under')
<1> DEFINE kind == files[K.dir][K.name]
           g == Put(files, K.dir, K.name, "none")
           f == Put(g, K.toDir, K.toName, kind)
<1>1. K \in Commands /\ Grown(files) /\ files \in [Dirs -> [Names -> Kinds]]
  BY OneConnection DEF CInv, Types, K, Grown, Kinds
<1>2. /\ K.dir \in Dirs /\ K.name \in Names /\ K.toDir \in Dirs /\ K.toName \in Names
      /\ <<K.dir, K.name>> # <<K.toDir, K.toName>> /\ kind \in Kinds \ {"none", "dir"} /\ "none" \in Kinds
  BY <1>1 DEF Commands, CInv, Shapes, Kinds
<1>3. f = Moved(K)
  BY DEF Moved
<1>4. Grown(g)
  BY <1>1, <1>2, PutGrown
<1> HIDE DEF kind
<1>5. /\ g \in [Dirs -> [Names -> Kinds]] /\ g[K.dir][K.name] = "none"
      /\ \A e \in Dirs, m \in Names : e # K.dir \/ m # K.name => g[e][m] = files[e][m]
  <2>1. "none" \in Kinds /\ K.dir \in Dirs /\ K.name \in Names
    BY <1>2
  <2> QED
    BY <1>1, <2>1 DEF Put
<1> HIDE DEF g
<1>6. g \in [Dirs -> [Names -> Kinds]]
  BY <1>4 DEF Grown, Kinds
<1>7. /\ f[K.toDir][K.toName] = kind
      /\ \A e \in Dirs, m \in Names : e # K.toDir \/ m # K.toName => f[e][m] = g[e][m]
  <2>1. kind \in Kinds /\ K.toDir \in Dirs /\ K.toName \in Names
    BY <1>2
  <2> QED
    BY <1>6, <2>1 DEF Put
<1>8. ASSUME NEW e \in Dirs, Has(e) PROVE HasIn(g, e) /\ HasIn(f, e)
  <2>1. CASE e = Root
    BY <2>1 DEF HasIn
  <2>2. CASE e # Root
    <3>1. PICK n \in Names : e = <<n>> /\ Head(e) = n /\ Root \in Dirs
      BY <1>8, <2>2, DirsAre
    <3>2. files[Root][n] = "dir"
      BY <1>8, <2>2, <3>1 DEF Has
    <3>3. g[Root][n] = "dir" /\ f[Root][n] = "dir"
      BY <1>5, <1>7, <3>1, <3>2
    <3> QED
      BY <3>1, <3>3 DEF HasIn
  <2> QED
    BY <2>1, <2>2
<1>9. Grown(f)
  <2>1. K.toDir = Root => g[Root][K.toName] # "dir"
    BY <1>2, <1>5
  <2>2. HasIn(g, K.toDir)
    BY <1>2, <1>8
  <2> QED
    BY <1>2, <1>4, <2>1, <2>2, PutGrown
<1> HIDE DEF f
<1>10. ASSUME ~mistaken PROVE Honest' /\ Under'
  <2>1. Honest /\ Under /\ Plain
    BY <1>10, QuietIsPlain DEF CInv, Truth
  <2>2. Cached(dc)' = Cached(dc) /\ L' = L /\ files' = f
    BY <1>3 DEF Done, L, Cached
  <2>3. f[K.dir][K.name] = "none"
    BY <1>2, <1>5, <1>7
  <2>4. K.dir \in Cached(dc) => L[K.dir].entries[K.name] # "none"
    BY <1>2, <2>1 DEF Plain, Fits
  <2>5. Under'
    BY <2>1, <2>2, <2>3, <2>4 DEF Under, Done, Prepared
  <2>6. ASSUME NEW e \in Cached(dc)
        PROVE  HasIn(f, e) /\ \A m \in Names : Open(e, m)' \/ Fits(L, f, e, m)
    <3>1. e \in Dirs /\ Has(e) /\ \A m \in Names : Fits(L, files, e, m)
      BY <2>1, <2>6 DEF Plain, Cached
    <3>2. ASSUME NEW m \in Names PROVE Open(e, m)' \/ Fits(L, f, e, m)
      <4>1. CASE e = K.toDir /\ m = K.toName
        BY <4>1 DEF Open, Done, Carried
      <4>2. CASE e = K.dir /\ m = K.name
        BY <2>1, <2>3, <2>6, <4>2 DEF Under, Prepared, Fits
      <4>3. CASE (e # K.toDir \/ m # K.toName) /\ (e # K.dir \/ m # K.name)
        BY <1>5, <1>7, <3>1, <3>2, <4>3 DEF Fits
      <4> QED
        BY <4>1, <4>2, <4>3
    <3> QED
      BY <1>8, <3>1, <3>2
  <2>7. Done(f)
    BY <1>3
  <2> QED
    BY <2>1, <2>5, <2>6, <2>7, DoneHonest
<1> QED
  BY <1>3, <1>9, <1>10 DEF Done

(* RNTO of a directory, which the cache does not mistake for a file *)
LEMMA DoneRenameDir ==
    ASSUME Scope, CInv, K.op = "rename", K.state = "sent", K' \in Commands, K'.ok, Done(Moved(K)),
           files[K.dir][K.name] = "dir", K.toDir = Root, files[K.toDir][K.toName] = "none"
    PROVE  Grown(files') /\ (~mistaken /\ ~Mistakes(K) => Honest' /\ Under')
<1> DEFINE g == Put(files, K.dir, K.name, "none")
           h == Put(g, K.toDir, K.toName, "dir")
           f == [h EXCEPT ![<<K.toName>>] = files[<<K.name>>], ![<<K.name>>] = Empty]
<1>1. K \in Commands /\ Grown(files) /\ files \in [Dirs -> [Names -> Kinds]]
  BY OneConnection DEF CInv, Types, K, Grown, Kinds
<1>2. /\ K.dir \in Dirs /\ K.name \in Names /\ K.toDir \in Dirs /\ K.toName \in Names
      /\ <<K.dir, K.name>> # <<K.toDir, K.toName>> /\ "dir" \in Kinds /\ "none" \in Kinds
  BY <1>1 DEF Commands, CInv, Shapes, Kinds
<1>3. K.dir = Root /\ K.name # K.toName
  BY <1>1, <1>2 DEF Grown
<1>4. f = Moved(K)
  BY DEF Moved
<1>5. /\ g \in [Dirs -> [Names -> Kinds]] /\ g[Root][K.name] = "none"
      /\ \A m \in Names : m # K.name => g[Root][m] = files[Root][m]
      /\ \A e \in Dirs : e # Root => g[e] = files[e]
  BY <1>1, <1>2, <1>3 DEF Put
<1> HIDE DEF g
<1>6. /\ h \in [Dirs -> [Names -> Kinds]] /\ h[Root][K.toName] = "dir"
      /\ \A m \in Names : m # K.toName => h[Root][m] = g[Root][m]
      /\ \A e \in Dirs : e # Root => h[e] = g[e]
  <2>1. "dir" \in Kinds /\ K.toDir \in Dirs /\ K.toName \in Names
    BY <1>2
  <2>2. /\ h \in [Dirs -> [Names -> Kinds]] /\ h[K.toDir][K.toName] = "dir"
        /\ \A e \in Dirs, m \in Names : e # K.toDir \/ m # K.toName => h[e][m] = g[e][m]
        /\ \A e \in Dirs : e # K.toDir => h[e] = g[e]
    BY <1>5, <2>1 DEF Put
  <2> HIDE DEF h
  <2> QED
    BY <1>2, <2>2
<1> HIDE DEF h
<1>7. /\ <<K.toName>> \in Dirs /\ <<K.name>> \in Dirs /\ Root \in Dirs
      /\ <<K.toName>> # Root /\ <<K.name>> # Root
      /\ <<K.name>> # <<K.toName>>
  BY <1>2, <1>3, DirsAre
<1>8. Empty \in [Names -> Kinds]
  BY DEF Empty, Kinds
<1>9. /\ f \in [Dirs -> [Names -> Kinds]] /\ f[<<K.name>>] = Empty /\ f[<<K.toName>>] = files[<<K.name>>]
      /\ \A e \in Dirs : e # <<K.name>> /\ e # <<K.toName>> => f[e] = h[e]
  BY <1>1, <1>6, <1>7, <1>8
<1> HIDE DEF f
<1>10. /\ f[Root][K.name] = "none" /\ f[Root][K.toName] = "dir"
       /\ \A m \in Names : m # K.name /\ m # K.toName => f[Root][m] = files[Root][m]
       /\ \A e \in Dirs : e # Root /\ e # <<K.name>> /\ e # <<K.toName>> => f[e] = files[e]
  BY <1>2, <1>3, <1>5, <1>6, <1>7, <1>9
<1>11. Grown(f)
  <2>1. ASSUME NEW e \in Dirs \ {Root}, NEW m \in Names PROVE f[e][m] # "dir"
    <3>1. files[e][m] # "dir" /\ files[<<K.name>>][m] # "dir"
      BY <1>1, <1>7, <2>1 DEF Grown
    <3> QED
      BY <1>9, <1>10, <2>1, <3>1 DEF Empty
  <2>2. ASSUME NEW m \in Names, f[Root][m] # "dir" PROVE f[<<m>>] = Empty
    <3>1. m # K.toName
      BY <1>10, <2>2
    <3>2. CASE m = K.name
      BY <1>9, <3>2
    <3>3. CASE m # K.name
      <4>1. files[<<m>>] = Empty
        BY <1>1, <1>10, <2>2, <3>1, <3>3 DEF Grown
      <4>2. <<m>> \in Dirs /\ <<m>> # Root /\ <<m>> # <<K.name>> /\ <<m>> # <<K.toName>>
        BY <1>2, <2>2, <3>1, <3>3, DirsAre
      <4> QED
        BY <1>10, <4>1, <4>2
    <3> QED
      BY <3>2, <3>3
  <2> QED
    BY <1>9, <2>1, <2>2 DEF Grown, Kinds
<1>12. ASSUME ~mistaken, ~Mistakes(K) PROVE Honest' /\ Under'
  <2>1. Honest /\ Under /\ Plain
    BY <1>12, QuietIsPlain DEF CInv, Truth
  <2>2. Cached(dc)' = Cached(dc) /\ L' = L /\ files' = f
    BY <1>4 DEF Done, L, Cached
  <2>3. Root \in Cached(dc) => L[Root].entries[K.name] = "dir"
    BY <1>3, <1>12 DEF Mistakes, L
  <2>4. Under'
    BY <1>3, <1>10, <2>1, <2>2, <2>3 DEF Under, Done, Prepared
  <2>5. ASSUME NEW e \in Cached(dc)
        PROVE  Gone(e)' \/ (HasIn(f, e) /\ \A m \in Names : Open(e, m)' \/ Fits(L, f, e, m))
    <3>1. e \in Dirs /\ Has(e) /\ \A m \in Names : Fits(L, files, e, m)
      BY <2>1, <2>5 DEF Plain, Cached
    <3>2. CASE e = <<K.name>>
      BY <1>3, <2>2, <2>3, <3>2 DEF Gone, Carried, Done
    <3>3. CASE e = Root
      <4>1. ASSUME NEW m \in Names PROVE Open(e, m)' \/ Fits(L, f, e, m)
        <5>1. CASE m = K.toName
          BY <3>3, <5>1 DEF Open, Done, Carried
        <5>2. CASE m = K.name
          BY <1>3, <1>10, <2>1, <2>5, <3>3, <5>2 DEF Under, Prepared, Fits
        <5>3. CASE m # K.name /\ m # K.toName
          BY <1>10, <3>1, <3>3, <4>1, <5>3 DEF Fits
        <5> QED
          BY <5>1, <5>2, <5>3
      <4> QED
        BY <3>3, <4>1 DEF HasIn
    <3>4. CASE e # Root /\ e # <<K.name>>
      <4>1. PICK n \in Names : e = <<n>> /\ Head(e) = n
        BY <3>1, <3>4, DirsAre
      <4>2. files[Root][n] = "dir" /\ n # K.name
        BY <3>1, <3>4, <4>1 DEF Has
      <4>3. n # K.toName /\ e # <<K.toName>>
        BY <1>2, <4>1, <4>2, DirsAre
      <4>4. f[e] = files[e] /\ f[Root][n] = "dir"
        BY <1>10, <3>1, <3>4, <4>2, <4>3
      <4> QED
        BY <3>1, <4>1, <4>4 DEF HasIn, Fits
    <3> QED
      BY <3>2, <3>3, <3>4
  <2>6. Done(f)
    BY <1>4
  <2> QED
    BY <2>1, <2>4, <2>5, <2>6, DoneHonest
<1> QED
  BY <1>4, <1>11, <1>12 DEF Done

(* A command that changes nothing, or is refused; and a raw command, which *)
(* leaves no listing behind                                                *)
LEMMA DoneNothing ==
    ASSUME CInv, K.op # "none", K.state = "sent", NEW f, Done(f), Grown(f), f = files \/ K.op = "raw",
           ~K'.ok \/ (K.op \in {"list", "chmod", "raw"} /\ (K.op = "list" => Has(K.dir) /\ K'.seen = files[K.dir]))
    PROVE  ~mistaken => Honest' /\ Under'
<1> SUFFICES ASSUME ~mistaken PROVE Honest' /\ Under'
  OBVIOUS
<1>1. Under /\ Plain
  BY QuietIsPlain DEF CInv, Truth
<1>2. Cached(dc)' = Cached(dc) /\ L' = L /\ files' = f
  BY DEF Done, L, Cached
<1>3. Under'
  BY <1>1, <1>2 DEF Under, Done, Prepared, Carried, Has
<1>4. \A e \in Cached(dc) : HasIn(f, e) /\ \A m \in Names : Fits(L, f, e, m)
  BY <1>1 DEF Plain, HasIn, Has, Under
<1> QED
  BY <1>1, <1>3, <1>4, DoneHonest

(* A command that the server carries out *)
LEMMA DoneOk ==
    ASSUME Scope, CInv, K.op # "none", K.state = "sent", K' \in Commands, K'.ok, K'.kind = K.kind,
           NEW f \in Result(K), Done(f), K.op = "list" => K'.seen = files[K.dir]
    PROVE  Grown(files') /\ (~mistaken /\ ~Mistakes(K) => Honest' /\ Under')
<1>1. K \in Commands /\ Grown(files) /\ files \in [Dirs -> [Names -> Kinds]] /\ Shapes
  BY OneConnection DEF CInv, Types, K, Grown, Kinds
<1>2. K.dir \in Dirs /\ K.name \in Names /\ K.kind \in {"none", "small", "large"} /\ files' = f
  BY <1>1 DEF Commands, Done
<1>3. CASE K.op \in {"list", "chmod"}
  <2>1. f = files /\ (K.op = "list" => Has(K.dir))
    BY <1>3 DEF Result
  <2> QED
    BY <1>1, <1>2, <1>3, <2>1, DoneNothing
<1>4. CASE K.op = "raw"
  <2>1. f = files \/ \E n \in Names : IsFile(Root, n) /\ f = Put(files, Root, n, "none")
    BY <1>4 DEF Result
  <2>2. Grown(f)
    <3>1. CASE f = files
      BY <1>1, <3>1
    <3>2. CASE \E n \in Names : IsFile(Root, n) /\ f = Put(files, Root, n, "none")
      <4>1. PICK n \in Names : IsFile(Root, n) /\ f = Put(files, Root, n, "none")
        BY <3>2
      <4>2. files[Root][n] # "dir" /\ "none" \in Kinds /\ Root \in Dirs
        BY <4>1, DirsAre DEF IsFile, Kinds
      <4> QED
        BY <1>1, <4>1, <4>2, PutGrown
    <3> QED
      BY <2>1, <3>1, <3>2
  <2> QED
    BY <1>2, <1>4, <2>2, DoneNothing
<1>5. CASE K.op = "dele"
  <2>1. IsFile(K.dir, K.name) /\ f = Put(files, K.dir, K.name, "none")
    BY <1>5 DEF Result
  <2> QED
    BY <1>5, <2>1, DoneChange
<1>6. CASE K.op = "rmd"
  <2>1. files[Root][K.name] = "dir" /\ files[<<K.name>>] = Empty /\ f = Put(files, K.dir, K.name, "none")
    BY <1>1, <1>6 DEF Result, Shapes
  <2> QED
    BY <1>6, <2>1, DoneChange
<1>7. CASE K.op = "mkd"
  <2>1. files[Root][K.name] = "none" /\ f = Put(files, K.dir, K.name, "dir")
    BY <1>1, <1>7 DEF Result, Shapes
  <2> QED
    BY <1>7, <2>1, DoneChange
<1>8. CASE K.op = "rename"
  <2>1. /\ f = Moved(K) /\ Has(K.toDir) /\ files[K.dir][K.name] # "none" /\ files[K.toDir][K.toName] # "dir"
        /\ files[K.dir][K.name] = "dir" => K.toDir = Root /\ files[K.toDir][K.toName] = "none"
    BY <1>8 DEF Result
  <2>2. CASE files[K.dir][K.name] = "dir"
    BY <1>8, <2>1, <2>2, DoneRenameDir
  <2>3. CASE files[K.dir][K.name] # "dir"
    BY <1>8, <2>1, <2>3, DoneRename
  <2> QED
    BY <2>2, <2>3
<1>9. CASE K.op = "stor"
  <2>1. Has(K.dir) /\ files[K.dir][K.name] # "dir" /\ f = Put(files, K.dir, K.name, K.kind)
    BY <1>9 DEF Result
  <2>2. K'.kind # "none"
    BY <1>1, <1>9 DEF Shapes
  <2> QED
    BY <1>2, <1>9, <2>1, <2>2, DoneUpload
<1> QED
  BY <1>1, <1>3, <1>4, <1>5, <1>6, <1>7, <1>8, <1>9 DEF Commands, AllOps

(* Execute *)
LEMMA ExecuteStep ==
    ASSUME Scope, CInv, NEW c \in Conns, Execute(c)
    PROVE  CInv'
<1>1. c = Conn /\ cmd[c] = K
  BY OneConnection DEF K
<1>2. /\ Types /\ Shapes /\ Cache(dc) /\ K \in Commands /\ K.op # "none" /\ K.state = "sent" /\ dc' = dc
      /\ files \in [Dirs -> [Names -> Kinds]] /\ Grown(files)
  BY <1>1 DEF CInv, Types, Execute, Grown, Kinds
<1>3. /\ K.dir \in Dirs /\ K.name \in Names /\ files[K.dir] \in [Names -> Kinds] /\ Empty \in [Names -> Kinds]
  BY <1>2 DEF Commands, Empty, Kinds
<1>4. ASSUME Done(files'), K' \in Commands, cmd' \in [Conns -> Commands], K'.ok \in {TRUE, K.ok},
             K'.kind = K.kind \/ ~K'.ok, Grown(files'), mistaken' \in BOOLEAN, ~mistaken' => Honest' /\ Under'
      PROVE  CInv'
  <2>1. Types'
    BY <1>2, <1>4 DEF Types, Cache
  <2>2. Shapes'
    BY <1>2, <1>4 DEF Shapes, Done
  <2> QED
    BY <1>4, <2>1, <2>2 DEF CInv, Truth
<1>5. CASE /\ \E f \in Result(K) : files' = f
           /\ mistaken' = (mistaken \/ Mistakes(K))
           /\ cmd' = [cmd EXCEPT ![c].state = "done", ![c].ok = TRUE,
                                 ![c].seen = IF K.op = "list" THEN files[K.dir] ELSE Empty]
  <2> DEFINE seen == IF K.op = "list" THEN files[K.dir] ELSE Empty
             k == [K EXCEPT !.state = "done", !.ok = TRUE, !.seen = seen]
  <2>1. cmd' = [cmd EXCEPT ![c] = k]
    BY <1>1, <1>2, <1>5 DEF Types
  <2>2. seen \in [Names -> {"none", "dir", "small", "large"}]
    BY <1>3 DEF Kinds
  <2>3. /\ k \in Commands /\ k.op = K.op /\ k.dir = K.dir /\ k.name = K.name
        /\ k.toDir = K.toDir /\ k.toName = K.toName
        /\ k.kind = K.kind /\ k.state = "done" /\ k.ok = TRUE /\ k.seen = seen /\ k.abandoned = K.abandoned
    <3> HIDE DEF seen
    <3> QED
      BY <1>2, <2>2 DEF Commands
  <2> HIDE DEF k
  <2>4. K' = k /\ cmd' \in [Conns -> Commands]
    BY <1>2, <2>1, <2>3, CommandAfter
  <2>5. Done(files')
    BY <1>2, <2>3, <2>4 DEF Done
  <2>6. Grown(files') /\ (~mistaken /\ ~Mistakes(K) => Honest' /\ Under')
    BY <1>2, <1>5, <2>3, <2>4, <2>5, DoneOk
  <2>7. mistaken' \in BOOLEAN /\ (~mistaken' => ~mistaken /\ ~Mistakes(K))
    BY <1>2, <1>5 DEF Types
  <2> QED
    BY <1>4, <2>3, <2>4, <2>5, <2>6, <2>7
<1>6. CASE cmd' = [cmd EXCEPT ![c].state = "done", ![c].kind = "none"] /\ UNCHANGED <<files, mistaken>>
  <2> DEFINE k == [K EXCEPT !.state = "done", !.kind = "none"]
  <2>1. cmd' = [cmd EXCEPT ![c] = k]
    BY <1>1, <1>2, <1>6 DEF Types
  <2>2. /\ k \in Commands /\ k.op = K.op /\ k.dir = K.dir /\ k.name = K.name
        /\ k.toDir = K.toDir /\ k.toName = K.toName
        /\ k.kind = "none" /\ k.state = "done" /\ k.ok = K.ok /\ k.seen = K.seen /\ k.abandoned = K.abandoned
    BY <1>2 DEF Commands
  <2> HIDE DEF k
  <2>3. K' = k /\ cmd' \in [Conns -> Commands]
    BY <1>2, <2>1, <2>2, CommandAfter
  <2>4. Done(files') /\ files' = files /\ ~K'.ok
    BY <1>2, <1>6, <2>2, <2>3 DEF Done, Shapes
  <2>5. ~mistaken => Honest' /\ Under'
    BY <1>2, <2>4, DoneNothing
  <2>6. Grown(files') /\ mistaken' = mistaken /\ mistaken \in BOOLEAN
    BY <1>2, <1>6, <2>4 DEF Types
  <2> QED
    BY <1>4, <2>2, <2>3, <2>4, <2>5, <2>6
<1>7. CASE /\ K.op = "stor" /\ Result(K) # {}
           /\ cmd' = [cmd EXCEPT ![c].state = "done"]
           /\ files' \in {Put(files, K.dir, K.name, "small"), Put(files, K.dir, K.name, "none")}
           /\ mistaken' = mistaken
  <2> DEFINE k == [K EXCEPT !.state = "done"]
  <2>1. cmd' = [cmd EXCEPT ![c] = k]
    BY <1>1, <1>2, <1>7 DEF Types
  <2>2. /\ k \in Commands /\ k.op = K.op /\ k.dir = K.dir /\ k.name = K.name
        /\ k.toDir = K.toDir /\ k.toName = K.toName
        /\ k.kind = K.kind /\ k.state = "done" /\ k.ok = K.ok /\ k.seen = K.seen /\ k.abandoned = K.abandoned
    BY <1>2 DEF Commands
  <2> HIDE DEF k
  <2>3. K' = k /\ cmd' \in [Conns -> Commands]
    BY <1>2, <2>1, <2>2, CommandAfter
  <2>4. Has(K.dir) /\ files[K.dir][K.name] # "dir" /\ K'.kind # "none"
    BY <1>2, <1>7, <2>2, <2>3 DEF Result, Shapes
  <2>5. PICK kind \in {"small", "none"} : files' = Put(files, K.dir, K.name, kind)
    BY <1>7
  <2>6. Done(Put(files, K.dir, K.name, kind))
    BY <1>2, <2>2, <2>3, <2>5 DEF Done
  <2>7. Grown(files') /\ (~mistaken => Honest' /\ Under')
    BY <1>2, <1>7, <2>2, <2>3, <2>4, <2>6, DoneUpload
  <2>8. Done(files') /\ mistaken' \in BOOLEAN
    BY <1>2, <1>7, <2>5, <2>6 DEF Types
  <2> QED
    BY <1>4, <1>7, <2>2, <2>3, <2>7, <2>8
<1> QED
  BY <1>1, <1>5, <1>6, <1>7 DEF Execute

(* The cache is right about every listing and entry it does not mark, as   *)
(* far as the command under way allows; for all trees, names, limits and   *)
(* numbers of commands.                                                    *)
THEOREM CacheInvariance ==
    ASSUME Scope
    PROVE  CacheSpec => []CInv
<1>1. CacheInit => CInv
  BY Initially
<1>2. CInv /\ [CacheNext]_cacheVars => CInv'
  <2> SUFFICES ASSUME CInv, [CacheNext]_cacheVars PROVE CInv'
    OBVIOUS
  <2>1. CASE UNCHANGED cacheVars
    <3>1. Cache(dc') /\ L' = L /\ UNCHANGED <<files, cmd, mistaken>>
      BY <2>1 DEF cacheVars, L, CInv, Types, Cache
    <3> QED
      BY <3>1, Used
  <2>2. CASE CacheNext
    BY <2>2, SendStep, CancelStep, ExecuteStep, ReplyStep, LookStep DEF CacheNext
  <2> QED
    BY <2>1, <2>2
<1> QED
  BY <1>1, <1>2, PTL DEF CacheSpec

(* A listing CDirectoryCache has not marked, and an entry without          *)
(* flag_unsure, is what the server has.                                    *)
THEOREM SureListingsAreTrue ==
    ASSUME Scope
    PROVE  CacheSpec => []SureIsTrue
<1>1. CInv => SureIsTrue
  BY CacheImplied
<1> QED
  BY <1>1, CacheInvariance, PTL

(* LookupFile finds no entry only where the server has no file, also in a  *)
(* listing that is marked.                                                 *)
THEOREM AbsentFilesAreAbsent ==
    ASSUME Scope
    PROVE  CacheSpec => []AbsentIsAbsent
<1>1. CInv => AbsentIsAbsent
  BY CacheImplied
<1> QED
  BY <1>1, CacheInvariance, PTL
===============================================================================
