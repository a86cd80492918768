----------------------------- MODULE EngineProofs -----------------------------
(***************************************************************************)
(* Proofs about the two models of CFileZillaEnginePrivate.                 *)
(*                                                                         *)
(* Notifications: for any number of transfers, bytes and messages, the     *)
(* client is called back whenever there is something in the list, and no   *)
(* byte is lost or counted twice.  ClientIsTold is inductive as it stands: *)
(* the flag and the calls under way are counted against each other.        *)
(* BytesCounted is not: a status that is shown later waits in the list or  *)
(* in the hands of Update, perhaps while the next transfer begins.  Honest *)
(* says of all of them what it says of the one shown.                      *)
(*                                                                         *)
(* Engine: for any number of commands, cancels, requests and retries,      *)
(* commands, operations and the retry timer belong together.  At the end   *)
(* of this module; see there.                                              *)
(***************************************************************************)
EXTENDS Notifications, Engine, SequenceTheorems, TLAPS

(* A status, old or new, does not exceed what had been transferred. *)
Honest(s) == s # None => s[1] <= transfer /\ (s[1] = transfer => s[2] <= sent)

ListHonest == \A i \in 1..Len(list) : Honest(list[i].status)

MoverHonest == mover[1] = "add" => Honest(mover[2].status)

AllHonest == Honest(shown) /\ ListHonest /\ MoverHonest

(* The status and the counter together have all bytes. *)
Counted == status # None => status[1] = transfer /\ status[2] + currentOffset = sent

(* The parts of ClientIsTold: types and the flag *)
Flags ==
    /\ maySend \in BOOLEAN /\ queueLogs \in BOOLEAN /\ detailed \in BOOLEAN /\ changed \in BOOLEAN
    /\ timer \in BOOLEAN /\ asked \in BOOLEAN

ListType == list \in Seq(Notification) /\ called \in Nat

Numbers ==
    /\ queuedLogs \in Nat /\ logs \in Nat /\ currentOffset \in Nat /\ transfer \in Nat /\ sent \in Nat
    /\ status \in Statuses /\ shown \in Statuses /\ sendState \in 0..2

Places ==
    /\ loop \in {"idle", "transfer", "reset", "done", "logs"}
    /\ mover \in {<<"idle">>, <<"zero">>} \cup ({"add"} \X Notification)
    /\ client \in {"idle", "drain"}

Told ==
    /\ list # << >> => ~maySend
    /\ (IF maySend THEN 0 ELSE 1) = called + (IF client = "drain" THEN 1 ELSE 0)

IInv == Flags /\ ListType /\ Numbers /\ Places /\ Told /\ Counted /\ AllHonest

(* The invariant implies the two properties. *)
LEMMA Implied == IInv => ClientIsTold /\ BytesCounted
<1> SUFFICES ASSUME IInv PROVE ClientIsTold /\ BytesCounted
  OBVIOUS
<1>1. TypeOK
  BY DEF IInv, TypeOK, Flags, ListType, Numbers, Places
<1>2. ClientIsTold
  BY <1>1 DEF IInv, ClientIsTold, Told
<1>3. BytesCounted
  BY DEF IInv, BytesCounted, Counted, AllHonest, Honest
<1> QED
  BY <1>2, <1>3

(* It holds at the beginning. *)
LEMMA InitOK == Init => IInv
<1> SUFFICES ASSUME Init PROVE IInv
  OBVIOUS
<1>1. Flags
  BY DEF Init, Flags
<1>2. ListType /\ Places
  BY DEF Init, ListType, Places
<1>3. Numbers
  BY DEF Init, Numbers, Statuses
<1>4. Told /\ Counted
  BY DEF Init, Told, Counted
<1>5. AllHonest
  BY DEF Init, AllHonest, ListHonest, MoverHonest, Honest
<1> QED
  BY <1>1, <1>2, <1>3, <1>4, <1>5 DEF IInv

(* Adding to the list keeps the flag right, and the list honest. *)
LEMMA Adding ==
    ASSUME IInv, NEW STATE new, new \in Seq(Notification), AddNotifications(new),
           UNCHANGED <<client, observers>>,
           \A i \in 1..Len(new) : Honest(new[i].status)
    PROVE  ListType' /\ maySend' \in BOOLEAN /\ Told' /\ ListHonest'
<1>0. list \in Seq(Notification) /\ called \in Nat /\ maySend \in BOOLEAN /\ Told /\ ListHonest
  BY DEF IInv, ListType, Flags, AllHonest
<1>1. list' = list \o new /\ list' \in Seq(Notification)
  BY <1>0 DEF AddNotifications
<1>2. \/ maySend /\ list' # << >> /\ maySend' = FALSE /\ called' = called + 1
      \/ ~(maySend /\ list' # << >>) /\ maySend' = maySend /\ called' = called
  BY DEF AddNotifications
<1>3. called' \in Nat
  BY <1>0, <1>2
<1>4. maySend' \in BOOLEAN
  BY <1>0, <1>2, Zenon
<1>5. Told'
  <2>1. CASE maySend /\ list' # << >> /\ maySend' = FALSE /\ called' = called + 1
    BY <2>1, <1>0 DEF Told
  <2>2. CASE ~(maySend /\ list' # << >>) /\ maySend' = maySend /\ called' = called
    <3>1. list' # << >> => ~maySend'
      BY <2>2
    <3>2. QED
      BY <3>1, <2>2, <1>0 DEF Told
  <2> QED
    BY <2>1, <2>2, <1>2
<1>6. ListHonest'
  <2> SUFFICES ASSUME NEW i \in 1..Len(list')
               PROVE  list'[i].status # None =>
                          /\ list'[i].status[1] <= transfer
                          /\ list'[i].status[1] = transfer => list'[i].status[2] <= sent
    BY DEF ListHonest, Honest, observers
  <2>1. list'[i] = IF i <= Len(list) THEN list[i] ELSE new[i - Len(list)]
    BY <1>0, <1>1
  <2>2. CASE i <= Len(list)
    <3>1. Honest(list[i].status)
      BY <2>2, <1>0, <1>1 DEF ListHonest
    <3> QED
      BY <3>1, <2>1, <2>2 DEF Honest
  <2>3. CASE i > Len(list)
    <3>1. i - Len(list) \in 1..Len(new) /\ ~(i <= Len(list))
      BY <2>3, <1>0, <1>1
    <3>2. Honest(new[i - Len(list)].status)
      BY <3>1
    <3> QED
      BY <3>1, <3>2, <2>1 DEF Honest
  <2> QED
    BY <2>2, <2>3, <1>0, <1>1
<1> QED
  BY <1>1, <1>3, <1>4, <1>5, <1>6 DEF ListType

(* What an action that touches neither progress nor display leaves alone *)
LEMMA ProgressKept ==
    ASSUME IInv, UNCHANGED <<progress, observers, display>>
    PROVE  /\ Counted' /\ Honest(shown)'
           /\ currentOffset' \in Nat /\ transfer' \in Nat /\ sent' \in Nat
           /\ status' \in Statuses /\ shown' \in Statuses /\ sendState' \in 0..2
BY DEF IInv, Counted, AllHonest, Honest, Numbers, progress, observers, display

(* What an action that does not touch the list leaves alone *)
LEMMA ListKept ==
    ASSUME IInv, UNCHANGED <<list, maySend, called, client, observers>>
    PROVE  ListType' /\ Told' /\ ListHonest'
BY DEF IInv, ListType, Told, AllHonest, ListHonest, Honest, observers

(* What an action that does not run in the thread that calls Update leaves alone *)
LEMMA MoverKept ==
    ASSUME IInv, UNCHANGED <<mover, observers>>
    PROVE  MoverHonest' /\ mover' \in {<<"idle">>, <<"zero">>} \cup ({"add"} \X Notification)
BY DEF IInv, Places, AllHonest, MoverHonest, Honest, observers

(* Messages, and notifications without a status, are honest. *)
LEMMA PlainOnes ==
    /\ Log \in Notification /\ Finished \in Notification /\ Status(None) \in Notification
    /\ Honest(Log.status) /\ Honest(Finished.status) /\ Honest(Status(None).status)
BY DEF Log, Finished, Status, Notification, Statuses, Honest

(* One notification is added. *)
LEMMA AddingOne ==
    ASSUME IInv, NEW STATE n, n \in Notification, Honest(n.status), AddNotifications(<<n>>),
           UNCHANGED <<client, observers>>
    PROVE  ListType' /\ maySend' \in BOOLEAN /\ Told' /\ ListHonest'
<1> DEFINE new == <<n>>
<1>1. new \in Seq(Notification) /\ \A i \in 1..Len(new) : Honest(new[i].status)
  OBVIOUS
<1>2. AddNotifications(new)
  OBVIOUS
<1> HIDE DEF new
<1> QED
  BY <1>1, <1>2, Adding

(* A number of messages are added. *)
LEMMA AddingMessages ==
    ASSUME IInv, NEW STATE n, n \in Nat, AddNotifications([i \in 1..n |-> Log]),
           UNCHANGED <<client, observers>>
    PROVE  ListType' /\ maySend' \in BOOLEAN /\ Told' /\ ListHonest'
<1> DEFINE new == [i \in 1..n |-> Log]
<1>1. new \in Seq(Notification) /\ \A i \in 1..Len(new) : Honest(new[i].status)
  BY PlainOnes
<1>2. AddNotifications(new)
  OBVIOUS
<1> HIDE DEF new
<1> QED
  BY <1>1, <1>2, Adding

(* AddLogNotification *)
LEMMA AddLogOK ==
    ASSUME IInv, NEW type \in {"error", "status", "other"}, AddLogNotification(type)
    PROVE  IInv'
<1> USE DEF AddLogNotification
<1>1. /\ Counted' /\ Honest(shown)' /\ MoverHonest' /\ Places'
      /\ currentOffset' \in Nat /\ transfer' \in Nat /\ sent' \in Nat
      /\ status' \in Statuses /\ shown' \in Statuses /\ sendState' \in 0..2
  BY ProgressKept, MoverKept DEF Places, IInv
<1>2. logs' \in Nat /\ queuedLogs \in Nat
  BY DEF IInv, Numbers
<1>3. ListType' /\ maySend' \in BOOLEAN /\ Told' /\ ListHonest'
  <2>1. CASE AddNotifications([i \in 1..(queuedLogs + 1) |-> Log])
    <3>1. queuedLogs + 1 \in Nat
      BY <1>2
    <3> QED
      BY <2>1, <3>1, AddingMessages
  <2>2. CASE AddNotifications(<<Log>>)
    BY <2>2, PlainOnes, AddingOne
  <2>3. CASE UNCHANGED notify
    BY <2>3, ListKept DEF notify, IInv, Flags
  <2> QED
    BY <2>1, <2>2, <2>3
<1>4. queuedLogs' \in Nat
  BY <1>2
<1>5. queueLogs' \in BOOLEAN
  BY DEF IInv, Flags
<1>6. detailed' \in BOOLEAN /\ changed' \in BOOLEAN /\ timer' \in BOOLEAN /\ asked' \in BOOLEAN
  BY DEF IInv, Flags, display
<1> QED
  BY <1>1, <1>2, <1>3, <1>4, <1>5, <1>6 DEF IInv, Flags, Numbers, AllHonest

(* The options: SetOptions and OnOptionsChanged *)
LEMMA OptionsOK == ASSUME IInv, SetOptions \/ OnOptionsChanged PROVE IInv'
<1>1. /\ Counted' /\ Honest(shown)' /\ MoverHonest' /\ Places'
      /\ currentOffset' \in Nat /\ transfer' \in Nat /\ sent' \in Nat
      /\ status' \in Statuses /\ shown' \in Statuses /\ sendState' \in 0..2
  BY ProgressKept, MoverKept DEF Places, IInv, SetOptions, OnOptionsChanged
<1>2. queuedLogs \in Nat /\ queuedLogs' \in Nat /\ logs' \in Nat
  BY DEF IInv, Numbers, SetOptions, OnOptionsChanged, SendQueuedLogs
<1>3. ListType' /\ maySend' \in BOOLEAN /\ Told' /\ ListHonest'
  <2>1. CASE AddNotifications([i \in 1..queuedLogs |-> Log]) /\ UNCHANGED <<client, observers>>
    BY <2>1, <1>2, AddingMessages
  <2>2. CASE UNCHANGED <<list, maySend, called, client, observers>>
    BY <2>2, ListKept DEF IInv, Flags
  <2> QED
    BY <2>1, <2>2 DEF SetOptions, OnOptionsChanged, SendQueuedLogs, notify
<1>5. queueLogs' \in BOOLEAN /\ detailed' \in BOOLEAN /\ changed' \in BOOLEAN
  BY DEF IInv, Flags, SetOptions, OnOptionsChanged, SendQueuedLogs
<1>6. timer' \in BOOLEAN /\ asked' \in BOOLEAN
  BY DEF IInv, Flags, SetOptions, OnOptionsChanged, display
<1> QED
  BY <1>1, <1>2, <1>3, <1>5, <1>6 DEF IInv, Flags, Numbers, AllHonest

(* What every step keeps that leaves the messages alone *)
LEMMA LoggingKept ==
    ASSUME IInv, UNCHANGED logging
    PROVE  /\ queuedLogs' \in Nat /\ logs' \in Nat
           /\ queueLogs' \in BOOLEAN /\ detailed' \in BOOLEAN /\ changed' \in BOOLEAN
BY DEF IInv, Numbers, Flags, logging

(* A transfer begins: what is still to be shown belongs to earlier ones. *)
LEMMA InitStatusOK == ASSUME IInv, InitStatus PROVE IInv'
<1> USE DEF InitStatus
<1>0. transfer \in Nat /\ sent \in Nat /\ transfer' = transfer + 1 /\ mover = <<"idle">> /\ mover' = mover
  BY DEF IInv, Numbers
<1>1. ListType' /\ Told' /\ Flags' /\ Places'
  BY DEF IInv, ListType, Told, Flags, Places, notify, logging, display
<1>2. status' \in Statuses /\ shown' \in Statuses /\ sendState' \in 0..2
  BY <1>0 DEF IInv, Numbers, Statuses, display
<1>3. Counted' /\ MoverHonest'
  BY <1>0 DEF Counted, MoverHonest
<1>4. Honest(shown)'
  <2>1. Honest(shown) /\ shown' = shown /\ shown \in Statuses
    BY DEF IInv, AllHonest, Numbers, display
  <2>2. CASE shown = None
    BY <2>1, <2>2 DEF Honest
  <2>3. CASE shown # None
    <3>1. shown[1] \in Nat /\ shown[1] <= transfer
      BY <2>1, <2>3 DEF Honest, Statuses
    <3> QED
      BY <3>1, <2>1, <1>0 DEF Honest
  <2> QED
    BY <2>2, <2>3
<1>5. ListHonest'
  <2> SUFFICES ASSUME NEW i \in 1..Len(list), list[i].status # None
               PROVE  list[i].status[1] <= transfer' /\ list[i].status[1] # transfer'
    BY DEF ListHonest, Honest, notify
  <2>1. list[i] \in Notification /\ Honest(list[i].status)
    BY DEF IInv, AllHonest, ListHonest, ListType
  <2>2. list[i].status[1] \in Nat /\ list[i].status[1] <= transfer
    BY <2>1 DEF Notification, Statuses, Honest
  <2> QED
    BY <2>2, <1>0
<1> QED
  BY <1>0, <1>1, <1>2, <1>3, <1>4, <1>5, LoggingKept DEF IInv, Numbers, AllHonest

(* Bytes are added to the counter. *)
LEMMA FetchAddOK == ASSUME IInv, FetchAdd PROVE IInv'
<1> USE DEF FetchAdd
<1>0. /\ transfer \in Nat /\ sent \in Nat /\ currentOffset \in Nat
      /\ transfer' = transfer /\ sent' = sent + 1 /\ currentOffset' = currentOffset + 1
  BY DEF IInv, Numbers
<1>1. ListType' /\ Told' /\ Flags' /\ Places'
  BY DEF IInv, ListType, Told, Flags, Places, notify, logging, display
<1>2. Numbers'
  BY <1>0, LoggingKept DEF IInv, Numbers, display
<1>3. Counted'
  <2>1. status' = status /\ Counted /\ status \in Statuses
    BY DEF IInv, Numbers
  <2>2. CASE status # None
    <3>1. status[1] = transfer /\ status[2] \in Nat /\ status[2] + currentOffset = sent
      BY <2>1, <2>2 DEF Counted, Statuses
    <3> QED
      BY <3>1, <2>1, <1>0 DEF Counted
  <2> QED
    BY <2>1, <2>2 DEF Counted
<1>4. MoverHonest'
  BY DEF MoverHonest
<1>5. Honest(shown)'
  <2>1. Honest(shown) /\ shown' = shown /\ shown \in Statuses
    BY DEF IInv, AllHonest, Numbers, display
  <2>2. CASE shown = None
    BY <2>1, <2>2 DEF Honest
  <2>3. CASE shown # None
    <3>1. shown[1] \in Nat /\ shown[2] \in Nat
      BY <2>1, <2>3 DEF Statuses
    <3> QED
      BY <3>1, <2>1, <1>0 DEF Honest
  <2> QED
    BY <2>2, <2>3
<1>6. ListHonest'
  <2> SUFFICES ASSUME NEW i \in 1..Len(list), list[i].status # None
               PROVE  /\ list[i].status[1] <= transfer
                      /\ list[i].status[1] = transfer => list[i].status[2] <= sent + 1
    BY <1>0 DEF ListHonest, Honest, notify
  <2>1. list[i] \in Notification /\ Honest(list[i].status)
    BY DEF IInv, AllHonest, ListHonest, ListType
  <2>2. list[i].status[1] \in Nat /\ list[i].status[2] \in Nat
    BY <2>1 DEF Notification, Statuses
  <2> QED
    BY <2>1, <2>2, <1>0 DEF Honest
<1> QED
  BY <1>1, <1>2, <1>3, <1>4, <1>5, <1>6, LoggingKept DEF IInv, AllHonest

(* Collecting the counter keeps the sum, and what was collected is honest. *)
LEMMA Collecting ==
    ASSUME IInv, status # None
    PROVE  /\ Collected \in Nat \X Nat /\ Collected # None
           /\ Collected[1] = transfer /\ Collected[2] = sent
           /\ Honest(Collected)
<1>1. /\ transfer \in Nat /\ sent \in Nat /\ currentOffset \in Nat
      /\ status \in Nat \X Nat /\ status[1] = transfer /\ status[2] + currentOffset = sent
  BY DEF IInv, Numbers, Counted, Statuses
<1>2. Collected \in Nat \X Nat
  BY <1>1 DEF Collected
<1>3. Collected # None
  BY <1>2, NotificationsAssumption
<1>4. Collected[1] = transfer /\ Collected[2] = sent
  BY <1>1 DEF Collected
<1> QED
  BY <1>1, <1>2, <1>3, <1>4 DEF Honest

(* Update, under the mutex *)
LEMMA UpdateOK == ASSUME IInv, Update PROVE IInv'
<1> USE DEF Update
<1>1. ListType' /\ Told' /\ ListHonest'
  BY ListKept DEF notify
<1>2. Flags' /\ Honest(shown)' /\ shown' \in Statuses /\ transfer' \in Nat /\ sent' \in Nat
  BY DEF IInv, Flags, Numbers, AllHonest, Honest, notify, logging, display, observers
<1>3. /\ status' \in Statuses /\ currentOffset' \in Nat /\ sendState' \in 0..2
      /\ Counted' /\ MoverHonest' /\ Places'
  <2>1. CASE status # None /\ sendState = 0
    <3>1. status' = Collected /\ currentOffset' = 0 /\ mover' = <<"add", Status(Collected)>>
      BY <2>1
    <3>2. Status(Collected) \in Notification /\ Status(Collected).status = Collected
      BY <2>1, Collecting DEF Status, Notification, Statuses
    <3>3. mover' \in {"add"} \X Notification /\ mover'[2].status = Collected
      BY <3>1, <3>2
    <3>4. MoverHonest'
      BY <3>3, <2>1, Collecting DEF MoverHonest, Honest, observers
    <3>5. status' \in Statuses /\ currentOffset' \in Nat /\ sendState' \in 0..2 /\ Counted'
      BY <3>1, <2>1, Collecting DEF Statuses, Counted, observers, IInv, Numbers
    <3> QED
      BY <3>3, <3>4, <3>5 DEF Places, IInv
  <2>2. CASE ~(status # None /\ sendState = 0)
    <3>1. mover' = <<"idle">> /\ UNCHANGED <<status, currentOffset>>
      BY <2>2
    <3> QED
      BY <3>1 DEF IInv, Numbers, Counted, MoverHonest, Places, observers
  <2> QED
    BY <2>1, <2>2
<1> QED
  BY <1>1, <1>2, <1>3, LoggingKept DEF IInv, Numbers, AllHonest

(* The notification of Update, and the two of the end of a transfer *)
LEMMA NotifyOK ==
    ASSUME IInv, UpdateNotify \/ ResetNotify \/ ResetOperation
    PROVE  IInv'
<1> USE DEF UpdateNotify, ResetNotify, ResetOperation
<1>1. ListType' /\ maySend' \in BOOLEAN /\ Told' /\ ListHonest'
  <2>1. CASE UpdateNotify
    <3>1. mover \in {"add"} \X Notification /\ Honest(mover[2].status)
      BY <2>1 DEF IInv, Places, AllHonest, MoverHonest
    <3>2. mover[2] \in Notification
      BY <3>1
    <3> QED
      BY <2>1, <3>1, <3>2, AddingOne
  <2>2. CASE ResetNotify
    BY <2>2, PlainOnes, AddingOne
  <2>3. CASE ResetOperation
    BY <2>3, PlainOnes, AddingOne
  <2> QED
    BY <2>1, <2>2, <2>3
<1>2. Places' /\ MoverHonest'
  BY MoverKept DEF IInv, Places, MoverHonest
<1>3. timer' \in BOOLEAN /\ asked' \in BOOLEAN
  BY DEF IInv, Flags, display
<1> QED
  BY <1>1, <1>2, <1>3, LoggingKept, ProgressKept DEF IInv, Flags, Numbers, AllHonest

(* The status is emptied. *)
LEMMA ResetStatusOK == ASSUME IInv, ResetStatus PROVE IInv'
<1> USE DEF ResetStatus
<1>1. ListType' /\ Told' /\ ListHonest' /\ MoverHonest'
  BY ListKept, MoverKept DEF notify
<1>2. Flags' /\ Places' /\ Honest(shown)' /\ shown' \in Statuses /\ transfer' \in Nat /\ sent' \in Nat
  BY DEF IInv, Flags, Places, Numbers, AllHonest, Honest, notify, logging, display, observers
<1>3. status' \in Statuses /\ currentOffset' \in Nat /\ sendState' \in 0..2 /\ Counted'
  BY DEF IInv, Numbers, Statuses, Counted
<1> QED
  BY <1>1, <1>2, <1>3, LoggingKept DEF IInv, Numbers, AllHonest

(* The messages held back are sent or dropped. *)
LEMMA ResetLogsOK == ASSUME IInv, ResetLogs PROVE IInv'
<1> USE DEF ResetLogs
<1>1. queuedLogs \in Nat /\ queuedLogs' = 0 /\ queueLogs' = ~detailed /\ logs' \in Nat
  BY DEF IInv, Numbers, SendQueuedLogs, ClearQueuedLogs
<1>2. ListType' /\ maySend' \in BOOLEAN /\ Told' /\ ListHonest'
  <2>1. CASE SendQueuedLogs
    BY <2>1, <1>1, AddingMessages DEF SendQueuedLogs
  <2>2. CASE ClearQueuedLogs
    BY <2>2, ListKept DEF ClearQueuedLogs, notify, IInv, Flags
  <2> QED
    BY <2>1, <2>2
<1>3. Places' /\ MoverHonest'
  BY MoverKept DEF IInv, Places
<1>5. queueLogs' \in BOOLEAN /\ detailed' \in BOOLEAN /\ changed' \in BOOLEAN
      /\ timer' \in BOOLEAN /\ asked' \in BOOLEAN
  BY <1>1 DEF IInv, Flags, display
<1> QED
  BY <1>1, <1>2, <1>3, <1>5, ProgressKept DEF IInv, Flags, Numbers, AllHonest

(* A raw command: messages are no longer held back. *)
LEMMA RawCommandOK == ASSUME IInv, RawCommand PROVE IInv'
<1> USE DEF RawCommand
<1>1. ListType' /\ Told' /\ ListHonest' /\ MoverHonest'
  BY ListKept, MoverKept DEF notify
<1>2. Flags' /\ Places'
  BY DEF IInv, Flags, Places, notify, display
<1>3. queuedLogs' \in Nat /\ logs' \in Nat
  BY DEF IInv, Numbers
<1> QED
  BY <1>1, <1>2, <1>3, ProgressKept DEF IInv, Numbers, AllHonest

(* The client begins and ends its loop: the call it handles is the one     *)
(* that cleared the flag.                                                  *)
LEMMA LoopOK == ASSUME IInv, OnEngineEvent \/ NoNextNotification PROVE IInv'
<1> USE DEF OnEngineEvent, NoNextNotification
<1>0. called \in Nat /\ maySend \in BOOLEAN /\ Told /\ client \in {"idle", "drain"}
  BY DEF IInv, ListType, Flags, Places
<1>1. ListType' /\ ListHonest'
  BY <1>0 DEF IInv, ListType, AllHonest, ListHonest, Honest, observers, Told
<1>2. Told'
  <2>1. CASE OnEngineEvent
    <3>1. ~maySend /\ called = 1
      BY <2>1, <1>0 DEF Told
    <3> QED
      BY <3>1, <2>1, <1>0 DEF Told
  <2>2. CASE NoNextNotification
    <3>1. ~maySend /\ called = 0
      BY <2>2, <1>0 DEF Told
    <3> QED
      BY <3>1, <2>2, <1>0 DEF Told
  <2> QED
    BY <2>1, <2>2
<1>3. Places' /\ MoverHonest'
  BY MoverKept DEF IInv, Places
<1>4. maySend' \in BOOLEAN /\ timer' \in BOOLEAN /\ asked' \in BOOLEAN
  BY <1>0 DEF IInv, Flags, display
<1> QED
  BY <1>1, <1>2, <1>3, <1>4, LoggingKept, ProgressKept DEF IInv, Flags, Numbers, AllHonest

(* The client takes the first notification. *)
LEMMA GetNextOK == ASSUME IInv, GetNextNotification PROVE IInv'
<1> USE DEF GetNextNotification
<1>0. list \in Seq(Notification) /\ list # << >> /\ list' = Tail(list)
  BY DEF IInv, ListType
<1>1. Head(list) \in Notification /\ Head(list) = list[1] /\ 1 \in 1..Len(list)
  BY <1>0
<1>2. Honest(Head(list).status) /\ Head(list).status \in Statuses
  BY <1>1 DEF IInv, AllHonest, ListHonest, Notification
<1>3. ListType' /\ ListHonest'
  <2>1. list' \in Seq(Notification) /\ Len(list') = Len(list) - 1
        /\ \A i \in 1..Len(list') : i + 1 \in 1..Len(list) /\ list'[i] = list[i + 1]
    BY <1>0
  <2>2. ListHonest
    BY DEF IInv, AllHonest
  <2>3. ListHonest'
    <3> SUFFICES ASSUME NEW i \in 1..Len(list')
                 PROVE  list'[i].status # None =>
                            /\ list'[i].status[1] <= transfer
                            /\ list'[i].status[1] = transfer => list'[i].status[2] <= sent
      BY DEF ListHonest, Honest, observers
    <3>1. i + 1 \in 1..Len(list) /\ list'[i] = list[i + 1]
      BY <2>1
    <3>2. Honest(list[i + 1].status)
      BY <3>1, <2>2 DEF ListHonest
    <3> QED
      BY <3>1, <3>2 DEF Honest
  <2> QED
    BY <2>1, <2>3 DEF ListType, IInv
<1>4. Told'
  BY <1>0 DEF IInv, Told
<1>5. Honest(shown)' /\ shown' \in Statuses
  BY <1>2 DEF SetTransferStatus, IInv, Numbers, AllHonest, Honest, observers, display
<1>6. timer' \in BOOLEAN /\ asked' \in BOOLEAN /\ maySend' \in BOOLEAN
  BY DEF SetTransferStatus, IInv, Flags, display
<1>7. Places' /\ MoverHonest'
  BY MoverKept DEF IInv, Places
<1>8. /\ status' \in Statuses /\ currentOffset' \in Nat /\ sendState' \in 0..2
      /\ transfer' \in Nat /\ sent' \in Nat /\ Counted'
  BY DEF IInv, Numbers, Counted, progress, observers
<1> QED
  BY <1>3, <1>4, <1>5, <1>6, <1>7, <1>8, LoggingKept DEF IInv, Flags, Numbers, AllHonest

(* The status line polls. *)
LEMMA OnTimerOK == ASSUME IInv, OnTimer PROVE IInv'
<1> USE DEF OnTimer
<1>1. ListType' /\ Told' /\ ListHonest' /\ MoverHonest'
  BY ListKept, MoverKept DEF notify
<1>2. Places' /\ transfer' \in Nat /\ sent' \in Nat
  BY DEF IInv, Places, Numbers, observers
<1>3. timer' \in BOOLEAN
  BY DEF SetTransferStatus
<1>4. maySend' \in BOOLEAN /\ asked' \in BOOLEAN
  BY DEF IInv, Flags, notify
<1>5. status' \in Statuses /\ currentOffset' \in Nat /\ sendState' \in 0..2 /\ Counted'
  <2>1. CASE status = None
    BY <2>1 DEF IInv, Numbers, Counted
  <2>2. CASE status # None
    <3>1. status' = Collected /\ currentOffset' = 0 /\ sendState' \in {0, 1}
      BY <2>2
    <3> QED
      BY <3>1, <2>2, Collecting DEF Statuses, Counted, observers, IInv, Numbers
  <2> QED
    BY <2>1, <2>2
<1>6. Honest(shown)' /\ shown' \in Statuses
  <2>1. CASE shown' = None
    BY <2>1 DEF Honest, Statuses
  <2>2. CASE status # None /\ shown' = Collected
    BY <2>2, Collecting DEF Honest, Statuses, observers
  <2>3. CASE shown' = shown
    BY <2>3 DEF IInv, AllHonest, Numbers, Honest, observers
  <2> QED
    BY <2>1, <2>2, <2>3 DEF SetTransferStatus
<1> QED
  BY <1>1, <1>2, <1>3, <1>4, <1>5, <1>6, LoggingKept DEF IInv, Flags, Numbers, AllHonest

(* Every step keeps the invariant. *)
LEMMA NextOK == IInv /\ [Next]_vars => IInv'
<1> SUFFICES ASSUME IInv, [Next]_vars PROVE IInv'
  OBVIOUS
<1>1. CASE Engine
  BY <1>1, AddLogOK, OptionsOK, RawCommandOK, InitStatusOK, ResetStatusOK, NotifyOK, ResetLogsOK DEF Engine
<1>2. CASE Mover
  BY <1>2, FetchAddOK, UpdateOK, NotifyOK DEF Mover
<1>3. CASE Client
  BY <1>3, LoopOK, GetNextOK, OnTimerOK DEF Client
<1>4. CASE UNCHANGED vars
  <2>1. UNCHANGED <<notify, logging, progress, observers, loop, asked, mover, client, display>>
    BY <1>4 DEF vars
  <2>2. ListType' /\ Told' /\ ListHonest' /\ MoverHonest' /\ Places'
    BY <2>1, ListKept, MoverKept DEF notify, IInv, Places
  <2>3. Flags'
    BY <2>1 DEF IInv, Flags, notify, logging, display
  <2> QED
    BY <2>1, <2>2, <2>3, LoggingKept, ProgressKept DEF IInv, Numbers, AllHonest
<1> QED
  BY <1>1, <1>2, <1>3, <1>4 DEF Next

(* AddNotification and GetNextNotification lose no call: whenever there is *)
(* something in m_NotificationList the client has been called back and has *)
(* yet to find the list empty, in any number of operations.                *)
THEOREM ClientIsAlwaysTold == Spec => []ClientIsTold
<1>1. IInv => ClientIsTold
  BY Implied
<1> QED
  BY InitOK, NextOK, <1>1, PTL DEF Spec

(* CTransferStatusManager counts every byte once, although Update adds     *)
(* them outside the mutex, and the status line never shows too many.       *)
THEOREM EveryByteCounts == Spec => []BytesCounted
<1>1. IInv => BytesCounted
  BY Implied
<1> QED
  BY InitOK, NextOK, <1>1, PTL DEF Spec

-------------------------------------------------------------------------------
(***************************************************************************)
(* The commands of an engine.  The two models share no state.              *)
(*                                                                         *)
(* NoOrphans is not inductive: it allows a command event anywhere in the   *)
(* queue, also of a command whose operations run already, which it would   *)
(* start again.  EInv says that such an event comes first and nothing has  *)
(* been done for its command yet (Order), that operations have a socket    *)
(* (Works), and that only the top of the stack waits for an answer (Asks). *)
(***************************************************************************)

(* The bounds are numbers, and the client waits until the events of its    *)
(* commands have been handled; for another one NoOrphans is false (README, *)
(* Findings).                                                              *)
Bounds ==
    /\ MaxCommands \in Nat /\ MaxCancels \in Nat /\ MaxRequests \in Nat /\ MaxDepth \in Nat
    /\ MaxRounds \in Nat /\ OtherFailures \in Nat /\ ReconnectCount \in Nat
    /\ PatientClient = TRUE

LEMMA BoundsHold == ASSUME PatientClient = TRUE PROVE Bounds
BY EngineAssumption DEF Bounds

(* The parts of EngineTypeOK *)
Todos == {<<"nothing">>, <<"send">>} \cup ({"reset"} \X Plain)

CommandType ==
    /\ currentCommand \in Commands \cup {NoCommand}
    /\ answer \in (0..MaxCommands) \X Codes
    /\ retryCount \in 0..(ReconnectCount + 1)
    /\ retryTimer \in BOOLEAN /\ recentFailure \in BOOLEAN

SocketType ==
    /\ hasSocket \in BOOLEAN /\ connection \in BOOLEAN /\ socketTimer \in BOOLEAN
    /\ operations \in Seq(Operations) /\ todo \in Todos

CounterType ==
    /\ executed \in 0..MaxCommands /\ cancels \in 0..MaxCancels
    /\ rounds \in 0..MaxRounds /\ otherFailures \in 0..OtherFailures
    /\ asyncRequestCounter \in 0..MaxRequests /\ requests \subseteq 1..MaxRequests

(* The event of the current command has yet to be handled. *)
Announced == queue # << >> /\ queue[1].type = "command"

(* Operations are those of the current command, and have a socket. *)
Works ==
    operations # << >> =>
        /\ Busy /\ hasSocket
        /\ \A i \in 1..Len(operations) : operations[i].cmd = currentCommand.id

(* Only the operation on top waits for an answer, and to the last request. *)
Asks ==
    \A i \in 1..Len(operations) : operations[i].waits = "answer" =>
        i = Len(operations) /\ operations[i].ask = asyncRequestCounter

(* A command event is the first in the queue, and nothing has been done    *)
(* for the command yet.                                                    *)
Order ==
    /\ queue \in Seq(Events)
    /\ \A i \in 1..Len(queue) : queue[i].type = "command" => i = 1
    /\ Announced => operations = << >> /\ ~retryTimer
    /\ Announced /\ currentCommand.kind = "connect" => ~hasSocket

(* The retry timer belongs to a connection attempt, and there are only so  *)
(* many of them.                                                           *)
Retries ==
    /\ retryTimer => currentCommand.kind = "connect" /\ operations = << >>
    /\ currentCommand.kind = "connect" /\ ~Announced => retryCount <= ReconnectCount

(* No command is forgotten, at any moment of a handler. *)
Remembered == Busy => Announced \/ operations # << >> \/ retryTimer

EInv ==
    /\ CommandType /\ SocketType /\ CounterType
    /\ Works /\ (connection => hasSocket) /\ Asks /\ Order /\ Retries /\ Remembered

(* The invariant implies what the run checks. *)
LEMMA EImplied == EInv => NoOrphans
<1> SUFFICES ASSUME EInv PROVE NoOrphans
  OBVIOUS
<1>1. EngineTypeOK
  BY DEF EInv, EngineTypeOK, CommandType, SocketType, CounterType, Order, Todos
<1>2. \A i \in 1..Len(operations) : operations[i].cmd = currentCommand.id
  BY DEF EInv, Works, SocketType
<1>3. Busy => \/ \E i \in 1..Len(queue) : queue[i].type = "command"
              \/ operations # << >>
              \/ retryTimer
  <2>1. Announced => \E i \in 1..Len(queue) : queue[i].type = "command"
    BY EmptySeq DEF Announced, EInv, Order
  <2> QED BY <2>1 DEF EInv, Remembered
<1> QED BY <1>1, <1>2, <1>3 DEF NoOrphans, EInv, Retries

-------------------------------------------------------------------------------
(* The operations but the last one *)
LEMMA StackBelow ==
    ASSUME NEW S, NEW q \in Seq(S), q # << >>
    PROVE  /\ SubSeq(q, 1, Len(q) - 1) \in Seq(S)
           /\ Len(SubSeq(q, 1, Len(q) - 1)) = Len(q) - 1
           /\ \A i \in 1..(Len(q) - 1) : SubSeq(q, 1, Len(q) - 1)[i] = q[i]
           /\ Len(q) \in Nat \ {0}
<1>1. Len(q) \in Nat \ {0} /\ \A i \in 1..(Len(q) - 1) : q[i] \in S
  BY EmptySeq
<1> DEFINE n == Len(q) - 1
<1>2. n \in Nat /\ \A i \in 1..n : q[i] \in S
  BY <1>1
<1> HIDE DEF n
<1>3. /\ SubSeq(q, 1, n) \in Seq(S) /\ Len(SubSeq(q, 1, n)) = IF 1 <= n THEN n - 1 + 1 ELSE 0
      /\ \A i \in 1..(n - 1 + 1) : SubSeq(q, 1, n)[i] = q[1 + i - 1]
  <2>1. 1 \in Int /\ n \in Int
    BY <1>2
  <2> QED BY <1>2, <2>1, SubSeqProperties
<1>4. n - 1 + 1 = n /\ (IF 1 <= n THEN n - 1 + 1 ELSE 0) = n /\ \A i \in 1..n : 1 + i - 1 = i
  BY <1>2
<1>5. Len(SubSeq(q, 1, n)) = n /\ \A i \in 1..n : SubSeq(q, 1, n)[i] = q[i]
  BY <1>3, <1>4
<1> QED BY <1>1, <1>3, <1>5 DEF n

(* A stack with its top replaced *)
LEMMA StackTop ==
    ASSUME NEW S, NEW q \in Seq(S), q # << >>, NEW e \in S
    PROVE  LET r == Append(SubSeq(q, 1, Len(q) - 1), e)
           IN  /\ r \in Seq(S) /\ Len(r) = Len(q) /\ r # << >>
               /\ r[Len(q)] = e /\ \A i \in 1..(Len(q) - 1) : r[i] = q[i]
<1> DEFINE b == SubSeq(q, 1, Len(q) - 1)
<1>1. b \in Seq(S) /\ Len(b) = Len(q) - 1 /\ (\A i \in 1..(Len(q) - 1) : b[i] = q[i]) /\ Len(q) \in Nat \ {0}
  BY StackBelow
<1> HIDE DEF b
<1>2. /\ Append(b, e) \in Seq(S) /\ Append(b, e) # << >>
      /\ Len(Append(b, e)) = Len(b) + 1 /\ Append(b, e)[Len(b) + 1] = e
      /\ \A i \in 1..Len(b) : Append(b, e)[i] = b[i]
  BY <1>1, AppendProperties
<1> QED BY <1>1, <1>2 DEF b

(* What is left of a queue without its first event *)
LEMMA QueueTail ==
    ASSUME NEW S, NEW q \in Seq(S), q # << >>
    PROVE  /\ Tail(q) \in Seq(S) /\ Len(Tail(q)) = Len(q) - 1 /\ Len(q) \in Nat \ {0}
           /\ \A i \in 1..Len(Tail(q)) : Tail(q)[i] = q[i + 1]
           /\ Head(q) = q[1]
OBVIOUS

(* The queue loses its first event at most. *)
QueueStep == queue' = queue \/ (queue # << >> /\ queue' = Tail(queue))

(* The order of events is kept; a command event may only stay where it is. *)
LEMMA QueueStepOK ==
    ASSUME EInv, QueueStep
    PROVE  /\ queue' \in Seq(Events)
           /\ \A i \in 1..Len(queue') : queue'[i].type = "command" => i = 1
           /\ Announced' => Announced /\ queue' = queue
<1>0. queue \in Seq(Events) /\ \A i \in 1..Len(queue) : queue[i].type = "command" => i = 1
  BY DEF EInv, Order
<1>1. CASE queue' = queue
  BY <1>0, <1>1 DEF Announced
<1>2. CASE queue # << >> /\ queue' = Tail(queue)
  <2>1. /\ queue' \in Seq(Events) /\ Len(queue') = Len(queue) - 1 /\ Len(queue) \in Nat \ {0}
        /\ \A i \in 1..Len(queue') : queue'[i] = queue[i + 1]
    BY <1>0, <1>2, QueueTail
  <2>2. \A i \in 1..Len(queue') : i + 1 \in 1..Len(queue) /\ i + 1 # 1
    BY <2>1
  <2>3. \A i \in 1..Len(queue') : queue'[i].type # "command"
    BY <1>0, <2>1, <2>2
  <2>4. ~Announced'
    BY <2>1, <2>3, EmptySeq DEF Announced
  <2> QED BY <2>1, <2>2, <2>3, <2>4
<1> QED BY <1>1, <1>2 DEF QueueStep

-------------------------------------------------------------------------------
(* How a command ends: there is none any more, or the retry timer runs for *)
(* its next connection attempt.                                            *)
Over ==
    \/ currentCommand' = NoCommand /\ ~retryTimer'
    \/ /\ currentCommand' = currentCommand /\ currentCommand.kind = "connect"
       /\ retryTimer' /\ retryCount' <= ReconnectCount

(* CFileZillaEnginePrivate::ResetOperation, unless it might retry for a    *)
(* connect command that has not been started                               *)
LEMMA EngineResetOK ==
    ASSUME Bounds, EInv, NEW code \in Codes, EngineReset(code),
           MayRetry(code) => ~(Announced /\ currentCommand.kind = "connect")
    PROVE  Over /\ CommandType' /\ (retryTimer' => ~Announced)
<1>0. /\ CommandType /\ Retries /\ (Announced => ~retryTimer)
      /\ ReconnectCount \in Nat /\ MaxCommands \in Nat
  BY DEF EInv, Order, Bounds
<1>1. NoCommand.kind # "connect" /\ NoCommand.id = 0
  BY DEF NoCommand
<1>2. currentCommand.id \in 0..MaxCommands
  BY <1>0 DEF CommandType, Commands, NoCommand
<1>3. Answer(code) => currentCommand' = NoCommand /\ answer' \in (0..MaxCommands) \X Codes
  BY <1>2 DEF Answer
<1>4. CASE ~Busy /\ UNCHANGED engine
  BY <1>0, <1>1, <1>4 DEF Busy, engine, Over, CommandType, Retries
<1>5. CASE /\ Busy /\ currentCommand.kind # "connect" /\ Answer(code)
           /\ UNCHANGED <<retryTimer, retryCount, recentFailure>>
  BY <1>0, <1>3, <1>5 DEF Over, CommandType, Retries
<1>6. CASE currentCommand.kind = "connect" /\ retryTimer /\ UNCHANGED engine
  BY <1>0, <1>6 DEF engine, Over, CommandType, Retries
<1>7. CASE /\ currentCommand.kind = "connect" /\ ~retryTimer /\ ~MayRetry(code)
           /\ Answer(code) /\ UNCHANGED <<retryTimer, retryCount, recentFailure>>
  BY <1>0, <1>3, <1>7 DEF Over, CommandType
<1>8. CASE /\ currentCommand.kind = "connect" /\ ~retryTimer /\ MayRetry(code) /\ recentFailure' = TRUE
           /\ \/ "critical" \in code /\ Answer(code) /\ UNCHANGED <<retryTimer, retryCount>>
              \/ /\ "critical" \notin code /\ RetriesLeft /\ retryCount' = retryCount + 1 /\ retryTimer' = TRUE
                 /\ UNCHANGED <<currentCommand, answer>>
              \/ /\ "critical" \notin code /\ ~RetriesLeft /\ retryCount' = retryCount + 1
                 /\ Answer(code) /\ UNCHANGED retryTimer
  <2>1. ~Announced /\ retryCount \in Nat /\ retryCount <= ReconnectCount
    BY <1>0, <1>8 DEF Retries, CommandType
  <2>2. CASE Answer(code) /\ UNCHANGED <<retryTimer, retryCount>>
    BY <1>0, <1>3, <1>8, <2>2 DEF Over, CommandType
  <2>3. CASE /\ RetriesLeft /\ retryCount' = retryCount + 1 /\ retryTimer' = TRUE
             /\ UNCHANGED <<currentCommand, answer>>
    BY <1>0, <1>8, <2>1, <2>3 DEF Over, CommandType, RetriesLeft
  <2>4. CASE retryCount' = retryCount + 1 /\ Answer(code) /\ UNCHANGED retryTimer
    BY <1>0, <1>3, <1>8, <2>1, <2>4 DEF Over, CommandType
  <2> QED BY <1>8, <2>2, <2>3, <2>4
<1> QED BY <1>4, <1>5, <1>6, <1>7, <1>8 DEF EngineReset

(* A step after which there are no operations, and the command is over or  *)
(* tried again                                                             *)
LEMMA OverOK ==
    ASSUME Bounds, EInv, Over, CommandType', operations' = << >>, todo' = <<"nothing">>, QueueStep,
           hasSocket' \in BOOLEAN, connection' \in BOOLEAN, socketTimer' \in BOOLEAN, connection' => hasSocket',
           retryTimer' => ~Announced', otherFailures' \in 0..OtherFailures,
           UNCHANGED <<calls, rounds, asyncRequestCounter, requests>>
    PROVE  EInv'
<1>1. /\ queue' \in Seq(Events) /\ (\A i \in 1..Len(queue') : queue'[i].type = "command" => i = 1)
      /\ Announced' => Announced
  BY QueueStepOK
<1>2. SocketType' /\ Works' /\ Asks'
  BY EmptySeq DEF SocketType, Todos, Works, Asks
<1>3. CounterType'
  BY DEF EInv, CounterType, calls
<1>4. NoCommand.kind = "none"
  BY DEF NoCommand
<1>5. Order'
  BY <1>1, <1>4 DEF Order, Over
<1>7. Retries' /\ Remembered'
  BY <1>1, <1>4 DEF Retries, Remembered, Over, Busy
<1> QED BY <1>2, <1>3, <1>5, <1>7 DEF EInv

(* A step of a running command that leaves operations on the stack *)
LEMMA StackOK ==
    ASSUME Bounds, EInv, operations # << >>, UNCHANGED <<engine, hasSocket, calls, otherFailures>>, QueueStep,
           operations' \in Seq(Operations), operations' # << >>,
           \A i \in 1..Len(operations') : operations'[i].cmd = currentCommand.id,
           Asks', todo' \in Todos, connection' \in BOOLEAN, socketTimer' \in BOOLEAN,
           rounds' \in 0..MaxRounds, asyncRequestCounter' \in 0..MaxRequests, requests' \subseteq 1..MaxRequests
    PROVE  EInv'
<1>1. /\ queue' \in Seq(Events) /\ (\A i \in 1..Len(queue') : queue'[i].type = "command" => i = 1)
      /\ Announced' => Announced
  BY QueueStepOK
<1>2. /\ Busy /\ hasSocket /\ ~Announced /\ ~retryTimer
      /\ CommandType /\ SocketType /\ CounterType /\ Retries
  BY DEF EInv, Works, Order, Retries
<1>3. CommandType' /\ SocketType' /\ CounterType'
  BY <1>2 DEF CommandType, SocketType, CounterType, engine, calls
<1>4. Works' /\ hasSocket'
  BY <1>2 DEF Works, Busy, engine
<1>5. Order'
  BY <1>1, <1>2 DEF Order, Busy, engine
<1>6. Retries' /\ Remembered'
  BY <1>1, <1>2 DEF Retries, Remembered, engine
<1> QED BY <1>3, <1>4, <1>5, <1>6 DEF EInv

-------------------------------------------------------------------------------
(* What CControlSocket does to its stack: another wait of the operation on *)
(* top, an operation that ends, and one that is pushed                     *)
Kept ==
    /\ operations' \in Seq(Operations) /\ operations' # << >>
    /\ \A i \in 1..Len(operations') : operations'[i].cmd = currentCommand.id
    /\ Asks'

(* The operation on top waits for something else. *)
LEMMA TopWaitsOK ==
    ASSUME Bounds, EInv, operations # << >>,
           NEW waits \in {"nothing", "network", "answer", "lock"}, NEW ask \in 0..MaxRequests,
           operations' = TopWaits(waits, ask), waits = "answer" => ask = asyncRequestCounter'
    PROVE  Kept
<1> DEFINE e == [Top EXCEPT !.waits = waits, !.ask = ask]
<1>1. /\ operations \in Seq(Operations) /\ Len(operations) \in Nat \ {0}
      /\ \A i \in 1..Len(operations) : operations[i] \in Operations /\ operations[i].cmd = currentCommand.id
      /\ \A i \in 1..Len(operations) : operations[i].waits = "answer" => i = Len(operations)
  BY EmptySeq DEF EInv, SocketType, Works, Asks
<1>2. Top \in Operations /\ Top.cmd = currentCommand.id
  BY <1>1 DEF Top
<1>3. e \in Operations /\ e.cmd = currentCommand.id /\ e.waits = waits /\ e.ask = ask
  BY <1>2 DEF Operations
<1> HIDE DEF e
<1>4. operations' = Append(SubSeq(operations, 1, Len(operations) - 1), e)
  BY DEF TopWaits, Below, e
<1>5. /\ operations' \in Seq(Operations) /\ Len(operations') = Len(operations) /\ operations' # << >>
      /\ operations'[Len(operations)] = e /\ \A i \in 1..(Len(operations) - 1) : operations'[i] = operations[i]
  BY <1>1, <1>3, <1>4, StackTop
<1>6. ASSUME NEW i \in 1..Len(operations')
      PROVE  \/ i = Len(operations)
             \/ (i \in 1..(Len(operations) - 1) /\ i \in 1..Len(operations) /\ i # Len(operations))
  BY <1>1, <1>5
<1>7. \A i \in 1..Len(operations') : operations'[i].cmd = currentCommand.id
  BY <1>1, <1>3, <1>5, <1>6
<1>8. Asks'
  BY <1>1, <1>3, <1>5, <1>6 DEF Asks
<1> QED BY <1>5, <1>7, <1>8 DEF Kept

(* The operation on top has ended. *)
LEMMA BelowOK ==
    ASSUME EInv, operations # << >>, Below # << >>, operations' = Below
    PROVE  Kept
<1>1. /\ operations \in Seq(Operations) /\ Len(operations) \in Nat \ {0}
      /\ \A i \in 1..Len(operations) : operations[i].cmd = currentCommand.id
      /\ \A i \in 1..Len(operations) : operations[i].waits = "answer" => i = Len(operations)
  BY EmptySeq DEF EInv, SocketType, Works, Asks
<1>2. /\ operations' \in Seq(Operations) /\ Len(operations') = Len(operations) - 1
      /\ \A i \in 1..(Len(operations) - 1) : operations'[i] = operations[i]
  BY <1>1, StackBelow DEF Below
<1>3. \A i \in 1..Len(operations') : i \in 1..Len(operations) /\ i # Len(operations) /\ operations'[i] = operations[i]
  BY <1>1, <1>2
<1> QED BY <1>1, <1>2, <1>3 DEF Kept, Asks

(* Send() has pushed another operation. *)
LEMMA PushOK ==
    ASSUME Bounds, EInv, operations # << >>,
           operations' = Append(TopWaits("nothing", 0), NewOperation("other", FALSE))
    PROVE  Kept
<1> DEFINE new == NewOperation("other", FALSE)
           e == [Top EXCEPT !.waits = "nothing", !.ask = 0]
           under == Append(SubSeq(operations, 1, Len(operations) - 1), e)
<1>1. /\ operations \in Seq(Operations) /\ Len(operations) \in Nat \ {0}
      /\ \A i \in 1..Len(operations) : operations[i] \in Operations /\ operations[i].cmd = currentCommand.id
      /\ \A i \in 1..Len(operations) : operations[i].waits = "answer" => i = Len(operations)
  BY EmptySeq DEF EInv, SocketType, Works, Asks
<1>2. Top \in Operations /\ Top.cmd = currentCommand.id
  BY <1>1 DEF Top
<1>3. e \in Operations /\ e.cmd = currentCommand.id /\ e.waits = "nothing"
  <2>1. 0 \in 0..MaxRequests
    BY DEF Bounds
  <2> QED BY <1>2, <2>1 DEF Operations
<1>4. new \in Operations /\ new.cmd = currentCommand.id /\ new.waits = "nothing"
  BY DEF NewOperation, Operations, Bounds, EInv, CommandType, Commands, NoCommand
<1> HIDE DEF e, new
<1>5. /\ under \in Seq(Operations) /\ Len(under) = Len(operations)
      /\ under[Len(operations)] = e /\ \A i \in 1..(Len(operations) - 1) : under[i] = operations[i]
  BY <1>1, <1>3, StackTop
<1>6. operations' = Append(under, new)
  BY DEF TopWaits, Below, e, new
<1>7. ASSUME NEW i \in 1..Len(operations)
      PROVE  under[i].cmd = currentCommand.id /\ under[i].waits # "answer"
  <2>1. i = Len(operations) \/ (i \in 1..(Len(operations) - 1) /\ i # Len(operations))
    BY <1>1
  <2> QED BY <1>1, <1>3, <1>5, <2>1
<1> HIDE DEF under
<1>8. /\ operations' \in Seq(Operations) /\ operations' # << >> /\ Len(operations') = Len(under) + 1
      /\ operations'[Len(under) + 1] = new /\ \A i \in 1..Len(under) : operations'[i] = under[i]
  <2>1. under \in Seq(Operations) /\ new \in Operations
    BY <1>4, <1>5
  <2>2. /\ Append(under, new) \in Seq(Operations) /\ Append(under, new) # << >>
        /\ Len(Append(under, new)) = Len(under) + 1 /\ Append(under, new)[Len(under) + 1] = new
        /\ \A i \in 1..Len(under) : Append(under, new)[i] = under[i]
    BY <2>1, AppendProperties
  <2> QED BY <1>6, <2>2, Zenon
<1>9. \A i \in 1..Len(operations') : operations'[i].cmd = currentCommand.id /\ operations'[i].waits # "answer"
  <2> SUFFICES ASSUME NEW i \in 1..Len(operations')
               PROVE  operations'[i].cmd = currentCommand.id /\ operations'[i].waits # "answer"
    OBVIOUS
  <2>1. i \in 1..Len(under) \/ i = Len(under) + 1
    BY <1>1, <1>5, <1>8
  <2> QED BY <1>4, <1>5, <1>7, <1>8, <2>1
<1> QED BY <1>8, <1>9 DEF Kept, Asks

(* SendAsyncRequest *)
LEMMA AskOK ==
    ASSUME Bounds, EInv, operations # << >>, SendAsyncRequest
    PROVE  /\ Kept /\ asyncRequestCounter' \in 0..MaxRequests /\ requests' \subseteq 1..MaxRequests
           /\ UNCHANGED <<engine, connection, socketTimer>>
<1>1. /\ asyncRequestCounter' \in 1..MaxRequests /\ requests' = requests \cup {asyncRequestCounter'}
      /\ operations' = TopWaits("answer", asyncRequestCounter') /\ requests \subseteq 1..MaxRequests
      /\ MaxRequests \in Nat /\ UNCHANGED <<engine, connection, socketTimer>>
  BY DEF SendAsyncRequest, EInv, CounterType, Bounds
<1>2. asyncRequestCounter' \in 0..MaxRequests /\ requests' \subseteq 1..MaxRequests
  BY <1>1
<1>3. Kept
  BY <1>1, <1>2, TopWaitsOK
<1> QED BY <1>1, <1>2, <1>3

(* The codes that occur *)
LEMMA CodesOK ==
    /\ \A c \in {OK, ERROR, CRITICALERROR, CANCELED, TIMEOUT} :
          c \in Codes /\ ERROR \cup DISCONNECTED \cup c \in Codes
    /\ Plain \subseteq Codes
    /\ {SYNTAXERROR \cup DISCONNECTED, DISCONNECTED \cup CANCELED, ERROR \cup DISCONNECTED,
        NOTSUPPORTED, ALREADYCONNECTED, NOTCONNECTED, CANCELED, OK} \subseteq Codes
BY DEF OK, ERROR, CRITICALERROR, CANCELED, TIMEOUT, DISCONNECTED, SYNTAXERROR, NOTSUPPORTED,
   ALREADYCONNECTED, NOTCONNECTED, Codes, Plain

(* All operations end, with the connection or without *)
LEMMA ResetAllOK ==
    ASSUME Bounds, EInv, NEW code \in Codes, ResetAll(code), QueueStep,
           MayRetry(code) => ~(Announced /\ currentCommand.kind = "connect"),
           hasSocket' \in BOOLEAN, connection' \in BOOLEAN, connection' => hasSocket',
           UNCHANGED <<calls, rounds, otherFailures, asyncRequestCounter, requests>>
    PROVE  EInv'
<1>1. EngineReset(code) /\ operations' = << >> /\ todo' = <<"nothing">> /\ socketTimer' \in BOOLEAN
  BY DEF ResetAll
<1>2. Over /\ CommandType' /\ (retryTimer' => ~Announced)
  BY <1>1, EngineResetOK
<1>3. Announced' => Announced
  BY QueueStepOK
<1>4. otherFailures' \in 0..OtherFailures
  BY DEF EInv, CounterType
<1> QED BY <1>1, <1>2, <1>3, <1>4, OverOK

(* DoClose, unless a connect command has not been started *)
LEMMA DoCloseOK ==
    ASSUME Bounds, EInv, NEW code \in {OK, ERROR, CRITICALERROR, CANCELED, TIMEOUT},
           DoClose(code), QueueStep, ~(Announced /\ currentCommand.kind = "connect"), hasSocket' \in BOOLEAN,
           UNCHANGED <<calls, rounds, otherFailures, asyncRequestCounter, requests>>
    PROVE  EInv'
<1>1. ResetAll(ERROR \cup DISCONNECTED \cup code) /\ connection' = FALSE
  BY DEF DoClose
<1>2. ERROR \cup DISCONNECTED \cup code \in Codes
  BY CodesOK
<1> QED BY <1>1, <1>2, ResetAllOK

-------------------------------------------------------------------------------
(* A handler that goes on with the operations it has *)
LEMMA SameStack == ASSUME EInv, operations # << >>, UNCHANGED <<operations, asyncRequestCounter>> PROVE Kept
BY DEF EInv, SocketType, Works, Asks, Kept

(* Send() of the operation on top has to wait or pushes another one. *)
LEMMA ContinueOK ==
    ASSUME Bounds, EInv, operations # << >>, Continue, rounds' \in 0..MaxRounds,
           UNCHANGED <<hasSocket, calls, queue, otherFailures>>
    PROVE  EInv'
<1>0. /\ SocketType /\ CounterType /\ 0 \in 0..MaxRequests /\ QueueStep
      /\ <<"nothing">> \in Todos
  BY DEF EInv, Bounds, QueueStep, Todos
<1>1. CASE /\ operations' = Append(TopWaits("nothing", 0), NewOperation("other", FALSE))
           /\ UNCHANGED <<engine, connection, socketTimer, asyncRequestCounter, requests, todo>>
  BY <1>0, <1>1, PushOK, StackOK DEF Kept, SocketType, CounterType
<1>2. CASE /\ operations' = TopWaits("network", 0)
           /\ connection' = (connection \/ Top.id = "connect") /\ StartTimer
           /\ todo' = <<"nothing">> /\ UNCHANGED <<engine, asyncRequestCounter, requests>>
  <2>1. Kept
    BY <1>0, <1>2, TopWaitsOK
  <2>2. connection' \in BOOLEAN /\ socketTimer' \in BOOLEAN
    BY <1>2 DEF StartTimer
  <2> QED BY <1>0, <1>2, <2>1, <2>2, StackOK DEF Kept, CounterType
<1>3. CASE /\ operations' = TopWaits("lock", 0) /\ todo' = <<"nothing">>
           /\ UNCHANGED <<engine, connection, socketTimer, asyncRequestCounter, requests>>
  BY <1>0, <1>3, TopWaitsOK, StackOK DEF Kept, SocketType, CounterType
<1>4. CASE SendAsyncRequest /\ todo' = <<"nothing">>
  BY <1>0, <1>4, AskOK, StackOK DEF Kept, SocketType
<1> QED BY <1>1, <1>2, <1>3, <1>4 DEF Continue

(* SendNextCommand *)
LEMMA SendOK == ASSUME Bounds, EInv, Send PROVE EInv'
<1>0. /\ SocketType /\ CounterType /\ QueueStep /\ operations # << >> /\ MaxRounds \in Nat
      /\ UNCHANGED <<hasSocket, calls, queue, otherFailures>> /\ ~Announced
  BY DEF EInv, Send, QueueStep, Order, Bounds
<1>1. CASE /\ todo' \in Todos
           /\ UNCHANGED <<engine, operations, connection, socketTimer, asyncRequestCounter, requests, rounds>>
  BY <1>0, <1>1, SameStack, StackOK DEF Kept, SocketType, CounterType
<1>2. CASE rounds < MaxRounds /\ rounds' = rounds + 1 /\ Continue
  <2>1. rounds' \in 0..MaxRounds
    BY <1>0, <1>2 DEF CounterType
  <2> QED BY <1>0, <1>2, <2>1, ContinueOK
<1>3. CASE DoClose(ERROR) /\ UNCHANGED <<asyncRequestCounter, requests, rounds>>
  BY <1>0, <1>3, DoCloseOK DEF SocketType
<1> QED BY <1>1, <1>2, <1>3 DEF Send, Todos

(* ResetOperation with a plain code *)
LEMMA ResetOK == ASSUME Bounds, EInv, Reset PROVE EInv'
<1>0. /\ SocketType /\ CounterType /\ QueueStep /\ operations # << >> /\ ~Announced /\ (connection => hasSocket)
      /\ UNCHANGED <<rounds, hasSocket, calls, queue, otherFailures, asyncRequestCounter, requests>>
  BY DEF EInv, Reset, QueueStep, Order
<1>1. todo \in {"reset"} \X Plain
  BY <1>0 DEF Reset, SocketType, Todos
<1>2. CASE ResetAll(todo[2]) /\ UNCHANGED connection
  <2>1. todo[2] \in Codes
    BY <1>1, CodesOK
  <2> QED BY <1>0, <1>2, <2>1, ResetAllOK DEF SocketType
<1>3. CASE /\ Below # << >> /\ operations' = Below /\ todo' \in Todos
           /\ UNCHANGED <<engine, connection, socketTimer>>
  BY <1>0, <1>3, BelowOK, StackOK DEF Kept, SocketType, CounterType
<1>4. CASE ResetAll(ERROR \cup DISCONNECTED) /\ UNCHANGED connection
  BY <1>0, <1>4, CodesOK, ResetAllOK DEF SocketType
<1> QED BY <1>2, <1>3, <1>4 DEF Reset, Todos

(* A reply of the server *)
LEMMA ResponseOK == ASSUME Bounds, EInv, Response PROVE EInv'
<1>0. /\ SocketType /\ CounterType /\ QueueStep /\ operations # << >> /\ ~Announced /\ MaxRounds \in Nat
      /\ UNCHANGED <<hasSocket, calls, queue, otherFailures>>
  BY DEF EInv, Response, QueueStep, Order, Bounds
<1>1. CASE /\ rounds < MaxRounds /\ rounds' = rounds + 1 /\ todo' = <<"send">>
           /\ UNCHANGED <<engine, operations, connection, socketTimer, asyncRequestCounter, requests>>
  <2>1. rounds' \in 0..MaxRounds
    BY <1>0, <1>1 DEF CounterType
  <2> QED BY <1>0, <1>1, <2>1, SameStack, StackOK DEF Kept, SocketType, CounterType, Todos
<1>2. CASE /\ todo' \in {"reset"} \X (IF Top.id = "connect" THEN {OK} ELSE Plain)
           /\ UNCHANGED <<engine, operations, connection, socketTimer, asyncRequestCounter, requests, rounds>>
  <2>1. todo' \in Todos
    BY <1>2 DEF Todos, Plain
  <2> QED BY <1>0, <1>2, <2>1, SameStack, StackOK DEF Kept, SocketType, CounterType
<1>3. CASE (DoClose(ERROR) \/ DoClose(CRITICALERROR)) /\ UNCHANGED <<asyncRequestCounter, requests, rounds>>
  BY <1>0, <1>3, DoCloseOK DEF SocketType
<1>4. CASE SendAsyncRequest /\ UNCHANGED <<todo, rounds>>
  BY <1>0, <1>4, AskOK, StackOK DEF Kept, SocketType, CounterType
<1> QED BY <1>1, <1>2, <1>3, <1>4 DEF Response

(* The connection breaks.  With a connect command waiting to be started    *)
(* there is none.                                                          *)
LEMMA DisconnectedOK == ASSUME Bounds, EInv, Disconnected PROVE EInv'
<1>1. /\ SocketType /\ QueueStep /\ ~(Announced /\ currentCommand.kind = "connect") /\ DoClose(OK)
      /\ UNCHANGED <<rounds, hasSocket, calls, queue, otherFailures, asyncRequestCounter, requests>>
  BY DEF EInv, Disconnected, QueueStep, Order
<1> QED BY <1>1, DoCloseOK DEF SocketType

(* CControlSocket::OnTimer *)
LEMMA TimeoutOK == ASSUME Bounds, EInv, Timeout PROVE EInv'
<1>1. /\ SocketType /\ QueueStep /\ ~Announced /\ DoClose(TIMEOUT)
      /\ UNCHANGED <<rounds, hasSocket, calls, queue, otherFailures, asyncRequestCounter, requests>>
  BY DEF EInv, Timeout, QueueStep, Order
<1> QED BY <1>1, DoCloseOK DEF SocketType

(* CControlSocket::OnObtainLock *)
LEMMA ObtainLockOK == ASSUME Bounds, EInv, ObtainLock PROVE EInv'
<1>1. /\ SocketType /\ CounterType /\ QueueStep /\ operations # << >> /\ 0 \in 0..MaxRequests
      /\ operations' = TopWaits("nothing", 0) /\ todo' \in Todos
      /\ UNCHANGED <<rounds, engine, hasSocket, connection, socketTimer, calls, queue, otherFailures,
                     asyncRequestCounter, requests>>
  BY DEF EInv, ObtainLock, QueueStep, Bounds, Todos
<1> QED BY <1>1, TopWaitsOK, StackOK DEF Kept, SocketType, CounterType

-------------------------------------------------------------------------------
(* The first operation of a command, or of another connection attempt *)
LEMMA StartOK ==
    ASSUME Bounds, EInv, Busy, currentCommand' = currentCommand, CommandType', ~retryTimer',
           currentCommand.kind = "connect" => retryCount' <= ReconnectCount,
           hasSocket' = TRUE, connection' \in BOOLEAN, socketTimer' \in BOOLEAN, todo' = <<"send">>,
           operations' \in {<<NewOperation("connect", FALSE)>>, <<NewOperation("other", FALSE)>>,
                            <<NewOperation("other", FALSE), NewOperation("connect", TRUE)>>},
           QueueStep, ~Announced', otherFailures' \in 0..OtherFailures,
           UNCHANGED <<calls, rounds, asyncRequestCounter, requests>>
    PROVE  EInv'
<1>1. /\ queue' \in Seq(Events) /\ (\A i \in 1..Len(queue') : queue'[i].type = "command" => i = 1)
  BY QueueStepOK
<1>2. \A id \in {"connect", "other"}, top \in BOOLEAN :
         /\ NewOperation(id, top) \in Operations /\ NewOperation(id, top).cmd = currentCommand.id
         /\ NewOperation(id, top).waits = "nothing"
  BY DEF NewOperation, Operations, Bounds, EInv, CommandType, Commands, NoCommand
<1>3. /\ operations' \in Seq(Operations) /\ operations' # << >>
      /\ \A i \in 1..Len(operations') : operations'[i].cmd = currentCommand.id /\ operations'[i].waits # "answer"
  <2> DEFINE fits(o) == o \in Operations /\ o.cmd = currentCommand.id /\ o.waits # "answer"
  <2>1. \A o : fits(o) => <<o>> \in Seq(Operations) /\ <<o>> # << >> /\ \A i \in 1..Len(<<o>>) : fits(<<o>>[i])
    OBVIOUS
  <2>2. \A o, p : fits(o) /\ fits(p) =>
           <<o, p>> \in Seq(Operations) /\ <<o, p>> # << >> /\ \A i \in 1..Len(<<o, p>>) : fits(<<o, p>>[i])
    OBVIOUS
  <2>3. /\ fits(NewOperation("connect", FALSE)) /\ fits(NewOperation("other", FALSE))
        /\ fits(NewOperation("connect", TRUE))
    BY <1>2
  <2> HIDE DEF fits
  <2>4. /\ operations' \in Seq(Operations) /\ operations' # << >>
        /\ \A i \in 1..Len(operations') : fits(operations'[i])
    BY <2>1, <2>2, <2>3
  <2> QED BY <2>4 DEF fits
<1>4. SocketType' /\ CounterType'
  BY <1>3 DEF SocketType, CounterType, Todos, EInv, calls
<1>5. Works' /\ Asks'
  BY <1>3 DEF Works, Asks, Busy
<1>6. Order'
  BY <1>1 DEF Order, EInv, Busy
<1>7. Retries' /\ Remembered'
  BY <1>3 DEF Retries, Remembered
<1> QED BY <1>4, <1>5, <1>6, <1>7 DEF EInv

(* An event that has been taken from the queue: a command event was the    *)
(* only one, and if it was of another kind there is none.                  *)
LEMMA TakenOK ==
    ASSUME EInv, NEW type, Event(type)
    PROVE  /\ QueueStep /\ ~Announced' /\ todo = <<"nothing">>
           /\ type = "command" => Announced
           /\ type # "command" => ~Announced
<1>0. queue \in Seq(Events) /\ queue # << >> /\ Head(queue).type = type /\ queue' = Tail(queue) /\ Idle
  BY DEF EInv, Order, Event
<1>1. QueueStep
  BY <1>0 DEF QueueStep
<1>2. Len(queue') = Len(queue) - 1 /\ Len(queue) \in Nat /\ Head(queue) = queue[1]
  BY <1>0, QueueTail
<1>3. queue' # queue
  BY <1>2
<1>4. ~Announced'
  BY <1>1, <1>3, QueueStepOK
<1> QED BY <1>0, <1>1, <1>2, <1>4 DEF Announced, Idle

(* Codes after which the engine does not try again *)
LEMMA NoRetry == \A c \in {OK, NOTSUPPORTED, ALREADYCONNECTED, NOTCONNECTED, CANCELED} : ~MayRetry(c)
BY DEF MayRetry, OK, NOTSUPPORTED, ALREADYCONNECTED, NOTCONNECTED, CANCELED

(* A command that ends without operations *)
LEMMA RefusedOK ==
    ASSUME Bounds, EInv, NEW code \in {OK, NOTSUPPORTED, ALREADYCONNECTED, NOTCONNECTED, CANCELED},
           EngineReset(code), operations = << >>, todo = <<"nothing">>, UNCHANGED <<socket, todo>>, QueueStep,
           UNCHANGED <<calls, rounds, otherFailures, asyncRequestCounter, requests>>
    PROVE  EInv'
<1>1. Over /\ CommandType' /\ (retryTimer' => ~Announced)
  BY NoRetry, CodesOK, EngineResetOK
<1>2. /\ hasSocket' \in BOOLEAN /\ connection' \in BOOLEAN /\ socketTimer' \in BOOLEAN /\ (connection' => hasSocket')
      /\ operations' = << >> /\ todo' = <<"nothing">> /\ otherFailures' \in 0..OtherFailures
  BY DEF EInv, SocketType, CounterType, socket
<1>3. Announced' => Announced
  BY QueueStepOK
<1> QED BY <1>1, <1>2, <1>3, OverOK

(* ContinueConnect *)
LEMMA ContinueConnectOK ==
    ASSUME Bounds, EInv, NEW delay \in BOOLEAN, ContinueConnect(delay), currentCommand.kind = "connect",
           retryCount' \in 0..(ReconnectCount + 1), retryCount' <= ReconnectCount, recentFailure' \in BOOLEAN,
           QueueStep, ~Announced', otherFailures' \in 0..OtherFailures,
           UNCHANGED <<calls, rounds, asyncRequestCounter, requests>>
    PROVE  EInv'
<1>1. /\ retryTimer' = delay /\ hasSocket' = ~delay /\ connection' = FALSE /\ socketTimer' = FALSE
      /\ currentCommand' = currentCommand /\ answer' = answer
  BY DEF ContinueConnect
<1>2. CommandType'
  BY <1>1 DEF EInv, CommandType
<1>3. CASE delay
  <2>1. operations' = << >> /\ todo' = <<"nothing">> /\ Over
    BY <1>1, <1>3 DEF ContinueConnect, Over
  <2> QED BY <1>1, <1>2, <2>1, OverOK
<1>4. CASE ~delay
  <2>1. operations' = <<NewOperation("connect", FALSE)>> /\ todo' = <<"send">> /\ hasSocket' = TRUE /\ ~retryTimer'
    <3>1. delay = FALSE
      BY <1>4
    <3> QED BY <1>1, <3>1 DEF ContinueConnect
  <2>2. Busy
    BY DEF Busy, NoCommand
  <2> QED BY <1>1, <1>2, <2>1, <2>2, StartOK
<1> QED BY <1>3, <1>4

(* CFileZillaEnginePrivate::OnCommandEvent: nothing has been done for the  *)
(* command before.                                                         *)
LEMMA CommandEventOK == ASSUME Bounds, EInv, CommandEvent PROVE EInv'
<1>0. /\ CommandType /\ SocketType /\ CounterType /\ (connection => hasSocket) /\ ReconnectCount \in Nat
      /\ UNCHANGED <<rounds, calls, otherFailures, asyncRequestCounter, requests>>
  BY DEF EInv, CommandEvent, Bounds
<1>1. QueueStep /\ ~Announced' /\ todo = <<"nothing">> /\ Announced /\ operations = << >> /\ ~retryTimer
  BY TakenOK DEF CommandEvent, EInv, Order
<1>2. CASE ~Busy /\ UNCHANGED <<engine, socket, todo>>
  <2>1. Over /\ CommandType'
    BY <1>0, <1>1, <1>2 DEF Over, Busy, CommandType, engine
  <2> QED BY <1>0, <1>1, <1>2, <2>1, OverOK DEF SocketType, CounterType, socket
<1>3. CASE /\ currentCommand.kind = "connect" /\ retryCount' = 0 /\ UNCHANGED recentFailure
           /\ ContinueConnect(recentFailure)
  <2>1. recentFailure \in BOOLEAN /\ recentFailure' \in BOOLEAN /\ retryCount' \in 0..(ReconnectCount + 1)
        /\ retryCount' <= ReconnectCount /\ otherFailures' \in 0..OtherFailures
    BY <1>0, <1>3 DEF CommandType, CounterType
  <2> QED BY <1>0, <1>1, <1>3, <2>1, ContinueConnectOK
<1>4. CASE /\ retryCount' = 0 /\ Answer(SYNTAXERROR \cup DISCONNECTED)
           /\ UNCHANGED <<socket, todo, retryTimer, recentFailure>>
  <2>1. currentCommand.id \in 0..MaxCommands
    BY <1>0 DEF CommandType, Commands, NoCommand, Bounds
  <2>2. SYNTAXERROR \cup DISCONNECTED \in Codes
    BY CodesOK
  <2>3. Over /\ answer' \in (0..MaxCommands) \X Codes
    BY <1>1, <1>4, <2>1, <2>2 DEF Over, Answer
  <2>4. CommandType'
    BY <1>0, <1>4, <2>3 DEF CommandType, Answer
  <2> QED BY <1>0, <1>1, <1>4, <2>3, <2>4, OverOK DEF SocketType, CounterType, socket
<1>5. CASE /\ EngineReset(IF hasSocket THEN ALREADYCONNECTED ELSE NOTCONNECTED)
           /\ UNCHANGED <<socket, todo>>
  BY <1>0, <1>1, <1>5, RefusedOK
<1>6. CASE currentCommand.kind = "disconnect" /\ DoClose(OK) /\ hasSocket' = FALSE
  BY <1>0, <1>1, <1>6, DoCloseOK
<1>7. CASE (EngineReset(OK) \/ EngineReset(NOTSUPPORTED)) /\ UNCHANGED <<socket, todo>>
  BY <1>0, <1>1, <1>7, RefusedOK
<1>8. CASE /\ currentCommand.kind = "other" /\ Preconditions("other") /\ operations' = Pushed("other")
           /\ todo' = <<"send">> /\ UNCHANGED <<engine, hasSocket, connection, socketTimer>>
  <2>1. operations' \in {<<NewOperation("other", FALSE)>>,
                         <<NewOperation("other", FALSE), NewOperation("connect", TRUE)>>}
    BY <1>1, <1>8 DEF Pushed
  <2>2. Busy /\ hasSocket' = TRUE /\ CommandType' /\ currentCommand' = currentCommand /\ ~retryTimer'
    BY <1>0, <1>1, <1>8 DEF Busy, NoCommand, Preconditions, CommandType, SocketType, engine
  <2> QED BY <1>0, <1>1, <1>8, <2>1, <2>2, StartOK DEF SocketType, CounterType
<1> QED BY <1>2, <1>3, <1>4, <1>5, <1>6, <1>7, <1>8 DEF CommandEvent

(* CFileZillaEnginePrivate::DoCancel: the command has been started, so      *)
(* there are operations or the retry timer to stop.                        *)
LEMMA CancelEventOK == ASSUME Bounds, EInv, CancelEvent PROVE EInv'
<1>0. /\ CommandType /\ SocketType /\ CounterType /\ (connection => hasSocket) /\ Works /\ Retries
      /\ UNCHANGED <<rounds, calls, otherFailures, asyncRequestCounter, requests>>
  BY DEF EInv, CancelEvent
<1>1. QueueStep /\ ~Announced' /\ todo = <<"nothing">> /\ ~Announced
  BY TakenOK DEF CancelEvent
<1>2. CASE ~Busy /\ UNCHANGED <<engine, socket, todo>>
  <2>1. operations = << >> /\ ~retryTimer
    BY <1>0, <1>2 DEF Works, Retries, Busy, NoCommand
  <2>2. Over /\ CommandType'
    BY <1>0, <1>2, <2>1 DEF Over, Busy, CommandType, engine
  <2> QED BY <1>0, <1>1, <1>2, <2>1, <2>2, OverOK DEF SocketType, CounterType, socket
<1>3. CASE /\ hasSocket' = FALSE /\ operations' = << >> /\ connection' = FALSE /\ socketTimer' = FALSE
           /\ StopTimer /\ Answer(DISCONNECTED \cup CANCELED) /\ UNCHANGED <<retryCount, recentFailure, todo>>
  <2>1. currentCommand.id \in 0..MaxCommands
    BY <1>0 DEF CommandType, Commands, NoCommand, Bounds
  <2>2. DISCONNECTED \cup CANCELED \in Codes
    BY CodesOK
  <2>3. Over /\ answer' \in (0..MaxCommands) \X Codes /\ retryTimer' = FALSE
    BY <1>3, <2>1, <2>2 DEF Over, Answer, StopTimer
  <2>4. CommandType'
    BY <1>0, <1>3, <2>3 DEF CommandType, Answer
  <2> QED BY <1>0, <1>1, <1>3, <2>3, <2>4, OverOK DEF CounterType
<1>4. CASE Busy /\ ~retryTimer /\ hasSocket /\ CancelOperation
  <2>1. operations # << >>
    BY <1>1, <1>4 DEF EInv, Remembered
  <2>2. CASE DoClose(CANCELED) /\ UNCHANGED hasSocket
    BY <1>0, <1>1, <2>2, DoCloseOK DEF SocketType
  <2>3. CASE ResetAll(CANCELED) /\ UNCHANGED <<connection, hasSocket>>
    BY <1>0, <1>1, <2>3, CodesOK, ResetAllOK DEF SocketType
  <2> QED BY <1>4, <2>1, <2>2, <2>3 DEF CancelOperation
<1>5. CASE ~hasSocket /\ EngineReset(CANCELED) /\ UNCHANGED <<socket, todo>>
  BY <1>0, <1>1, <1>5, RefusedOK DEF Works
<1> QED BY <1>2, <1>3, <1>4, <1>5 DEF CancelEvent

(* CFileZillaEnginePrivate::OnSetAsyncRequestReplyEvent *)
LEMMA ReplyEventOK == ASSUME Bounds, EInv, ReplyEvent PROVE EInv'
<1>0. /\ CommandType /\ SocketType /\ CounterType /\ (connection => hasSocket) /\ 0 \in 0..MaxRequests
      /\ UNCHANGED <<rounds, hasSocket, calls, otherFailures, asyncRequestCounter, requests>>
  BY DEF EInv, ReplyEvent, Bounds
<1>1. QueueStep /\ ~Announced' /\ todo = <<"nothing">> /\ ~Announced
  BY TakenOK DEF ReplyEvent
<1>2. CASE UNCHANGED <<engine, operations, connection, socketTimer, todo>>
  <2>1. CASE operations # << >>
    BY <1>0, <1>1, <1>2, <2>1, SameStack, StackOK DEF Kept, SocketType, CounterType
  <2>2. CASE operations = << >>
    <3>1. Over /\ CommandType'
      BY <1>0, <1>1, <1>2, <2>2 DEF Over, EInv, Retries, Remembered, Busy, NoCommand, CommandType, engine
    <3> QED BY <1>0, <1>1, <1>2, <2>2, <3>1, OverOK DEF SocketType, CounterType
  <2> QED BY <2>1, <2>2
<1>3. CASE operations # << >> /\ TakeReply
  <2>1. CASE /\ operations' = TopWaits("nothing", 0) /\ todo' = <<"send">>
             /\ UNCHANGED <<engine, connection, socketTimer>>
    BY <1>0, <1>1, <1>3, <2>1, TopWaitsOK, StackOK DEF Kept, SocketType, CounterType, Todos
  <2>2. CASE ResetAll(CANCELED) /\ UNCHANGED connection
    BY <1>0, <1>1, <2>2, CodesOK, ResetAllOK DEF SocketType
  <2>3. CASE DoClose(CRITICALERROR)
    BY <1>0, <1>1, <2>3, DoCloseOK DEF SocketType
  <2>4. CASE operations' = TopWaits("network", 0) /\ UNCHANGED <<engine, connection, socketTimer, todo>>
    BY <1>0, <1>1, <1>3, <2>4, TopWaitsOK, StackOK DEF Kept, SocketType, CounterType
  <2> QED BY <1>3, <2>1, <2>2, <2>3, <2>4 DEF TakeReply
<1> QED BY <1>2, <1>3 DEF ReplyEvent, CallSetAsyncRequestReply

(* CFileZillaEnginePrivate::OnTimer *)
LEMMA RetryTimerOK == ASSUME Bounds, EInv, RetryTimer PROVE EInv'
<1>0. /\ CommandType /\ CounterType /\ Retries /\ retryTimer /\ ~Announced
      /\ UNCHANGED <<rounds, retryCount, calls, queue, asyncRequestCounter, requests>> /\ OtherFailures \in Nat
  BY DEF EInv, RetryTimer, Order, Bounds
<1>1. PICK failed \in BOOLEAN :
         /\ failed => otherFailures < OtherFailures
         /\ recentFailure' = failed
         /\ otherFailures' = otherFailures + (IF failed THEN 1 ELSE 0)
         /\ ContinueConnect(failed) \/ Unsupported(failed)
  BY DEF RetryTimer
<1>2. otherFailures' \in 0..OtherFailures
  BY <1>0, <1>1 DEF CounterType
<1>3. QueueStep /\ ~Announced' /\ recentFailure' \in BOOLEAN
  BY <1>0, <1>1 DEF QueueStep, Announced
<1>4. currentCommand.kind = "connect" /\ retryCount' \in 0..(ReconnectCount + 1) /\ retryCount' <= ReconnectCount
  BY <1>0 DEF Retries, CommandType
<1>5. CASE ContinueConnect(failed)
  BY <1>0, <1>1, <1>2, <1>3, <1>4, <1>5, ContinueConnectOK
<1>6. CASE Unsupported(failed)
  <2>1. SYNTAXERROR \cup DISCONNECTED \in Codes /\ currentCommand.id \in 0..MaxCommands
    BY <1>0 DEF CommandType, Commands, NoCommand, SYNTAXERROR, DISCONNECTED, Codes, Bounds
  <2>2. Over /\ CommandType'
    BY <1>0, <1>3, <1>4, <1>6, <2>1 DEF Unsupported, Over, CommandType, Answer
  <2> QED BY <1>0, <1>2, <1>3, <1>6, <2>2, OverOK DEF Unsupported
<1> QED BY <1>1, <1>5, <1>6

(* Failed logins that are noted or forgotten *)
LEMMA FailuresOK ==
    ASSUME Bounds, EInv, OtherEngineFails \/ FailureExpires
    PROVE  EInv'
<1>1. /\ recentFailure' \in BOOLEAN /\ otherFailures' \in 0..OtherFailures
      /\ UNCHANGED <<rounds, currentCommand, retryTimer, retryCount, answer, socket, calls, queue,
                     asyncRequestCounter, requests, todo>>
  <2>1. otherFailures \in 0..OtherFailures /\ OtherFailures \in Nat
    BY DEF EInv, CounterType, Bounds
  <2>2. CASE OtherEngineFails
    BY <2>1, <2>2 DEF OtherEngineFails
  <2>3. CASE FailureExpires
    BY <2>1, <2>3 DEF FailureExpires
  <2> QED BY <2>2, <2>3
<1>2. CommandType' /\ SocketType' /\ CounterType'
  BY <1>1 DEF EInv, CommandType, SocketType, CounterType, socket, calls
<1>3. Works' /\ Asks' /\ Order' /\ (connection' => hasSocket')
  BY <1>1 DEF EInv, Works, Asks, Order, Announced, Busy, socket
<1>4. Retries' /\ Remembered'
  BY <1>1 DEF EInv, Retries, Remembered, Announced, Busy, socket
<1> QED BY <1>2, <1>3, <1>4 DEF EInv

-------------------------------------------------------------------------------
(* Another event in the queue, not of a command *)
LEMMA AddedOK ==
    ASSUME EInv, NEW e \in Events, e.type # "command", queue' = Append(queue, e)
    PROVE  /\ queue' \in Seq(Events)
           /\ \A i \in 1..Len(queue') : queue'[i].type = "command" => i = 1
           /\ Announced' <=> Announced
<1>1. queue \in Seq(Events) /\ Len(queue) \in Nat /\ \A i \in 1..Len(queue) : queue[i].type = "command" => i = 1
  BY DEF EInv, Order
<1>2. /\ queue' \in Seq(Events) /\ queue' # << >> /\ Len(queue') = Len(queue) + 1
      /\ \A i \in 1..Len(queue) : queue'[i] = queue[i]
      /\ queue'[Len(queue) + 1] = e
  BY <1>1, AppendProperties
<1>3. \A i \in 1..Len(queue') : i \in 1..Len(queue) \/ i = Len(queue) + 1
  BY <1>1, <1>2
<1>4. Announced' <=> Announced
  <2>1. CASE queue = << >>
    BY <1>2, <2>1 DEF Announced
  <2>2. CASE queue # << >>
    <3>1. 1 \in 1..Len(queue)
      BY <1>1, <2>2, EmptySeq
    <3> QED BY <1>2, <2>2, <3>1 DEF Announced
  <2> QED BY <2>1, <2>2
<1> QED BY <1>1, <1>2, <1>3, <1>4

(* Calls of the client that leave engine and socket alone *)
LEMMA CallOK ==
    ASSUME EInv, queue' \in Seq(Events), Announced' <=> Announced, CounterType',
           \A i \in 1..Len(queue') : queue'[i].type = "command" => i = 1,
           UNCHANGED <<engine, socket, asyncRequestCounter, todo>>
    PROVE  EInv'
<1>1. CommandType' /\ SocketType'
  BY DEF EInv, CommandType, SocketType, engine, socket
<1>2. Works' /\ Asks' /\ (connection' => hasSocket')
  BY DEF EInv, Works, Asks, Busy, engine, socket
<1>3. Order'
  BY DEF EInv, Order, engine, socket
<1>5. Retries' /\ Remembered'
  BY DEF EInv, Retries, Remembered, Busy, engine, socket
<1> QED BY <1>1, <1>2, <1>3, <1>5 DEF EInv

(* CFileZillaEnginePrivate::Cancel *)
LEMMA CancelOK == ASSUME Bounds, EInv, Cancel PROVE EInv'
<1>1. [type |-> "cancel", n |-> currentCommand.id] \in Events
  BY DEF EInv, CommandType, Commands, NoCommand, Events, Bounds
<1>2. CounterType'
  BY DEF EInv, CounterType, Cancel, Bounds
<1>3. /\ queue' = Append(queue, [type |-> "cancel", n |-> currentCommand.id])
      /\ UNCHANGED <<engine, socket, asyncRequestCounter, todo>>
  BY DEF Cancel
<1> QED BY <1>1, <1>2, <1>3, AddedOK, CallOK

(* CFileZillaEnginePrivate::SetAsyncRequestReply *)
LEMMA SetAsyncRequestReplyOK == ASSUME Bounds, EInv, SetAsyncRequestReply PROVE EInv'
<1>1. PICK n \in requests :
         /\ requests' = requests \ {n}
         /\ queue' = IF IsPendingAsyncRequestReply(n) THEN Append(queue, [type |-> "reply", n |-> n]) ELSE queue
  BY DEF SetAsyncRequestReply
<1>2. /\ UNCHANGED <<rounds, engine, socket, calls, otherFailures, asyncRequestCounter, todo>>
      /\ CounterType /\ MaxRequests \in Nat
  BY DEF SetAsyncRequestReply, EInv, Bounds
<1>3. CounterType'
  BY <1>1, <1>2 DEF CounterType, calls
<1>4. [type |-> "reply", n |-> n] \in Events
  BY <1>2 DEF CounterType, Events
<1>5. CASE queue' = Append(queue, [type |-> "reply", n |-> n])
  BY <1>2, <1>3, <1>4, <1>5, AddedOK, CallOK
<1>6. CASE queue' = queue
  BY <1>2, <1>3, <1>6, CallOK DEF EInv, Order, Announced
<1> QED BY <1>1, <1>5, <1>6

(* CFileZillaEnginePrivate::Execute: the queue is empty and there is       *)
(* nothing left of an earlier command.                                     *)
LEMMA ExecuteOK == ASSUME Bounds, EInv, Execute PROVE EInv'
<1>0. /\ CommandType /\ SocketType /\ CounterType /\ Works /\ Asks /\ Retries /\ (connection => hasSocket)
      /\ MaxCommands \in Nat /\ MaxRounds \in Nat
      /\ executed < MaxCommands /\ executed' = executed + 1 /\ rounds' = 0
      /\ UNCHANGED <<retryTimer, retryCount, recentFailure, answer, socket, cancels, otherFailures,
                     asyncRequestCounter, requests, todo>>
  BY DEF EInv, Execute, Bounds
<1>1. currentCommand = NoCommand /\ queue = << >> /\ queue' = Append(queue, [type |-> "command", n |-> 0])
  BY DEF Execute, Busy, Bounds
<1>2. operations = << >> /\ ~retryTimer
  BY <1>0, <1>1 DEF Works, Retries, Busy, NoCommand
<1>3. PICK kind \in {"connect", "disconnect", "other"}, retry \in BOOLEAN :
         Preconditions(kind) /\ currentCommand' = [id |-> executed + 1, kind |-> kind, retry |-> retry]
  BY DEF Execute
<1>4. currentCommand' \in Commands /\ (currentCommand'.kind = "connect" => ~hasSocket)
  BY <1>0, <1>3 DEF Commands, Preconditions, CounterType
<1>5. queue' = <<[type |-> "command", n |-> 0]>>
  BY <1>1
<1>6. /\ queue' \in Seq(Events) /\ (\A i \in 1..Len(queue') : i = 1 /\ queue'[i].type = "command")
      /\ Announced'
  BY <1>5 DEF Events, Announced
<1>7. CommandType' /\ SocketType' /\ CounterType'
  BY <1>0, <1>4 DEF CommandType, SocketType, CounterType, socket
<1>8. Works' /\ Asks' /\ (connection' => hasSocket')
  BY <1>0, <1>2 DEF Works, Asks, socket
<1>9. Order'
  BY <1>0, <1>2, <1>4, <1>6 DEF Order, socket
<1>10. Retries' /\ Remembered'
  BY <1>0, <1>2, <1>6 DEF Retries, Remembered
<1> QED BY <1>7, <1>8, <1>9, <1>10 DEF EInv

-------------------------------------------------------------------------------
(* The invariant holds at the beginning. *)
LEMMA EInitOK == ASSUME Bounds, EngineInit PROVE EInv
<1>1. CommandType
  <2>1. answer \in (0..MaxCommands) \X Codes
    BY DEF EngineInit, Bounds, OK, Codes
  <2>2. currentCommand = NoCommand /\ retryCount \in 0..(ReconnectCount + 1)
    BY DEF EngineInit, Bounds
  <2>3. retryTimer \in BOOLEAN /\ recentFailure \in BOOLEAN
    BY DEF EngineInit
  <2> QED BY <2>1, <2>2, <2>3 DEF CommandType
<1>2. SocketType /\ CounterType
  <2>1. SocketType
    <3>1. operations \in Seq(Operations) /\ todo \in Todos
      BY DEF EngineInit, Todos
    <3>2. hasSocket \in BOOLEAN /\ connection \in BOOLEAN /\ socketTimer \in BOOLEAN
      BY DEF EngineInit
    <3> QED BY <3>1, <3>2 DEF SocketType
  <2>2. 0 \in 0..MaxCommands /\ 0 \in 0..MaxCancels /\ 0 \in 0..MaxRounds /\ 0 \in 0..OtherFailures
        /\ 0 \in 0..MaxRequests
    BY DEF Bounds
  <2> QED BY <2>1, <2>2 DEF EngineInit, CounterType
<1>3. Works /\ Asks /\ Order
  BY DEF EngineInit, Works, Asks, Order, Announced, Busy
<1>4. Retries /\ Remembered
  BY DEF EngineInit, Retries, Remembered, Busy, NoCommand
<1> QED BY <1>1, <1>2, <1>3, <1>4 DEF EInv, EngineInit

(* Every step keeps it. *)
LEMMA ENextOK == ASSUME Bounds, EInv, [EngineNext]_engineVars PROVE EInv'
<1>1. CASE UNCHANGED engineVars
  <2>1. UNCHANGED <<engine, socket, calls, rounds, queue, otherFailures, asyncRequestCounter, requests, todo>>
    BY <1>1 DEF engineVars
  <2>2. CounterType' /\ queue' \in Seq(Events) /\ (Announced' <=> Announced)
    BY <2>1 DEF EInv, CounterType, Order, Announced, calls
  <2> QED BY <2>1, <2>2, CallOK DEF EInv, Order
<1>2. CASE ClientCalls
  BY <1>2, ExecuteOK, CancelOK, SetAsyncRequestReplyOK DEF ClientCalls
<1>3. CASE Loop
  BY <1>3, CommandEventOK, CancelEventOK, ReplyEventOK, SendOK, ResetOK DEF Loop
<1>4. CASE Response \/ Disconnected \/ Timeout \/ ObtainLock
  BY <1>4, ResponseOK, DisconnectedOK, TimeoutOK, ObtainLockOK
<1>5. CASE RetryTimer \/ OtherEngineFails \/ FailureExpires
  BY <1>5, RetryTimerOK, FailuresOK
<1> QED BY <1>1, <1>2, <1>3, <1>4, <1>5 DEF EngineNext

(* It always holds. *)
LEMMA EInvariance == ASSUME Bounds PROVE EngineSpec => []EInv
<1>1. EngineInit => EInv
  BY EInitOK
<1>2. EInv /\ [EngineNext]_engineVars => EInv'
  BY ENextOK
<1> QED BY <1>1, <1>2, PTL DEF EngineSpec

(* The promise of the engine to its client: every operation on the stack   *)
(* works for the current command, a command is never forgotten, and the    *)
(* retry timer belongs to a connection attempt that has ended              *)
(* (engineprivate.cpp, ResetOperation), for any number of commands,        *)
(* cancels, requests and retries, and whatever the operations do.          *)
THEOREM CommandsAreNotOrphaned == ASSUME PatientClient = TRUE PROVE EngineSpec => []NoOrphans
<1>1. EngineSpec => []EInv
  BY BoundsHold, EInvariance
<1> QED BY <1>1, EImplied, PTL

(* An event that is handled: which action it was *)
LEMMA HandledBy ==
    ASSUME Bounds, EInv, EngineNext, queue # << >>, queue' = Tail(queue)
    PROVE  CommandEvent \/ CancelEvent \/ ReplyEvent
<1>1. queue \in Seq(Events)
  BY DEF EInv, Order
<1>2. Len(queue') = Len(queue) - 1 /\ Len(queue) \in Nat
  BY <1>1, QueueTail
<1>3. queue' # queue /\ \A e \in Events : queue' # Append(queue, e)
  <2>1. \A e \in Events : Len(Append(queue, e)) = Len(queue) + 1
    BY <1>1, AppendProperties
  <2>2. \A n \in Nat : n - 1 # n /\ n - 1 # n + 1
    OBVIOUS
  <2> QED BY <1>2, <2>1, <2>2
<1>4. ~Execute
  BY <1>3 DEF Execute, Bounds
<1>5. ~Cancel
  <2>1. [type |-> "cancel", n |-> currentCommand.id] \in Events
    BY DEF EInv, CommandType, Commands, NoCommand, Events, Bounds
  <2> QED BY <1>3, <2>1 DEF Cancel
<1>6. ~SetAsyncRequestReply
  <2>1. \A n \in requests : [type |-> "reply", n |-> n] \in Events
    BY DEF EInv, CounterType, Events
  <2> QED BY <1>3, <2>1 DEF SetAsyncRequestReply
<1>7. ~Send /\ ~Reset /\ ~Response /\ ~Disconnected /\ ~Timeout /\ ~ObtainLock
  BY <1>3 DEF Send, Reset, Response, Disconnected, Timeout, ObtainLock
<1>8. ~RetryTimer /\ ~OtherEngineFails /\ ~FailureExpires
  BY <1>3 DEF RetryTimer, OtherEngineFails, FailureExpires
<1> QED BY <1>4, <1>5, <1>6, <1>7, <1>8 DEF EngineNext, ClientCalls, Loop

(* An answer of the client that comes late is not taken for the answer to  *)
(* another request: only the operation that asked goes on with it          *)
(* (engineprivate.cpp, OnSetAsyncRequestReplyEvent).                       *)
THEOREM AnswersReachTheirAsker == ASSUME PatientClient = TRUE PROVE EngineSpec => ReplyGoesToAsker
<1> DEFINE A == /\ queue # << >> /\ Head(queue).type = "reply" /\ queue' = Tail(queue)
                /\ operations # << >> /\ Top.waits = "answer" /\ operations' # operations
                => Top.ask = Head(queue).n
<1>1. ASSUME EInv, [EngineNext]_engineVars PROVE [A]_engineVars
  <2> SUFFICES ASSUME EngineNext, queue # << >>, Head(queue).type = "reply", queue' = Tail(queue),
                      operations # << >>, Top.waits = "answer", operations' # operations
               PROVE  Top.ask = Head(queue).n
    BY <1>1
  <2>1. ReplyEvent
    BY <1>1, BoundsHold, HandledBy DEF CommandEvent, CancelEvent, Event
  <2>2. Head(queue).n = asyncRequestCounter
    BY <2>1 DEF ReplyEvent, IsPendingAsyncRequestReply
  <2>3. Len(operations) \in 1..Len(operations)
    BY <1>1, EmptySeq DEF EInv, SocketType
  <2>4. Top.ask = asyncRequestCounter
    BY <1>1, <2>3 DEF EInv, Asks, Top
  <2> QED BY <2>2, <2>4
<1>2. EInv /\ [EngineNext]_engineVars => [A]_engineVars
  BY <1>1
<1>3. EngineSpec => []EInv
  BY BoundsHold, EInvariance
<1>4. EngineSpec => [][A]_engineVars
  BY <1>2, <1>3, PTL DEF EngineSpec
<1> QED BY <1>4 DEF ReplyGoesToAsker

===============================================================================
