---------------------------- MODULE Notifications ----------------------------
(***************************************************************************)
(* How an engine tells its client what happens: the list of notifications  *)
(* with its flag, the log messages held back until there is an error, and  *)
(* the progress of the transfer, CTransferStatusManager, all three in      *)
(* src/engine/engineprivate.cpp; and the status line of the interface,     *)
(* which draws the progress (src/interface/statuslinectrl.cpp).            *)
(*                                                                         *)
(* Three threads: the event loop of the engine; the thread that moves the  *)
(* data and calls Update, a file_writer or the event loop itself; and the  *)
(* client.  The client is called back once, and must then empty the list;  *)
(* progress comes in a notification only when the client is not polling    *)
(* with its timer anyway.  Steps are what a thread does between two        *)
(* operations on a mutex or on an atomic variable.                         *)
(*                                                                         *)
(* Bytes are units.  Transfers are numbered, as an observer only.          *)
(***************************************************************************)
EXTENDS Naturals, Sequences

CONSTANTS
    None,           \* no status
    MaxTransfers,   \* bound: transfers begun
    MaxBytes,       \* bound: bytes of a transfer
    MaxLogs         \* bound: messages logged

ASSUME NotificationsAssumption ==
    /\ {MaxTransfers, MaxBytes, MaxLogs} \subseteq Nat
    /\ None \notin Nat \X Nat

VARIABLES
    list,           \* m_NotificationList
    maySend,        \* m_maySendNotificationEvent
    called,         \* number of calls of notification_cb_ the client has yet to handle
    queuedLogs,     \* number of queued_logs_
    queueLogs,      \* queue_logs_
    detailed,       \* the options ask for detailed logs
    changed,        \* the event of a change of options is under way
    logs,           \* number of messages logged
    status,         \* status_: number of the transfer and currentOffset, or None
    currentOffset,  \* currentOffset_, the atomic counter
    sendState,      \* send_state_
    transfer,       \* observer: number of the transfer
    sent,           \* observer: bytes of it given to Update
    loop,           \* where the event loop is: "idle", "transfer", or at the end of one
    asked,          \* the client has asked for an operation
    mover,          \* where Update is: "idle", "zero" (the counter was 0) or a notification to add
    client,         \* "idle", or "drain" in the loop of OnEngineEvent
    shown,          \* what the status line shows: like status
    timer           \* m_transferStatusTimer is running

notify == <<list, maySend, called>>
logging == <<queuedLogs, queueLogs, detailed, changed, logs>>
progress == <<status, currentOffset, sendState>>
observers == <<transfer, sent>>
display == <<shown, timer>>
vars == <<notify, logging, progress, observers, loop, asked, mover, client, display>>

Log == [kind |-> "log", status |-> None]
Finished == [kind |-> "operation", status |-> None]
Status(s) == [kind |-> "status", status |-> s]
Statuses == (Nat \X Nat) \cup {None}
Notification == [kind : {"log", "operation", "status"}, status : Statuses]

TypeOK ==
    /\ list \in Seq(Notification) /\ called \in Nat
    /\ {queuedLogs, logs, currentOffset, transfer, sent} \subseteq Nat
    /\ maySend \in BOOLEAN /\ queueLogs \in BOOLEAN /\ detailed \in BOOLEAN /\ changed \in BOOLEAN /\ timer \in BOOLEAN
    /\ {status, shown} \subseteq Statuses
    /\ sendState \in 0..2
    /\ loop \in {"idle", "transfer", "reset", "done", "logs"} /\ asked \in BOOLEAN
    /\ mover \in {<<"idle">>, <<"zero">>} \cup ({"add"} \X Notification)
    /\ client \in {"idle", "drain"}

-------------------------------------------------------------------------------
(***************************************************************************)
(* The list                                                                *)
(***************************************************************************)

(* AddNotification, for one notification or several: the client is called  *)
(* back if it has found the list empty since the last time.                *)
AddNotifications(new) ==
    /\ list' = list \o new
    /\ IF maySend /\ list' # << >>
       THEN maySend' = FALSE /\ called' = called + 1
       ELSE UNCHANGED <<maySend, called>>

(* AddLogNotification.  An error brings out the messages held back, a      *)
(* status message drops them, others may be held back.                     *)
AddLogNotification(type) ==
    /\ logs < MaxLogs /\ logs' = logs + 1
    /\ \/ /\ type = "error"
          /\ queueLogs' = FALSE /\ queuedLogs' = 0
          /\ AddNotifications([i \in 1..(queuedLogs + 1) |-> Log])
       \/ /\ type = "status"
          /\ queuedLogs' = 0 /\ UNCHANGED queueLogs
          /\ AddNotifications(<<Log>>)
       \/ /\ type = "other" /\ ~queueLogs
          /\ UNCHANGED <<queueLogs, queuedLogs>>
          /\ AddNotifications(<<Log>>)
       \/ /\ type = "other" /\ queueLogs
          /\ queuedLogs' = queuedLogs + 1
          /\ UNCHANGED <<notify, queueLogs>>
    /\ UNCHANGED <<detailed, changed, progress, observers, loop, asked, mover, client, display>>

(* SendQueuedLogs(true) and ClearQueuedLogs(true) *)
SendQueuedLogs ==
    /\ AddNotifications([i \in 1..queuedLogs |-> Log])
    /\ queuedLogs' = 0 /\ queueLogs' = ~detailed
ClearQueuedLogs == queuedLogs' = 0 /\ queueLogs' = ~detailed /\ UNCHANGED notify

(* The user changes the options; ResetOperation may look at them before    *)
(* OnOptionsChanged runs.                                                  *)
SetOptions ==
    /\ logs < MaxLogs /\ logs' = logs + 1
    /\ detailed' = ~detailed /\ changed' = TRUE
    /\ UNCHANGED <<notify, queuedLogs, queueLogs, progress, observers, loop, asked, mover, client, display>>

OnOptionsChanged ==
    /\ changed /\ changed' = FALSE
    /\ IF detailed THEN SendQueuedLogs ELSE queueLogs' = TRUE /\ UNCHANGED <<notify, queuedLogs>>
    /\ UNCHANGED <<detailed, logs, progress, observers, loop, asked, mover, client, display>>

-------------------------------------------------------------------------------
(***************************************************************************)
(* The progress of a transfer                                              *)
(***************************************************************************)

(* CTransferStatusManager::Init, at the beginning of a transfer.  A        *)
(* listing may come first, and a transfer be tried again, within one       *)
(* operation.                                                              *)
InitStatus ==
    /\ loop = "transfer" \/ (loop = "idle" /\ asked)
    /\ mover = <<"idle">> /\ transfer < MaxTransfers
    /\ transfer' = transfer + 1 /\ sent' = 0
    /\ status' = <<transfer + 1, 0>> /\ currentOffset' = 0
    /\ loop' = "transfer" /\ asked' = FALSE
    /\ UNCHANGED <<notify, logging, sendState, mover, client, display>>

(* Variant: nothing is left to do if the counter was not 0 or somebody     *)
(* polls.                                                                  *)
FetchAddPolled ==
    /\ loop = "transfer" /\ mover = <<"idle">> /\ sent < MaxBytes
    /\ sent' = sent + 1 /\ currentOffset' = currentOffset + 1
    /\ mover' = IF currentOffset = 0 /\ sendState # 1 THEN <<"zero">> ELSE <<"idle">>
    /\ UNCHANGED <<notify, logging, status, sendState, transfer, loop, asked, client, display>>

(* CTransferStatusManager::Update begins: the bytes are added to the       *)
(* counter, outside the mutex.  If it was not 0, somebody will see to it.  *)
FetchAdd ==
    /\ loop = "transfer" /\ mover = <<"idle">> /\ sent < MaxBytes
    /\ sent' = sent + 1 /\ currentOffset' = currentOffset + 1
    /\ mover' = IF currentOffset = 0 THEN <<"zero">> ELSE <<"idle">>
    /\ UNCHANGED <<notify, logging, status, sendState, transfer, loop, asked, client, display>>

(* The counter, added to the status *)
Collected == <<status[1], status[2] + currentOffset>>

(* Variant: the notification tells what has been counted, and the counter  *)
(* is left for the client to collect.                                      *)
UpdateKeeping ==
    /\ mover = <<"zero">>
    /\ IF status # None /\ sendState = 0
       THEN /\ status' = Collected
            /\ mover' = <<"add", Status(Collected)>>
       ELSE mover' = <<"idle">> /\ UNCHANGED status
    /\ sendState' = IF status = None THEN sendState ELSE 2
    /\ UNCHANGED <<notify, logging, currentOffset, observers, loop, asked, client, display>>

(* ... and goes on under the mutex: if the client is not polling, it needs *)
(* a notification.                                                         *)
Update ==
    /\ mover = <<"zero">>
    /\ IF status # None /\ sendState = 0
       THEN /\ status' = Collected /\ currentOffset' = 0
            /\ mover' = <<"add", Status(Collected)>>
       ELSE mover' = <<"idle">> /\ UNCHANGED <<status, currentOffset>>
    /\ sendState' = IF status = None THEN sendState ELSE 2
    /\ UNCHANGED <<notify, logging, observers, loop, asked, client, display>>

(* ... and adds it after that. *)
UpdateNotify ==
    /\ mover[1] = "add"
    /\ AddNotifications(<<mover[2]>>) /\ mover' = <<"idle">>
    /\ UNCHANGED <<logging, progress, observers, loop, asked, client, display>>

(* CFileZillaEnginePrivate::RawCommand, a command without a transfer:      *)
(* messages are no longer held back, but the ones that are stay where they *)
(* are.                                                                    *)
RawCommand ==
    /\ loop = "idle" /\ asked
    /\ loop' = "done" /\ asked' = FALSE
    /\ queueLogs' = FALSE
    /\ UNCHANGED <<notify, queuedLogs, detailed, changed, logs, progress, observers, mover, client, display>>

(* The transfer ends: whoever moves the data is gone.  If it is not a      *)
(* listing, LogTransferResultMessage takes the counter (Get).  Then comes  *)
(* Reset, ...                                                              *)
ResetStatus ==
    /\ loop = "transfer" /\ mover = <<"idle">>
    /\ status' = None /\ sendState' = 0 /\ currentOffset' \in {0, currentOffset}
    /\ loop' = "reset"
    /\ UNCHANGED <<notify, logging, observers, asked, mover, client, display>>

(* ... which sends the client an empty status. *)
ResetNotify ==
    /\ loop = "reset"
    /\ AddNotifications(<<Status(None)>>)
    /\ loop' = "done"
    /\ UNCHANGED <<logging, progress, observers, asked, mover, client, display>>

(* CFileZillaEnginePrivate::ResetOperation: the client is told the result, *)
(* and after that gets the messages held back, if it is an error.          *)
ResetOperation ==
    /\ loop = "done" /\ loop' = "logs"
    /\ AddNotifications(<<Finished>>)
    /\ UNCHANGED <<logging, progress, observers, asked, mover, client, display>>

ResetLogs ==
    /\ loop = "logs" /\ loop' = "idle"
    /\ SendQueuedLogs \/ ClearQueuedLogs
    /\ UNCHANGED <<detailed, changed, logs, progress, observers, asked, mover, client, display>>

-------------------------------------------------------------------------------
(***************************************************************************)
(* The client                                                              *)
(***************************************************************************)

(* The call arrives in the thread of the client: OnEngineEvent. *)
OnEngineEvent ==
    /\ client = "idle" /\ called > 0
    /\ called' = called - 1 /\ client' = "drain"
    /\ UNCHANGED <<list, maySend, logging, progress, observers, loop, asked, mover, display>>

(* CStatusLineCtrl::SetTransferStatus *)
SetTransferStatus(s) == shown' = s /\ timer' = (s # None)

(* Variant: an empty list ends the loop of the client, and only that. *)
GetNextNotificationQuietly ==
    /\ client = "drain" /\ list = << >>
    /\ client' = "idle"
    /\ UNCHANGED <<list, maySend, called, logging, progress, observers, loop, asked, mover, display>>

(* GetNextNotification finds the list empty. *)
NoNextNotification ==
    /\ client = "drain" /\ list = << >>
    /\ maySend' = TRUE /\ client' = "idle"
    /\ UNCHANGED <<list, called, logging, progress, observers, loop, asked, mover, display>>

(* GetNextNotification, and what the client does with it: the result of an *)
(* operation makes it ask for the next.                                    *)
GetNextNotification ==
    /\ client = "drain" /\ list # << >>
    /\ list' = Tail(list)
    /\ IF Head(list).kind = "status" THEN SetTransferStatus(Head(list).status) ELSE UNCHANGED display
    /\ asked' = (asked \/ Head(list).kind = "operation")
    /\ UNCHANGED <<maySend, called, logging, progress, observers, loop, mover, client>>

(* CTransferStatusManager::Get, by the timer of the status line, which     *)
(* stops if nothing has changed since it last asked.                       *)
OnTimer ==
    /\ client = "idle" /\ timer
    /\ IF status = None
       THEN SetTransferStatus(None) /\ sendState' = 0 /\ UNCHANGED <<status, currentOffset>>
       ELSE /\ status' = Collected /\ currentOffset' = 0
            /\ IF sendState = 2
               THEN SetTransferStatus(Collected) /\ sendState' = 1
               ELSE timer' = FALSE /\ sendState' = 0 /\ UNCHANGED shown
    /\ UNCHANGED <<notify, logging, observers, loop, asked, mover, client>>

-------------------------------------------------------------------------------
Init ==
    /\ list = << >> /\ maySend = TRUE /\ called = 0
    /\ queuedLogs = 0 /\ detailed \in BOOLEAN /\ queueLogs = ~detailed /\ changed = FALSE /\ logs = 0
    /\ status = None /\ currentOffset = 0 /\ sendState = 0
    /\ transfer = 0 /\ sent = 0
    /\ loop = "idle" /\ asked = TRUE /\ mover = <<"idle">> /\ client = "idle"
    /\ shown = None /\ timer = FALSE

Engine ==
    \/ \E type \in {"error", "status", "other"} : AddLogNotification(type)
    \/ SetOptions \/ OnOptionsChanged
    \/ RawCommand \/ InitStatus \/ ResetStatus \/ ResetNotify \/ ResetOperation \/ ResetLogs

Mover == FetchAdd \/ Update \/ UpdateNotify

Client == OnEngineEvent \/ GetNextNotification \/ NoNextNotification \/ OnTimer

Next == Engine \/ Mover \/ Client

(* The client handles its events, its timer fires again and again, and an  *)
(* Update that has begun is finished.  Nothing makes a transfer move or    *)
(* end.                                                                    *)
Fairness ==
    /\ WF_vars(OnEngineEvent) /\ WF_vars(GetNextNotification) /\ WF_vars(NoNextNotification)
    /\ WF_vars(OnTimer) /\ WF_vars(Update) /\ WF_vars(UpdateNotify)

Spec == Init /\ [][Next]_vars

FairSpec == Spec /\ Fairness

-------------------------------------------------------------------------------
(***************************************************************************)
(* Properties                                                              *)
(***************************************************************************)

(* No notification is left in the list without the client being called     *)
(* back, however additions and the end of its loop interleave: the flag is *)
(* only set while the list is empty, and cleared only together with a call *)
(* that the client has yet to handle or is handling.  Nothing is said of   *)
(* the messages held back: after a RawCommand later ones overtake them.    *)
ClientIsTold ==
    /\ TypeOK
    /\ list # << >> => ~maySend
    /\ (IF maySend THEN 0 ELSE 1) = called + (IF client = "drain" THEN 1 ELSE 0)

(* Every byte given to Update is counted once: the status and the counter  *)
(* together have them all, although the counter is not under the mutex.    *)
(* The status line never shows more than was transferred.                  *)
BytesCounted ==
    /\ status # None => status[1] = transfer /\ status[2] + currentOffset = sent
    /\ shown # None /\ shown[1] = transfer => shown[2] <= sent

(* The status line catches up with a transfer that stalls: whatever has    *)
(* been transferred is shown, unless more is transferred or the transfer   *)
(* ends.  Nobody waits for a notification the other side thinks needless.  *)
DisplayCatchesUp ==
    \A t \in 1..MaxTransfers, n \in 1..MaxBytes :
        (status # None /\ transfer = t /\ sent = n)
            ~> (shown = <<t, n>> \/ status = None \/ transfer # t \/ sent # n)

==============================================================================
