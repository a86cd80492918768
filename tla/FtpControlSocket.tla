--------------------------- MODULE FtpControlSocket ---------------------------
(***************************************************************************)
(* The control connection of FTP (src/engine/ftp/ftpcontrolsocket.cpp on   *)
(* top of CRealControlSocket in src/engine/controlsocket.cpp): which reply *)
(* of the server belongs to which command.                                 *)
(*                                                                         *)
(* FTP replies carry no name of the command they answer.  The socket       *)
(* counts them: pendingReplies have not come yet, and the next             *)
(* repliesToSkip ones are meant for nobody, because their operation has    *)
(* been reset or because they answer a keep-alive command.                 *)
(*                                                                         *)
(* What an operation does with a reply is left open; the server answers    *)
(* each command once, in order, or never.  Preliminary (1yz) replies are   *)
(* those to a transfer command: the operation goes on waiting or fails.    *)
(***************************************************************************)
EXTENDS Integers, Sequences

CONSTANTS
    MaxOperations,  \* bound: operations pushed
    MaxDepth,       \* bound: operations on the stack
    MaxRounds       \* bound: how often an operation sends a command or waits for an
                    \* event, and keep-alive commands

ASSUME BoundsAssumption == {MaxOperations, MaxDepth, MaxRounds} \subseteq Nat

VARIABLES
    connection,     \* "none", "connecting", "up", "broken": a write has failed
    pendingReplies, \* m_pendingReplies
    repliesToSkip,  \* m_repliesToSkip
    unanswered,     \* the operations whose commands the server has to answer
    operations,     \* operations_ as <<id, kind>>; the last one is back()
    waits,          \* the operation on top waits for an event, not a reply
    timer,          \* m_timer
    idleTimer,      \* m_idleTimer is running
    expired,        \* the last command has completed 30 minutes ago
    abandoned,      \* a disconnect was reported, the connection is still there
    todo,           \* what the handler that runs has to do next
    lastId, rounds  \* numbers of operations and of rounds so far

counts == <<pendingReplies, repliesToSkip, unanswered>>
bounds == <<lastId, rounds>>
vars == <<connection, counts, operations, waits, timer, idleTimer, expired, abandoned, todo, bounds>>

KeepAlive == 0      \* nobody's command

TypeOK ==
    /\ connection \in {"none", "connecting", "up", "broken"}
    /\ pendingReplies \in Nat /\ repliesToSkip \in Nat
    /\ unanswered \in Seq(Nat)
    /\ operations \in Seq(Nat \X {"connect", "other"})
    /\ waits \in BOOLEAN /\ timer \in BOOLEAN /\ idleTimer \in BOOLEAN
    /\ expired \in BOOLEAN /\ abandoned \in BOOLEAN
    /\ todo \in {"nothing", "send", "reset"}
    /\ lastId \in Nat /\ rounds \in Nat

Idle == todo = "nothing"
Top == operations[Len(operations)]
Below == SubSeq(operations, 1, Len(operations) - 1)

-------------------------------------------------------------------------------
(***************************************************************************)
(* Counting replies                                                        *)
(***************************************************************************)

(* Variant: no timer. *)
NoWait == UNCHANGED timer

(* CControlSocket::SetWait(true) *)
SetWait == timer' = TRUE

(* CRealControlSocket::Send and CFtpControlSocket::SendCommand.  The       *)
(* result of Send is turned into a bool, which is true for an error, too:  *)
(* a command that could not be written counts as sent.                     *)
SendCommand(owner) ==
    /\ pendingReplies' = pendingReplies + 1
    /\ SetWait
    /\ rounds' = rounds + 1
    /\ \/ /\ connection = "up"
          /\ unanswered' = Append(unanswered, owner)
          /\ UNCHANGED connection
       \/ /\ connection' = "broken"
          /\ UNCHANGED unanswered

(* Variant: the replies to a cancelled operation are not skipped. *)
SkipNothing == repliesToSkip' = 0

(* m_repliesToSkip = m_pendingReplies in ResetOperation *)
SkipPending == repliesToSkip' = pendingReplies

(* Variant: started only when a command ends. *)
NoKeepaliveTimer == UNCHANGED <<idleTimer, expired>>

(* CFtpControlSocket::StartKeepaliveTimer after a reply has been skipped *)
StartKeepaliveTimer ==
    IF pendingReplies' > 0
    THEN UNCHANGED <<idleTimer, expired>>
    ELSE /\ expired' \in {expired, TRUE}
         /\ idleTimer' = (idleTimer \/ ~expired')

(* CFtpControlSocket::ResetOperation of all operations on the stack; the   *)
(* timer of keep-alive commands is started unless a reply is pending.      *)
ResetAll(disconnected) ==
    /\ SkipPending
    /\ operations' = << >> /\ waits' = FALSE /\ timer' = FALSE
    /\ expired' = FALSE
    /\ IF operations # << >> /\ ~disconnected
       THEN idleTimer' = (idleTimer \/ pendingReplies = 0)
       ELSE idleTimer' = FALSE
    /\ todo' = "nothing"

(* CRealControlSocket::DoClose and CFtpControlSocket::ResetSocket *)
DoClose ==
    /\ connection' = "none"
    /\ pendingReplies' = 0 /\ repliesToSkip' = 0 /\ unanswered' = << >>
    /\ operations' = << >> /\ waits' = FALSE /\ timer' = FALSE
    /\ idleTimer' = FALSE /\ expired' = FALSE /\ abandoned' = FALSE
    /\ todo' = "nothing"

-------------------------------------------------------------------------------
(***************************************************************************)
(* Commands of the engine                                                  *)
(***************************************************************************)

(* A command pushes an operation; CFtpControlSocket::Push puts a logon on  *)
(* top of it if the connection has been lost.                              *)
Execute ==
    /\ Idle /\ operations = << >> /\ lastId + 2 <= MaxOperations
    /\ \/ /\ connection = "none"
          /\ \/ operations' = <<<<lastId + 1, "connect">>>>
             \/ operations' = <<<<lastId + 1, "other">>, <<lastId + 2, "connect">>>>
       \/ /\ connection # "none"
          /\ operations' = <<<<lastId + 1, "other">>>>
    /\ lastId' = lastId + 2
    /\ todo' = "send"
    /\ UNCHANGED <<connection, counts, waits, timer, idleTimer, expired, abandoned, rounds>>

(* CControlSocket::Cancel *)
Cancel ==
    /\ Idle /\ operations # << >>
    /\ IF Top[2] = "connect"
       THEN DoClose
       ELSE ResetAll(FALSE) /\ UNCHANGED <<connection, pendingReplies, unanswered, abandoned>>
    /\ UNCHANGED bounds

(* Variant: the next command does not wait. *)
CanAlwaysSend == TRUE

CanSendNextCommand == repliesToSkip = 0

(* One round of CControlSocket::SendNextCommand: the operation on top has  *)
(* to wait for replies that are skipped, connects, sends a command, starts *)
(* another operation, waits for something else, ends or gives up the       *)
(* connection.                                                             *)
Send ==
    /\ todo = "send" /\ operations # << >>
    /\ \/ /\ ~CanSendNextCommand
          /\ SetWait /\ todo' = "nothing"
          /\ UNCHANGED <<connection, counts, operations, waits, idleTimer, expired, abandoned, bounds>>
       \/ /\ CanSendNextCommand /\ Top[2] = "connect" /\ connection = "none"
          /\ connection' = "connecting" /\ SetWait /\ todo' = "nothing"
          /\ UNCHANGED <<counts, operations, waits, idleTimer, expired, abandoned, bounds>>
       \/ /\ CanSendNextCommand /\ connection # "none" /\ rounds < MaxRounds
          /\ SendCommand(Top[1])
          /\ waits' = FALSE /\ todo' = "nothing"
          /\ UNCHANGED <<repliesToSkip, operations, idleTimer, expired, abandoned, lastId>>
       \/ /\ CanSendNextCommand /\ connection # "none" /\ Top[2] = "other"
          /\ Len(operations) < MaxDepth /\ lastId < MaxOperations
          /\ operations' = Append(operations, <<lastId + 1, "other">>)
          /\ lastId' = lastId + 1
          /\ UNCHANGED <<connection, counts, waits, timer, idleTimer, expired, abandoned, todo, rounds>>
       \/ /\ CanSendNextCommand /\ connection # "none" /\ rounds < MaxRounds
          /\ waits' = TRUE /\ todo' = "nothing"
          /\ rounds' = rounds + 1
          /\ UNCHANGED <<connection, counts, operations, timer, idleTimer, expired, abandoned, lastId>>
       \/ /\ CanSendNextCommand /\ connection # "none" /\ Top[2] = "other"
          /\ todo' = "reset"
          /\ UNCHANGED <<connection, counts, operations, waits, timer, idleTimer, expired, abandoned, bounds>>
       \/ /\ CanSendNextCommand
          /\ DoClose
          /\ UNCHANGED bounds

(* ResetOperation of the operation on top with a plain result: the one     *)
(* below sends its next command, waits or ends, too.                       *)
Reset ==
    /\ todo = "reset" /\ operations # << >>
    /\ IF Below = << >>
       THEN ResetAll(FALSE)
       ELSE /\ SkipPending
            /\ operations' = Below
            /\ expired' = FALSE
            /\ idleTimer' = (idleTimer \/ pendingReplies = 0)
            /\ \/ todo' = "send" /\ UNCHANGED waits
               \/ todo' = "reset" /\ Top[2] = "other" /\ UNCHANGED waits
               \/ todo' = "nothing" /\ Top[2] = "other" /\ waits' = TRUE
            /\ UNCHANGED timer
    /\ UNCHANGED <<connection, pendingReplies, unanswered, abandoned, bounds>>

-------------------------------------------------------------------------------
(***************************************************************************)
(* Events                                                                  *)
(***************************************************************************)

(* CFtpControlSocket::OnConnect: the welcome message is to come. *)
OnConnect ==
    /\ Idle /\ connection = "connecting" /\ operations # << >>
    /\ connection' = "up"
    /\ pendingReplies' = 1 /\ unanswered' = <<Top[1]>>
    /\ UNCHANGED <<repliesToSkip, operations, waits, timer, idleTimer, expired, abandoned, todo, bounds>>

(* ParseResponse of the operation on top: it goes on, ends, or the         *)
(* connection is closed.  A logon that fails closes it always.             *)
Parse ==
    \/ /\ pendingReplies' = pendingReplies - 1 /\ unanswered' = Tail(unanswered)
       /\ todo' \in {"send", "reset"}
       /\ UNCHANGED <<connection, repliesToSkip, operations, waits, timer, idleTimer, expired, abandoned>>
    \/ DoClose

(* CFtpControlSocket::ParseResponse, final reply *)
Reply ==
    /\ Idle /\ connection = "up" /\ unanswered # << >>
    /\ IF repliesToSkip > 0
       THEN /\ pendingReplies' = pendingReplies - 1 /\ unanswered' = Tail(unanswered)
            /\ repliesToSkip' = repliesToSkip - 1
            /\ IF repliesToSkip' > 0
               THEN UNCHANGED <<timer, idleTimer, expired, todo>>
               ELSE /\ timer' = FALSE
                    /\ IF operations = << >>
                       THEN StartKeepaliveTimer /\ UNCHANGED todo
                       ELSE /\ todo' = IF pendingReplies' = 0 THEN "send" ELSE todo
                            /\ UNCHANGED <<idleTimer, expired>>
            /\ UNCHANGED <<connection, operations, waits, abandoned>>
       ELSE IF operations = << >>
            THEN /\ pendingReplies' = pendingReplies - 1 /\ unanswered' = Tail(unanswered)
                 /\ UNCHANGED <<connection, repliesToSkip, operations, waits, timer, idleTimer, expired,
                                abandoned, todo>>
            ELSE Parse
    /\ UNCHANGED bounds

(* CFtpControlSocket::ParseResponse, preliminary reply the operation takes *)
(* for an error; otherwise it changes nothing here.                        *)
PreliminaryReply ==
    /\ Idle /\ connection = "up" /\ unanswered # << >>
    /\ repliesToSkip = 0 /\ operations # << >> /\ Top[2] = "other"
    /\ todo' = "reset"
    /\ UNCHANGED <<connection, counts, operations, waits, timer, idleTimer, expired, abandoned, bounds>>

(* A lock, an answer of the user, the address, the end of the TLS          *)
(* handshake or of the transfer the operation has waited for               *)
Event ==
    /\ Idle /\ operations # << >> /\ waits
    /\ waits' = FALSE
    /\ todo' = "send" \/ (todo' = "reset" /\ Top[2] = "other")
    /\ UNCHANGED <<connection, counts, operations, timer, idleTimer, expired, abandoned, bounds>>

(* CFtpControlSocket::TransferEnd, TLS session not resumed: all operations *)
(* end with FZ_REPLY_DISCONNECTED.                                         *)
ResumptionFails ==
    /\ Idle /\ operations # << >> /\ Top[2] = "other" /\ connection = "up"
    /\ repliesToSkip = 0
    /\ ResetAll(TRUE)
    /\ abandoned' = TRUE
    /\ UNCHANGED <<connection, pendingReplies, unanswered, bounds>>

(* CFtpControlSocket::OnTimer, m_idleTimer *)
IdleTimer ==
    /\ Idle /\ idleTimer
    /\ idleTimer' = FALSE
    /\ IF operations # << >> \/ pendingReplies > 0 \/ repliesToSkip > 0
       THEN UNCHANGED <<connection, counts, timer, rounds>>
       ELSE /\ rounds < MaxRounds
            /\ SendCommand(KeepAlive)
            /\ repliesToSkip' = repliesToSkip + 1
    /\ UNCHANGED <<operations, waits, expired, abandoned, todo, lastId>>

(* CControlSocket::OnTimer.  While an operation waits for the user or for  *)
(* a lock, the timer only starts again.                                    *)
Timeout == Idle /\ timer /\ DoClose /\ UNCHANGED bounds

(* An error on the socket, or the server closes it *)
Disconnected == Idle /\ connection # "none" /\ DoClose /\ UNCHANGED bounds

-------------------------------------------------------------------------------
Init ==
    /\ connection = "none"
    /\ pendingReplies = 0 /\ repliesToSkip = 0 /\ unanswered = << >>
    /\ operations = << >> /\ waits = FALSE /\ timer = FALSE
    /\ idleTimer = FALSE /\ expired = FALSE /\ abandoned = FALSE
    /\ todo = "nothing"
    /\ lastId = 0 /\ rounds = 0

Run == Send \/ Reset
Server == Reply \/ PreliminaryReply \/ Disconnected \/ OnConnect
Next ==
    \/ Execute \/ Cancel \/ Run
    \/ Server \/ Event \/ ResumptionFails
    \/ IdleTimer \/ Timeout

(* The handlers run to their end, what an operation waits for happens and  *)
(* timers fire.  Nothing is assumed of the server.                         *)
Fairness == WF_vars(Run) /\ WF_vars(Event) /\ WF_vars(~waits /\ Timeout)

Spec == Init /\ [][Next]_vars /\ Fairness

-------------------------------------------------------------------------------
(***************************************************************************)
(* Properties                                                              *)
(***************************************************************************)

(* A reply that is not skipped answers a command of the operation that is  *)
(* on top of the stack, the one whose ParseResponse is called.             *)
RightReply ==
    repliesToSkip = 0 /\ unanswered # << >> =>
        operations # << >> /\ Head(unanswered) = Top[1]

(* The socket waits for exactly the replies the server still has to send,  *)
(* and when it skips replies it skips all of them.                         *)
CountsAgree ==
    /\ connection = "up" => pendingReplies = Len(unanswered)
    /\ repliesToSkip \in {0, pendingReplies}

(* Whenever an operation waits for a reply, its own or one to be skipped,  *)
(* the timer watches over it; and an idle connection is kept alive, unless *)
(* the last command was too long ago.                                      *)
TimersRun ==
    /\ Idle /\ operations # << >> /\ (pendingReplies > 0 \/ connection = "connecting") => timer
    /\ Idle /\ connection = "up" /\ operations = << >> /\ pendingReplies = 0 /\ ~abandoned =>
          idleTimer \/ expired

(* Every operation ends, whatever the server does. *)
OperationsEnd == operations # << >> ~> operations = << >>

(* "Closing control connection to start over": when operations end with    *)
(* FZ_REPLY_DISCONNECTED, the connection is closed.  This fails (README,   *)
(* Findings).                                                              *)
DisconnectedIsClosed == ~abandoned

(* "Disconnected from server": after a failed write the connection is      *)
(* closed when the handler returns.                                        *)
WriteErrorCloses == Idle => connection # "broken"

===============================================================================
