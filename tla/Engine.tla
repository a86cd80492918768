-------------------------------- MODULE Engine --------------------------------
(***************************************************************************)
(* CFileZillaEnginePrivate (src/engine/engineprivate.cpp) and the stack of *)
(* operations of its CControlSocket (src/engine/controlsocket.cpp).        *)
(*                                                                         *)
(* A client calls Execute, Cancel and SetAsyncRequestReply from its own    *)
(* thread; each puts an event into the queue of the event loop.  The loop  *)
(* handles these events in order, and between them the retry timer of the  *)
(* engine and the events of the control socket: replies of the server, the *)
(* end of the connection, its timer, a lock that has been obtained.        *)
(*                                                                         *)
(* What an operation does is left open: its Send, ParseResponse and        *)
(* SubcommandResult return any of the results COpData allows.  A handler   *)
(* runs the operations until one has to wait; these steps follow each      *)
(* other in `todo` while the loop does nothing else.                       *)
(***************************************************************************)
EXTENDS Integers, Sequences

CONSTANTS
    MaxCommands,    \* bound: commands the client has executed
    MaxCancels,     \* bound: calls of Cancel()
    MaxRequests,    \* bound: asynchronous requests
    MaxDepth,       \* bound: operations on the stack
    MaxRounds,      \* bound: how often the operations of a command wait or
                    \* start another one
    OtherFailures,  \* bound: failed logins of other engines at the same server
    ReconnectCount, \* OPTION_RECONNECTCOUNT
    PatientClient   \* the client executes a command only when the engine has
                    \* handled all events of the previous ones

ASSUME EngineAssumption ==
    /\ {MaxCommands, MaxCancels, MaxRequests, MaxDepth, MaxRounds, OtherFailures,
        ReconnectCount} \subseteq Nat
    /\ PatientClient \in BOOLEAN

VARIABLES
    currentCommand,     \* [id, kind, retry], or NoCommand
    queue,              \* events for the engine, in order
    retryTimer, retryCount,
    recentFailure,      \* m_failedLogins: the server must not be tried yet
    otherFailures,      \* failed logins of other engines so far
    asyncRequestCounter,
    requests,              \* asynchronous requests the client has not answered
    hasSocket,          \* controlSocket_ is not null
    operations,         \* the stack; the last one is operations_.back()
    connection,         \* active_layer_ is not null
    socketTimer,              \* m_timer of the control socket
    todo,               \* what the handler that runs has to do next
    executed,           \* number of commands accepted
    cancels,            \* calls of Cancel() so far
    rounds,             \* rounds of the current command
    answer              \* the last operation notification: <<id, reply code>>

engine == <<currentCommand, retryTimer, retryCount, recentFailure, answer>>
socket == <<hasSocket, operations, connection, socketTimer>>
calls == <<executed, cancels>>
engineVars == <<engine, socket, calls, rounds, queue, otherFailures, asyncRequestCounter, requests, todo>>

(* Reply codes are the sets of their flags (src/include/commands.h). *)
OK               == {}
ERROR            == {"error"}
CRITICALERROR    == {"error", "critical"}
CANCELED         == {"error", "canceled"}
DISCONNECTED     == {"disconnected"}
TIMEOUT          == {"error", "timeout"}
NOTSUPPORTED     == {"error", "notsupported"}
ALREADYCONNECTED == {"error", "alreadyconnected"}
SYNTAXERROR      == {"error", "syntaxerror"}
NOTCONNECTED     == {"error", "notconnected"}

(* The results of a suboperation that are handed to the one below it. *)
Plain == {OK, ERROR, CRITICALERROR}

Codes == SUBSET {"error", "critical", "canceled", "disconnected", "timeout",
                 "notsupported", "alreadyconnected", "syntaxerror",
                 "notconnected"}

NoCommand == [id |-> 0, kind |-> "none", retry |-> FALSE]
Commands == [id : 1..MaxCommands, kind : {"connect", "disconnect", "other"}, retry : BOOLEAN]

(* An operation waits for the network, for an answer to the request `ask`  *)
(* (waitForAsyncRequest), or for a lock.  `cmd` is the command that was    *)
(* current when it was pushed.                                             *)
Operations ==
    [id : {"connect", "other"}, waits : {"nothing", "network", "answer", "lock"},
     ask : 0..MaxRequests, topLevel : BOOLEAN, cmd : 0..MaxCommands]

Events == [type : {"command", "cancel", "reply"}, n : Nat]

EngineTypeOK ==
    /\ currentCommand \in Commands \cup {NoCommand}
    /\ queue \in Seq(Events)
    /\ {retryTimer, recentFailure, hasSocket, connection, socketTimer} \subseteq BOOLEAN
    /\ retryCount \in 0..(ReconnectCount + 1) /\ otherFailures \in 0..OtherFailures
    /\ asyncRequestCounter \in 0..MaxRequests /\ requests \subseteq 1..MaxRequests
    /\ operations \in Seq(Operations)
    /\ todo \in {<<"nothing">>, <<"send">>} \cup ({"reset"} \X Plain)
    /\ executed \in 0..MaxCommands /\ cancels \in 0..MaxCancels
    /\ rounds \in 0..MaxRounds
    /\ answer \in (0..MaxCommands) \X Codes

Busy == currentCommand # NoCommand
Idle == todo = <<"nothing">>
Top == operations[Len(operations)]
Below == SubSeq(operations, 1, Len(operations) - 1)

(* operations_.back() with its fields `waits` and `ask` replaced *)
TopWaits(waits, ask) == Append(Below, [Top EXCEPT !.waits = waits, !.ask = ask])

-------------------------------------------------------------------------------
(***************************************************************************)
(* The client                                                              *)
(***************************************************************************)

(* CFileZillaEnginePrivate::CheckCommandPreconditions *)
Preconditions(kind) ==
    /\ kind = "other" => hasSocket
    /\ kind = "connect" => ~hasSocket

(* Calls that are refused change nothing. *)
Execute ==
    /\ executed < MaxCommands
    /\ ~Busy /\ Idle
    /\ PatientClient => queue = << >>
    /\ \E kind \in {"connect", "disconnect", "other"}, retry \in BOOLEAN :
          /\ Preconditions(kind)
          /\ kind # "connect" => ~retry
          /\ currentCommand' = [id |-> executed + 1, kind |-> kind, retry |-> retry]
    /\ executed' = executed + 1 /\ rounds' = 0
    /\ queue' = Append(queue, [type |-> "command", n |-> 0])
    /\ UNCHANGED <<retryTimer, retryCount, recentFailure, answer, socket, cancels,
                   otherFailures, asyncRequestCounter, requests, todo>>

(* The event carries the command it is meant for only in the model. *)
Cancel ==
    /\ cancels < MaxCancels /\ Busy /\ Idle
    /\ cancels' = cancels + 1
    /\ queue' = Append(queue, [type |-> "cancel", n |-> currentCommand.id])
    /\ UNCHANGED <<rounds, engine, socket, executed, otherFailures, asyncRequestCounter, requests, todo>>

(* Variant: an answer is for whatever waits for one. *)
AnyReply(n) == Busy

IsPendingAsyncRequestReply(n) == Busy /\ n = asyncRequestCounter

(* The client answers a request, possibly after the operation that asked   *)
(* has ended.                                                              *)
SetAsyncRequestReply ==
    /\ Idle
    /\ \E n \in requests :
          /\ requests' = requests \ {n}
          /\ queue' = IF IsPendingAsyncRequestReply(n)
                      THEN Append(queue, [type |-> "reply", n |-> n]) ELSE queue
    /\ UNCHANGED <<rounds, engine, socket, calls, otherFailures, asyncRequestCounter, todo>>

-------------------------------------------------------------------------------
(***************************************************************************)
(* Ending operations                                                       *)
(***************************************************************************)

(* Does the engine try again after a connection attempt has ended so? *)
MayRetry(code) ==
    /\ code \subseteq {"error", "disconnected", "timeout", "critical", "passwordfailed"}
    /\ code \cap {"error", "disconnected"} # {}

(* Read with m_retryCount already incremented *)
RetriesLeft == retryCount + 1 < ReconnectCount /\ currentCommand.retry

(* COperationNotification; the command is over. *)
Answer(code) ==
    /\ answer' = <<currentCommand.id, code>>
    /\ currentCommand' = NoCommand

(* CFileZillaEnginePrivate::ResetOperation *)
EngineReset(code) ==
    \/ ~Busy /\ UNCHANGED engine
    \/ /\ Busy /\ currentCommand.kind # "connect"
       /\ Answer(code)
       /\ UNCHANGED <<retryTimer, retryCount, recentFailure>>
    \/ /\ currentCommand.kind = "connect" /\ retryTimer
       /\ UNCHANGED engine
    \/ /\ currentCommand.kind = "connect" /\ ~retryTimer /\ ~MayRetry(code)
       /\ Answer(code)
       /\ UNCHANGED <<retryTimer, retryCount, recentFailure>>
    \/ /\ currentCommand.kind = "connect" /\ ~retryTimer /\ MayRetry(code)
       /\ recentFailure' = TRUE
       /\ \/ /\ "critical" \in code
             /\ Answer(code)
             /\ UNCHANGED <<retryTimer, retryCount>>
          \/ /\ "critical" \notin code /\ RetriesLeft
             /\ retryCount' = retryCount + 1
             /\ retryTimer' = TRUE
             /\ UNCHANGED <<currentCommand, answer>>
          \/ /\ "critical" \notin code /\ ~RetriesLeft
             /\ retryCount' = retryCount + 1
             /\ Answer(code)
             /\ UNCHANGED retryTimer

(* Variant: the engine is not told. *)
ResetAllQuietly(code) ==
    /\ operations' = << >> /\ socketTimer' = FALSE
    /\ todo' = <<"nothing">>
    /\ UNCHANGED engine

(* CControlSocket::ResetOperation with a code that ends all operations *)
ResetAll(code) ==
    /\ operations' = << >> /\ socketTimer' = FALSE
    /\ EngineReset(code)
    /\ todo' = <<"nothing">>

(* DoClose: the connection ends and with it all operations. *)
DoClose(code) ==
    /\ connection' = FALSE
    /\ ResetAll(ERROR \cup DISCONNECTED \cup code)

(* CControlSocket::ResetOperation with a plain code: the operation on top  *)
(* ends; the one below gets its result, unless it was a reconnect, after   *)
(* which the operation below just goes on.                                 *)
Reset ==
    /\ todo[1] = "reset" /\ operations # << >>
    /\ \/ /\ Below = << >>
          /\ ResetAll(todo[2])
          /\ UNCHANGED connection
       \/ /\ Below # << >> /\ Top.topLevel
          /\ operations' = Below /\ todo' = <<"send">>
          /\ UNCHANGED <<engine, connection, socketTimer>>
       \/ /\ Below # << >> /\ ~Top.topLevel
          /\ \/ /\ operations' = Below
                /\ todo' \in {<<"send">>} \cup ({"reset"} \X Plain)
                /\ UNCHANGED <<engine, connection, socketTimer>>
             \/ ResetAll(ERROR \cup DISCONNECTED) /\ UNCHANGED connection
    /\ UNCHANGED <<rounds, hasSocket, calls, queue, otherFailures, asyncRequestCounter, requests>>

-------------------------------------------------------------------------------
(***************************************************************************)
(* Running operations                                                      *)
(***************************************************************************)

NewOperation(id, topLevel) ==
    [id |-> id, waits |-> "nothing", ask |-> 0, topLevel |-> topLevel, cmd |-> currentCommand.id]

(* CFtpControlSocket::Push, CSftpControlSocket::Push: the first operation  *)
(* of a command brings the connection back first if it has been lost.      *)
Pushed(id) ==
    IF operations = << >> /\ id # "connect" /\ ~connection
    THEN <<NewOperation(id, FALSE), NewOperation("connect", TRUE)>>
    ELSE Append(operations, NewOperation(id, FALSE))

(* SendNextCommand does nothing while there is a request to be answered. *)
MaySend == Top.waits # "answer"

(* Variant: no timer watches over the wait. *)
NoTimer == UNCHANGED socketTimer

(* SetWait(true) *)
StartTimer == socketTimer' = TRUE

(* SendAsyncRequest *)
SendAsyncRequest ==
    /\ asyncRequestCounter < MaxRequests
    /\ asyncRequestCounter' = asyncRequestCounter + 1
    /\ requests' = requests \cup {asyncRequestCounter'}
    /\ operations' = TopWaits("answer", asyncRequestCounter')
    /\ UNCHANGED <<engine, connection, socketTimer>>

(* Send() of the operation on top starts another one (FZ_REPLY_CONTINUE)   *)
(* or has to wait (FZ_REPLY_WOULDBLOCK).                                   *)
Continue ==
    \/ /\ Len(operations) < MaxDepth
       /\ operations' = Append(TopWaits("nothing", 0), NewOperation("other", FALSE))
       /\ UNCHANGED <<engine, connection, socketTimer, asyncRequestCounter, requests, todo>>
    \/ /\ operations' = TopWaits("network", 0)
       /\ connection' = (connection \/ Top.id = "connect")
       /\ StartTimer
       /\ todo' = <<"nothing">>
       /\ UNCHANGED <<engine, asyncRequestCounter, requests>>
    \/ /\ operations' = TopWaits("lock", 0)
       /\ todo' = <<"nothing">>
       /\ UNCHANGED <<engine, connection, socketTimer, asyncRequestCounter, requests>>
    \/ /\ SendAsyncRequest
       /\ todo' = <<"nothing">>

(* One round of CControlSocket::SendNextCommand *)
Send ==
    /\ todo = <<"send">> /\ operations # << >>
    /\ \/ /\ ~MaySend
          /\ todo' = <<"nothing">>
          /\ UNCHANGED <<engine, operations, connection, socketTimer, asyncRequestCounter, requests, rounds>>
       \/ /\ MaySend /\ rounds < MaxRounds
          /\ rounds' = rounds + 1
          /\ Continue
       \/ /\ MaySend                          \* FZ_REPLY_OK, FZ_REPLY_ERROR
          /\ todo' \in {"reset"} \X Plain
          /\ UNCHANGED <<engine, operations, connection, socketTimer, asyncRequestCounter, requests, rounds>>
       \/ /\ MaySend                          \* with FZ_REPLY_DISCONNECTED
          /\ DoClose(ERROR)
          /\ UNCHANGED <<asyncRequestCounter, requests, rounds>>
    /\ UNCHANGED <<hasSocket, calls, queue, otherFailures>>

(* A reply of the server: ParseResponse of the operation on top, also      *)
(* while it waits for an answer of the client.                             *)
Response ==
    /\ Idle /\ operations # << >> /\ connection
    /\ Top.waits \in {"network", "answer"}
    /\ \/ /\ rounds < MaxRounds
          /\ rounds' = rounds + 1
          /\ todo' = <<"send">>
          /\ UNCHANGED <<engine, operations, connection, socketTimer, asyncRequestCounter, requests>>
       \/ /\ todo' \in {"reset"} \X (IF Top.id = "connect" THEN {OK} ELSE Plain)
          /\ UNCHANGED <<engine, operations, connection, socketTimer, asyncRequestCounter, requests, rounds>>
       \/ /\ Top.id = "connect"
          /\ DoClose(ERROR) \/ DoClose(CRITICALERROR)
          /\ UNCHANGED <<asyncRequestCounter, requests, rounds>>
       \/ /\ Top.waits = "network"            \* a certificate, a host key
          /\ SendAsyncRequest
          /\ UNCHANGED <<todo, rounds>>
    /\ UNCHANGED <<hasSocket, calls, queue, otherFailures>>

(* The connection breaks, with or without an operation under way. *)
Disconnected ==
    /\ Idle /\ connection
    /\ DoClose(OK)
    /\ UNCHANGED <<rounds, hasSocket, calls, queue, otherFailures, asyncRequestCounter, requests>>

(* CControlSocket::OnTimer.  The timer is set again while the operation    *)
(* waits for the client or for another operation.                          *)
Timeout ==
    /\ Idle /\ socketTimer /\ operations # << >>
    /\ Top.waits \notin {"answer", "lock"}
    /\ DoClose(TIMEOUT)
    /\ UNCHANGED <<rounds, hasSocket, calls, queue, otherFailures, asyncRequestCounter, requests>>

(* CControlSocket::OnObtainLock *)
ObtainLock ==
    /\ Idle /\ operations # << >> /\ Top.waits = "lock"
    /\ operations' = TopWaits("nothing", 0)
    /\ todo' = <<"send">>
    /\ UNCHANGED <<rounds, engine, hasSocket, connection, socketTimer, calls, queue, otherFailures,
                   asyncRequestCounter, requests>>

-------------------------------------------------------------------------------
(***************************************************************************)
(* The events of the engine                                                *)
(***************************************************************************)

Event(type) == Idle /\ queue # << >> /\ Head(queue).type = type /\ queue' = Tail(queue)

(* CFileZillaEnginePrivate::ContinueConnect, if the server may be tried or *)
(* has to be left alone a while.  There is no old socket any more.         *)
ContinueConnect(delay) ==
    /\ retryTimer' = delay
    /\ hasSocket' = ~delay /\ connection' = FALSE /\ socketTimer' = FALSE
    /\ operations' = IF delay THEN << >> ELSE <<NewOperation("connect", FALSE)>>
    /\ todo' = IF delay THEN <<"nothing">> ELSE <<"send">>
    /\ UNCHANGED <<currentCommand, answer>>

(* CFileZillaEnginePrivate::OnCommandEvent.  The destructor of the control *)
(* socket calls DoClose again, then without a command.                     *)
CommandEvent ==
    /\ Event("command")
    /\ \/ ~Busy /\ UNCHANGED <<engine, socket, todo>>
       \/ /\ currentCommand.kind = "connect" /\ Preconditions("connect")
          /\ retryCount' = 0
          /\ \/ ContinueConnect(recentFailure)
             \/ /\ ~recentFailure             \* a protocol that is not supported
                /\ Answer(SYNTAXERROR \cup DISCONNECTED)
                /\ UNCHANGED <<socket, todo, retryTimer>>
          /\ UNCHANGED recentFailure
       \/ /\ Busy /\ ~Preconditions(currentCommand.kind)
          /\ EngineReset(IF hasSocket THEN ALREADYCONNECTED ELSE NOTCONNECTED)
          /\ UNCHANGED <<socket, todo>>
       \/ /\ currentCommand.kind = "disconnect" /\ hasSocket
          /\ DoClose(OK)
          /\ hasSocket' = FALSE
       \/ /\ currentCommand.kind = "disconnect" /\ ~hasSocket
          /\ EngineReset(OK)
          /\ UNCHANGED <<socket, todo>>
       \/ /\ currentCommand.kind = "other" /\ Preconditions("other")
          /\ \/ /\ operations' = Pushed("other")
                /\ todo' = <<"send">>
                /\ UNCHANGED <<engine, hasSocket, connection, socketTimer>>
             \/ /\ EngineReset(OK) \/ EngineReset(NOTSUPPORTED)   \* OK: from the cache
                /\ UNCHANGED <<socket, todo>>
    /\ UNCHANGED <<rounds, calls, otherFailures, asyncRequestCounter, requests>>

(* CControlSocket::Cancel: a connection attempt, or any SFTP operation,    *)
(* ends with the connection.                                               *)
CancelOperation ==
    \/ operations = << >> /\ UNCHANGED <<engine, socket, todo>>
    \/ /\ operations # << >>
       /\ \/ DoClose(CANCELED)
          \/ Top.id # "connect" /\ ResetAll(CANCELED) /\ UNCHANGED connection
       /\ UNCHANGED hasSocket

(* stop_timer(m_retryTimer) *)
StopTimer == retryTimer' = FALSE

(* CFileZillaEnginePrivate::DoCancel *)
CancelEvent ==
    /\ Event("cancel")
    /\ \/ ~Busy /\ UNCHANGED <<engine, socket, todo>>
       \/ /\ Busy /\ retryTimer
          /\ hasSocket' = FALSE /\ operations' = << >> /\ connection' = FALSE /\ socketTimer' = FALSE
          /\ StopTimer
          /\ Answer(DISCONNECTED \cup CANCELED)
          /\ UNCHANGED <<retryCount, recentFailure, todo>>
       \/ /\ Busy /\ ~retryTimer /\ hasSocket
          /\ CancelOperation
       \/ /\ Busy /\ ~retryTimer /\ ~hasSocket
          /\ EngineReset(CANCELED)
          /\ UNCHANGED <<socket, todo>>
    /\ UNCHANGED <<rounds, calls, otherFailures, asyncRequestCounter, requests>>

(* SetAsyncRequestReply of the protocols: the operation on top goes on, is *)
(* cancelled, the connection is closed, or the protocol waits for the      *)
(* network.                                                                *)
TakeReply ==
    \/ /\ operations' = TopWaits("nothing", 0)
       /\ todo' = <<"send">>
       /\ UNCHANGED <<engine, connection, socketTimer>>
    \/ ResetAll(CANCELED) /\ UNCHANGED connection
    \/ DoClose(CRITICALERROR)
    \/ /\ connection /\ socketTimer
       /\ operations' = TopWaits("network", 0)
       /\ UNCHANGED <<engine, connection, socketTimer, todo>>

(* CControlSocket::CallSetAsyncRequestReply *)
CallSetAsyncRequestReply ==
    IF operations # << >> /\ Top.waits = "answer"
    THEN TakeReply ELSE UNCHANGED <<engine, operations, connection, socketTimer, todo>>

(* CFileZillaEnginePrivate::OnSetAsyncRequestReplyEvent *)
ReplyEvent ==
    /\ Event("reply")
    /\ IF hasSocket /\ IsPendingAsyncRequestReply(Head(queue).n)
       THEN CallSetAsyncRequestReply
       ELSE UNCHANGED <<engine, operations, connection, socketTimer, todo>>
    /\ UNCHANGED <<rounds, hasSocket, calls, otherFailures, asyncRequestCounter, requests>>

(* ContinueConnect, if the first attempt was delayed and the protocol is   *)
(* not supported                                                           *)
Unsupported(delay) ==
    /\ ~delay /\ retryCount = 0
    /\ Answer(SYNTAXERROR \cup DISCONNECTED)
    /\ retryTimer' = FALSE
    /\ hasSocket' = FALSE /\ connection' = FALSE /\ socketTimer' = FALSE
    /\ operations' = << >> /\ todo' = <<"nothing">>

(* CFileZillaEnginePrivate::OnTimer: the delay is over.  The old socket is *)
(* destroyed while the timer still counts as running, so that its          *)
(* destructor does not end the command.                                    *)
RetryTimer ==
    /\ Idle /\ retryTimer
    /\ \E failed \in BOOLEAN :
          /\ failed => otherFailures < OtherFailures
          /\ recentFailure' = failed
          /\ otherFailures' = otherFailures + (IF failed THEN 1 ELSE 0)
          /\ ContinueConnect(failed) \/ Unsupported(failed)
    /\ UNCHANGED <<rounds, retryCount, calls, queue, asyncRequestCounter, requests>>

(* RegisterFailedLoginAttempt by another engine, and time that passes *)
OtherEngineFails ==
    /\ Idle /\ ~recentFailure /\ otherFailures < OtherFailures
    /\ recentFailure' = TRUE /\ otherFailures' = otherFailures + 1
    /\ UNCHANGED <<rounds, currentCommand, retryTimer, retryCount, answer, socket, calls, queue,
                   asyncRequestCounter, requests, todo>>

FailureExpires ==
    /\ Idle /\ recentFailure /\ ~retryTimer
    /\ recentFailure' = FALSE
    /\ UNCHANGED <<rounds, currentCommand, retryTimer, retryCount, answer, socket, calls, queue,
                   otherFailures, asyncRequestCounter, requests, todo>>

-------------------------------------------------------------------------------
EngineInit ==
    /\ currentCommand = NoCommand /\ queue = << >>
    /\ retryTimer = FALSE /\ retryCount = 0 /\ recentFailure = FALSE /\ otherFailures = 0
    /\ asyncRequestCounter = 0 /\ requests = {}
    /\ hasSocket = FALSE /\ operations = << >> /\ connection = FALSE /\ socketTimer = FALSE
    /\ todo = <<"nothing">>
    /\ executed = 0 /\ cancels = 0 /\ rounds = 0 /\ answer = <<0, OK>>

ClientCalls == Execute \/ Cancel \/ SetAsyncRequestReply
Loop == CommandEvent \/ CancelEvent \/ ReplyEvent \/ Send \/ Reset
EngineNext ==
    \/ ClientCalls \/ Loop
    \/ Response \/ Disconnected \/ Timeout \/ ObtainLock
    \/ RetryTimer \/ OtherEngineFails \/ FailureExpires

(* The loop handles its events, timers fire, locks are given back and the  *)
(* client answers its requests.  Nothing is assumed of the server.         *)
EngineFairness ==
    /\ WF_engineVars(Loop) /\ WF_engineVars(SetAsyncRequestReply)
    /\ WF_engineVars(Timeout) /\ WF_engineVars(ObtainLock) /\ WF_engineVars(RetryTimer)

EngineSpec == EngineInit /\ [][EngineNext]_engineVars /\ EngineFairness

-------------------------------------------------------------------------------
(***************************************************************************)
(* Properties                                                              *)
(***************************************************************************)

(* Command and operations belong together.  All operations on the stack    *)
(* work for the current command, and no operation runs without one.  A     *)
(* command is never forgotten: its event is in the queue, its operations   *)
(* are on the stack, or it waits for the next attempt.  The retry timer    *)
(* belongs to a connection attempt whose operations have ended.            *)
NoOrphans ==
    /\ EngineTypeOK
    /\ Idle => \A i \in 1..Len(operations) : operations[i].cmd = currentCommand.id
    /\ Idle /\ Busy =>
          \/ \E i \in 1..Len(queue) : queue[i].type = "command"
          \/ operations # << >>
          \/ retryTimer
    /\ retryTimer => currentCommand.kind = "connect" /\ operations = << >>

(* An answer of the client reaches the operation that asked for it, not    *)
(* one that came later and waits for an answer, too.                       *)
ReplyGoesToAsker ==
    [][ /\ queue # << >> /\ Head(queue).type = "reply" /\ queue' = Tail(queue)
        /\ operations # << >> /\ Top.waits = "answer" /\ operations' # operations
        => Top.ask = Head(queue).n ]_engineVars

(* Cancel() cancels the command that is current when it is called.  With   *)
(* a client that is not patient this fails (README, Findings).             *)
CancelHitsItsCommand ==
    [][ /\ queue # << >> /\ Head(queue).type = "cancel" /\ queue' = Tail(queue)
        /\ answer' # answer
        => answer'[1] = Head(queue).n ]_engineVars

(* Every command is answered, whatever the server does. *)
EveryCommandAnswered ==
    \A n \in 1..MaxCommands : currentCommand.id = n ~> currentCommand.id # n

===============================================================================
