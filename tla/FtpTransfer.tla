----------------------------- MODULE FtpTransfer -----------------------------
(***************************************************************************)
(* A transfer over FTP's second connection: CFtpRawTransferOpData          *)
(* (src/engine/ftp/rawtransfer.cpp) and CTransferSocket                    *)
(* (src/engine/ftp/transfersocket.cpp).                                    *)
(*                                                                         *)
(* Two connections report how a transfer ends: the replies on the control  *)
(* connection and what happens on the data connection.  Both reports are   *)
(* events of one queue, in any order; the operation has to bring them      *)
(* together.  The data connection must not deliver anything before the     *)
(* transfer command has been sent and while the user is asked whether a    *)
(* TLS connection without session resumption is acceptable: activity_block *)
(* counts these reasons.                                                   *)
(*                                                                         *)
(* A server that closes the data connection has sent all data; the server  *)
(* connects to the client only after it has got the transfer command,      *)
(* unless EarlyConnect.  TYPE and REST belong to FtpSession.               *)
(***************************************************************************)
EXTENDS Integers, Sequences, FiniteSets

CONSTANTS
    EarlyConnect,   \* BOOLEAN: the server may connect before the transfer command
    Fallback,       \* BOOLEAN: OPTION_ALLOW_TRANSFERMODEFALLBACK
    MaxSockets,     \* bound: transfer sockets
    MaxRounds       \* bound: arrivals of data and waits on one data connection

ASSUME BoundsAssumption ==
    /\ {EarlyConnect, Fallback} \subseteq BOOLEAN
    /\ {MaxSockets, MaxRounds} \subseteq Nat

VARIABLES
    queue,          \* the event loop's queue, <<kind, detail>>
    owed,           \* the server owes "nothing", the reply to a "setting", the reply to the
                    \* "transfer" command or, after 1yz, the "final" one
    pending,        \* m_pendingReplies > 0
    skip,           \* m_repliesToSkip > 0
    code,           \* GetReplyCode() since the transfer command
    todo,           \* the handler that runs still has to "send", or "nothing"
    mode,           \* of the operation that transfers: "list", "download", "upload", "resumetest"
    repeat,         \* viewHiddenCheck_ /\ ~viewHidden_: the list is to be read again
    op,             \* opState of the raw transfer, "none" if there is none
    pasv, triedPasv, triedActive,   \* bPasv, bTriedPasv, bTriedActive
    endReason,      \* transferEndReason of the operation
    commandSent,    \* tranferCommandSent
    question,       \* waitForAsyncRequest
    sock,           \* m_pTransferSocket: its number, 0 if there is none
    lastSock,       \* number of transfer sockets so far
    block,          \* activity_block_
    reason,         \* m_transferEndReason
    link,           \* "none", "listening", "connecting", "up"
    postponed,      \* m_postponedReceive and m_postponedSend, as a set
    armed,          \* the events the socket will send when it can: "read", "write"
    wire,           \* what can be read: "empty", "data", "eof", "broken"
    busy,           \* the reader or writer will report that it is ready
    rounds,         \* arrivals and waits so far
    tls,            \* m_protectDataChannel
    resumes,        \* the capability tls_resumption
    verdict         \* of the last raw transfer: its result, transferEndReason, how its data
                    \* connection ended, the last reply and whether the transfer command was sent

control == <<owed, pending, skip, code>>
operation == <<mode, repeat, op, pasv, triedPasv, triedActive, endReason, commandSent, question>>
layers == <<link, armed, wire>>
socket == <<sock, lastSock, block, reason, postponed, busy, rounds>>
vars == <<queue, control, todo, operation, socket, layers, tls, resumes, verdict>>

Reasons == {"none", "successful", "timeout", "transfer_failure", "transfer_failure_critical",
            "pre_transfer_command_failure", "transfer_command_failure_immediate",
            "transfer_command_failure", "failure", "failed_resumetest", "failed_tls_resumption"}
States == {"none", "parent", "init", "type", "port_pasv", "rest", "transfer", "waitfinish",
           "waittransferpre", "waittransfer", "waitsocket"}
Codes == {"none", "1", "2", "5"}        \* 3yz is like 2yz, 4yz like 5yz

TypeOK ==
    /\ \A i \in 1..Len(queue) :
          \/ queue[i][1] = "reply" /\ queue[i][2] \in Codes \ {"none"}
          \/ queue[i][1] = "end" /\ queue[i][2] \in 1..lastSock
          \/ queue[i][1] = "socket" /\ queue[i][2] \in {"accept", "resumed", "fresh", "refused", "read", "write"}
          \/ queue[i][1] \in {"ready", "cancel"}
          \/ queue[i][1] = "answer" /\ queue[i][2] \in {"yes", "no"}
          \/ queue[i][1] = "command" /\ queue[i][2] \in {"list", "download", "upload", "resumetest"}
    /\ owed \in {"nothing", "setting", "transfer", "final"} /\ {pending, skip} \subseteq BOOLEAN /\ code \in Codes
    /\ todo \in {"send", "nothing"}
    /\ mode \in {"list", "download", "upload", "resumetest"} /\ repeat \in BOOLEAN
    /\ op \in States /\ {pasv, triedPasv, triedActive, commandSent, question} \subseteq BOOLEAN
    /\ endReason \in Reasons \ {"none"}
    /\ sock \in 0..lastSock /\ lastSock \in 0..MaxSockets
    /\ block \in 0..2 /\ reason \in Reasons
    /\ link \in {"none", "listening", "connecting", "up"}
    /\ postponed \subseteq {"read", "write"} /\ armed \subseteq {"read", "write"}
    /\ wire \in {"empty", "data", "eof", "broken"} /\ busy \in BOOLEAN
    /\ rounds \in 0..MaxRounds
    /\ tls \in BOOLEAN /\ resumes \in {"unknown", "yes", "no"}
    /\ verdict \in [result : {"none", "ok", "error", "aborted"}, why : Reasons, data : Reasons, reply : Codes,
                    sent : BOOLEAN]

Idle == todo = "nothing"

-------------------------------------------------------------------------------
(***************************************************************************)
(* CTransferSocket                                                         *)
(***************************************************************************)

(* The events of q but those of some kinds, in their order.  The filter is *)
(* written without recursion, so that it can be reasoned about.            *)
Without(kinds, q) ==
    LET kept == {i \in 1..Len(q) : q[i][1] \notin kinds}
        nth(n) == CHOOSE i \in kept : Cardinality(kept \cap 1..i) = n
    IN  [n \in 1..Cardinality(kept) |-> q[nth(n)]]

(* The events of a connection leave the queue with it. *)
DropEvents(q) == Without({"socket"}, q)

(* CTransferSocket::ResetSocket *)
ResetSocket ==
    /\ link' = "none" /\ armed' = {} /\ wire' = "empty"

(* Variant: the old socket is used again. *)
SameSocket ==
    /\ sock' = lastSock + 1 /\ lastSock' = lastSock + 1
    /\ block' = 1 /\ postponed' = {} /\ busy' = FALSE /\ rounds' = 0
    /\ UNCHANGED reason
    /\ ResetSocket

(* The constructor *)
NewSocket ==
    /\ sock' = lastSock + 1 /\ lastSock' = lastSock + 1
    /\ block' = 1 /\ reason' = "none" /\ postponed' = {} /\ busy' = FALSE /\ rounds' = 0
    /\ ResetSocket

(* The destructor: no event reaches the socket or its reader or writer     *)
(* any more, but its TransferEndEvent may still be on its way.             *)
NoSocket ==
    /\ sock' = 0
    /\ block' = 1 /\ reason' = "none" /\ postponed' = {} /\ busy' = FALSE /\ rounds' = 0
    /\ UNCHANGED lastSock
    /\ ResetSocket

WithoutSocket(q) == Without({"socket", "ready"}, q)

(* CTransferSocket::TransferEnd: q is the rest of the queue.  The first    *)
(* end counts.                                                             *)
TransferEnd(r, q) ==
    IF reason # "none"
    THEN queue' = q /\ UNCHANGED <<reason, layers>>
    ELSE /\ reason' = r
         /\ IF r = "successful"
            THEN queue' = Append(q, <<"end", sock>>) /\ UNCHANGED layers
            ELSE queue' = Append(DropEvents(q), <<"end", sock>>) /\ ResetSocket

(* TriggerPostponedEvents: the postponed handlers run before any other *)
Postponed(q) ==
    (IF "read" \in postponed THEN <<<<"socket", "read">>>> ELSE << >>)
        \o (IF "write" \in postponed THEN <<<<"socket", "write">>>> ELSE << >>) \o q

(* The reader or writer has nothing yet and will report. *)
Wait == rounds < MaxRounds /\ rounds' = rounds + 1 /\ busy' = TRUE

(* OnReceive.  After 100 rounds the socket sends the event to itself.  The *)
(* bytes of a resume test are not told apart.                              *)
OnReceive(q) ==
    IF block > 0
    THEN /\ postponed' = postponed \cup {"read"} /\ queue' = q
         /\ UNCHANGED <<reason, busy, rounds, layers>>
    ELSE /\ UNCHANGED postponed
         /\ \/ /\ mode = "download" /\ reason = "none"
               /\ Wait /\ queue' = q
               /\ UNCHANGED <<reason, layers>>
            \/ /\ mode = "download" /\ reason = "none"
               /\ TransferEnd("transfer_failure_critical", q)
               /\ UNCHANGED <<busy, rounds>>
            \/ /\ wire = "empty"
               /\ armed' = armed \cup {"read"} /\ queue' = q
               /\ UNCHANGED <<reason, busy, rounds, link, wire>>
            \/ /\ wire = "data" /\ (mode # "upload" \/ reason # "none")
               /\ wire' = "empty"
               /\ \/ armed' = armed \cup {"read"} /\ queue' = q
                  \/ queue' = Append(q, <<"socket", "read">>) /\ UNCHANGED armed
               /\ UNCHANGED <<reason, busy, rounds, link>>
            \/ /\ wire = "data" /\ mode \in {"list", "upload"} /\ reason = "none"
               /\ TransferEnd("transfer_failure", q)
               /\ UNCHANGED <<busy, rounds>>
            \/ /\ wire \in {"data", "eof"} /\ mode = "resumetest" /\ reason = "none"
               /\ TransferEnd("failed_resumetest", q)
               /\ UNCHANGED <<busy, rounds>>
            \/ /\ wire = "broken" /\ reason = "none"
               /\ TransferEnd("transfer_failure", q)
               /\ UNCHANGED <<busy, rounds>>
            \/ /\ wire = "eof" /\ mode # "upload" /\ reason = "none"
               /\ TransferEnd("successful", q)
               /\ UNCHANGED <<busy, rounds>>
            \/ /\ wire = "eof" /\ mode = "upload" /\ reason = "none"
               /\ queue' = q
               /\ UNCHANGED <<reason, busy, rounds, layers>>
            \/ /\ wire \in {"eof", "broken"} /\ reason # "none"
               /\ ResetSocket /\ queue' = DropEvents(q)
               /\ UNCHANGED <<reason, busy, rounds>>

(* OnSend: the reader has nothing yet, the connection takes no more, or    *)
(* the end is reached.                                                     *)
OnSend(q) ==
    IF block > 0
    THEN /\ postponed' = postponed \cup {"write"} /\ queue' = q
         /\ UNCHANGED <<reason, busy, rounds, layers>>
    ELSE /\ UNCHANGED postponed
         /\ \/ /\ mode # "upload" \/ reason # "none"
               /\ queue' = q
               /\ UNCHANGED <<reason, busy, rounds, layers>>
            \/ /\ mode = "upload" /\ reason = "none"
               /\ Wait /\ queue' = q
               /\ UNCHANGED <<reason, layers>>
            \/ /\ mode = "upload" /\ reason = "none" /\ rounds < MaxRounds
               /\ rounds' = rounds + 1
               /\ armed' = armed \cup {"write"} /\ queue' = q
               /\ UNCHANGED <<reason, busy, link, wire>>
            \/ /\ mode = "upload" /\ reason = "none"
               /\ \E r \in {"transfer_failure_critical", "transfer_failure", "successful"} :
                     TransferEnd(r, q)
               /\ UNCHANGED <<busy, rounds>>

(* OnSocketError: the transfer ends whatever blocks it. *)
OnSocketError(q) == TransferEnd("transfer_failure", q) /\ UNCHANGED <<postponed, busy, rounds>>

(* Variant: the answer is awaited, but the connection is used. *)
AskOnly == UNCHANGED block

(* ++activity_block_ *)
Block == block' = block + 1

(* OnConnect.  The capability decides what happens to a TLS connection     *)
(* that does not resume the session of the control connection.             *)
OnConnect(resumed, q) ==
    /\ UNCHANGED <<busy, rounds>>
    /\ IF tls /\ ~resumed /\ resumes = "yes"
       THEN /\ TransferEnd("failed_tls_resumption", q)
            /\ UNCHANGED <<block, postponed, question, resumes>>
       ELSE /\ link' = "up" /\ armed' = {"read"} /\ wire' = "empty"
            /\ resumes' = IF tls /\ resumed THEN "yes" ELSE resumes
            /\ IF tls /\ ~resumed /\ resumes = "unknown"
               THEN Block /\ question' = TRUE
               ELSE UNCHANGED <<block, question>>
            /\ IF block' > 0
               THEN postponed' = postponed \cup {"write"} /\ queue' = q
               ELSE postponed' = {} /\ queue' = Postponed(<<<<"socket", "write">>>> \o q)
            /\ UNCHANGED reason

-------------------------------------------------------------------------------
(***************************************************************************)
(* The raw transfer                                                        *)
(***************************************************************************)

(* CFtpControlSocket::ResetOperation of the raw transfer and, unless it    *)
(* transfers again, of the operation below it; q is the rest of the queue. *)
(* A list that looks for hidden files is read twice, and again on a reply  *)
(* that only means that there are no files; a resume test is followed by   *)
(* the download.                                                           *)
Again(result) ==
    \/ repeat /\ (result = "ok" \/ (result = "error" /\ commandSent))
    \/ mode = "resumetest" /\ result = "ok"

NoVerdict == [result |-> "none", why |-> "none", data |-> "none", reply |-> "none", sent |-> FALSE]

Judge(result, why) ==
    verdict' = [result |-> result, why |-> why, data |-> reason, reply |-> code', sent |-> commandSent]

(* Transfer(): the operation starts a raw transfer with a new socket. *)
StartTransfer ==
    /\ op' = "init" /\ todo' = "send"
    /\ pasv' = TRUE /\ triedPasv' = FALSE /\ triedActive' = FALSE
    /\ endReason' = "successful" /\ commandSent' = FALSE /\ question' = FALSE
    /\ NewSocket

(* The operations are gone with all they knew. *)
NoOperation ==
    /\ op' = "none" /\ todo' = "nothing" /\ mode' = "list" /\ repeat' = FALSE
    /\ pasv' = TRUE /\ triedPasv' = FALSE /\ triedActive' = FALSE
    /\ endReason' = "successful" /\ commandSent' = FALSE /\ question' = FALSE
    /\ NoSocket

(* transferEndReason if the operation does not know better *)
Blame(result, why) ==
    IF why # "successful" \/ result = "ok" THEN why
    ELSE IF result = "timeout" THEN "timeout"
    ELSE IF ~commandSent THEN "pre_transfer_command_failure"
    ELSE "failure"

End(result, why, q) ==
    /\ queue' = WithoutSocket(q)
    /\ skip' = pending'
    /\ Judge(result, Blame(result, why))
    /\ \/ /\ Again(result) /\ lastSock < MaxSockets
          /\ StartTransfer
          /\ repeat' = FALSE
          /\ mode' = IF mode = "resumetest" THEN "download" ELSE mode
       \/ /\ ~Again(result) \/ result = "error"
          /\ NoOperation

(* The whole stack of operations ends; the reply that is pending will be   *)
(* skipped.                                                                *)
Abort(result, why, q) ==
    /\ queue' = WithoutSocket(q)
    /\ skip' = pending'
    /\ Judge("aborted", Blame(result, why))
    /\ NoOperation

SendCommand(what) == owed' = what /\ pending' = TRUE /\ code' = "none" /\ UNCHANGED skip

(* Variant: --activity_block_ only once connected. *)
SetActiveConnected == block' = IF link = "up" /\ reason = "none" THEN block - 1 ELSE block

(* SetActive *)
SetActive == block' = IF reason = "none" /\ block > 0 THEN block - 1 ELSE block

(* SendNextCommand with CFtpRawTransferOpData::Send *)
SendBlocked ==
    /\ todo = "send"
    /\ question \/ skip \/ op \in {"waitfinish", "waittransferpre", "waittransfer", "waitsocket"}
    /\ todo' = "nothing"
    /\ UNCHANGED <<queue, control, operation, socket, layers, tls, resumes, verdict>>

MaySend(state) == todo = "send" /\ ~question /\ ~skip /\ op = state

(* The operation that transfers makes a socket and starts a raw transfer. *)
SendParent ==
    /\ MaySend("parent")
    /\ StartTransfer
    /\ UNCHANGED <<queue, control, mode, repeat, tls, resumes, verdict>>

SendInit ==
    /\ MaySend("init")
    /\ op' \in {"type", "port_pasv"}
    /\ pasv' \in BOOLEAN
    /\ triedActive' \in {FALSE, pasv'}      \* with a proxy only passive mode
    /\ verdict' = NoVerdict
    /\ UNCHANGED <<queue, control, todo, mode, repeat, triedPasv, endReason, commandSent, question, socket,
                   layers, tls, resumes>>

SendSetting ==
    /\ MaySend("type") \/ MaySend("rest")
    /\ SendCommand("setting") /\ todo' = "nothing"
    /\ UNCHANGED <<queue, operation, socket, layers, tls, resumes, verdict>>

(* GetExternalIPAddress is taken to answer at once. *)
SendPortPasv ==
    /\ MaySend("port_pasv")
    /\ \/ /\ pasv
          /\ triedPasv' = TRUE /\ SendCommand("setting") /\ todo' = "nothing"
          /\ UNCHANGED <<queue, pasv, triedActive, op, mode, repeat, endReason, commandSent, question, socket,
                         layers, verdict>>
       \/ /\ ~pasv                                  \* SetupActiveTransfer
          /\ triedActive' = TRUE /\ SendCommand("setting") /\ todo' = "nothing"
          /\ link' = "listening" /\ armed' = {} /\ wire' = "empty"
          /\ queue' = DropEvents(queue)
          /\ UNCHANGED <<pasv, triedPasv, op, mode, repeat, endReason, commandSent, question, socket, verdict>>
       \/ /\ ~pasv                                  \* SetupActiveTransfer fails
          /\ Fallback /\ ~triedPasv
          /\ triedActive' = TRUE /\ pasv' = TRUE /\ triedPasv' = TRUE
          /\ SendCommand("setting") /\ todo' = "nothing"
          /\ ResetSocket /\ queue' = DropEvents(queue)
          /\ UNCHANGED <<op, mode, repeat, endReason, commandSent, question, socket, verdict>>
       \/ /\ ~pasv /\ (~Fallback \/ triedPasv)
          /\ UNCHANGED <<owed, pending, code>>
          /\ End("error", endReason, queue)
    /\ UNCHANGED <<tls, resumes>>

(* The connection to the server is set up and the data flows as soon as    *)
(* nothing blocks it.  SetActive runs the postponed handlers before the    *)
(* command is sent; they and SendCommand touch nothing in common.  Here    *)
(* they are put first in the queue, which only adds an order: a reply may  *)
(* come before the end they report.                                        *)
SendTransfer ==
    /\ MaySend("transfer")
    /\ \/ /\ commandSent' = TRUE /\ SendCommand("transfer") /\ todo' = "nothing"
          /\ SetActive
          /\ IF pasv
             THEN /\ link' = "connecting" /\ armed' = {} /\ wire' = "empty"
                  /\ queue' = DropEvents(queue) /\ UNCHANGED postponed
             ELSE /\ UNCHANGED layers
                  /\ IF link = "up" /\ block' = 0
                     THEN queue' = Postponed(queue) /\ postponed' = {}
                     ELSE UNCHANGED <<queue, postponed>>
          /\ UNCHANGED <<verdict, op, pasv, triedPasv, triedActive, mode, repeat, endReason, question, sock, lastSock,
                         reason, busy, rounds>>
       \/ /\ pasv                                   \* SetupPassiveTransfer fails
          /\ UNCHANGED <<owed, pending, code>>
          /\ End("error", endReason, queue)
    /\ UNCHANGED <<tls, resumes>>

Send == SendBlocked \/ SendParent \/ SendInit \/ SendSetting \/ SendPortPasv \/ SendTransfer

-------------------------------------------------------------------------------
(***************************************************************************)
(* Handlers of the control connection                                      *)
(***************************************************************************)
Event(kind) == Idle /\ queue # << >> /\ Head(queue)[1] = kind
Detail == Head(queue)[2]

(* The operation goes on, in a state and with a mode of transfer. *)
Proceed(state, passive) ==
    /\ op' = state /\ pasv' = passive
    /\ todo' = "send" /\ queue' = Tail(queue)
    /\ UNCHANGED <<skip, mode, repeat, triedPasv, triedActive, endReason, commandSent, question, socket, layers,
                   verdict>>

Fail(why) == End("error", why, Tail(queue))

(* transferEndReason of a transfer command the server has rejected *)
Rejected(why) == IF endReason = "successful" THEN why ELSE endReason

(* The other mode of transfer is tried if there is one. *)
FallBack ==
    IF ~Fallback \/ (triedPasv /\ triedActive)
    THEN Fail(endReason)
    ELSE Proceed("port_pasv", ~triedPasv)

(* Variant: only the reply counts. *)
FinishedByReply == End("ok", endReason, Tail(queue))

(* The final reply comes after the end of the data connection. *)
Finished ==
    IF endReason = "successful" THEN End("ok", endReason, Tail(queue)) ELSE Fail(endReason)

(* CFtpRawTransferOpData::ParseResponse.  A reply in waitsocket is an      *)
(* error in the code; a server that only answers what it was asked sends   *)
(* none.                                                                   *)
ParseResponse ==
    LET c == Detail IN
    \/ /\ op = "type"
       /\ IF c = "2" THEN Proceed("port_pasv", pasv) ELSE Fail(endReason)
    \/ /\ op = "port_pasv" /\ (c # "2" \/ pasv)
       /\ FallBack                              \* refused or not understood
    \/ /\ op = "port_pasv" /\ c = "2"
       /\ Proceed("rest", pasv) \/ Proceed("transfer", pasv)
    \/ /\ op = "rest"
       /\ Proceed("transfer", pasv) \/ (c # "2" /\ Fail(endReason))
    \/ /\ op = "transfer"
       /\ CASE c = "1" -> Proceed("waitfinish", pasv)
            [] c = "2" -> Proceed("waitsocket", pasv)
            [] OTHER   -> Fail(Rejected("transfer_command_failure_immediate"))
    \/ /\ op = "waittransferpre"
       /\ CASE c = "1" -> Proceed("waittransfer", pasv)
            [] c = "2" -> Finished
            [] OTHER   -> Fail(Rejected("transfer_command_failure_immediate"))
    \/ /\ op = "waitfinish"
       /\ IF c = "2" THEN Proceed("waitsocket", pasv) ELSE Fail(Rejected("transfer_command_failure"))
    \/ /\ op = "waittransfer"
       /\ IF c = "2" THEN Finished ELSE Fail(Rejected("transfer_command_failure"))

(* CFtpControlSocket::ParseResponse *)
Reply ==
    /\ Event("reply")
    /\ pending' = (pending /\ Detail = "1") /\ UNCHANGED owed
    /\ IF skip
       THEN /\ skip' = pending' /\ UNCHANGED code
            /\ todo' = IF op # "none" /\ ~skip' THEN "send" ELSE "nothing"
            /\ queue' = Tail(queue)
            /\ UNCHANGED <<operation, socket, layers, verdict>>
       ELSE code' = Detail /\ ParseResponse
    /\ UNCHANGED <<tls, resumes>>

Ignore == queue' = Tail(queue) /\ UNCHANGED <<control, todo, operation, socket, layers, verdict>>

(* CFtpControlSocket::TransferEnd *)
OnTransferEnd ==
    /\ Event("end")
    /\ IF op \in {"none", "parent"} \/ sock = 0 \/ reason = "none"
       THEN Ignore
       ELSE LET why == Rejected(reason) IN
            IF reason = "failed_tls_resumption"
            THEN /\ UNCHANGED <<owed, pending, code>>
                 /\ Abort("error", why, Tail(queue))
            ELSE IF op = "waitsocket"
            THEN /\ UNCHANGED <<owed, pending, code>>
                 /\ End(IF reason = "successful" THEN "ok" ELSE "error", why, Tail(queue))
            ELSE /\ endReason' = why
                 /\ op' = CASE op = "transfer" -> "waittransferpre"
                            [] op = "waitfinish" -> "waittransfer"
                            [] OTHER -> op
                 /\ queue' = Tail(queue)
                 /\ UNCHANGED <<control, todo, mode, repeat, pasv, triedPasv, triedActive, commandSent, question,
                                socket, layers, verdict>>
    /\ UNCHANGED <<tls, resumes>>

(* ContinueWithoutSesssionResumption.  If the connection was lost while    *)
(* the user was asked, only OnSend is postponed, which does nothing        *)
(* without a connection.                                                   *)
ContinueWithoutResumption ==
    /\ block' = IF block > 0 THEN block - 1 ELSE 0
    /\ postponed' = IF block = 1 THEN {} ELSE postponed
    /\ queue' = IF block = 1 /\ link = "up" THEN Postponed(Tail(queue)) ELSE Tail(queue)

(* CFtpControlSocket::SetAsyncRequestReply, reqId_tls_no_resumption.  The  *)
(* next command is not sent here.                                          *)
Answer ==
    /\ Event("answer")
    /\ IF ~question
       THEN Ignore /\ UNCHANGED resumes
       ELSE IF Detail = "no"
       THEN /\ UNCHANGED <<owed, pending, code, resumes>>
            /\ Abort("canceled", endReason, Tail(queue))
       ELSE /\ question' = FALSE /\ resumes' = "no"
            /\ ContinueWithoutResumption
            /\ UNCHANGED <<control, todo, mode, repeat, op, pasv, triedPasv, triedActive, endReason, commandSent,
                           sock, lastSock, reason, busy, rounds, layers, verdict>>
    /\ UNCHANGED tls

(* The user cancels: CControlSocket::Cancel *)
Cancel ==
    /\ Event("cancel")
    /\ IF op = "none"
       THEN Ignore
       ELSE /\ UNCHANGED <<owed, pending, code>>
            /\ Abort("canceled", endReason, Tail(queue))
    /\ UNCHANGED <<tls, resumes>>

(* A command that transfers *)
Command ==
    /\ Event("command")
    /\ op' = "parent" /\ todo' = "send" /\ mode' = Detail
    /\ repeat' \in {FALSE, Detail = "list"}
    /\ queue' = Tail(queue)
    /\ verdict' = NoVerdict
    /\ UNCHANGED <<control, pasv, triedPasv, triedActive, endReason, commandSent, question, socket, layers, tls,
                   resumes>>

(* CControlSocket::OnTimer: the connection is closed, the next one is new. *)
Timeout ==
    /\ Idle /\ op # "none" /\ ~question
    /\ owed' = "nothing" /\ pending' = FALSE /\ UNCHANGED code
    /\ Abort("timeout", endReason, Without({"reply"}, queue))
    /\ UNCHANGED <<tls, resumes>>

-------------------------------------------------------------------------------
(***************************************************************************)
(* Handlers of the data connection                                         *)
(***************************************************************************)
dataOnly == <<control, todo, mode, repeat, op, pasv, triedPasv, triedActive, endReason, commandSent, sock, lastSock,
              tls, verdict>>

(* OnSocketEvent of the listening socket, OnAccept: without TLS the        *)
(* connection is there, otherwise the handshake begins.                    *)
Accept ==
    /\ Event("socket") /\ Detail = "accept"
    /\ \/ /\ queue' = Tail(queue)               \* no connection after all
          /\ rounds < MaxRounds /\ rounds' = rounds + 1
          /\ UNCHANGED <<reason, block, postponed, busy, layers, question, resumes>>
       \/ /\ TransferEnd("transfer_failure", Tail(queue))
          /\ UNCHANGED <<block, postponed, busy, rounds, question, resumes>>
       \/ /\ tls
          /\ link' = "connecting" /\ queue' = Tail(queue)
          /\ UNCHANGED <<reason, block, postponed, busy, rounds, armed, wire, question, resumes>>
       \/ /\ ~tls
          /\ OnConnect(TRUE, Tail(queue))
    /\ UNCHANGED dataOnly

(* OnSocketEvent, connection *)
Connected ==
    /\ Event("socket") /\ Detail \in {"resumed", "fresh", "refused"}
    /\ IF Detail = "refused"
       THEN /\ TransferEnd("transfer_failure", Tail(queue))
            /\ UNCHANGED <<block, postponed, busy, rounds, question, resumes>>
       ELSE OnConnect(Detail = "resumed", Tail(queue))
    /\ UNCHANGED dataOnly

(* OnSocketEvent, read and write.  The event of a connection that is lost  *)
(* may say so; if it does not, reading finds out.                          *)
ReadOrWrite ==
    /\ Event("socket") /\ Detail \in {"read", "write"}
    /\ \/ wire = "broken" /\ OnSocketError(Tail(queue))
       \/ Detail = "read" /\ OnReceive(Tail(queue))
       \/ Detail = "write" /\ OnSend(Tail(queue))
    /\ UNCHANGED <<block, question, resumes>>
    /\ UNCHANGED dataOnly

(* OnInput and OnWrite *)
Ready ==
    /\ Event("ready")
    /\ IF block > 0 \/ reason # "none"
       THEN queue' = Tail(queue) /\ UNCHANGED <<reason, postponed, busy, rounds, layers>>
       ELSE IF mode = "upload" THEN OnSend(Tail(queue)) ELSE OnReceive(Tail(queue))
    /\ UNCHANGED <<block, question, resumes>>
    /\ UNCHANGED dataOnly

Handlers ==
    \/ Reply \/ OnTransferEnd \/ Answer \/ Cancel \/ Command
    \/ Accept \/ Connected \/ ReadOrWrite \/ Ready

-------------------------------------------------------------------------------
(***************************************************************************)
(* The server, the user and the threads of reader and writer               *)
(***************************************************************************)
Pending(kind) == \E i \in 1..Len(queue) : queue[i][1] = kind

ServerReplies(c) ==
    /\ owed # "nothing"
    /\ c = "1" => owed = "transfer"
    /\ owed' = IF c = "1" THEN "final" ELSE "nothing"
    /\ queue' = Append(queue, <<"reply", c>>)
    /\ UNCHANGED <<pending, skip, code, todo, operation, socket, layers, tls, resumes, verdict>>

Sends(e) ==
    /\ queue' = Append(queue, e)
    /\ UNCHANGED <<control, todo, operation, socket, tls, resumes, verdict>>

ServerConnects ==
    \/ /\ link = "listening" /\ ~Pending("socket") /\ (EarlyConnect \/ commandSent)
       /\ Sends(<<"socket", "accept">>) /\ UNCHANGED layers
    \/ /\ link = "connecting" /\ ~Pending("socket")
       /\ \E e \in IF tls THEN {"resumed", "fresh", "refused"} ELSE {"resumed", "refused"} :
             Sends(<<"socket", e>>)
       /\ UNCHANGED layers

(* Something can be read, or the connection is closed or lost. *)
Arrives(what) ==
    /\ link = "up" /\ wire = "empty" /\ wire' = what
    /\ what = "data" => rounds < MaxRounds
    /\ rounds' = IF what = "data" THEN rounds + 1 ELSE rounds
    /\ queue' = IF "read" \in armed THEN Append(queue, <<"socket", "read">>) ELSE queue
    /\ armed' = armed \ {"read"}
    /\ UNCHANGED <<link, control, todo, operation, sock, lastSock, block, reason, postponed, busy, tls, resumes,
                   verdict>>

Writable ==
    /\ "write" \in armed /\ armed' = armed \ {"write"}
    /\ Sends(<<"socket", "write">>)
    /\ UNCHANGED <<link, wire>>

IsReady ==
    /\ busy /\ busy' = FALSE
    /\ queue' = Append(queue, <<"ready", "">>)
    /\ UNCHANGED <<control, todo, operation, sock, lastSock, block, reason, postponed, rounds, layers, tls, resumes,
                   verdict>>

UserAnswers ==
    /\ question /\ ~Pending("answer")
    /\ \E a \in {"yes", "no"} : Sends(<<"answer", a>>)
    /\ UNCHANGED layers

UserCancels ==
    /\ op # "none" /\ ~Pending("cancel")
    /\ Sends(<<"cancel", "">>) /\ UNCHANGED layers

UserCommands ==
    /\ Idle /\ op = "none" /\ ~Pending("command") /\ ~Pending("cancel") /\ lastSock + 1 < MaxSockets
    /\ \E m \in {"list", "download", "upload", "resumetest"} : Sends(<<"command", m>>)
    /\ UNCHANGED layers

-------------------------------------------------------------------------------
Init ==
    /\ queue = << >> /\ owed = "nothing" /\ pending = FALSE /\ skip = FALSE /\ code = "none"
    /\ todo = "nothing" /\ mode = "list" /\ repeat = FALSE
    /\ op = "none" /\ pasv = TRUE /\ triedPasv = FALSE /\ triedActive = FALSE
    /\ endReason = "successful" /\ commandSent = FALSE /\ question = FALSE
    /\ sock = 0 /\ lastSock = 0 /\ block = 1 /\ reason = "none" /\ postponed = {} /\ busy = FALSE /\ rounds = 0
    /\ link = "none" /\ armed = {} /\ wire = "empty"
    /\ tls \in BOOLEAN /\ resumes = "unknown"
    /\ verdict = NoVerdict

Next ==
    \/ Send \/ Handlers \/ Timeout
    \/ (\E c \in {"1", "2", "5"} : ServerReplies(c))
    \/ ServerConnects
    \/ (\E w \in {"data", "eof", "broken"} : Arrives(w))
    \/ Writable \/ IsReady
    \/ UserAnswers \/ UserCancels \/ UserCommands

(* The event loop runs, the server sends final replies, connects and       *)
(* closes, reader and writer report, the user answers.  The timeout is not *)
(* counted on.                                                             *)
Fairness ==
    /\ WF_vars(Send) /\ WF_vars(Handlers)
    /\ WF_vars(ServerReplies("2") \/ ServerReplies("5")) /\ WF_vars(ServerConnects) /\ WF_vars(Arrives("eof"))
    /\ WF_vars(Writable) /\ WF_vars(IsReady) /\ WF_vars(UserAnswers)

Spec == Init /\ [][Next]_vars /\ Fairness

-------------------------------------------------------------------------------
(***************************************************************************)
(* Properties                                                              *)
(***************************************************************************)

(* A raw transfer is successful only if its transfer command was sent, its *)
(* own data connection came to a good end and the last reply was positive, *)
(* in whatever order the two reports came.  One that fails says why, and   *)
(* it blames its own data connection only for what happened there:         *)
(* CFtpFileTransferOpData takes a failed resume test for a bug of the      *)
(* server, and a critical failure for one of the local disk.  Sockets and  *)
(* blocks stay within their bounds.                                        *)
VerdictIsTrue ==
    /\ TypeOK
    /\ verdict.result = "ok" => verdict.sent /\ verdict.data = "successful" /\ verdict.reply = "2"
    /\ verdict.result = "error" =>
          /\ verdict.why # "successful"
          /\ verdict.why \in {"failed_resumetest", "transfer_failure_critical"} => verdict.data = verdict.why

(* When a TransferEndEvent of an earlier transfer socket reaches           *)
(* CFtpControlSocket::TransferEnd, the socket of today has not ended, and  *)
(* the event is ignored.                                                   *)
StaleEndIgnored ==
    Idle /\ queue # << >> /\ Head(queue)[1] = "end" /\ Head(queue)[2] # sock => reason = "none"

(* Nothing is read from the data connection before the transfer command    *)
(* has been sent, nor while the user is asked about it.                    *)
ConsentFirst ==
    [][wire = "data" /\ wire' = "empty" /\ link' = "up" => commandSent /\ ~question]_vars

(* Each transfer ends by itself, without the timeout, if the server does   *)
(* its part, does not connect before it has got the transfer command, and  *)
(* the user answers.                                                       *)
TransferEnds ==
    [](\A i \in 1..Len(queue) : queue[i] = <<"socket", "accept">> => commandSent)
        => (op # "none" ~> op = "none")

(* "before creating the next transfer socket, other messages which were    *)
(* added to the queue later than this one will be processed first": no     *)
(* TransferEndEvent of an earlier socket is left when a socket is made.    *)
(* This fails (README, Findings); StaleEndIgnored is what holds.           *)
NoStaleTransferEnd ==
    sock # 0 => \A i \in 1..Len(queue) : queue[i][1] = "end" => queue[i][2] = sock

===============================================================================
