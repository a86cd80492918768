------------------------------ MODULE FtpSession ------------------------------
(***************************************************************************)
(* What an FTP server remembers from one command to the next, and what the *)
(* client believes of it: the representation type (TYPE) and the restart   *)
(* marker (REST), in src/engine/ftp/rawtransfer.cpp, and whether the       *)
(* server can resume large files, in src/engine/ftp/filetransfer.cpp.      *)
(*                                                                         *)
(* If the belief is wrong, a transfer runs with the wrong type or from the *)
(* wrong place, and no reply shows it.  Operations are cancelled at any    *)
(* moment; the command that is under way then is carried out after all.    *)
(*                                                                         *)
(* The server keeps the marker until the next transfer command.  A server  *)
(* that accepts REST n accepts REST 0.  Sizes are small: TwoGB and FourGB  *)
(* stand for 2^31 and 2^32.  The user's own commands may change the type,  *)
(* not the marker.                                                         *)
(***************************************************************************)
EXTENDS Integers

CONSTANTS
    TwoGB, FourGB,  \* the limits, scaled
    MaxSize,        \* bound: sizes of files
    SizeUnknown,    \* BOOLEAN: the size of the remote file may be unknown or, from the
                    \* directory cache, out of date
    Bugs,           \* the servers to look at: subset of {"none", "2GB", "4GB"}
    MaxCommands     \* bound: operations started

ASSUME SizesAssumption ==
    /\ TwoGB \in Nat \ {0} /\ FourGB = 2 * TwoGB /\ MaxSize \in Nat
    /\ SizeUnknown \in BOOLEAN /\ MaxCommands \in Nat
    /\ Bugs \subseteq {"none", "2GB", "4GB"}

VARIABLES
    lastType,       \* m_lastTypeBinary: -1 unknown, 0 ascii, 1 binary
    sentRestart,    \* m_sentRestartOffset
    resume2GBbug, resume4GBbug,     \* the capabilities of that name
    op,             \* opState of the raw transfer; "none", "raw": another operation
    job,            \* the transfer the operation is to make
    cmd,            \* the command under way, <<name, argument>>
    skip,           \* its reply is skipped
    serverType, marker,             \* the state of the server
    restStream,     \* the server accepts REST
    restKnown,      \* the capability rest_stream is yes
    bug,            \* the limit above which the server mistakes the marker
    ran,            \* the transfer the server has made last
    ended,          \* the job that has ended without a transfer as complete
    commands        \* number of operations so far

belief == <<lastType, sentRestart>>
capabilities == <<resume2GBbug, resume4GBbug>>
server == <<serverType, marker, restStream, restKnown, bug>>
sessionVars == <<belief, capabilities, op, job, cmd, skip, server, ran, ended, commands>>

NoSize == MaxSize + 1                   \* aio_base::nosize, the largest number
Unsigned(n) == IF n < 0 THEN NoSize ELSE n

Jobs == [verb : {"LIST", "RETR", "STOR", "APPE"}, binary : {0, 1}, offset : -2..MaxSize,
         local : 0..NoSize, remote : -1..MaxSize, test : BOOLEAN]
NoJob == [verb |-> "LIST", binary |-> 0, offset |-> 0, local |-> 0, remote |-> 0, test |-> FALSE]
NoCommand == <<"none", 0>>

SessionTypeOK ==
    /\ lastType \in {-1, 0, 1} /\ sentRestart \in BOOLEAN
    /\ {resume2GBbug, resume4GBbug} \subseteq {"unknown", "yes", "no"}
    /\ op \in {"none", "raw", "init", "type", "port_pasv", "rest", "transfer"}
    /\ job \in Jobs
    /\ \/ cmd = NoCommand
       \/ cmd[1] \in {"RAW", "PASV"} /\ cmd[2] = 0
       \/ cmd[1] = "TYPE" /\ cmd[2] \in {0, 1}
       \/ cmd[1] = "REST" /\ cmd[2] \in -2..MaxSize
       \/ cmd[1] = "TRANSFER" /\ cmd[2] \in Jobs
    /\ skip \in BOOLEAN
    /\ serverType \in {0, 1} /\ marker \in 0..MaxSize /\ {restStream, restKnown} \subseteq BOOLEAN
    /\ bug \in {"none", "2GB", "4GB"}
    /\ ran.job \in Jobs /\ ran.type \in {0, 1} /\ ran.from \in 0..MaxSize
    /\ ended \in Jobs
    /\ commands \in 0..MaxCommands

-------------------------------------------------------------------------------
(***************************************************************************)
(* Starting a transfer                                                     *)
(***************************************************************************)

(* Transfer(): a raw transfer is pushed. *)
Transfer(j) == op' = "init" /\ job' = j /\ UNCHANGED <<capabilities, cmd, skip, ended>>

(* Nothing is transferred: an error, or the file is complete. *)
NoTransfer(j, complete) ==
    /\ op' = "none" /\ job' = NoJob
    /\ ended' = IF complete THEN j ELSE ended
    /\ UNCHANGED <<capabilities, cmd, skip>>

MayStart == op = "none" /\ cmd = NoCommand /\ commands < MaxCommands /\ commands' = commands + 1

(* CFtpListOpData *)
List ==
    /\ MayStart
    /\ \E b \in {0, 1} : Transfer([NoJob EXCEPT !.binary = b])
    /\ UNCHANGED <<belief, server, ran>>

(* Variant: the limit itself is not tested. *)
DecidesAbove(limit, local, capability) == local > limit /\ capability # "no"

(* The capability that decides about a file of this size, the larger limit *)
(* first                                                                   *)
Decides(limit, local, capability) == local >= limit /\ capability # "no"

(* The sizes are compared as unsigned numbers. *)
SizesMatch(remote, local) == Unsigned(remote) = local

(* Variant: the test asks for the byte after the last. *)
AtEnd(remote) == remote

(* Where a resume test starts: at the last byte. *)
TestOffset(remote) == remote - 1

(* Where a download resumes: a local file that has vanished since the user *)
(* has chosen to resume counts as empty.                                   *)
ResumeOffset(local) == IF local # NoSize THEN local ELSE 0

(* TestResumeCapability *)
TestResumeCapability(j) ==
    LET Decide(capability) ==
            IF capability = "yes" \/ SizesMatch(j.remote, j.local)
            THEN NoTransfer(j, SizesMatch(j.remote, j.local))
            ELSE Transfer([j EXCEPT !.offset = TestOffset(j.remote), !.test = TRUE])
        Above(capability) == capability = "yes" \/ Unsigned(j.remote) >= j.local
    IN  IF Decides(FourGB, j.local, resume4GBbug) /\ Above(resume4GBbug)
        THEN Decide(resume4GBbug)
        ELSE IF Decides(TwoGB, j.local, resume2GBbug) /\ Above(resume2GBbug)
        THEN Decide(resume2GBbug)
        ELSE Transfer(j)

RemoteSizes == IF SizeUnknown THEN -1..MaxSize ELSE 0..MaxSize

(* CFtpFileTransferOpData::Send, download *)
Download ==
    /\ MayStart
    /\ \E b \in {0, 1}, resume \in BOOLEAN, local \in 0..NoSize, remote \in RemoteSizes :
          LET j == [verb |-> "RETR", binary |-> b, local |-> IF resume THEN local ELSE 0, remote |-> remote,
                    offset |-> IF resume THEN ResumeOffset(local) ELSE 0, test |-> FALSE]
          IN  IF resume THEN TestResumeCapability(j) ELSE Transfer(j)
    /\ UNCHANGED <<belief, server, ran>>

(* CFtpFileTransferOpData::Send, upload *)
Upload ==
    /\ MayStart
    /\ \E b \in {0, 1}, resume \in BOOLEAN, local \in 0..MaxSize, remote \in RemoteSizes :
          LET from == IF resume /\ remote > 0 THEN remote ELSE 0
              j == [verb |-> IF from # 0 /\ ~restKnown THEN "APPE" ELSE "STOR", binary |-> b,
                    offset |-> from, local |-> local, remote |-> remote, test |-> FALSE]
          IN  IF from # 0 /\ from >= local /\ b = 1 THEN NoTransfer(j, TRUE) ELSE Transfer(j)
    /\ UNCHANGED <<belief, server, ran>>

(* CFtpRawCommandOpData: the type may have changed. *)
RawCommand ==
    /\ MayStart
    /\ lastType' = -1
    /\ op' = "raw" /\ cmd' = <<"RAW", 0>>
    /\ UNCHANGED <<sentRestart, capabilities, job, skip, server, ran, ended>>

(* CFtpControlSocket::OnTimer: the keep-alive command that is a TYPE *)
SendKeepAlive ==
    /\ op = "none" /\ cmd = NoCommand
    /\ cmd' = <<"TYPE", IF lastType = 0 THEN 0 ELSE 1>> /\ skip' = TRUE
    /\ UNCHANGED <<belief, capabilities, op, job, server, ran, ended, commands>>

-------------------------------------------------------------------------------
(***************************************************************************)
(* CFtpRawTransferOpData::Send                                             *)
(***************************************************************************)
MaySend(state) == op = state /\ cmd = NoCommand

SendInit ==
    /\ MaySend("init")
    /\ op' = IF lastType = job.binary THEN "port_pasv" ELSE "type"
    /\ UNCHANGED <<belief, capabilities, job, cmd, skip, server, ran, ended, commands>>

(* m_lastTypeBinary = -1 while TYPE is under way *)
ForgetType == lastType' = -1

SendType ==
    /\ MaySend("type")
    /\ ForgetType
    /\ cmd' = <<"TYPE", job.binary>>
    /\ UNCHANGED <<sentRestart, capabilities, op, job, skip, server, ran, ended, commands>>

SendPasv ==
    /\ MaySend("port_pasv")
    /\ cmd' = <<"PASV", 0>>
    /\ UNCHANGED <<belief, capabilities, op, job, skip, server, ran, ended, commands>>

(* Variant: noted when the reply comes. *)
NoteLater == UNCHANGED sentRestart

(* m_sentRestartOffset *)
NoteRestart == sentRestart' = (sentRestart \/ job.offset > 0)

SendRest ==
    /\ MaySend("rest")
    /\ NoteRestart
    /\ cmd' = <<"REST", job.offset>>
    /\ UNCHANGED <<lastType, capabilities, op, job, skip, server, ran, ended, commands>>

SendTransfer ==
    /\ MaySend("transfer")
    /\ cmd' = <<"TRANSFER", job>>
    /\ UNCHANGED <<belief, capabilities, op, job, skip, server, ran, ended, commands>>

-------------------------------------------------------------------------------
(***************************************************************************)
(* The server and the replies                                              *)
(***************************************************************************)

(* What the server makes of an offset *)
Effective(n) ==
    CASE bug = "2GB" -> n % TwoGB
      [] bug = "4GB" -> n % FourGB
      [] OTHER -> n

(* The server carries out the command under way, or refuses it. *)
Serve(accepts) ==
    /\ UNCHANGED <<restStream, restKnown, bug>>
    /\ CASE cmd[1] = "TYPE" ->
              /\ serverType' = IF accepts THEN cmd[2] ELSE serverType
              /\ UNCHANGED <<marker, ran>>
         [] cmd[1] = "REST" ->
              /\ accepts => restStream /\ cmd[2] >= 0
              /\ ~accepts => ~restStream \/ cmd[2] # 0
              /\ marker' = IF accepts THEN Effective(cmd[2]) ELSE marker
              /\ UNCHANGED <<serverType, ran>>
         [] cmd[1] = "TRANSFER" ->
              /\ marker' \in IF accepts THEN {0} ELSE {0, marker}
              /\ ran' = IF accepts THEN [job |-> cmd[2], type |-> serverType, from |-> marker] ELSE ran
              /\ UNCHANGED serverType
         [] cmd[1] = "RAW" -> serverType' \in {0, 1} /\ UNCHANGED <<marker, ran>>
         [] OTHER -> UNCHANGED <<serverType, marker, ran>>

Finish == op' = "none" /\ job' = NoJob

(* SubcommandResult after a resume test: the capability is learned and the *)
(* download starts, or fails for good.                                     *)
AfterTest(good) ==
    /\ IF job.local > FourGB
       THEN resume4GBbug' = (IF good THEN "no" ELSE "yes") /\ UNCHANGED resume2GBbug
       ELSE resume2GBbug' = (IF good THEN "no" ELSE "yes") /\ UNCHANGED resume4GBbug
    /\ IF good
       THEN op' = "init" /\ job' = [job EXCEPT !.test = FALSE, !.offset = ResumeOffset(job.local)]
       ELSE Finish

(* CTransferSocket::OnReceive: a resume test is passed if the server sends *)
(* exactly one byte.  If the client may not know the size, anything may    *)
(* come.                                                                   *)
Passes == IF SizeUnknown THEN BOOLEAN ELSE {job.remote - marker = 1}

(* CFtpRawTransferOpData::ParseResponse *)
ParseResponse(accepts) ==
    CASE op = "type" ->
           /\ IF accepts THEN lastType' = job.binary /\ op' = "port_pasv" /\ UNCHANGED job
                         ELSE Finish /\ UNCHANGED lastType
           /\ UNCHANGED <<sentRestart, capabilities>>
      [] op = "port_pasv" ->
           /\ IF accepts THEN op' = (IF job.offset > 0 \/ sentRestart THEN "rest" ELSE "transfer") /\ UNCHANGED job
                         ELSE Finish
           /\ UNCHANGED <<belief, capabilities>>
      [] op = "rest" ->
           /\ sentRestart' = (sentRestart /\ job.offset > 0)
           /\ IF accepts \/ job.offset <= 0 THEN op' = "transfer" /\ UNCHANGED job ELSE Finish
           /\ UNCHANGED <<lastType, capabilities>>
      [] op = "transfer" /\ job.test /\ accepts ->
           (\E good \in Passes : AfterTest(good)) /\ UNCHANGED belief
      [] OTHER -> Finish /\ UNCHANGED <<belief, capabilities>>

ReplyComes ==
    /\ cmd # NoCommand
    /\ \E accepts \in BOOLEAN :
          /\ Serve(accepts)
          /\ IF skip THEN UNCHANGED <<belief, capabilities, op, job>> ELSE ParseResponse(accepts)
    /\ cmd' = NoCommand /\ skip' = FALSE
    /\ UNCHANGED <<ended, commands>>

(* The user cancels: the reply to the command under way will be skipped. *)
CancelTransfer ==
    /\ op # "none"
    /\ Finish /\ skip' = (cmd # NoCommand)
    /\ UNCHANGED <<belief, capabilities, cmd, server, ran, ended, commands>>

(* The connection is lost, and made again by OnConnect. *)
Reconnect ==
    /\ lastType' = -1 /\ sentRestart' = FALSE
    /\ serverType' = 0 /\ marker' = 0
    /\ Finish /\ cmd' = NoCommand /\ skip' = FALSE
    /\ UNCHANGED <<capabilities, restStream, restKnown, bug, ran, ended, commands>>

-------------------------------------------------------------------------------
SessionInit ==
    /\ lastType = -1 /\ sentRestart = FALSE
    /\ resume2GBbug = "unknown" /\ resume4GBbug = "unknown"
    /\ op = "none" /\ job = NoJob /\ cmd = NoCommand /\ skip = FALSE
    /\ serverType = 0 /\ marker = 0 /\ bug \in Bugs
    /\ restStream \in BOOLEAN /\ restKnown \in {FALSE, restStream}
    /\ ran = [job |-> NoJob, type |-> 0, from |-> 0]
    /\ ended = NoJob
    /\ commands = 0

SessionNext ==
    \/ List \/ Download \/ Upload \/ RawCommand \/ SendKeepAlive
    \/ SendInit \/ SendType \/ SendPasv \/ SendRest \/ SendTransfer
    \/ ReplyComes \/ CancelTransfer \/ Reconnect

SessionSpec == SessionInit /\ [][SessionNext]_sessionVars

-------------------------------------------------------------------------------
(***************************************************************************)
(* Properties                                                              *)
(***************************************************************************)

(* What the client takes for the type of the server is its type, also when *)
(* the reply to TYPE was skipped after a cancel.  A transfer runs in the   *)
(* type it was meant for and, on a server without bugs, from the offset it *)
(* was meant for: no marker of a transfer that was cancelled or refused is *)
(* left over.  No offset beyond the largest file is ever asked for.        *)
TransfersAsMeant ==
    /\ SessionTypeOK
    /\ lastType # -1 => serverType = lastType
    /\ ran.type = ran.job.binary
    /\ bug = "none" /\ ran.job.verb # "APPE" => ran.from = ran.job.offset

(* Whatever the server makes of large offsets, a download that is resumed  *)
(* continues where the local file ends: the test keeps the client from     *)
(* appending the wrong part.  Only a file that is smaller than the local   *)
(* one is not tested.                                                      *)
ResumesWhereMeant ==
    ran.job.verb = "RETR" /\ ~ran.job.test /\ ran.job.remote > ran.job.local =>
        ran.from = ran.job.offset

(* A server is only said not to support the resumption of large files if   *)
(* it does not ("Server does not support resume of files > 2GB.").         *)
ResumeBugIsReal == "yes" \in {resume2GBbug, resume4GBbug} => bug # "none"

(* A transfer that ends because "file sizes match" has a file of the size  *)
(* of the remote one, or a larger one for an upload.  This fails if sizes  *)
(* may be unknown (README, Findings).                                      *)
EndedIsComplete ==
    ended # NoJob => IF ended.verb = "RETR" THEN ended.local = ended.remote
                                            ELSE ended.remote >= ended.local

(* "supports REST+STOR in addition to APPE": REST is for STOR, a server    *)
(* without it can still append.  This fails (README, Findings).            *)
AppendIsPlain == cmd[1] = "REST" /\ cmd[2] > 0 => job.verb # "APPE"

===============================================================================
