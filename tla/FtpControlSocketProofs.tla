------------------------ MODULE FtpControlSocketProofs ------------------------
(***************************************************************************)
(* Proofs about what an FTP control socket knows of its connection.        *)
(*                                                                         *)
(* FtpControlSocket: for any bounds, each reply that is not skipped        *)
(* reaches the operation whose command it answers.  The invariant says how *)
(* the two counters follow the connection.  At most one reply is ever      *)
(* pending, because an operation sends a command only in a state where all *)
(* pending replies are skipped (Settled) and none is left to skip.         *)
(*                                                                         *)
(* FtpSession: what the client believes of type, marker and capabilities   *)
(* of the server is true.  In the second half of this module; see there.   *)
(***************************************************************************)
EXTENDS FtpControlSocket, FtpSession, SequenceTheorems, TLAPS

(* The two halves of TypeOK: the flags and all the rest *)
Flags ==
    /\ waits \in BOOLEAN /\ timer \in BOOLEAN /\ idleTimer \in BOOLEAN
    /\ expired \in BOOLEAN /\ abandoned \in BOOLEAN

Data ==
    /\ connection \in {"none", "connecting", "up", "broken"}
    /\ pendingReplies \in Nat /\ repliesToSkip \in Nat
    /\ unanswered \in Seq(Nat)
    /\ operations \in Seq(Nat \X {"connect", "other"})
    /\ todo \in {"nothing", "send", "reset"}
    /\ lastId \in Nat /\ rounds \in Nat

(* TypeOK in two halves, before and after a step. *)
LEMMA Halves == (TypeOK <=> Flags /\ Data) /\ (TypeOK' <=> Flags' /\ Data')
BY DEF TypeOK, Flags, Data

(* At most one reply is pending; it is skipped or it is not. *)
OneReply ==
    /\ pendingReplies \in {0, 1}
    /\ repliesToSkip \in {0, pendingReplies}

(* The server owes as many replies as are pending. *)
Owed ==
    /\ connection = "up" => pendingReplies = Len(unanswered)
    /\ connection # "up" => unanswered = << >>

(* Without an operation, or when one may send its next command, there is   *)
(* no reply pending that would not be skipped.                             *)
Settled ==
    operations = << >> \/ waits \/ todo = "send" => repliesToSkip = pendingReplies

(* Before the connection is established nothing has been sent and only the *)
(* logon is under way.                                                     *)
BeforeConnect ==
    /\ connection \in {"none", "connecting"} =>
          pendingReplies = 0 /\ ~idleTimer /\ ~waits /\ todo # "reset"
    /\ connection = "connecting" => Idle /\ operations # << >> /\ Top[2] = "connect"
    /\ connection = "none" /\ Idle => operations = << >>

IInv == TypeOK /\ OneReply /\ Owed /\ RightReply /\ Settled /\ BeforeConnect

(* The invariant holds when all counters are zero. *)
LEMMA InitOK == Init => IInv
<1> SUFFICES ASSUME Init PROVE IInv
  OBVIOUS
<1>1. Flags BY DEF Init, Flags
<1>2. Data BY DEF Init, Data
<1>3. OneReply /\ Owed /\ RightReply /\ Settled /\ BeforeConnect
  BY DEF Init, OneReply, Owed, RightReply, Settled, BeforeConnect, Idle
<1> QED BY <1>1, <1>2, <1>3, Halves DEF IInv

(* A reply list of one reply is empty after it has been taken off. *)
LEMMA TailOfOne ==
    ASSUME NEW s \in Seq(Nat), Len(s) = 1
    PROVE  Tail(s) = << >>
<1>1. s # << >>
  <2>1. Len(<< >>) = 0
    OBVIOUS
  <2>2. SUFFICES ASSUME s = << >> PROVE FALSE
    OBVIOUS
  <2> QED BY <2>1, <2>2
<1>2. Tail(s) \in Seq(Nat) /\ Len(Tail(s)) = Len(s) - 1
  BY <1>1, HeadTailProperties
<1>3. Len(Tail(s)) = 0
  BY <1>2
<1> QED BY <1>2, <1>3, EmptySeq

(* The last element of a non-empty stack is an operation, and the stack    *)
(* without it is a stack.                                                  *)
LEMMA Stack ==
    ASSUME TypeOK, operations # << >>
    PROVE  /\ Top \in Nat \X {"connect", "other"}
           /\ Below \in Seq(Nat \X {"connect", "other"})
<1>1. Len(operations) \in Nat /\ Len(operations) # 0
  BY DEF TypeOK
<1>2. Top \in Nat \X {"connect", "other"}
  BY <1>1 DEF TypeOK, Top
<1>3. Below \in Seq(Nat \X {"connect", "other"})
  BY <1>1 DEF TypeOK, Below
<1> QED BY <1>2, <1>3

(* Closing the connection forgets everything. *)
LEMMA DoCloseOK ==
    ASSUME IInv, DoClose, UNCHANGED bounds
    PROVE  IInv'
<1>1. Flags' BY DEF DoClose, Flags
<1>2. Data' BY Halves DEF IInv, DoClose, Data, bounds
<1>3. OneReply' /\ Owed' /\ RightReply' /\ Settled' /\ BeforeConnect'
  BY DEF DoClose, OneReply, Owed, RightReply, Settled, BeforeConnect, Idle
<1> QED BY <1>1, <1>2, <1>3, Halves DEF IInv

(* While nothing is pending nothing is owed. *)
LEMMA NothingOwed ==
    ASSUME IInv, pendingReplies = 0
    PROVE  unanswered = << >>
BY DEF IInv, TypeOK, Owed

(* Sending a command in a state where nothing is pending. *)
LEMMA SendCommandOK ==
    ASSUME IInv, NEW owner \in Nat, pendingReplies = 0, SendCommand(owner)
    PROVE  /\ pendingReplies' = 1
           /\ timer' = TRUE /\ rounds' \in Nat
           /\ connection' \in {"up", "broken"}
           /\ unanswered' \in Seq(Nat)
           /\ connection' = "up" => unanswered' = <<owner>>
           /\ connection' # "up" => unanswered' = << >>
<1>1. unanswered = << >>
  BY NothingOwed
<1>2. pendingReplies' = 1 /\ timer' = TRUE
  BY DEF SendCommand, SetWait
<1>3. rounds' \in Nat
  BY DEF IInv, TypeOK, SendCommand
<1>4. \/ connection' = "up" /\ unanswered' = <<owner>>
      \/ connection' = "broken" /\ unanswered' = << >>
  BY <1>1 DEF SendCommand
<1>5. unanswered' \in Seq(Nat)
  <2>1. << >> \in Seq(Nat) /\ <<owner>> \in Seq(Nat)
    OBVIOUS
  <2> QED BY <1>4, <2>1
<1>6. connection' \in {"up", "broken"}
  BY <1>4
<1>7. (connection' = "up" => unanswered' = <<owner>>) /\ (connection' # "up" => unanswered' = << >>)
  BY <1>4
<1> QED BY <1>2, <1>3, <1>5, <1>6, <1>7

-------------------------------------------------------------------------------
(* A new command starts when nothing is pending but what is skipped. *)
LEMMA ExecuteOK == ASSUME IInv, Execute PROVE IInv'
<1>1. pendingReplies = repliesToSkip
  BY DEF IInv, Settled, Execute
<1>2. operations' \in Seq(Nat \X {"connect", "other"}) /\ operations' # << >>
  <2> DEFINE a == <<lastId + 1, "connect">>
             b == <<lastId + 1, "other">>
             c == <<lastId + 2, "connect">>
  <2>1. {a, b, c} \subseteq Nat \X {"connect", "other"}
    BY DEF IInv, TypeOK
  <2>2. operations' \in {<<a>>, <<b, c>>, <<b>>}
    BY DEF Execute
  <2> HIDE DEF a, b, c
  <2>3. <<a>> \in Seq(Nat \X {"connect", "other"}) /\ <<a>> # << >>
    BY <2>1
  <2>4. <<b>> \in Seq(Nat \X {"connect", "other"}) /\ <<b>> # << >>
    BY <2>1
  <2>5. <<b, c>> \in Seq(Nat \X {"connect", "other"}) /\ <<b, c>> # << >>
    BY <2>1
  <2> QED BY <2>2, <2>3, <2>4, <2>5
<1>3. connection # "connecting"
  BY DEF IInv, BeforeConnect, Execute
<1>4. TypeOK'
  BY <1>2 DEF IInv, TypeOK, Execute, counts
<1>5. OneReply' /\ Owed' /\ Settled' /\ BeforeConnect'
  BY <1>1, <1>2, <1>3 DEF IInv, TypeOK, OneReply, Owed, Settled, BeforeConnect, Execute, counts, Idle
<1>6. RightReply'
  BY <1>1, NothingOwed DEF IInv, RightReply, Execute, counts
<1> QED BY <1>4, <1>5, <1>6 DEF IInv

(* Operations that end without the connection: what is pending is skipped. *)
LEMMA ResetAllOK ==
    ASSUME IInv, NEW disconnected \in BOOLEAN, ResetAll(disconnected),
           connection \in {"up", "broken"},
           UNCHANGED <<connection, pendingReplies, unanswered, bounds>>, abandoned' \in BOOLEAN
    PROVE  IInv'
<1>1. TypeOK'
  <2>1. Flags' BY Halves DEF IInv, Flags, ResetAll
  <2>2. Data' BY Halves DEF IInv, Data, ResetAll, SkipPending, bounds
  <2> QED BY <2>1, <2>2, Halves
<1>2. OneReply' /\ Owed' /\ Settled' /\ BeforeConnect'
  BY DEF IInv, OneReply, Owed, Settled, BeforeConnect, ResetAll, SkipPending, Idle
<1>3. RightReply'
  BY NothingOwed DEF IInv, RightReply, ResetAll, SkipPending
<1> QED BY <1>1, <1>2, <1>3 DEF IInv

(* A cancelled logon closes the connection; any other operation leaves     *)
(* its reply to be skipped.                                                *)
LEMMA CancelOK == ASSUME IInv, Cancel PROVE IInv'
<1>1. CASE Top[2] = "connect"
  BY <1>1, DoCloseOK DEF Cancel
<1>2. CASE Top[2] # "connect"
  <2>1. connection \in {"up", "broken"}
    BY <1>2 DEF IInv, TypeOK, BeforeConnect, Cancel
  <2>2. abandoned' \in BOOLEAN
    BY <1>2 DEF IInv, TypeOK, Cancel
  <2> QED BY <1>2, <2>1, <2>2, ResetAllOK DEF Cancel
<1> QED BY <1>1, <1>2

-------------------------------------------------------------------------------
(* The next step of the operation on top sends at most one command, and    *)
(* only when no reply is pending.                                          *)
LEMMA SendOK == ASSUME IInv, Send PROVE IInv'
<1> USE DEF CanSendNextCommand
<1>0. todo = "send" /\ operations # << >> /\ repliesToSkip = pendingReplies
  BY DEF IInv, Settled, Send
<1>1. CASE /\ ~CanSendNextCommand
           /\ SetWait /\ todo' = "nothing"
           /\ UNCHANGED <<connection, counts, operations, waits, idleTimer, expired, abandoned, bounds>>
  BY <1>0, <1>1 DEF IInv, TypeOK, OneReply, Owed, RightReply, Settled, BeforeConnect, Idle, Top,
                    SetWait, counts, bounds
<1>2. CASE /\ CanSendNextCommand /\ Top[2] = "connect" /\ connection = "none"
           /\ connection' = "connecting" /\ SetWait /\ todo' = "nothing"
           /\ UNCHANGED <<counts, operations, waits, idleTimer, expired, abandoned, bounds>>
  <2>1. unanswered = << >>
    BY <1>2 DEF IInv, Owed
  <2> QED BY <1>0, <1>2, <2>1 DEF IInv, TypeOK, OneReply, Owed, RightReply, Settled, BeforeConnect,
                    Idle, Top, SetWait, counts, bounds
<1>3. CASE /\ CanSendNextCommand /\ connection # "none" /\ rounds < MaxRounds
           /\ SendCommand(Top[1])
           /\ waits' = FALSE /\ todo' = "nothing"
           /\ UNCHANGED <<repliesToSkip, operations, idleTimer, expired, abandoned, lastId>>
  <2>1. Top[1] \in Nat
    BY <1>0, Stack DEF IInv
  <2>2. pendingReplies = 0 /\ repliesToSkip = 0
    BY <1>0, <1>3
  <2>3. /\ pendingReplies' = 1 /\ timer' = TRUE /\ rounds' \in Nat
        /\ connection' \in {"up", "broken"} /\ unanswered' \in Seq(Nat)
        /\ connection' = "up" => unanswered' = <<Top[1]>>
        /\ connection' # "up" => unanswered' = << >>
    BY <1>3, <2>1, <2>2, SendCommandOK
  <2>4. TypeOK'
    BY <1>3, <2>3 DEF IInv, TypeOK
  <2>5. OneReply' /\ Owed' /\ Settled' /\ BeforeConnect'
    BY <1>0, <1>3, <2>2, <2>3 DEF IInv, TypeOK, OneReply, Owed, Settled, BeforeConnect, Idle
  <2>6. RightReply'
    BY <1>0, <1>3, <2>3 DEF RightReply, Top
  <2> QED BY <2>4, <2>5, <2>6 DEF IInv
<1>4. CASE /\ CanSendNextCommand /\ connection # "none" /\ Top[2] = "other"
           /\ Len(operations) < MaxDepth /\ lastId < MaxOperations
           /\ operations' = Append(operations, <<lastId + 1, "other">>)
           /\ lastId' = lastId + 1
           /\ UNCHANGED <<connection, counts, waits, timer, idleTimer, expired, abandoned, todo, rounds>>
  <2>1. pendingReplies = 0 /\ unanswered = << >>
    BY <1>0, <1>4, NothingOwed
  <2>2. operations' \in Seq(Nat \X {"connect", "other"}) /\ operations' # << >>
    <3> DEFINE new == <<lastId + 1, "other">>
    <3>1. operations \in Seq(Nat \X {"connect", "other"}) /\ new \in Nat \X {"connect", "other"}
      BY DEF IInv, TypeOK
    <3>2. operations' = Append(operations, new)
      BY <1>4
    <3> HIDE DEF new
    <3> QED BY <3>1, <3>2
  <2>3. TypeOK'
    BY <1>4, <2>2 DEF IInv, TypeOK, counts
  <2>4. OneReply' /\ Owed' /\ Settled' /\ BeforeConnect' /\ RightReply'
    BY <1>0, <1>4, <2>1, <2>2 DEF IInv, OneReply, Owed, Settled, BeforeConnect, RightReply, Idle, counts
  <2> QED BY <2>3, <2>4 DEF IInv
<1>5. CASE /\ CanSendNextCommand /\ connection # "none" /\ rounds < MaxRounds
           /\ waits' = TRUE /\ todo' = "nothing"
           /\ rounds' = rounds + 1
           /\ UNCHANGED <<connection, counts, operations, timer, idleTimer, expired, abandoned, lastId>>
  <2>1. Flags' BY <1>5, Halves DEF IInv, Flags
  <2>2. Data' BY <1>5, Halves DEF IInv, Data, counts
  <2>3. OneReply' /\ Owed' /\ Settled' /\ BeforeConnect'
    BY <1>0, <1>5 DEF IInv, TypeOK, OneReply, Owed, Settled, BeforeConnect, Idle, counts
  <2>4. RightReply'
    BY <1>0, <1>5 DEF IInv, RightReply, Top, counts
  <2> QED BY <2>1, <2>2, <2>3, <2>4, Halves DEF IInv
<1>6. CASE /\ CanSendNextCommand /\ connection # "none" /\ Top[2] = "other"
           /\ todo' = "reset"
           /\ UNCHANGED <<connection, counts, operations, waits, timer, idleTimer, expired, abandoned, bounds>>
  BY <1>0, <1>6 DEF IInv, TypeOK, OneReply, Owed, RightReply, Settled, BeforeConnect, Idle, Top, counts, bounds
<1>7. CASE CanSendNextCommand /\ DoClose /\ UNCHANGED bounds
  BY <1>7, DoCloseOK
<1> QED BY <1>1, <1>2, <1>3, <1>4, <1>5, <1>6, <1>7 DEF Send

(* The operation on top ends, alone or with all below it. *)
LEMMA ResetOK == ASSUME IInv, Reset PROVE IInv'
<1>1. connection \in {"up", "broken"}
  BY DEF IInv, TypeOK, BeforeConnect, Reset
<1>2. CASE Below = << >>
  <2>1. abandoned' \in BOOLEAN
    BY DEF IInv, TypeOK, Reset
  <2> QED BY <1>1, <1>2, <2>1, ResetAllOK DEF Reset
<1>3. CASE Below # << >>
  <2>1. Below \in Seq(Nat \X {"connect", "other"})
    BY Stack DEF IInv, Reset
  <2>2. TypeOK'
    BY <1>3, <2>1 DEF IInv, TypeOK, Reset, SkipPending, bounds
  <2>3. OneReply' /\ Owed' /\ Settled' /\ BeforeConnect'
    BY <1>1, <1>3 DEF IInv, OneReply, Owed, Settled, BeforeConnect, Reset, SkipPending, Idle
  <2>4. RightReply'
    BY <1>3, NothingOwed DEF IInv, RightReply, Reset, SkipPending
  <2> QED BY <2>2, <2>3, <2>4 DEF IInv
<1> QED BY <1>2, <1>3

-------------------------------------------------------------------------------
(* The greeting is the first reply the server owes, to the logon. *)
LEMMA OnConnectOK == ASSUME IInv, OnConnect PROVE IInv'
<1>1. Top[1] \in Nat
  BY Stack DEF IInv, OnConnect
<1>2. repliesToSkip = 0 /\ ~waits
  BY DEF IInv, OneReply, BeforeConnect, OnConnect
<1>3. TypeOK'
  BY <1>1 DEF IInv, TypeOK, OnConnect, bounds
<1>4. OneReply' /\ Owed' /\ Settled' /\ BeforeConnect'
  BY <1>1, <1>2 DEF IInv, TypeOK, OneReply, Owed, Settled, BeforeConnect, OnConnect, Idle
<1>5. RightReply'
  BY <1>1 DEF RightReply, OnConnect, Top
<1> QED BY <1>3, <1>4, <1>5 DEF IInv

(* A reply is skipped or taken off by the operation it belongs to. *)
LEMMA ReplyOK == ASSUME IInv, Reply PROVE IInv'
<1>1. pendingReplies = 1 /\ Len(unanswered) = 1 /\ connection = "up"
  BY DEF IInv, TypeOK, OneReply, Owed, Reply
<1>2. Tail(unanswered) = << >>
  BY <1>1, TailOfOne DEF IInv, TypeOK
<1>3. CASE repliesToSkip > 0
  <2>1. repliesToSkip = 1
    BY <1>1, <1>3 DEF IInv, OneReply
  <2>2. /\ pendingReplies' = 0 /\ repliesToSkip' = 0 /\ unanswered' = << >> /\ connection' = "up"
        /\ UNCHANGED <<operations, waits, abandoned, bounds>>
    BY <1>1, <1>2, <1>3, <2>1 DEF Reply
  <2>3. timer' = FALSE /\ todo' \in {"nothing", "send"}
    BY <1>1, <1>3, <2>1, <2>2 DEF Reply, Idle
  <2>4. idleTimer' \in BOOLEAN /\ expired' \in BOOLEAN
    BY <1>1, <1>3, <2>1, <2>2 DEF Reply, StartKeepaliveTimer, IInv, TypeOK
  <2>5. Flags' BY <2>2, <2>3, <2>4, Halves DEF IInv, Flags
  <2>6. Data' BY <2>2, <2>3, Halves DEF IInv, Data, bounds
  <2>7. OneReply' /\ Owed' /\ Settled' /\ BeforeConnect' /\ RightReply'
    BY <2>2, <2>3 DEF OneReply, Owed, Settled, BeforeConnect, RightReply
  <2> QED BY <2>5, <2>6, <2>7, Halves DEF IInv
<1>4. CASE repliesToSkip = 0
  <2>1. operations # << >> /\ ~waits
    BY <1>1, <1>4 DEF IInv, Settled
  <2>2. CASE DoClose
    BY <2>2, DoCloseOK DEF Reply
  <2>3. CASE ~DoClose
    <3>1. /\ pendingReplies' = 0 /\ unanswered' = << >> /\ todo' \in {"send", "reset"}
          /\ UNCHANGED <<connection, repliesToSkip, operations, waits, timer, idleTimer, expired, abandoned>>
          /\ UNCHANGED bounds
      <4>1. Parse /\ UNCHANGED bounds
        BY <1>4, <2>1 DEF Reply
      <4>2. pendingReplies' = pendingReplies - 1 /\ unanswered' = Tail(unanswered)
        BY <2>3, <4>1 DEF Parse
      <4>3. /\ todo' \in {"send", "reset"}
            /\ UNCHANGED <<connection, repliesToSkip, operations, waits, timer, idleTimer, expired, abandoned>>
        BY <2>3, <4>1 DEF Parse
      <4> QED BY <1>1, <1>2, <4>1, <4>2, <4>3
    <3> QED BY <1>1, <1>4, <3>1 DEF IInv, TypeOK, OneReply, Owed, Settled, BeforeConnect, RightReply, bounds
  <2> QED BY <2>2, <2>3
<1> QED BY <1>3, <1>4 DEF IInv, TypeOK

(* A preliminary reply leaves the final one pending. *)
LEMMA PreliminaryReplyOK == ASSUME IInv, PreliminaryReply PROVE IInv'
<1>1. pendingReplies = 1 /\ ~waits
  BY DEF IInv, TypeOK, OneReply, Owed, Settled, PreliminaryReply
<1> QED BY <1>1 DEF IInv, TypeOK, OneReply, Owed, Settled, BeforeConnect, RightReply, PreliminaryReply,
                    Top, counts, bounds

(* An operation that waits for an event has no reply pending. *)
LEMMA EventOK == ASSUME IInv, Event PROVE IInv'
<1>1. repliesToSkip = pendingReplies
  BY DEF IInv, Settled, Event
<1>2. connection \in {"up", "broken"}
  BY DEF IInv, TypeOK, BeforeConnect, Event
<1> QED BY <1>1, <1>2 DEF IInv, TypeOK, OneReply, Owed, Settled, BeforeConnect, RightReply, Event,
                    Top, counts, bounds

(* A failed TLS resumption ends all operations like a cancel does. *)
LEMMA ResumptionFailsOK == ASSUME IInv, ResumptionFails PROVE IInv'
BY ResetAllOK DEF ResumptionFails, bounds

(* A keep-alive command is sent when nothing is pending, and its reply is  *)
(* skipped.                                                                *)
LEMMA IdleTimerOK == ASSUME IInv, IdleTimer PROVE IInv'
<1>1. connection \in {"up", "broken"}
  BY DEF IInv, TypeOK, BeforeConnect, IdleTimer
<1>2. CASE operations # << >> \/ pendingReplies > 0 \/ repliesToSkip > 0
  BY <1>1, <1>2 DEF IInv, TypeOK, OneReply, Owed, Settled, BeforeConnect, RightReply, IdleTimer, Idle,
                    Top, counts
<1>3. CASE ~(operations # << >> \/ pendingReplies > 0 \/ repliesToSkip > 0)
  <2>1. operations = << >> /\ pendingReplies = 0 /\ repliesToSkip = 0
    BY <1>3 DEF IInv, TypeOK
  <2>2. SendCommand(KeepAlive) /\ repliesToSkip' = 1 /\ idleTimer' = FALSE
        /\ UNCHANGED <<operations, waits, expired, abandoned, todo, lastId>>
    BY <1>3, <2>1 DEF IdleTimer
  <2>3. /\ pendingReplies' = 1 /\ timer' = TRUE /\ rounds' \in Nat
        /\ connection' \in {"up", "broken"} /\ unanswered' \in Seq(Nat)
        /\ connection' = "up" => unanswered' = <<KeepAlive>>
        /\ connection' # "up" => unanswered' = << >>
    BY <2>1, <2>2, SendCommandOK DEF KeepAlive
  <2>4. TypeOK'
    BY <2>2, <2>3 DEF IInv, TypeOK
  <2>5. OneReply' /\ Owed' /\ Settled' /\ BeforeConnect' /\ RightReply'
    BY <2>2, <2>3 DEF OneReply, Owed, Settled, BeforeConnect, RightReply
  <2> QED BY <2>4, <2>5 DEF IInv
<1> QED BY <1>2, <1>3

-------------------------------------------------------------------------------
(* Every step of the specification keeps the invariant. *)
LEMMA NextOK == IInv /\ [Next]_vars => IInv'
<1> SUFFICES ASSUME IInv, [Next]_vars PROVE IInv'
  OBVIOUS
<1>1. CASE Execute BY <1>1, ExecuteOK
<1>2. CASE Cancel BY <1>2, CancelOK
<1>3. CASE Send BY <1>3, SendOK
<1>4. CASE Reset BY <1>4, ResetOK
<1>5. CASE OnConnect BY <1>5, OnConnectOK
<1>6. CASE Reply BY <1>6, ReplyOK
<1>7. CASE PreliminaryReply BY <1>7, PreliminaryReplyOK
<1>8. CASE Disconnected BY <1>8, DoCloseOK DEF Disconnected
<1>9. CASE Event BY <1>9, EventOK
<1>10. CASE ResumptionFails BY <1>10, ResumptionFailsOK
<1>11. CASE IdleTimer BY <1>11, IdleTimerOK
<1>12. CASE Timeout BY <1>12, DoCloseOK DEF Timeout
<1>13. CASE UNCHANGED vars
  BY <1>13 DEF IInv, TypeOK, OneReply, Owed, RightReply, Settled, BeforeConnect, Idle, Top, vars, counts, bounds
<1> QED
  BY <1>1, <1>2, <1>3, <1>4, <1>5, <1>6, <1>7, <1>8, <1>9, <1>10, <1>11, <1>12, <1>13 DEF Next, Run, Server

(* The type invariant of the control connection holds for any bounds: the  *)
(* counters of ParseResponse and ResetOperation never become negative.     *)
THEOREM TypeCorrectness == Spec => []TypeOK
<1>1. IInv => TypeOK BY DEF IInv
<1> QED BY <1>1, InitOK, NextOK, PTL DEF Spec

(* A reply that CFtpControlSocket::ParseResponse hands to an operation     *)
(* answers a command of that operation, however commands, cancels and      *)
(* keep-alives interleave.                                                 *)
THEOREM RepliesReachTheirOperation == Spec => []RightReply
<1>1. IInv => RightReply BY DEF IInv
<1> QED BY <1>1, InitOK, NextOK, PTL DEF Spec

(* The two counters of the socket agree with what the server still owes.   *)
THEOREM CountersAgree == Spec => []CountsAgree
<1>1. IInv => CountsAgree BY DEF IInv, OneReply, Owed, CountsAgree
<1> QED BY <1>1, InitOK, NextOK, PTL DEF Spec

-------------------------------------------------------------------------------
(***************************************************************************)
(* Timers                                                                  *)
(***************************************************************************)

(* An operation that has sent its command, or has begun to end, is watched *)
(* while a reply is pending; one that is about to send need not be, since  *)
(* sending starts the timer.                                               *)
Watched ==
    todo # "send" /\ operations # << >> /\ (pendingReplies > 0 \/ connection = "connecting") => timer

(* A connection that nobody uses has the timer that keeps it alive. *)
KeptAlive ==
    Idle /\ connection = "up" /\ operations = << >> /\ pendingReplies = 0 /\ ~abandoned =>
        idleTimer \/ expired

TInv == Watched /\ KeptAlive

(* No timer is needed when the connection is gone. *)
LEMMA DoCloseTimers == ASSUME DoClose PROVE TInv'
BY DEF DoClose, TInv, Watched, KeptAlive

(* When all operations end with the connection still there, the keep-alive *)
(* timer is started, or will be when the last reply has been skipped.      *)
LEMMA ResetAllTimers ==
    ASSUME IInv, operations # << >>, ResetAll(FALSE), pendingReplies' = pendingReplies
    PROVE  TInv'
<1>1. Watched'
  BY DEF ResetAll, Watched
<1>2. KeptAlive'
  BY DEF ResetAll, KeptAlive
<1> QED BY <1>1, <1>2 DEF TInv

(* SendNextCommand starts the timer whenever it waits for a reply. *)
LEMMA SendTimers == ASSUME IInv, TInv, Send PROVE TInv'
<1> USE DEF CanSendNextCommand
<1>0. /\ todo = "send" /\ operations # << >> /\ repliesToSkip = pendingReplies
      /\ connection # "connecting"
  BY DEF IInv, Settled, BeforeConnect, Idle, Send
<1>1. CASE DoClose
  BY <1>1, DoCloseTimers
<1>2. CASE ~DoClose
  <2>1. operations' # << >>
    <3>1. CASE operations' = operations
      BY <1>0, <3>1
    <3>2. CASE operations' = Append(operations, <<lastId + 1, "other">>)
      <4> DEFINE top == <<lastId + 1, "other">>
      <4>1. operations \in Seq(Nat \X {"connect", "other"}) /\ top \in Nat \X {"connect", "other"}
        BY DEF IInv, TypeOK
      <4> HIDE DEF top
      <4>2. Len(Append(operations, top)) = Len(operations) + 1 /\ Len(operations) \in Nat
        BY <4>1
      <4>3. Append(operations, top) # << >>
        BY <4>2, EmptySeq
      <4> QED BY <3>2, <4>3 DEF top
    <3> QED BY <1>2, <3>1, <3>2 DEF Send
  <2>2. timer' = TRUE \/ todo' = "send" \/ (pendingReplies' = 0 /\ connection' # "connecting")
    BY <1>0, <1>2 DEF Send, SendCommand, SetWait, counts, IInv, TypeOK
  <2> QED BY <2>1, <2>2 DEF TInv, Watched, KeptAlive
<1> QED BY <1>1, <1>2

(* The operation below goes on waiting under the timer of the one above. *)
LEMMA ResetTimers == ASSUME IInv, TInv, Reset PROVE TInv'
<1>1. CASE Below = << >>
  BY <1>1, ResetAllTimers DEF Reset
<1>2. CASE Below # << >>
  <2>1. /\ operations' # << >> /\ timer' = timer /\ connection' = connection
        /\ pendingReplies' = pendingReplies /\ todo # "send" /\ operations # << >>
    BY <1>2 DEF Reset
  <2> QED BY <2>1 DEF TInv, Watched, KeptAlive
<1> QED BY <1>1, <1>2

(* The timer stops when the reply has come; when it was the last one to be *)
(* skipped the keep-alive timer starts.                                    *)
LEMMA ReplyTimers == ASSUME IInv, TInv, Reply PROVE TInv'
<1>1. pendingReplies = 1 /\ connection = "up" /\ Idle
  BY DEF IInv, TypeOK, OneReply, Owed, Reply
<1>2. CASE DoClose
  BY <1>2, DoCloseTimers
<1>3. CASE ~DoClose
  <2>1. pendingReplies' = 0 /\ connection' # "connecting" /\ operations' = operations
    BY <1>1, <1>3 DEF Reply, Parse
  <2>2. Watched'
    BY <2>1 DEF Watched
  <2>3. KeptAlive'
    <3> SUFFICES ASSUME operations = << >> PROVE idleTimer' \/ expired'
      BY <2>1 DEF KeptAlive
    <3>1. repliesToSkip = 1
      BY <1>1 DEF IInv, Settled
    <3>2. StartKeepaliveTimer
      BY <3>1 DEF Reply
    <3>3. idleTimer' = (idleTimer \/ ~expired')
      BY <2>1, <3>2 DEF StartKeepaliveTimer
    <3> QED BY <3>3, Zenon
  <2> QED BY <2>2, <2>3 DEF TInv
<1> QED BY <1>2, <1>3

(* A keep-alive command is sent instead of the timer that has fired. *)
LEMMA IdleTimerTimers == ASSUME IInv, TInv, IdleTimer PROVE TInv'
<1>1. CASE operations # << >> \/ pendingReplies > 0 \/ repliesToSkip > 0
  <2>1. UNCHANGED <<connection, pendingReplies, timer, operations, todo>>
    BY <1>1 DEF IdleTimer, counts
  <2>2. operations # << >> \/ pendingReplies # 0
    BY <1>1 DEF IInv, OneReply
  <2> QED BY <2>1, <2>2 DEF TInv, Watched, KeptAlive
<1>2. CASE ~(operations # << >> \/ pendingReplies > 0 \/ repliesToSkip > 0)
  <2>1. operations' = << >> /\ pendingReplies' = pendingReplies + 1
    BY <1>2 DEF IdleTimer, SendCommand
  <2>2. pendingReplies' # 0
    BY <2>1 DEF IInv, TypeOK
  <2> QED BY <2>1, <2>2 DEF TInv, Watched, KeptAlive
<1> QED BY <1>1, <1>2

(* Every step keeps what is waited for under a timer. *)
LEMMA NextTimers == IInv /\ TInv /\ [Next]_vars => TInv'
<1> SUFFICES ASSUME IInv, TInv, [Next]_vars PROVE TInv'
  OBVIOUS
<1>1. CASE Execute
  <2>1. operations' # << >> /\ todo' = "send"
    BY <1>1 DEF Execute
  <2> QED BY <2>1 DEF TInv, Watched, KeptAlive
<1>2. CASE Cancel BY <1>2, DoCloseTimers, ResetAllTimers DEF Cancel
<1>3. CASE Send BY <1>3, SendTimers
<1>4. CASE Reset BY <1>4, ResetTimers
<1>5. CASE OnConnect
  BY <1>5 DEF OnConnect, TInv, Watched, KeptAlive, Idle
<1>6. CASE Reply BY <1>6, ReplyTimers
<1>7. CASE PreliminaryReply
  BY <1>7 DEF PreliminaryReply, TInv, Watched, KeptAlive, Idle, counts
<1>8. CASE Disconnected BY <1>8, DoCloseTimers DEF Disconnected
<1>9. CASE Event
  BY <1>9 DEF Event, TInv, Watched, KeptAlive, Idle, counts
<1>10. CASE ResumptionFails
  BY <1>10 DEF ResumptionFails, ResetAll, TInv, Watched, KeptAlive
<1>11. CASE IdleTimer BY <1>11, IdleTimerTimers
<1>12. CASE Timeout BY <1>12, DoCloseTimers DEF Timeout
<1>13. CASE UNCHANGED vars
  BY <1>13 DEF TInv, Watched, KeptAlive, Idle, vars, counts
<1> QED
  BY <1>1, <1>2, <1>3, <1>4, <1>5, <1>6, <1>7, <1>8, <1>9, <1>10, <1>11, <1>12, <1>13 DEF Next, Run, Server

(* Nothing waits for the server without a timeout, and an idle connection  *)
(* is kept alive: CControlSocket::SetWait and StartKeepaliveTimer are      *)
(* called wherever they have to be.                                        *)
THEOREM TimersAreRunning == Spec => []TimersRun
<1>1. Init => TInv
  BY DEF Init, TInv, Watched, KeptAlive
<1>2. TInv => TimersRun
  BY DEF TInv, Watched, KeptAlive, TimersRun, Idle
<1> QED BY <1>1, <1>2, NextTimers, InitOK, NextOK, PTL DEF Spec

-------------------------------------------------------------------------------
(***************************************************************************)
(* FtpSession, for every size of files and every number of operations:     *)
(* what the client believes of type, marker and capabilities is true, so   *)
(* that a transfer runs in the type and from the offset it was meant for.  *)
(*                                                                         *)
(* The sizes of remote files are taken to be known.  With an unknown size  *)
(* the resume test asks for an offset that is no offset, and the theorems  *)
(* below are false (README, Findings).                                     *)
(***************************************************************************)

(* Effective for a given server: what it makes of an offset. *)
Eff(b, n) == IF b = "2GB" THEN n % TwoGB ELSE IF b = "4GB" THEN n % FourGB ELSE n

(* The server of the session does not change. *)
LEMMA EffectiveIs == \A n : Effective(n) = Eff(bug, n)
BY DEF Effective, Eff

(* A remainder is a remainder. *)
LEMMA Remainder ==
    ASSUME NEW n \in Nat, NEW m \in Nat \ {0}
    PROVE  n % m \in 0..n /\ n % m < m /\ (n < m => n % m = n)
OBVIOUS

(* An offset below the limit is not mistaken, one above it always is.      *)
LEMMA EffBounds ==
    ASSUME NEW b \in {"none", "2GB", "4GB"}, NEW n \in Nat
    PROVE  /\ Eff(b, n) \in 0..n
           /\ n < TwoGB \/ b = "none" \/ (b = "4GB" /\ n < FourGB) => Eff(b, n) = n
           /\ b = "2GB" /\ n >= TwoGB => Eff(b, n) # n
           /\ b = "4GB" /\ n >= FourGB => Eff(b, n) # n
<1>1. TwoGB \in Nat \ {0} /\ FourGB \in Nat \ {0} /\ TwoGB < FourGB
  BY SizesAssumption
<1>2. n % TwoGB \in 0..n /\ n % TwoGB < TwoGB /\ (n < TwoGB => n % TwoGB = n)
  BY <1>1, Remainder
<1>3. n % FourGB \in 0..n /\ n % FourGB < FourGB /\ (n < FourGB => n % FourGB = n)
  BY <1>1, Remainder
<1>4. CASE b = "none"
  BY <1>4 DEF Eff
<1>5. CASE b = "2GB"
  BY <1>1, <1>2, <1>5 DEF Eff
<1>6. CASE b = "4GB"
  BY <1>1, <1>3, <1>6 DEF Eff
<1> QED BY <1>4, <1>5, <1>6

-------------------------------------------------------------------------------
(***************************************************************************)
(* The inductive invariant                                                 *)
(***************************************************************************)

(* A job that is about to be carried out: its offset is one, a resume test *)
(* asks for the last byte of a file that is larger than both the local one *)
(* and the limit, and a download that is resumed starts at an offset that  *)
(* the server does not mistake.                                            *)
JobOK(b, j) ==
    /\ j.offset >= 0 /\ j.remote >= 0
    /\ j.test => j.verb = "RETR" /\ TwoGB <= j.local /\ j.local < j.remote /\ j.offset = j.remote - 1
    /\ j.verb = "RETR" /\ ~j.test /\ j.remote > j.local => Eff(b, j.offset) = j.offset

(* The command under way is the one of the operation's state, or its reply *)
(* will be skipped.                                                        *)
InStep ==
    /\ op = "none" => (skip <=> cmd # NoCommand)
    /\ op # "none" => ~skip
    /\ op = "init" => cmd = NoCommand
    /\ op = "type" => cmd = NoCommand \/ cmd = <<"TYPE", job.binary>>
    /\ op = "port_pasv" => cmd = NoCommand \/ cmd = <<"PASV", 0>>
    /\ op = "rest" => cmd = NoCommand \/ cmd = <<"REST", job.offset>>
    /\ op = "transfer" => cmd = NoCommand \/ cmd = <<"TRANSFER", job>>
    /\ op = "raw" => cmd = <<"RAW", 0>>

(* A known type is the type of the server and stays it whatever is under   *)
(* way; a transfer that is under way finds the type it needs.              *)
TypeKnown ==
    /\ lastType # -1 =>
          serverType = lastType /\ (cmd[1] = "TYPE" => cmd[2] = lastType) /\ cmd[1] # "RAW"
    /\ op \in {"port_pasv", "rest", "transfer"} => lastType = job.binary
    /\ cmd[1] = "TRANSFER" => serverType = cmd[2].binary

(* A marker is set, or on its way, only if the client has noted it, and it *)
(* is the one of the transfer that is about to start or under way.         *)
MarkerKnown ==
    /\ marker # 0 => sentRestart /\ restStream
    /\ cmd[1] = "REST" => cmd[2] >= 0 /\ (cmd[2] # 0 => sentRestart)
    /\ op = "transfer" => marker = Eff(bug, job.offset)
    /\ cmd[1] = "TRANSFER" => marker = Eff(bug, cmd[2].offset) /\ JobOK(bug, cmd[2])

(* What the client has learned from resume tests is true. *)
Learned ==
    /\ resume2GBbug = "no" => bug # "2GB"
    /\ resume4GBbug = "no" => bug = "none"
    /\ ResumeBugIsReal

(* The last transfer was as it was meant. *)
RanAsMeant ==
    /\ ran.type = ran.job.binary
    /\ ran.from = Eff(bug, ran.job.offset)
    /\ JobOK(bug, ran.job)

SInv == SessionTypeOK /\ JobOK(bug, job) /\ InStep /\ TypeKnown /\ MarkerKnown /\ Learned /\ RanAsMeant

-------------------------------------------------------------------------------
(***************************************************************************)
(* Starting a transfer                                                     *)
(***************************************************************************)

(* NoJob is a job that does no harm. *)
LEMMA NoJobOK ==
    /\ NoJob \in Jobs
    /\ \A b : JobOK(b, NoJob)
BY SizesAssumption DEF NoJob, Jobs, JobOK, NoSize

(* The flags, and all the rest of SessionTypeOK *)
SessionFlags == sentRestart \in BOOLEAN /\ skip \in BOOLEAN /\ restStream \in BOOLEAN /\ restKnown \in BOOLEAN

CommandOK ==
    \/ cmd = NoCommand
    \/ cmd[1] \in {"RAW", "PASV"} /\ cmd[2] = 0
    \/ cmd[1] = "TYPE" /\ cmd[2] \in {0, 1}
    \/ cmd[1] = "REST" /\ cmd[2] \in -2..MaxSize
    \/ cmd[1] = "TRANSFER" /\ cmd[2] \in Jobs

SessionData ==
    /\ lastType \in {-1, 0, 1}
    /\ resume2GBbug \in {"unknown", "yes", "no"} /\ resume4GBbug \in {"unknown", "yes", "no"}
    /\ op \in {"none", "raw", "init", "type", "port_pasv", "rest", "transfer"}
    /\ job \in Jobs
    /\ CommandOK
    /\ serverType \in {0, 1} /\ marker \in 0..MaxSize
    /\ bug \in {"none", "2GB", "4GB"}
    /\ ran.job \in Jobs /\ ran.type \in {0, 1} /\ ran.from \in 0..MaxSize
    /\ ended \in Jobs
    /\ commands \in 0..MaxCommands

(* SessionTypeOK in two halves, before and after a step. *)
LEMMA SessionHalves == (SessionTypeOK <=> SessionFlags /\ SessionData) /\ (SessionTypeOK' <=> SessionFlags' /\ SessionData')
BY DEF SessionTypeOK, SessionFlags, SessionData, CommandOK

(* While no command is under way none of the things a command could be     *)
(* said of holds.                                                          *)
LEMMA NoCommandIs == NoCommand[1] = "none" /\ NoCommand[2] = 0
BY DEF NoCommand

(* Transfer(): a raw transfer begins, nothing else changes. *)
LEMMA TransferOK ==
    ASSUME SInv, MayStart, NEW j \in Jobs, JobOK(bug, j), Transfer(j), UNCHANGED <<belief, server, ran>>
    PROVE  SInv'
<1>1. SessionFlags'
  BY SessionHalves DEF SInv, SessionFlags, Transfer, belief, server
<1>2. SessionData'
  BY SessionHalves, SizesAssumption DEF SInv, SessionData, CommandOK, Transfer, MayStart, belief, server, capabilities
<1>3. JobOK(bug, job)' /\ InStep'
  BY DEF SInv, InStep, Transfer, MayStart, server
<1>4. TypeKnown' /\ MarkerKnown'
  BY NoCommandIs DEF SInv, TypeKnown, MarkerKnown, Transfer, MayStart, server, belief
<1>5. Learned' /\ RanAsMeant'
  BY DEF SInv, Learned, ResumeBugIsReal, RanAsMeant, Transfer, server, capabilities
<1> QED BY <1>1, <1>2, <1>3, <1>4, <1>5, SessionHalves DEF SInv

(* Nothing is transferred: only the record of what has ended changes. *)
LEMMA NoTransferOK ==
    ASSUME SInv, MayStart, NEW j \in Jobs, NEW complete \in BOOLEAN, NoTransfer(j, complete),
           UNCHANGED <<belief, server, ran>>
    PROVE  SInv'
<1>1. SessionFlags'
  BY SessionHalves DEF SInv, SessionFlags, NoTransfer, belief, server
<1>2. SessionData'
  BY SessionHalves, SizesAssumption, NoJobOK
     DEF SInv, SessionData, CommandOK, NoTransfer, MayStart, belief, server, capabilities
<1>3. JobOK(bug, job)' /\ InStep'
  BY NoJobOK DEF SInv, InStep, NoTransfer, MayStart, server
<1>4. TypeKnown' /\ MarkerKnown'
  BY NoCommandIs DEF SInv, TypeKnown, MarkerKnown, NoTransfer, MayStart, server, belief
<1>5. Learned' /\ RanAsMeant'
  BY DEF SInv, Learned, ResumeBugIsReal, RanAsMeant, NoTransfer, server, capabilities
<1> QED BY <1>1, <1>2, <1>3, <1>4, <1>5, SessionHalves DEF SInv

(* A listing has no offset. *)
LEMMA ListOK == ASSUME SInv, List PROVE SInv'
<1>1. PICK b \in {0, 1} : Transfer([NoJob EXCEPT !.binary = b])
  BY DEF List
<1> DEFINE j == [NoJob EXCEPT !.binary = b]
<1>2. /\ j.verb = NoJob.verb /\ j.offset = NoJob.offset /\ j.local = NoJob.local
      /\ j.remote = NoJob.remote /\ j.test = NoJob.test
      /\ j \in Jobs
  BY NoJobOK DEF Jobs
<1>3. NoJob.verb = "LIST" /\ NoJob.offset = 0 /\ NoJob.remote = 0 /\ NoJob.test = FALSE
  BY DEF NoJob
<1>4. JobOK(bug, j)
  BY <1>2, <1>3 DEF JobOK
<1> HIDE DEF j
<1> QED BY <1>1, <1>2, <1>4, TransferOK DEF List, j

(* An upload resumes only at the end of the remote file; its offset is not *)
(* a matter of the resume test.                                            *)
LEMMA UploadOK == ASSUME SInv, Upload, SizeUnknown = FALSE PROVE SInv'
<1>1. PICK b \in {0, 1}, resume \in BOOLEAN, local \in 0..MaxSize, remote \in RemoteSizes :
         LET from == IF resume /\ remote > 0 THEN remote ELSE 0
             j == [verb |-> IF from # 0 /\ ~restKnown THEN "APPE" ELSE "STOR", binary |-> b,
                   offset |-> from, local |-> local, remote |-> remote, test |-> FALSE]
         IN  IF from # 0 /\ from >= local /\ b = 1 THEN NoTransfer(j, TRUE) ELSE Transfer(j)
  BY DEF Upload
<1> DEFINE from == IF resume /\ remote > 0 THEN remote ELSE 0
           v == IF from # 0 /\ ~restKnown THEN "APPE" ELSE "STOR"
           j == [verb |-> v, binary |-> b,
                 offset |-> from, local |-> local, remote |-> remote, test |-> FALSE]
<1>2. remote \in 0..MaxSize /\ from \in 0..MaxSize /\ v \in {"APPE", "STOR"}
  BY SizesAssumption DEF RemoteSizes
<1>3. NoTransfer(j, TRUE) \/ Transfer(j)
  BY <1>1
<1>4. /\ j.verb = v /\ j.offset = from /\ j.remote = remote /\ j.test = FALSE
      /\ j \in Jobs
  <2> HIDE DEF from, v
  <2> QED BY <1>2, SizesAssumption DEF Jobs, NoSize
<1> HIDE DEF j, from, v
<1>5. JobOK(bug, j)
  BY <1>2, <1>4 DEF JobOK
<1> QED BY <1>3, <1>4, <1>5, TransferOK, NoTransferOK DEF Upload

(* What TestResumeCapability decides about a file: nothing is transferred; *)
(* or a test is made of a file larger than the limit and the local one; or *)
(* the transfer starts at once, because the file is below the limits or    *)
(* the server has passed the test, unless the remote file is the smaller   *)
(* one.                                                                    *)
LEMMA TestResumeCapabilityIs ==
    ASSUME NEW j \in Jobs, j.remote >= 0, TestResumeCapability(j)
    PROVE  \/ \E complete \in BOOLEAN : NoTransfer(j, complete)
           \/ /\ Transfer([j EXCEPT !.offset = j.remote - 1, !.test = TRUE])
              /\ TwoGB <= j.local /\ j.local < j.remote
           \/ /\ Transfer(j)
              /\ j.remote > j.local =>
                    /\ j.local < FourGB \/ resume4GBbug = "no"
                    /\ j.local < TwoGB \/ resume2GBbug = "no"
<1> DEFINE test == [j EXCEPT !.offset = TestOffset(j.remote), !.test = TRUE]
<1>0. j.remote \in Nat /\ j.local \in Nat /\ TwoGB \in Nat /\ FourGB = 2 * TwoGB
  BY SizesAssumption DEF Jobs, NoSize
<1>1. SizesMatch(j.remote, j.local) \in BOOLEAN
  BY DEF SizesMatch
<1>2. SizesMatch(j.remote, j.local) <=> j.remote = j.local
  BY <1>0 DEF SizesMatch, Unsigned
<1>3. Unsigned(j.remote) = j.remote
  BY <1>0 DEF Unsigned
<1>4. test = [j EXCEPT !.offset = j.remote - 1, !.test = TRUE]
  BY DEF TestOffset
<1> HIDE DEF test
<1>5. ASSUME NEW capability, capability = "yes" \/ j.remote >= j.local, TwoGB <= j.local,
             IF capability = "yes" \/ SizesMatch(j.remote, j.local)
             THEN NoTransfer(j, SizesMatch(j.remote, j.local)) ELSE Transfer(test)
      PROVE  \/ \E complete \in BOOLEAN : NoTransfer(j, complete)
             \/ Transfer(test) /\ TwoGB <= j.local /\ j.local < j.remote
  <2>1. CASE capability = "yes" \/ SizesMatch(j.remote, j.local)
    BY <1>1, <1>5, <2>1
  <2>2. CASE ~(capability = "yes" \/ SizesMatch(j.remote, j.local))
    BY <1>0, <1>2, <1>5, <2>2
  <2> QED BY <2>1, <2>2
<1> DEFINE D4 == Decides(FourGB, j.local, resume4GBbug) /\ (resume4GBbug = "yes" \/ Unsigned(j.remote) >= j.local)
           D2 == Decides(TwoGB, j.local, resume2GBbug) /\ (resume2GBbug = "yes" \/ Unsigned(j.remote) >= j.local)
<1>6. CASE D4
  <2>1. IF resume4GBbug = "yes" \/ SizesMatch(j.remote, j.local)
        THEN NoTransfer(j, SizesMatch(j.remote, j.local)) ELSE Transfer(test)
    BY <1>6 DEF TestResumeCapability, test
  <2>2. TwoGB <= j.local
    BY <1>0, <1>6 DEF Decides
  <2> QED BY <1>3, <1>4, <1>5, <1>6, <2>1, <2>2
<1>7. CASE ~D4 /\ D2
  <2>1. IF resume2GBbug = "yes" \/ SizesMatch(j.remote, j.local)
        THEN NoTransfer(j, SizesMatch(j.remote, j.local)) ELSE Transfer(test)
    BY <1>7 DEF TestResumeCapability, test
  <2>2. TwoGB <= j.local
    BY <1>0, <1>7 DEF Decides
  <2> QED BY <1>3, <1>4, <1>5, <1>7, <2>1, <2>2
<1>8. CASE ~D4 /\ ~D2
  <2>1. Transfer(j)
    BY <1>8 DEF TestResumeCapability
  <2>2. j.remote > j.local =>
            /\ j.local < FourGB \/ resume4GBbug = "no"
            /\ j.local < TwoGB \/ resume2GBbug = "no"
    BY <1>0, <1>3, <1>8 DEF Decides
  <2> QED BY <2>1, <2>2
<1> QED BY <1>6, <1>7, <1>8

(* A download starts with an offset the server does not mistake, or with a *)
(* test.                                                                   *)
LEMMA DownloadOK == ASSUME SInv, Download, SizeUnknown = FALSE PROVE SInv'
<1>0. MayStart /\ UNCHANGED <<belief, server, ran>>
  BY DEF Download
<1>1. PICK b \in {0, 1}, resume \in BOOLEAN, local \in 0..NoSize, remote \in RemoteSizes :
          LET j == [verb |-> "RETR", binary |-> b, local |-> IF resume THEN local ELSE 0, remote |-> remote,
                    offset |-> IF resume THEN ResumeOffset(local) ELSE 0, test |-> FALSE]
          IN  IF resume THEN TestResumeCapability(j) ELSE Transfer(j)
  BY DEF Download
<1> DEFINE from == IF resume THEN ResumeOffset(local) ELSE 0
           size == IF resume THEN local ELSE 0
           j == [verb |-> "RETR", binary |-> b, local |-> size, remote |-> remote,
                 offset |-> from, test |-> FALSE]
<1>2. remote \in 0..MaxSize /\ size \in 0..NoSize /\ from \in 0..MaxSize
      /\ (from = size \/ size = NoSize) /\ (~resume => from = 0)
  BY SizesAssumption DEF RemoteSizes, ResumeOffset, NoSize
<1>3. IF resume THEN TestResumeCapability(j) ELSE Transfer(j)
  BY <1>1
<1>4. /\ j.verb = "RETR" /\ j.offset = from /\ j.remote = remote /\ j.local = size /\ j.test = FALSE
      /\ j \in Jobs
  <2> HIDE DEF from, size
  <2> QED BY <1>2, SizesAssumption DEF Jobs, NoSize
<1> HIDE DEF j, from, size
<1>5. bug \in {"none", "2GB", "4GB"} /\ TwoGB \in Nat \ {0} /\ FourGB = 2 * TwoGB /\ MaxSize \in Nat
  BY SizesAssumption DEF SInv, SessionTypeOK
<1>6. CASE ~resume
  <2>1. JobOK(bug, j)
    BY <1>2, <1>4, <1>5, <1>6, EffBounds DEF JobOK
  <2> QED BY <1>0, <1>3, <1>4, <1>6, <2>1, TransferOK
<1>7. CASE resume
  <2>1. TestResumeCapability(j) /\ j.remote >= 0
    BY <1>2, <1>3, <1>4, <1>7
  <2>2. CASE \E complete \in BOOLEAN : NoTransfer(j, complete)
    BY <1>0, <1>4, <2>2, NoTransferOK
  <2>3. CASE /\ Transfer([j EXCEPT !.offset = j.remote - 1, !.test = TRUE])
             /\ TwoGB <= j.local /\ j.local < j.remote
    <3> DEFINE t == [j EXCEPT !.offset = j.remote - 1, !.test = TRUE]
    <3>1. j.remote - 1 \in -2..MaxSize
      BY <1>2, <1>4, <1>5
    <3>2. /\ t.verb = j.verb /\ t.offset = j.remote - 1 /\ t.local = j.local
          /\ t.remote = j.remote /\ t.test = TRUE
          /\ t \in Jobs
      BY <1>4, <3>1 DEF Jobs
    <3> HIDE DEF t
    <3>3. JobOK(bug, t)
      BY <1>2, <1>4, <1>5, <2>3, <3>2 DEF JobOK, NoSize
    <3> QED BY <1>0, <2>3, <3>2, <3>3, TransferOK DEF t
  <2>4. CASE /\ Transfer(j)
             /\ j.remote > j.local =>
                    /\ j.local < FourGB \/ resume4GBbug = "no"
                    /\ j.local < TwoGB \/ resume2GBbug = "no"
    <3>1. remote > size => Eff(bug, from) = from
      <4> SUFFICES ASSUME remote > size PROVE Eff(bug, from) = from
        OBVIOUS
      <4>1. from = size /\ from \in Nat
        BY <1>2, <1>5 DEF NoSize
      <4>2. /\ from < FourGB \/ bug = "none"
            /\ from < TwoGB \/ bug # "2GB"
        BY <1>4, <2>4, <4>1 DEF SInv, Learned
      <4> QED BY <1>5, <4>1, <4>2, EffBounds
    <3>2. JobOK(bug, j)
      BY <1>2, <1>4, <3>1 DEF JobOK
    <3> QED BY <1>0, <1>4, <2>4, <3>2, TransferOK
  <2> QED BY <1>4, <2>1, <2>2, <2>3, <2>4, TestResumeCapabilityIs
<1> QED BY <1>6, <1>7

-------------------------------------------------------------------------------
(***************************************************************************)
(* Commands                                                                *)
(***************************************************************************)

(* After a raw command the type is unknown. *)
LEMMA RawCommandOK == ASSUME SInv, RawCommand PROVE SInv'
<1>1. SessionFlags'
  BY SessionHalves DEF SInv, SessionFlags, RawCommand, MayStart, capabilities, server
<1>2. SessionData'
  BY SessionHalves, SizesAssumption, NoJobOK DEF SInv, SessionData, CommandOK, Jobs, RawCommand, MayStart, capabilities, server
<1>3. JobOK(bug, job)' /\ InStep'
  BY NoCommandIs, NoJobOK DEF SInv, InStep, RawCommand, MayStart, capabilities, server
<1>4. TypeKnown' /\ MarkerKnown'
  BY NoCommandIs, SizesAssumption DEF SInv, SessionTypeOK, TypeKnown, MarkerKnown, InStep, RawCommand, MayStart, capabilities, server
<1>5. Learned' /\ RanAsMeant'
  BY DEF SInv, Learned, ResumeBugIsReal, RanAsMeant, RawCommand, MayStart, capabilities, server
<1> QED BY <1>1, <1>2, <1>3, <1>4, <1>5, SessionHalves DEF SInv

(* The TYPE of a keep-alive is the type that is believed. *)
LEMMA SendKeepAliveOK == ASSUME SInv, SendKeepAlive PROVE SInv'
<1>1. SessionFlags'
  BY SessionHalves DEF SInv, SessionFlags, SendKeepAlive, belief, capabilities, server
<1>2. SessionData'
  BY SessionHalves, SizesAssumption, NoJobOK DEF SInv, SessionData, CommandOK, Jobs, SendKeepAlive, belief, capabilities, server
<1>3. JobOK(bug, job)' /\ InStep'
  BY NoCommandIs, NoJobOK DEF SInv, InStep, SendKeepAlive, belief, capabilities, server
<1>4. TypeKnown' /\ MarkerKnown'
  BY NoCommandIs, SizesAssumption DEF SInv, SessionTypeOK, TypeKnown, MarkerKnown, InStep, SendKeepAlive, belief, capabilities, server
<1>5. Learned' /\ RanAsMeant'
  BY DEF SInv, Learned, ResumeBugIsReal, RanAsMeant, SendKeepAlive, belief, capabilities, server
<1> QED BY <1>1, <1>2, <1>3, <1>4, <1>5, SessionHalves DEF SInv

(* A type that is known and right need not be sent. *)
LEMMA SendInitOK == ASSUME SInv, SendInit PROVE SInv'
<1>1. SessionFlags'
  BY SessionHalves DEF SInv, SessionFlags, SendInit, MaySend, belief, capabilities, server
<1>2. SessionData'
  BY SessionHalves, SizesAssumption, NoJobOK DEF SInv, SessionData, CommandOK, Jobs, SendInit, MaySend, belief, capabilities, server
<1>3. JobOK(bug, job)' /\ InStep'
  BY NoCommandIs, NoJobOK DEF SInv, InStep, SendInit, MaySend, belief, capabilities, server
<1>4. TypeKnown' /\ MarkerKnown'
  BY NoCommandIs, SizesAssumption DEF SInv, SessionTypeOK, TypeKnown, MarkerKnown, InStep, SendInit, MaySend, belief, capabilities, server
<1>5. Learned' /\ RanAsMeant'
  BY DEF SInv, Learned, ResumeBugIsReal, RanAsMeant, SendInit, MaySend, belief, capabilities, server
<1> QED BY <1>1, <1>2, <1>3, <1>4, <1>5, SessionHalves DEF SInv

(* While TYPE is under way the type is unknown. *)
LEMMA SendTypeOK == ASSUME SInv, SendType PROVE SInv'
<1>1. SessionFlags'
  BY SessionHalves DEF SInv, SessionFlags, SendType, MaySend, ForgetType, capabilities, server
<1>2. SessionData'
  BY SessionHalves, SizesAssumption, NoJobOK DEF SInv, SessionData, CommandOK, Jobs, SendType, MaySend, ForgetType, capabilities, server
<1>3. JobOK(bug, job)' /\ InStep'
  BY NoCommandIs, NoJobOK DEF SInv, InStep, SendType, MaySend, ForgetType, capabilities, server
<1>4. TypeKnown' /\ MarkerKnown'
  BY NoCommandIs, SizesAssumption DEF SInv, SessionTypeOK, TypeKnown, MarkerKnown, InStep, SendType, MaySend, ForgetType, capabilities, server
<1>5. Learned' /\ RanAsMeant'
  BY DEF SInv, Learned, ResumeBugIsReal, RanAsMeant, SendType, MaySend, ForgetType, capabilities, server
<1> QED BY <1>1, <1>2, <1>3, <1>4, <1>5, SessionHalves DEF SInv

(* PASV changes nothing that is remembered. *)
LEMMA SendPasvOK == ASSUME SInv, SendPasv PROVE SInv'
<1>1. SessionFlags'
  BY SessionHalves DEF SInv, SessionFlags, SendPasv, MaySend, belief, capabilities, server
<1>2. SessionData'
  BY SessionHalves, SizesAssumption, NoJobOK DEF SInv, SessionData, CommandOK, Jobs, SendPasv, MaySend, belief, capabilities, server
<1>3. JobOK(bug, job)' /\ InStep'
  BY NoCommandIs, NoJobOK DEF SInv, InStep, SendPasv, MaySend, belief, capabilities, server
<1>4. TypeKnown' /\ MarkerKnown'
  BY NoCommandIs, SizesAssumption DEF SInv, SessionTypeOK, TypeKnown, MarkerKnown, InStep, SendPasv, MaySend, belief, capabilities, server
<1>5. Learned' /\ RanAsMeant'
  BY DEF SInv, Learned, ResumeBugIsReal, RanAsMeant, SendPasv, MaySend, belief, capabilities, server
<1> QED BY <1>1, <1>2, <1>3, <1>4, <1>5, SessionHalves DEF SInv

(* A marker is noted before it is sent. *)
LEMMA SendRestOK == ASSUME SInv, SendRest PROVE SInv'
<1>1. SessionFlags'
  BY SessionHalves DEF SInv, SessionFlags, SendRest, MaySend, NoteRestart, JobOK, capabilities, server
<1>2. SessionData'
  BY SessionHalves, SizesAssumption, NoJobOK DEF SInv, SessionData, CommandOK, Jobs, SendRest, MaySend, NoteRestart, JobOK, capabilities, server
<1>3. JobOK(bug, job)' /\ InStep'
  BY NoCommandIs, NoJobOK DEF SInv, InStep, SendRest, MaySend, NoteRestart, JobOK, capabilities, server
<1>4. TypeKnown' /\ MarkerKnown'
  <2>1. job.offset \in Nat
    BY SizesAssumption DEF SInv, SessionTypeOK, Jobs, JobOK
  <2>2. cmd'[1] = "REST" /\ cmd'[2] = job.offset
    BY DEF SendRest
  <2>3. (marker # 0 => sentRestart') /\ (job.offset # 0 => sentRestart')
    <3>1. job.offset # 0 => job.offset > 0
      BY <2>1
    <3>2. sentRestart' = (sentRestart \/ job.offset > 0)
      BY DEF SendRest, NoteRestart
    <3>3. marker # 0 => sentRestart
      BY DEF SInv, MarkerKnown
    <3> QED BY <3>1, <3>2, <3>3, Zenon
  <2>4. /\ op' = "rest" /\ op = "rest"
        /\ UNCHANGED <<lastType, job, serverType, marker, restStream, bug>>
    BY DEF SendRest, MaySend, server
  <2>5. TypeKnown'
    BY <2>2, <2>4 DEF SInv, TypeKnown
  <2>6. MarkerKnown'
    BY <2>1, <2>2, <2>3, <2>4 DEF SInv, MarkerKnown
  <2> QED BY <2>5, <2>6
<1>5. Learned' /\ RanAsMeant'
  BY DEF SInv, Learned, ResumeBugIsReal, RanAsMeant, SendRest, MaySend, NoteRestart, JobOK, capabilities, server
<1> QED BY <1>1, <1>2, <1>3, <1>4, <1>5, SessionHalves DEF SInv

(* The transfer command finds its type and its marker. *)
LEMMA SendTransferOK == ASSUME SInv, SendTransfer PROVE SInv'
<1>1. SessionFlags'
  BY SessionHalves DEF SInv, SessionFlags, SendTransfer, MaySend, belief, capabilities, server
<1>2. SessionData'
  BY SessionHalves, SizesAssumption, NoJobOK DEF SInv, SessionData, CommandOK, Jobs, SendTransfer, MaySend, belief, capabilities, server
<1>3. JobOK(bug, job)' /\ InStep'
  BY NoCommandIs, NoJobOK DEF SInv, InStep, SendTransfer, MaySend, belief, capabilities, server
<1>4. TypeKnown' /\ MarkerKnown'
  <2>1. cmd'[1] = "TRANSFER" /\ cmd'[2] = job
    BY DEF SendTransfer
  <2>2. /\ op' = "transfer" /\ op = "transfer"
        /\ UNCHANGED <<lastType, sentRestart, job, serverType, marker, restStream, bug>>
    BY DEF SendTransfer, MaySend, belief, server
  <2>3. job.binary # -1
    BY DEF SInv, SessionTypeOK, Jobs
  <2>4. TypeKnown'
    BY <2>1, <2>2, <2>3 DEF SInv, TypeKnown
  <2>5. MarkerKnown'
    BY <2>1, <2>2 DEF SInv, MarkerKnown
  <2> QED BY <2>4, <2>5
<1>5. Learned' /\ RanAsMeant'
  BY DEF SInv, Learned, ResumeBugIsReal, RanAsMeant, SendTransfer, MaySend, belief, capabilities, server
<1> QED BY <1>1, <1>2, <1>3, <1>4, <1>5, SessionHalves DEF SInv

(* A cancel leaves what is believed, and the command under way. *)
LEMMA CancelTransferOK == ASSUME SInv, CancelTransfer PROVE SInv'
<1>1. SessionFlags'
  BY SessionHalves DEF SInv, SessionFlags, CancelTransfer, Finish, belief, capabilities, server
<1>2. SessionData'
  BY SessionHalves, SizesAssumption, NoJobOK DEF SInv, SessionData, CommandOK, Jobs, CancelTransfer, Finish, belief, capabilities, server
<1>3. JobOK(bug, job)' /\ InStep'
  BY NoCommandIs, NoJobOK DEF SInv, InStep, CancelTransfer, Finish, belief, capabilities, server
<1>4. TypeKnown' /\ MarkerKnown'
  BY NoCommandIs, SizesAssumption DEF SInv, SessionTypeOK, TypeKnown, MarkerKnown, InStep, CancelTransfer, Finish, belief, capabilities, server
<1>5. Learned' /\ RanAsMeant'
  BY DEF SInv, Learned, ResumeBugIsReal, RanAsMeant, CancelTransfer, Finish, belief, capabilities, server
<1> QED BY <1>1, <1>2, <1>3, <1>4, <1>5, SessionHalves DEF SInv

(* A new connection starts without type and marker. *)
LEMMA ReconnectOK == ASSUME SInv, Reconnect PROVE SInv'
<1>1. SessionFlags'
  BY SessionHalves DEF SInv, SessionFlags, Reconnect, Finish, capabilities
<1>2. SessionData'
  BY SessionHalves, SizesAssumption, NoJobOK DEF SInv, SessionData, CommandOK, Jobs, Reconnect, Finish, capabilities
<1>3. JobOK(bug, job)' /\ InStep'
  BY NoCommandIs, NoJobOK DEF SInv, InStep, Reconnect, Finish, capabilities
<1>4. TypeKnown' /\ MarkerKnown'
  BY NoCommandIs, SizesAssumption DEF SInv, SessionTypeOK, TypeKnown, MarkerKnown, InStep, Reconnect, Finish, capabilities
<1>5. Learned' /\ RanAsMeant'
  BY DEF SInv, Learned, ResumeBugIsReal, RanAsMeant, Reconnect, Finish, capabilities
<1> QED BY <1>1, <1>2, <1>3, <1>4, <1>5, SessionHalves DEF SInv

-------------------------------------------------------------------------------
(***************************************************************************)
(* Replies                                                                 *)
(***************************************************************************)

(* What the server makes of the command under way *)
Served(accepts) ==
    /\ UNCHANGED <<restStream, restKnown, bug>>
    /\ serverType' \in {0, 1} /\ marker' \in 0..MaxSize
    /\ ran'.job \in Jobs /\ ran'.type \in {0, 1} /\ ran'.from \in 0..MaxSize
    /\ RanAsMeant'
    /\ lastType # -1 => serverType' = lastType
    /\ cmd[1] = "TYPE" /\ accepts => serverType' = cmd[2]
    /\ cmd[1] \in {"PASV", "REST"} => serverType' = serverType
    /\ marker' # 0 => sentRestart /\ restStream
    /\ cmd[1] = "REST" /\ accepts => marker' = Eff(bug, cmd[2])
    /\ cmd[1] = "REST" /\ ~accepts /\ cmd[2] = 0 => marker' = 0
    /\ cmd[1] \in {"TYPE", "PASV", "RAW"} => marker' = marker

(* A transfer runs in the type and from the marker the client relies on. *)
LEMMA ServeOK ==
    ASSUME SInv, cmd # NoCommand, NEW accepts \in BOOLEAN, Serve(accepts)
    PROVE  Served(accepts)
<1>0. UNCHANGED <<restStream, restKnown, bug>>
  BY DEF Serve
<1>1. bug \in {"none", "2GB", "4GB"} /\ MaxSize \in Nat /\ serverType \in {0, 1} /\ marker \in 0..MaxSize
      /\ ran.job \in Jobs /\ ran.type \in {0, 1} /\ ran.from \in 0..MaxSize
  BY SizesAssumption DEF SInv, SessionTypeOK
<1>2. RanAsMeant /\ (marker # 0 => sentRestart /\ restStream)
      /\ (lastType # -1 => serverType = lastType)
  BY DEF SInv, MarkerKnown, TypeKnown
<1>3. CASE cmd[1] = "TYPE"
  <2>1. serverType' = (IF accepts THEN cmd[2] ELSE serverType) /\ marker' = marker /\ ran' = ran
    BY <1>3 DEF Serve
  <2>2. cmd[2] \in {0, 1} /\ (lastType # -1 => cmd[2] = lastType)
    BY <1>3, NoCommandIs DEF SInv, SessionTypeOK, TypeKnown
  <2>3. RanAsMeant'
    BY <1>0, <1>2, <2>1 DEF RanAsMeant
  <2> QED BY <1>0, <1>1, <1>2, <1>3, <2>1, <2>2, <2>3 DEF Served
<1>4. CASE cmd[1] = "REST"
  <2>1. /\ accepts => restStream /\ marker' = Effective(cmd[2])
        /\ ~accepts => (~restStream \/ cmd[2] # 0) /\ marker' = marker
        /\ serverType' = serverType /\ ran' = ran
    BY <1>4 DEF Serve
  <2>2. cmd[2] \in 0..MaxSize /\ (cmd[2] # 0 => sentRestart)
    BY <1>1, <1>4, NoCommandIs DEF SInv, SessionTypeOK, MarkerKnown
  <2>3. accepts => marker' = Eff(bug, cmd[2])
    BY <2>1, EffectiveIs
  <2>4. Eff(bug, cmd[2]) \in 0..cmd[2]
    BY <1>1, <2>2, EffBounds
  <2>5. marker' \in 0..MaxSize
    BY <1>1, <2>1, <2>2, <2>3, <2>4
  <2>6. marker' # 0 => sentRestart /\ restStream
    <3>1. CASE accepts
      BY <1>1, <2>1, <2>2, <2>3, <2>4, <3>1
    <3>2. CASE ~accepts
      BY <1>2, <2>1, <3>2
    <3> QED BY <3>1, <3>2
  <2>7. ~accepts /\ cmd[2] = 0 => marker' = 0
    BY <1>2, <2>1
  <2>8. RanAsMeant'
    BY <1>0, <1>2, <2>1 DEF RanAsMeant
  <2> QED BY <1>0, <1>1, <1>2, <1>4, <2>1, <2>3, <2>5, <2>6, <2>7, <2>8 DEF Served
<1>5. CASE cmd[1] = "TRANSFER"
  <2>1. /\ marker' \in {0, marker}
        /\ ran' = IF accepts THEN [job |-> cmd[2], type |-> serverType, from |-> marker] ELSE ran
        /\ serverType' = serverType
    BY <1>5 DEF Serve
  <2>2. /\ cmd[2] \in Jobs /\ serverType = cmd[2].binary
        /\ marker = Eff(bug, cmd[2].offset) /\ JobOK(bug, cmd[2])
    BY <1>5, NoCommandIs DEF SInv, SessionTypeOK, TypeKnown, MarkerKnown
  <2>3. /\ ran'.job \in Jobs /\ ran'.type \in {0, 1} /\ ran'.from \in 0..MaxSize
        /\ RanAsMeant'
    BY <1>0, <1>1, <1>2, <2>1, <2>2 DEF RanAsMeant
  <2>4. marker' \in 0..MaxSize /\ (marker' # 0 => sentRestart /\ restStream)
    BY <1>1, <1>2, <2>1
  <2> QED BY <1>0, <1>1, <1>2, <1>5, <2>1, <2>3, <2>4 DEF Served
<1>6. CASE cmd[1] = "RAW"
  <2>1. serverType' \in {0, 1} /\ marker' = marker /\ ran' = ran
    BY <1>6 DEF Serve
  <2>2. lastType = -1
    BY <1>6 DEF SInv, TypeKnown
  <2>3. RanAsMeant'
    BY <1>0, <1>2, <2>1 DEF RanAsMeant
  <2> QED BY <1>0, <1>1, <1>2, <1>6, <2>1, <2>2, <2>3 DEF Served
<1>7. CASE cmd[1] \notin {"TYPE", "REST", "TRANSFER", "RAW"}
  <2>1. serverType' = serverType /\ marker' = marker /\ ran' = ran
    BY <1>7 DEF Serve
  <2>2. RanAsMeant'
    BY <1>0, <1>2, <2>1 DEF RanAsMeant
  <2> QED BY <1>0, <1>1, <1>2, <1>7, <2>1, <2>2 DEF Served
<1> QED BY <1>3, <1>4, <1>5, <1>6, <1>7

(* What a reply leaves behind if the operation then is in a state o with a *)
(* job j and the client believes l and r                                   *)
LEMMA ReplyFrame ==
    ASSUME SInv, NEW accepts \in BOOLEAN, Served(accepts),
           cmd' = NoCommand, skip' = FALSE, UNCHANGED <<ended, commands>>,
           lastType' \in {-1, 0, 1}, sentRestart' \in BOOLEAN,
           resume2GBbug' \in {"unknown", "yes", "no"}, resume4GBbug' \in {"unknown", "yes", "no"},
           op' \in {"none", "init", "port_pasv", "rest", "transfer"}, job' \in Jobs,
           JobOK(bug, job'), Learned',
           lastType' # -1 => serverType' = lastType',
           op' \in {"port_pasv", "rest", "transfer"} => lastType' = job'.binary,
           marker' # 0 => sentRestart' /\ restStream,
           op' = "transfer" => marker' = Eff(bug, job'.offset)
    PROVE  SInv'
<1>1. SessionFlags'
  BY SessionHalves DEF SInv, SessionFlags, Served
<1>2. SessionData'
  BY SessionHalves DEF SInv, SessionData, CommandOK, Served
<1>3. JobOK(bug, job)' /\ InStep'
  BY DEF Served, InStep
<1>4. TypeKnown' /\ MarkerKnown'
  BY NoCommandIs DEF Served, TypeKnown, MarkerKnown
<1>5. RanAsMeant'
  BY DEF Served
<1> QED BY <1>1, <1>2, <1>3, <1>4, <1>5, SessionHalves DEF SInv

(* Effective offset zero *)
LEMMA EffZero == ASSUME NEW b \in {"none", "2GB", "4GB"} PROVE Eff(b, 0) = 0
BY EffBounds, SizesAssumption

(* A resume test that is passed shows that the server does not mistake the *)
(* offset of the local file; one that is failed, that it has the bug.      *)
LEMMA AfterTestOK ==
    ASSUME SizeUnknown = FALSE, SInv, op = "transfer", job.test, NEW good \in Passes, AfterTest(good)
    PROVE  /\ resume2GBbug' \in {"unknown", "yes", "no"} /\ resume4GBbug' \in {"unknown", "yes", "no"}
           /\ op' \in {"none", "init"} /\ job' \in Jobs
           /\ JobOK(bug, job') /\ (UNCHANGED bug => Learned')
<1>1. /\ TwoGB \in Nat \ {0} /\ FourGB = 2 * TwoGB /\ MaxSize \in Nat
      /\ bug \in {"none", "2GB", "4GB"}
      /\ resume2GBbug \in {"unknown", "yes", "no"} /\ resume4GBbug \in {"unknown", "yes", "no"}
      /\ job \in Jobs /\ marker \in 0..MaxSize
  BY SizesAssumption DEF SInv, SessionTypeOK
<1>2. /\ job.verb = "RETR" /\ TwoGB <= job.local /\ job.local < job.remote
      /\ job.offset = job.remote - 1 /\ marker = Eff(bug, job.offset)
  BY DEF SInv, JobOK, MarkerKnown
<1>3. job.local \in Nat /\ job.remote \in 0..MaxSize /\ job.offset \in Nat
  BY <1>1, <1>2 DEF Jobs, NoSize
<1>4. good \in BOOLEAN /\ (good <=> Eff(bug, job.offset) = job.offset)
  <2>1. good = (job.remote - marker = 1)
    BY <1>1, <1>3 DEF Passes
  <2>2. (job.remote - marker = 1) <=> marker = job.offset
    BY <1>1, <1>2, <1>3
  <2> QED BY <1>2, <2>1, <2>2, Zenon
<1>5. CASE good
  <2> DEFINE j == [job EXCEPT !.test = FALSE, !.offset = ResumeOffset(job.local)]
  <2>1. op' = "init" /\ job' = j
    BY <1>5 DEF AfterTest
  <2>2. ResumeOffset(job.local) = job.local /\ job.local \in 0..MaxSize
    BY <1>1, <1>2, <1>3 DEF ResumeOffset, NoSize
  <2>3. j.test = FALSE /\ j.offset = job.local /\ j.verb = "RETR" /\ j.remote = job.remote
        /\ j.local = job.local /\ j \in Jobs
    <3> DEFINE from == ResumeOffset(job.local)
    <3> HIDE DEF from
    <3>1. from \in -2..MaxSize /\ from = job.local
      BY <1>1, <2>2 DEF from
    <3>2. j = [job EXCEPT !.test = FALSE, !.offset = from]
      BY DEF j, from
    <3> HIDE DEF j
    <3> QED BY <1>1, <1>2, <3>1, <3>2 DEF Jobs
  <2> HIDE DEF j
  <2>4. bug = "none" \/ (bug = "4GB" /\ job.offset < FourGB)
    BY <1>1, <1>2, <1>3, <1>4, <1>5, EffBounds
  <2>5. Eff(bug, job.local) = job.local
    BY <1>1, <1>2, <1>3, <2>4, EffBounds
  <2>6. JobOK(bug, j)
    BY <1>3, <2>3, <2>5 DEF JobOK
  <2>7. job.local > FourGB => bug = "none"
    BY <1>1, <1>2, <1>3, <2>4
  <2>8. IF job.local > FourGB THEN resume4GBbug' = "no" /\ resume2GBbug' = resume2GBbug
                              ELSE resume2GBbug' = "no" /\ resume4GBbug' = resume4GBbug
    BY <1>5 DEF AfterTest
  <2>9. UNCHANGED bug => Learned'
    BY <2>4, <2>7, <2>8 DEF SInv, Learned, ResumeBugIsReal
  <2> QED BY <1>1, <2>1, <2>3, <2>6, <2>8, <2>9
<1>6. CASE ~good
  <2>1. op' = "none" /\ job' = NoJob
    BY <1>6 DEF AfterTest, Finish
  <2>2. bug # "none"
    BY <1>1, <1>3, <1>4, <1>6, EffBounds
  <2>3. IF job.local > FourGB THEN resume4GBbug' = "yes" /\ resume2GBbug' = resume2GBbug
                              ELSE resume2GBbug' = "yes" /\ resume4GBbug' = resume4GBbug
    BY <1>6 DEF AfterTest
  <2>4. UNCHANGED bug => Learned'
    BY <2>2, <2>3 DEF SInv, Learned, ResumeBugIsReal
  <2> QED BY <1>1, <2>1, <2>3, <2>4, NoJobOK
<1> QED BY <1>4, <1>5, <1>6

(* A reply is taken for what it is: the reply to the command the state of  *)
(* the operation stands for, or one that is skipped.                       *)
LEMMA ReplyComesOK == ASSUME SInv, ReplyComes, SizeUnknown = FALSE PROVE SInv'
<1>1. PICK accepts \in BOOLEAN :
         /\ Serve(accepts)
         /\ IF skip THEN UNCHANGED <<belief, capabilities, op, job>> ELSE ParseResponse(accepts)
  BY DEF ReplyComes
<1>2. cmd # NoCommand /\ cmd' = NoCommand /\ skip' = FALSE /\ UNCHANGED <<ended, commands>>
  BY DEF ReplyComes
<1>3. Served(accepts)
  BY <1>1, <1>2, ServeOK
<1>4. /\ lastType \in {-1, 0, 1} /\ sentRestart \in BOOLEAN /\ skip \in BOOLEAN
      /\ resume2GBbug \in {"unknown", "yes", "no"} /\ resume4GBbug \in {"unknown", "yes", "no"}
      /\ op \in {"none", "raw", "init", "type", "port_pasv", "rest", "transfer"}
      /\ job \in Jobs /\ bug \in {"none", "2GB", "4GB"}
  BY DEF SInv, SessionTypeOK
<1>5. JobOK(bug, job) /\ job.offset \in Nat /\ job.binary \in {0, 1}
  BY <1>4, SizesAssumption DEF SInv, JobOK, Jobs
<1>6. UNCHANGED bug /\ (lastType # -1 => serverType' = lastType) /\ (marker' # 0 => sentRestart /\ restStream)
  BY <1>3 DEF Served
<1>7. UNCHANGED capabilities => Learned'
  BY <1>6 DEF SInv, Learned, ResumeBugIsReal, capabilities
<1>8. ASSUME Finish, UNCHANGED <<belief, capabilities>> PROVE SInv'
  BY <1>2, <1>3, <1>4, <1>6, <1>7, <1>8, NoJobOK, ReplyFrame DEF Finish, belief, capabilities
<1>9. CASE skip
  <2>1. op = "none"
    BY <1>9 DEF SInv, InStep
  <2> QED BY <1>1, <1>2, <1>3, <1>4, <1>5, <1>6, <1>7, <1>9, <2>1, ReplyFrame DEF belief, capabilities
<1>10. CASE ~skip
  <2>1. op # "none" /\ op # "init"
    BY <1>2, <1>10 DEF SInv, InStep
  <2>2. ParseResponse(accepts)
    BY <1>1, <1>10
  <2>3. CASE op = "type"
    <3>1. UNCHANGED <<sentRestart, capabilities>>
      BY <2>2, <2>3 DEF ParseResponse
    <3>2. CASE accepts
      <4>1. lastType' = job.binary /\ op' = "port_pasv" /\ job' = job
        BY <2>2, <2>3, <3>2 DEF ParseResponse
      <4>2. serverType' = job.binary
        BY <1>2, <1>3, <2>3, <3>2 DEF SInv, InStep, Served
      <4> QED BY <1>2, <1>3, <1>4, <1>5, <1>6, <1>7, <3>1, <4>1, <4>2, ReplyFrame DEF capabilities
    <3>3. CASE ~accepts
      BY <1>8, <2>2, <2>3, <3>1, <3>3 DEF ParseResponse, belief
    <3> QED BY <3>2, <3>3
  <2>4. CASE op = "port_pasv"
    <3>1. UNCHANGED <<belief, capabilities>>
      BY <2>2, <2>4 DEF ParseResponse
    <3>2. CASE accepts
      <4>1. op' = (IF job.offset > 0 \/ sentRestart THEN "rest" ELSE "transfer") /\ job' = job
        BY <2>2, <2>4, <3>2 DEF ParseResponse
      <4>2. lastType = job.binary
        BY <2>4 DEF SInv, TypeKnown
      <4>3. op' = "transfer" => marker' = Eff(bug, job.offset)
        <5>1. op' = "transfer" => job.offset = 0 /\ ~sentRestart
          BY <1>5, <4>1
        <5> QED BY <1>4, <1>6, <5>1, EffZero
      <4> QED BY <1>2, <1>3, <1>4, <1>5, <1>6, <1>7, <3>1, <4>1, <4>2, <4>3, ReplyFrame DEF belief, capabilities
    <3>3. CASE ~accepts
      BY <1>8, <2>2, <2>4, <3>1, <3>3 DEF ParseResponse
    <3> QED BY <3>2, <3>3
  <2>5. CASE op = "rest"
    <3>1. UNCHANGED <<lastType, capabilities>> /\ sentRestart' = (sentRestart /\ job.offset > 0)
      BY <2>2, <2>5 DEF ParseResponse
    <3>2. cmd[1] = "REST" /\ cmd[2] = job.offset /\ lastType = job.binary
      BY <1>2, <2>5 DEF SInv, InStep, TypeKnown
    <3>3. job.offset = 0 => marker' = 0
      BY <1>3, <1>4, <3>2, EffZero DEF Served
    <3>4. marker' # 0 => sentRestart' /\ restStream
      <4>1. job.offset = 0 \/ job.offset > 0
        BY <1>5
      <4> QED BY <1>6, <3>1, <3>3, <4>1, Zenon
    <3>5. sentRestart' \in BOOLEAN
      BY <3>1, Zenon
    <3>6. CASE accepts \/ job.offset <= 0
      <4>1. op' = "transfer" /\ job' = job
        BY <2>2, <2>5, <3>6 DEF ParseResponse
      <4>2. marker' = Eff(bug, job.offset)
        <5>1. CASE accepts
          BY <1>3, <3>2, <5>1 DEF Served
        <5>2. CASE job.offset <= 0
          BY <1>4, <1>5, <3>3, <5>2, EffZero
        <5> QED BY <3>6, <5>1, <5>2
      <4> QED BY <1>2, <1>3, <1>4, <1>5, <1>6, <1>7, <3>1, <3>2, <3>4, <3>5, <4>1, <4>2, ReplyFrame DEF capabilities
    <3>7. CASE ~(accepts \/ job.offset <= 0)
      <4>1. op' = "none" /\ job' = NoJob
        BY <2>2, <2>5, <3>7 DEF ParseResponse, Finish
      <4> QED BY <1>2, <1>3, <1>4, <1>6, <1>7, <3>1, <3>4, <3>5, <4>1, NoJobOK, ReplyFrame DEF capabilities
    <3> QED BY <3>6, <3>7
  <2>6. CASE op = "transfer" /\ job.test /\ accepts
    <3>1. PICK good \in Passes : AfterTest(good)
      BY <2>2, <2>6 DEF ParseResponse
    <3>2. UNCHANGED belief
      BY <2>2, <2>6 DEF ParseResponse
    <3>3. /\ resume2GBbug' \in {"unknown", "yes", "no"} /\ resume4GBbug' \in {"unknown", "yes", "no"}
          /\ op' \in {"none", "init"} /\ job' \in Jobs /\ JobOK(bug, job') /\ Learned'
      BY <1>6, <2>6, <3>1, AfterTestOK
    <3> QED BY <1>2, <1>3, <1>4, <1>6, <3>2, <3>3, ReplyFrame DEF belief
  <2>7. CASE op \notin {"type", "port_pasv", "rest"} /\ ~(op = "transfer" /\ job.test /\ accepts)
    BY <1>8, <2>2, <2>7 DEF ParseResponse
  <2> QED BY <2>3, <2>4, <2>5, <2>6, <2>7
<1> QED BY <1>4, <1>9, <1>10

-------------------------------------------------------------------------------
(***************************************************************************)
(* The theorems                                                            *)
(***************************************************************************)

(* A new session: nothing is known, nothing is under way. *)
LEMMA SessionInitOK == SessionInit => SInv
<1> SUFFICES ASSUME SessionInit PROVE SInv
  OBVIOUS
<1>1. bug \in {"none", "2GB", "4GB"} /\ restStream \in BOOLEAN /\ restKnown \in BOOLEAN
  BY SizesAssumption DEF SessionInit
<1>2. SessionFlags /\ SessionData
  <2>1. ran.job \in Jobs /\ ran.type = 0 /\ ran.from = 0
    BY NoJobOK DEF SessionInit
  <2>2. SessionFlags
    BY <1>1 DEF SessionInit, SessionFlags
  <2> QED BY <1>1, <2>1, <2>2, NoJobOK, SizesAssumption DEF SessionInit, SessionData, CommandOK
<1>3. JobOK(bug, job) /\ InStep /\ TypeKnown /\ MarkerKnown
  BY NoJobOK, NoCommandIs DEF SessionInit, InStep, TypeKnown, MarkerKnown
<1>4. NoJob.binary = 0 /\ NoJob.offset = 0
  BY DEF NoJob
<1>5. RanAsMeant /\ Learned
  BY <1>1, <1>4, NoJobOK, EffZero DEF SessionInit, RanAsMeant, Learned, ResumeBugIsReal
<1> QED BY <1>2, <1>3, <1>5, SessionHalves DEF SInv

(* Every step keeps the invariant, if sizes are known. *)
LEMMA SessionNextOK == ASSUME SizeUnknown = FALSE, SInv, [SessionNext]_sessionVars PROVE SInv'
<1>1. CASE UNCHANGED sessionVars
  BY <1>1 DEF sessionVars, belief, capabilities, server, SInv, SessionTypeOK, InStep, TypeKnown, MarkerKnown,
              Learned, ResumeBugIsReal, RanAsMeant
<1>2. CASE SessionNext
  BY <1>2, ListOK, DownloadOK, UploadOK, RawCommandOK, SendKeepAliveOK, SendInitOK, SendTypeOK, SendPasvOK,
     SendRestOK, SendTransferOK, ReplyComesOK, CancelTransferOK, ReconnectOK DEF SessionNext
<1> QED BY <1>1, <1>2

(* The session invariant holds throughout. *)
LEMMA SessionInvariant == ASSUME SizeUnknown = FALSE PROVE SessionSpec => []SInv
<1>1. SInv /\ [SessionNext]_sessionVars => SInv'
  BY SessionNextOK
<1> QED BY SessionInitOK, <1>1, PTL DEF SessionSpec

(* With known sizes a transfer runs in the type and, on a server without   *)
(* bugs, from the offset it was meant for, whatever is cancelled, refused  *)
(* or interrupted before it (rawtransfer.cpp).                             *)
THEOREM TransfersRunAsMeant == ASSUME SizeUnknown = FALSE PROVE SessionSpec => []TransfersAsMeant
<1>1. SInv => TransfersAsMeant
  <2> SUFFICES ASSUME SInv PROVE TransfersAsMeant
    OBVIOUS
  <2>1. bug = "none" => ran.from = ran.job.offset
    BY DEF SInv, RanAsMeant, Eff
  <2> QED BY <2>1 DEF SInv, TypeKnown, RanAsMeant, TransfersAsMeant
<1> QED BY <1>1, SessionInvariant, PTL

(* With known sizes a download that is resumed continues where the local   *)
(* file ends, whatever the server makes of large offsets                   *)
(* (filetransfer.cpp, TestResumeCapability).                               *)
THEOREM DownloadsResumeWhereMeant == ASSUME SizeUnknown = FALSE PROVE SessionSpec => []ResumesWhereMeant
<1>1. SInv => ResumesWhereMeant
  BY DEF SInv, RanAsMeant, JobOK, ResumesWhereMeant
<1> QED BY <1>1, SessionInvariant, PTL

(* With known sizes a server is called unable to resume large files only   *)
(* if it is (filetransfer.cpp, SubcommandResult).                          *)
THEOREM BugsAreReal == ASSUME SizeUnknown = FALSE PROVE SessionSpec => []ResumeBugIsReal
<1>1. SInv => ResumeBugIsReal
  BY DEF SInv, Learned
<1> QED BY <1>1, SessionInvariant, PTL
===============================================================================
