-------------------------- MODULE FtpTransferProofs --------------------------
(***************************************************************************)
(* Proofs about FtpTransfer: the verdict on a transfer is true             *)
(* (VerdictIsTrue), the end of an earlier data connection is never taken   *)
(* for the end of the one there is (StaleEndIgnored), and nothing is read  *)
(* from a data connection without the transfer command and the user's      *)
(* consent (ConsentFirst).                                                 *)
(***************************************************************************)
EXTENDS FtpTransfer, TLAPS, WellFoundedInduction, FiniteSetTheorems

(***************************************************************************)
(* The inductive invariant                                                 *)
(***************************************************************************)

(* What the event loop may have in its queue *)
Events ==
    ({"end"} \X Nat)
        \cup ({"reply"} \X {"1", "2", "5"})
        \cup ({"socket"} \X {"accept", "resumed", "fresh", "refused", "read", "write"})
        \cup ({"ready", "cancel"} \X {""})
        \cup ({"answer"} \X {"yes", "no"})
        \cup ({"command"} \X {"list", "download", "upload", "resumetest"})

(* The types of the variables of the control connection *)
TypeControl ==
    /\ owed \in {"nothing", "setting", "transfer", "final"}
    /\ pending \in BOOLEAN /\ skip \in BOOLEAN /\ code \in Codes
    /\ todo \in {"send", "nothing"}

(* The types of the variables of the operation *)
TypeOperation ==
    /\ mode \in {"list", "download", "upload", "resumetest"} /\ repeat \in BOOLEAN
    /\ op \in States /\ pasv \in BOOLEAN /\ triedPasv \in BOOLEAN /\ triedActive \in BOOLEAN
    /\ commandSent \in BOOLEAN /\ question \in BOOLEAN
    /\ endReason \in Reasons \ {"none"}

(* The types of the variables of the transfer socket *)
TypeSocket ==
    /\ lastSock \in 0..MaxSockets /\ sock \in 0..lastSock
    /\ block \in 0..2 /\ reason \in Reasons
    /\ postponed \subseteq {"read", "write"} /\ busy \in BOOLEAN /\ rounds \in 0..MaxRounds

(* The types of the variables of the connection below the transfer socket *)
TypeLayers ==
    /\ link \in {"none", "listening", "connecting", "up"}
    /\ armed \subseteq {"read", "write"}
    /\ wire \in {"empty", "data", "eof", "broken"}

(* The types of what outlives the transfers *)
TypeRest ==
    /\ tls \in BOOLEAN /\ resumes \in {"unknown", "yes", "no"}
    /\ verdict \in [result : {"none", "ok", "error", "aborted"}, why : Reasons, data : Reasons, reply : Codes,
                    sent : BOOLEAN]

(* activity_block_ counts the reasons there are: the transfer command has  *)
(* not been sent, the user has not answered.  It may count the first one   *)
(* after the command: SetActive leaves it alone once the socket has ended. *)
(* The connection the user is asked about is up, unless it has been lost.  *)
BlockCounts ==
    /\ ~commandSent => block >= 1
    /\ question => block >= 1
    /\ question /\ ~commandSent => block >= 2
    /\ ~question => block <= 1
    /\ question => link = "up" \/ (link = "none" /\ reason # "none")

(* How far the operation is, against whether the transfer command was sent *)
(* and which socket there is                                               *)
Phases ==
    /\ op \in {"none", "parent", "init", "type", "port_pasv", "rest"} => ~commandSent
    /\ op = "transfer" /\ todo = "send" => ~commandSent
    /\ skip => ~commandSent
    /\ op = "none" => todo = "nothing"
    /\ op = "parent" => lastSock < MaxSockets
    /\ op \in {"none", "parent"} => sock = 0
    /\ op \notin {"none", "parent"} => sock = lastSock /\ sock # 0
    /\ sock = 0 => reason = "none" /\ link = "none"

(* What the operation knows of the end of its data connection is what      *)
(* happened to its own socket.                                             *)
Reports ==
    /\ reason = "successful" => commandSent
    /\ endReason # "successful" => reason = endReason
    /\ op \in {"waittransferpre", "waittransfer"} /\ endReason = "successful" => reason = "successful"
    /\ op = "waitsocket" => code = "2"

(* Only a connection that is up carries anything, and reader and writer    *)
(* have been asked only after the transfer command.                        *)
Carries ==
    /\ link # "up" => wire = "empty" /\ armed = {}
    /\ busy => commandSent /\ (link = "up" \/ reason # "none")

(* The events a connection in a state can have sent *)
Sent(l) ==
    CASE l = "listening"  -> {"accept"}
      [] l = "connecting" -> {"resumed", "fresh", "refused"}
      [] l = "up"         -> {"read", "write"}
      [] OTHER            -> {}

(* The events in the queue q are events, and the ends are of sockets there *)
(* were.                                                                   *)
Known(q) ==
    /\ q \in Seq(Events)
    /\ \A i \in 1..Len(q) : q[i][1] = "end" => q[i][2] \in 1..lastSock

(* The events of the connection in q are of the connection there is, and   *)
(* one that is not up has sent at most one.                                *)
OfTheLink(q) ==
    /\ \A i \in 1..Len(q) : q[i][1] = "socket" => q[i][2] \in Sent(link)
    /\ link # "up" => \A i, j \in 1..Len(q) : q[i][1] = "socket" /\ q[j][1] = "socket" => i = j

(* A report of the reader or writer in q was asked for. *)
AskedFor(q) ==
    \A i \in 1..Len(q) : q[i][1] = "ready" => commandSent /\ (link = "up" \/ reason # "none")

(* There is at most one command in q, and no operation while it is there. *)
OneCommand(q) ==
    /\ \A i \in 1..Len(q) : q[i][1] = "command" => op = "none" /\ lastSock + 1 < MaxSockets
    /\ \A i, j \in 1..Len(q) : q[i][1] = "command" /\ q[j][1] = "command" => i = j

(* While the end of an earlier socket is in q, the socket of today has not *)
(* ended and is not connected, and the events of its connection come later *)
(* in q.                                                                   *)
StaleFirst(q) ==
    \A i \in 1..Len(q) : q[i][1] = "end" /\ q[i][2] # sock =>
        /\ reason = "none" /\ link # "up" /\ ~busy
        /\ \A j \in 1..Len(q) : q[j][1] # "ready"
        /\ \A j \in 1..i : q[j][1] # "socket"

(* All that is known of the queue, or of what is left of it *)
Queue(q) == Known(q) /\ OfTheLink(q) /\ AskedFor(q) /\ OneCommand(q) /\ StaleFirst(q)

(* What is known of the last verdict *)
Verdict ==
    /\ verdict.result = "ok" => verdict.sent /\ verdict.data = "successful" /\ verdict.reply = "2"
    /\ verdict.result = "error" =>
          /\ verdict.why # "successful"
          /\ verdict.why \in {"failed_resumetest", "transfer_failure_critical"} => verdict.data = verdict.why

(* The inductive invariant *)
IInv ==
    /\ TypeControl /\ TypeOperation /\ TypeSocket /\ TypeLayers /\ TypeRest
    /\ BlockCounts /\ Phases /\ Reports /\ Carries
    /\ Queue(queue) /\ Verdict

(* There is no event of a kind in q. *)
No(kind, q) == \A i \in 1..Len(q) : q[i][1] # kind

(* All events of r are events of q. *)
From(r, q) == r \in Seq(Events) /\ \A n \in 1..Len(r) : \E i \in 1..Len(q) : r[n] = q[i]

(* All ends in q are of the socket there is. *)
NoStale(q) == \A i \in 1..Len(q) : q[i][1] = "end" => q[i][2] = sock

(* Every event of w is an event of q or one of a connection that is up. *)
UpFrom(w, q) ==
    /\ w \in Seq(Events)
    /\ \A i \in 1..Len(w) : \/ w[i][1] = "socket" /\ w[i][2] \in {"read", "write"}
                            \/ \E j \in 1..Len(q) : w[i] = q[j]

-------------------------------------------------------------------------------
(***************************************************************************)
(* Sequences                                                               *)
(***************************************************************************)

(* A set of natural numbers that is not empty has a least element: the     *)
(* form of induction the proofs below use.                                 *)
LEMMA Least ==
    ASSUME NEW T, T \subseteq Nat, T # {}
    PROVE  \E n \in T : \A m \in T : n <= m
<1> DEFINE R == OpToRel(<, Nat)
<1>1. IsWellFoundedOn(R, Nat)
  BY NatLessThanWellFounded
<1>2. \A x, y \in Nat : x < y => <<x, y>> \in R
  BY DEF OpToRel
<1> HIDE DEF R
<1>3. PICK n \in T : \A y \in T : ~(<<y, n>> \in R)
  BY <1>1, WFMin
<1>4. ASSUME NEW m \in T PROVE n <= m
  <2>1. m \in Nat /\ n \in Nat
    OBVIOUS
  <2>2. ~(m < n)
    BY <2>1, <1>2, <1>3
  <2> QED BY <2>1, <2>2
<1> QED BY <1>4

(* A set of positions up to N that has n elements or more has an n-th one. *)
LEMMA NthExists ==
    ASSUME NEW N \in Nat, NEW kept \in SUBSET (1..N), NEW n \in 1..Cardinality(kept)
    PROVE  \E i \in kept : Cardinality(kept \cap 1..i) = n
<1> DEFINE C(i) == Cardinality(kept \cap 1..i)
           T == {i \in 0..N : C(i) >= n}
<1>1. IsFiniteSet(kept) /\ Cardinality(kept) \in Nat
  <2>1. IsFiniteSet(1..N)
    BY FS_Interval
  <2>2. IsFiniteSet(kept)
    BY <2>1, FS_Subset
  <2> QED BY <2>2, FS_CardinalityType
<1>2. \A i \in 0..N : IsFiniteSet(kept \cap 1..i) /\ C(i) \in Nat
  BY <1>1, FS_Subset, FS_CardinalityType
<1>3. PICK i \in T : \A m \in T : i <= m
  <2>1. kept \cap 1..N = kept
    OBVIOUS
  <2>2. N \in T
    BY <2>1
  <2>3. T \subseteq Nat
    OBVIOUS
  <2> HIDE DEF T
  <2> QED BY <2>2, <2>3, Least
<1>4. i # 0
  <2>1. kept \cap 1..0 = {}
    OBVIOUS
  <2>2. C(0) = 0
    BY <2>1, FS_EmptySet
  <2> QED BY <2>2
<1>5. C(i - 1) < n
  <2>1. i - 1 \in 0..N /\ i - 1 < i
    BY <1>4
  <2>2. i - 1 \notin T
    BY <1>3, <2>1
  <2>3. C(i - 1) \in Nat
    BY <1>2, <2>1
  <2> HIDE DEF C
  <2> QED BY <2>1, <2>2, <2>3
<1>6. C(i) \in Nat /\ C(i - 1) \in Nat /\ C(i) >= n
  <2>1. i \in 0..N /\ i - 1 \in 0..N
    BY <1>4
  <2>2. C(i) \in Nat /\ C(i - 1) \in Nat
    BY <1>2, <2>1
  <2>3. C(i) >= n
    OBVIOUS
  <2> QED BY <2>2, <2>3
<1>7. i \in kept
  <2> SUFFICES ASSUME i \notin kept PROVE FALSE
    OBVIOUS
  <2>1. kept \cap 1..i = kept \cap 1..(i - 1)
    BY <1>4
  <2>2. C(i) = C(i - 1)
    BY <2>1
  <2> HIDE DEF C
  <2> QED BY <2>2, <1>5, <1>6
<1>8. C(i) = C(i - 1) + 1
  <2>1. kept \cap 1..i = (kept \cap 1..(i - 1)) \cup {i}
    BY <1>4, <1>7
  <2>2. i \notin kept \cap 1..(i - 1)
    OBVIOUS
  <2>3. IsFiniteSet(kept \cap 1..(i - 1))
    BY <1>2, <1>4
  <2> QED BY <2>1, <2>2, <2>3, FS_AddElement
<1> HIDE DEF C
<1>9. C(i) = n
  BY <1>5, <1>6, <1>8
<1> QED BY <1>7, <1>9 DEF C

(* Without keeps only events of the queue, and none of the kinds.          *)
LEMMA WithoutKeeps ==
    ASSUME NEW q \in Seq(Events), NEW kinds
    PROVE  /\ From(Without(kinds, q), q)
           /\ \A kind \in kinds : No(kind, Without(kinds, q))
<1> DEFINE kept == {i \in 1..Len(q) : q[i][1] \notin kinds}
           nth(n) == CHOOSE i \in kept : Cardinality(kept \cap 1..i) = n
           c == Cardinality(kept)
           r == [n \in 1..c |-> q[nth(n)]]
<1>1. Without(kinds, q) = r
  BY DEF Without
<1>2. Len(q) \in Nat /\ kept \in SUBSET (1..Len(q))
  OBVIOUS
<1>3. c \in Nat
  <2> HIDE DEF kept
  <2>1. IsFiniteSet(1..Len(q))
    BY <1>2, FS_Interval
  <2>2. IsFiniteSet(kept)
    BY <1>2, <2>1, FS_Subset
  <2> QED BY <2>2, FS_CardinalityType
<1>4. ASSUME NEW n \in 1..c PROVE nth(n) \in kept
  <2> HIDE DEF kept
  <2>1. \E i \in kept : Cardinality(kept \cap 1..i) = n
    BY <1>2, NthExists
  <2> QED BY <2>1
<1>5. ASSUME NEW n \in 1..c PROVE nth(n) \in 1..Len(q) /\ q[nth(n)] \in Events /\ q[nth(n)][1] \notin kinds
  <2>1. nth(n) \in kept
    BY <1>4
  <2> HIDE DEF nth, Events
  <2> QED BY <2>1
<1>6. r \in Seq(Events) /\ Len(r) = c /\ \A n \in 1..c : r[n] = q[nth(n)]
  <2> HIDE DEF c, nth, Events
  <2> QED BY <1>3, <1>5
<1> HIDE DEF r, c, nth, kept
<1> QED BY <1>1, <1>5, <1>6 DEF From, No

(* Without the socket, nothing of it is left but its ends. *)
LEMMA WithoutSocketIs ==
    ASSUME NEW q \in Seq(Events)
    PROVE  From(WithoutSocket(q), q) /\ No("socket", WithoutSocket(q)) /\ No("ready", WithoutSocket(q))
  BY WithoutKeeps DEF WithoutSocket

(* What is left when the first event is taken *)
LEMMA TailIs ==
    ASSUME NEW q \in Seq(Events), q # << >>
    PROVE  /\ Tail(q) \in Seq(Events) /\ Head(q) = q[1] /\ 1 \in 1..Len(q)
           /\ \A i \in 1..Len(Tail(q)) : i + 1 \in 1..Len(q) /\ Tail(q)[i] = q[i + 1]
  OBVIOUS

(* An event more *)
LEMMA AppendIs ==
    ASSUME NEW q \in Seq(Events), NEW e \in Events
    PROVE  /\ Append(q, e) \in Seq(Events)
           /\ \A i \in 1..Len(Append(q, e)) :
                 (i \in 1..Len(q) /\ Append(q, e)[i] = q[i]) \/ (i = Len(q) + 1 /\ Append(q, e)[i] = e)
  OBVIOUS

(* Two sequences of events, one after the other *)
LEMMA ConcatIs ==
    ASSUME NEW a \in Seq(Events), NEW b \in Seq(Events)
    PROVE  /\ a \o b \in Seq(Events)
           /\ \A i \in 1..Len(a \o b) : \/ \E j \in 1..Len(a) : (a \o b)[i] = a[j]
                                      \/ \E j \in 1..Len(b) : (a \o b)[i] = b[j]
<1>1. a \o b \in Seq(Events)
  OBVIOUS
<1>2. \A i \in 1..Len(a \o b) : (i \in 1..Len(a) /\ (a \o b)[i] = a[i])
                              \/ (i - Len(a) \in 1..Len(b) /\ (a \o b)[i] = b[i - Len(a)])
  OBVIOUS
<1> QED BY <1>1, <1>2

(* The events that were postponed are events of a connection that is up. *)
LEMMA PostponedIs ==
    ASSUME NEW q \in Seq(Events)
    PROVE  UpFrom(Postponed(q), q)
<1>1. <<"socket", "read">> \in Events /\ <<"socket", "write">> \in Events
  BY DEF Events
<1> DEFINE a == IF "read" \in postponed THEN <<<<"socket", "read">>>> ELSE << >>
           b == IF "write" \in postponed THEN <<<<"socket", "write">>>> ELSE << >>
<1>2. a \in Seq(Events) /\ \A i \in 1..Len(a) : a[i] = <<"socket", "read">>
  BY <1>1
<1>3. b \in Seq(Events) /\ \A i \in 1..Len(b) : b[i] = <<"socket", "write">>
  BY <1>1
<1>4. Postponed(q) = a \o b \o q
  BY DEF Postponed
<1> HIDE DEF a, b
<1>5. PICK c : c = a \o b
  OBVIOUS
<1>6. c \in Seq(Events) /\ \A i \in 1..Len(c) : c[i][1] = "socket" /\ c[i][2] \in {"read", "write"}
  <2>1. c \in Seq(Events) /\ \A i \in 1..Len(c) : (\E j \in 1..Len(a) : c[i] = a[j]) \/ \E j \in 1..Len(b) : c[i] = b[j]
    BY <1>2, <1>3, <1>5, ConcatIs
  <2>2. \A i \in 1..Len(c) : c[i] = <<"socket", "read">> \/ c[i] = <<"socket", "write">>
    BY <1>2, <1>3, <2>1
  <2> QED BY <2>1, <2>2
<1>7. PICK w : w = c \o q
  OBVIOUS
<1>8. w \in Seq(Events) /\ \A i \in 1..Len(w) : (\E j \in 1..Len(c) : w[i] = c[j]) \/ \E j \in 1..Len(q) : w[i] = q[j]
  BY <1>6, <1>7, ConcatIs
<1>9. UpFrom(w, q)
  BY <1>6, <1>8 DEF UpFrom
<1> QED BY <1>4, <1>5, <1>7, <1>9

-------------------------------------------------------------------------------
(***************************************************************************)
(* The queue                                                               *)
(***************************************************************************)

(* What is left of the queue when its first event is taken, and what the   *)
(* kind of that event says: the connection's events are of the connection  *)
(* there is, and with them or a report of the reader or writer no end of   *)
(* an earlier socket is left.                                              *)
LEMMA Taken ==
    ASSUME Queue(queue), queue # << >>
    PROVE  /\ Queue(Tail(queue)) /\ Head(queue) \in Events
           /\ Head(queue)[1] \in {"socket", "ready"} => NoStale(Tail(queue))
           /\ Head(queue)[1] = "socket" => Head(queue)[2] \in Sent(link)
           /\ Head(queue)[1] = "socket" /\ link # "up" => No("socket", Tail(queue))
           /\ Head(queue)[1] = "ready" => commandSent /\ (link = "up" \/ reason # "none")
           /\ Head(queue)[1] = "command" =>
                 No("command", Tail(queue)) /\ op = "none" /\ lastSock + 1 < MaxSockets
<1>1. queue \in Seq(Events)
  BY DEF Queue, Known
<1>2. PICK q : q = Tail(queue)
  OBVIOUS
<1>3. /\ q \in Seq(Events) /\ Head(queue) = queue[1] /\ 1 \in 1..Len(queue)
      /\ \A i \in 1..Len(q) : i + 1 \in 1..Len(queue) /\ q[i] = queue[i + 1]
  BY <1>1, <1>2, TailIs
<1>4. /\ \A i \in 1..Len(q) : i \in Nat /\ i + 1 # 1 /\ 1 \in 1..(i + 1)
      /\ \A i, j \in 1..Len(q) : i + 1 = j + 1 => i = j
  OBVIOUS
<1>5. Known(q)
  BY <1>3 DEF Queue, Known
<1>6. OfTheLink(q)
  <2>1. \A i \in 1..Len(q) : q[i][1] = "socket" => q[i][2] \in Sent(link)
    BY <1>3 DEF Queue, OfTheLink
  <2>2. ASSUME link # "up", NEW i \in 1..Len(q), NEW j \in 1..Len(q), q[i][1] = "socket", q[j][1] = "socket"
        PROVE  i = j
    <3>1. i + 1 = j + 1
      BY <1>3, <2>2 DEF Queue, OfTheLink
    <3> QED BY <1>4, <3>1
  <2> QED BY <2>1, <2>2 DEF OfTheLink
<1>7. AskedFor(q)
  BY <1>3 DEF Queue, AskedFor
<1>8. OneCommand(q)
  <2>1. \A i \in 1..Len(q) : q[i][1] = "command" => op = "none" /\ lastSock + 1 < MaxSockets
    BY <1>3 DEF Queue, OneCommand
  <2>2. ASSUME NEW i \in 1..Len(q), NEW j \in 1..Len(q), q[i][1] = "command", q[j][1] = "command"
        PROVE  i = j
    <3>1. i + 1 = j + 1
      BY <1>3, <2>2 DEF Queue, OneCommand
    <3> QED BY <1>4, <3>1
  <2> QED BY <2>1, <2>2 DEF OneCommand
<1>9. StaleFirst(q)
  <2> SUFFICES ASSUME NEW i \in 1..Len(q), q[i][1] = "end" /\ q[i][2] # sock
               PROVE  /\ reason = "none" /\ link # "up" /\ ~busy
                      /\ \A j \in 1..Len(q) : q[j][1] # "ready"
                      /\ \A j \in 1..i : q[j][1] # "socket"
    BY DEF StaleFirst
  <2>1. /\ reason = "none" /\ link # "up" /\ ~busy
        /\ \A j \in 1..Len(queue) : queue[j][1] # "ready"
        /\ \A j \in 1..(i + 1) : queue[j][1] # "socket"
    BY <1>3 DEF Queue, StaleFirst
  <2>2. \A j \in 1..i : j \in 1..Len(q) /\ j + 1 \in 1..(i + 1)
    BY <1>3
  <2> QED BY <1>3, <2>1, <2>2
<1>10. Head(queue)[1] \in {"socket", "ready"} => NoStale(q)
  BY <1>3, <1>4 DEF Queue, StaleFirst, NoStale
<1>11. Head(queue)[1] = "socket" => Head(queue)[2] \in Sent(link)
  BY <1>3 DEF Queue, OfTheLink
<1>12. Head(queue)[1] = "socket" /\ link # "up" => No("socket", q)
  BY <1>3, <1>4 DEF Queue, OfTheLink, No
<1>13. Head(queue)[1] = "ready" => commandSent /\ (link = "up" \/ reason # "none")
  BY <1>3 DEF Queue, AskedFor
<1>14. Head(queue)[1] = "command" => No("command", q) /\ op = "none" /\ lastSock + 1 < MaxSockets
  BY <1>3, <1>4 DEF Queue, OneCommand, No
<1>15. Head(queue) \in Events
  BY <1>1, <1>3
<1> QED BY <1>2, <1>5, <1>6, <1>7, <1>8, <1>9, <1>10, <1>11, <1>12, <1>13, <1>14, <1>15 DEF Queue

(* Nothing changes that the queue depends on, or only in a way that does   *)
(* not matter to it.                                                       *)
LEMMA KeptQueue ==
    ASSUME NEW q, Queue(q), queue' = q, (busy' => busy) \/ NoStale(q),
           op' = op \/ op # "none", commandSent => commandSent',
           UNCHANGED <<sock, lastSock, reason, link>>
    PROVE  Queue(queue)'
<1>1. Known(queue)' /\ OfTheLink(queue)' /\ AskedFor(queue)' /\ OneCommand(queue)'
  BY DEF Queue, Known, OfTheLink, AskedFor, OneCommand
<1>2. StaleFirst(queue)'
  BY DEF Queue, StaleFirst, NoStale
<1> QED BY <1>1, <1>2 DEF Queue

(* The socket ends with its operation, and no socket or the next one takes *)
(* its place: all ends in the queue are now of earlier sockets.            *)
LEMMA EndedQueue ==
    ASSUME TypeSocket, NEW q, Queue(q), op # "none",
           NEW w, From(w, q), No("socket", w), No("ready", w), queue' = w,
           reason' = "none", link' = "none", busy' = FALSE,
           \/ sock' = 0 /\ lastSock' = lastSock
           \/ sock' = lastSock + 1 /\ lastSock' = lastSock + 1
    PROVE  Queue(queue)'
<1>1. No("command", w)
  BY DEF Queue, OneCommand, No, From
<1>2. w \in Seq(Events) /\ \A i \in 1..Len(w) : w[i][1] = "end" => w[i][2] \in 1..lastSock
  BY DEF Queue, Known, From
<1>3. lastSock \in Nat /\ lastSock' \in Nat /\ lastSock <= lastSock'
  BY DEF TypeSocket
<1>4. Known(queue)'
  BY <1>2, <1>3 DEF Known
<1>5. OfTheLink(queue)' /\ AskedFor(queue)'
  BY DEF OfTheLink, AskedFor, No
<1>6. OneCommand(queue)'
  BY <1>1 DEF OneCommand, No
<1>7. StaleFirst(queue)'
  <2>1. \A i \in 1..Len(w) : \A j \in 1..i : j \in 1..Len(w)
    BY <1>2
  <2> QED BY <2>1 DEF StaleFirst, No
<1> QED BY <1>4, <1>5, <1>6, <1>7 DEF Queue

(* The events of the connection are dropped and the socket stays. *)
LEMMA DroppedQueue ==
    ASSUME NEW q, Queue(q), op # "none", op' # "none", queue' = DropEvents(q),
           UNCHANGED <<sock, lastSock, busy>>,
           commandSent => commandSent',
           No("ready", q) \/ reason' # "none",
           NoStale(q) \/ (reason' = reason /\ link' # "up")
    PROVE  Queue(queue)'
<1>1. q \in Seq(Events)
  BY DEF Queue, Known
<1>2. PICK w : w = DropEvents(q)
  OBVIOUS
<1>3. From(w, q) /\ No("socket", w)
  BY <1>1, <1>2, WithoutKeeps DEF DropEvents
<1>4. No("command", w)
  BY <1>3 DEF Queue, OneCommand, No, From
<1>5. Known(queue)'
  BY <1>2, <1>3 DEF Queue, Known, From
<1>6. OfTheLink(queue)'
  BY <1>2, <1>3 DEF OfTheLink, No
<1>7. AskedFor(queue)'
  BY <1>2, <1>3 DEF Queue, AskedFor, No, From
<1>8. OneCommand(queue)'
  BY <1>2, <1>4 DEF OneCommand, No
<1>9. StaleFirst(queue)'
  <2>1. \A i \in 1..Len(w) : \A j \in 1..i : j \in 1..Len(w)
    BY <1>3 DEF From
  <2>2. NoStale(q) => NoStale(w)
    BY <1>3 DEF NoStale, From
  <2>3. ASSUME NEW i \in 1..Len(w), w[i][1] = "end" /\ w[i][2] # sock
        PROVE  reason = "none" /\ ~busy /\ No("ready", w) /\ ~NoStale(q)
    <3>1. PICK k \in 1..Len(q) : w[i] = q[k]
      BY <1>3 DEF From
    <3>2. reason = "none" /\ ~busy /\ No("ready", q)
      BY <2>3, <3>1 DEF Queue, StaleFirst, No
    <3> QED BY <1>3, <2>3, <3>1, <3>2 DEF From, No, NoStale
  <2> QED BY <1>2, <1>3, <2>3 DEF StaleFirst, No
<1> QED BY <1>5, <1>6, <1>7, <1>8, <1>9 DEF Queue

(* An event is added; it may be the end of the socket, and the reader or   *)
(* writer may have reported.                                               *)
LEMMA AppendedQueue ==
    ASSUME NEW q, Queue(q), NEW e \in Events, queue' = Append(q, e),
           UNCHANGED <<sock, lastSock, commandSent, op, link>>,
           busy' => busy,
           reason' = reason \/ (NoStale(q) /\ reason' # "none"),
           e[1] = "end" => e[2] = sock /\ sock \in 1..lastSock,
           e[1] = "socket" => e[2] \in Sent(link) /\ (link = "up" \/ No("socket", q)),
           e[1] = "ready" => commandSent /\ (link = "up" \/ reason # "none") /\ NoStale(q),
           e[1] = "command" => op = "none" /\ lastSock + 1 < MaxSockets /\ No("command", q)
    PROVE  Queue(queue)'
<1>1. q \in Seq(Events)
  BY DEF Queue, Known
<1>2. PICK w : w = Append(q, e)
  OBVIOUS
<1>3. /\ w \in Seq(Events)
      /\ \A i \in 1..Len(w) : (i \in 1..Len(q) /\ w[i] = q[i]) \/ (i = Len(q) + 1 /\ w[i] = e)
  BY <1>1, <1>2, AppendIs
<1>4. Known(queue)'
  BY <1>2, <1>3 DEF Queue, Known
<1>5. OfTheLink(queue)'
  BY <1>2, <1>3 DEF Queue, OfTheLink, No
<1>6. AskedFor(queue)'
  BY <1>2, <1>3 DEF Queue, AskedFor
<1>7. OneCommand(queue)'
  BY <1>2, <1>3 DEF Queue, OneCommand, No
<1>8. StaleFirst(queue)'
  <2> SUFFICES ASSUME NEW i \in 1..Len(w), w[i][1] = "end" /\ w[i][2] # sock
               PROVE  /\ reason' = "none" /\ link # "up" /\ ~busy'
                      /\ \A j \in 1..Len(w) : w[j][1] # "ready"
                      /\ \A j \in 1..i : w[j][1] # "socket"
    BY <1>2 DEF StaleFirst
  <2>1. i \in 1..Len(q) /\ w[i] = q[i] /\ ~NoStale(q)
    BY <1>3 DEF NoStale
  <2>2. /\ reason = "none" /\ link # "up" /\ ~busy
        /\ \A j \in 1..Len(q) : q[j][1] # "ready"
        /\ \A j \in 1..i : q[j][1] # "socket"
    BY <2>1 DEF Queue, StaleFirst
  <2>3. \A j \in 1..i : j \in 1..Len(q) /\ j # Len(q) + 1 /\ j \in 1..Len(w)
    BY <1>1, <1>3, <2>1
  <2>4. reason' = "none" /\ ~busy'
    BY <2>1, <2>2
  <2>5. \A j \in 1..Len(w) : w[j][1] # "ready"
    BY <1>3, <2>1, <2>2
  <2>6. \A j \in 1..i : w[j][1] # "socket"
    BY <1>3, <2>2, <2>3
  <2> QED BY <2>2, <2>4, <2>5, <2>6
<1> QED BY <1>4, <1>5, <1>6, <1>7, <1>8 DEF Queue

(* A connection is up; the events that were there and its own come in some *)
(* order.                                                                  *)
LEMMA UpQueue ==
    ASSUME NEW q, Known(q), NoStale(q), No("command", q),
           \A i \in 1..Len(q) : q[i][1] = "socket" => q[i][2] \in {"read", "write"},
           No("ready", q) \/ commandSent',
           NEW w, UpFrom(w, q), queue' = w, link' = "up",
           UNCHANGED <<sock, lastSock>>
    PROVE  Queue(queue)'
<1>1. Known(queue)'
  BY DEF Known, UpFrom
<1>2. OfTheLink(queue)'
  BY DEF OfTheLink, Sent, UpFrom
<1>3. AskedFor(queue)'
  BY DEF AskedFor, No, UpFrom
<1>4. OneCommand(queue)'
  BY DEF OneCommand, No, UpFrom
<1>5. StaleFirst(queue)'
  BY DEF StaleFirst, NoStale, UpFrom
<1> QED BY <1>1, <1>2, <1>3, <1>4, <1>5 DEF Queue

-------------------------------------------------------------------------------
(***************************************************************************)
(* The handlers of the data connection                                     *)
(***************************************************************************)

(* The end of a socket is an event. *)
LEMMA EndEvent == ASSUME TypeSocket PROVE <<"end", sock>> \in Events
<1>1. sock \in Nat
  BY BoundsAssumption DEF TypeSocket
<1>2. <<"end", sock>> \in {"end"} \X Nat
  BY <1>1
<1> QED BY <1>2 DEF Events

(* The socket fails: the events of its connection are dropped and its end  *)
(* is reported.                                                            *)
LEMMA FailedQueue ==
    ASSUME TypeSocket, NEW q, Queue(q), NoStale(q), op # "none", sock \in 1..lastSock,
           queue' = Append(DropEvents(q), <<"end", sock>>), reason' # "none",
           UNCHANGED <<sock, lastSock, commandSent, op, busy>>
    PROVE  Queue(queue)'
<1>1. q \in Seq(Events)
  BY DEF Queue, Known
<1>2. PICK v : v = DropEvents(q)
  OBVIOUS
<1>3. From(v, q) /\ No("socket", v)
  BY <1>1, <1>2, WithoutKeeps DEF DropEvents
<1>4. PICK w : w = Append(v, <<"end", sock>>)
  OBVIOUS
<1>5. <<"end", sock>> \in Events
  BY EndEvent
<1>6. /\ w \in Seq(Events)
      /\ \A i \in 1..Len(w) : (\E k \in 1..Len(q) : w[i] = q[k] /\ w[i][1] # "socket") \/ w[i] = <<"end", sock>>
  <2>1. v \in Seq(Events) /\ \A n \in 1..Len(v) : v[n][1] # "socket" /\ \E k \in 1..Len(q) : v[n] = q[k]
    BY <1>3 DEF From, No
  <2>2. /\ w \in Seq(Events)
        /\ \A i \in 1..Len(w) : (i \in 1..Len(v) /\ w[i] = v[i]) \/ (i = Len(v) + 1 /\ w[i] = <<"end", sock>>)
    BY <1>4, <1>5, <2>1, AppendIs
  <2> QED BY <2>1, <2>2
<1>7. queue' = w
  BY <1>2, <1>4
<1>8. Known(queue)'
  <2>1. \A i \in 1..Len(w) : w[i][1] = "end" => w[i][2] \in 1..lastSock
    BY <1>6 DEF Queue, Known
  <2> QED BY <1>6, <1>7, <2>1 DEF Known
<1>9. OfTheLink(queue)'
  BY <1>6, <1>7 DEF OfTheLink
<1>10. AskedFor(queue)'
  BY <1>6, <1>7 DEF Queue, AskedFor
<1>11. OneCommand(queue)'
  <2>1. No("command", w)
    BY <1>6 DEF Queue, OneCommand, No
  <2> QED BY <1>7, <2>1 DEF OneCommand, No
<1>12. StaleFirst(queue)'
  BY <1>6, <1>7 DEF NoStale, StaleFirst
<1> QED BY <1>8, <1>9, <1>10, <1>11, <1>12 DEF Queue

(* CTransferSocket::TransferEnd *)
LEMMA TransferEndOK ==
    ASSUME IInv, NEW q, Queue(q), NoStale(q), sock # 0,
           NEW r \in Reasons \ {"none"}, r = "successful" => commandSent,
           TransferEnd(r, q),
           UNCHANGED <<dataOnly, block, postponed, question, resumes, busy, rounds>>
    PROVE  IInv'
<1>1. CASE reason # "none"
  <2>1. UNCHANGED <<control, todo, operation, socket, layers, tls, resumes, verdict>> /\ queue' = q
    BY <1>1 DEF TransferEnd, dataOnly, operation, socket
  <2>2. TypeControl'
    BY <2>1 DEF IInv, TypeControl, control
  <2>3. TypeOperation'
    BY <2>1 DEF IInv, TypeOperation, operation
  <2>4. TypeSocket'
    BY <2>1 DEF IInv, TypeSocket, socket
  <2>5. TypeLayers'
    BY <2>1 DEF IInv, TypeLayers, layers
  <2>6. TypeRest'
    BY <2>1 DEF IInv, TypeRest
  <2>7. BlockCounts'
    BY <2>1 DEF IInv, BlockCounts, operation, socket, layers
  <2>8. Phases'
    BY <2>1 DEF IInv, Phases, control, operation, socket
  <2>9. Reports'
    BY <2>1 DEF IInv, Reports, control, operation, socket
  <2>10. Carries'
    BY <2>1 DEF IInv, Carries, operation, socket, layers
  <2>11. Verdict'
    BY <2>1 DEF IInv, Verdict
  <2>12. Queue(queue)'
    BY <2>1, KeptQueue DEF operation, socket, layers
  <2> QED BY <2>2, <2>3, <2>4, <2>5, <2>6, <2>7, <2>8, <2>9, <2>10, <2>11, <2>12 DEF IInv
<1>2. CASE reason = "none"
  <2>1. /\ UNCHANGED <<control, todo, operation, sock, lastSock, block, postponed, busy, rounds, tls, resumes, verdict>>
        /\ reason' = r
        /\ \/ r = "successful" /\ queue' = Append(q, <<"end", sock>>) /\ UNCHANGED layers
           \/ /\ r # "successful" /\ queue' = Append(DropEvents(q), <<"end", sock>>)
              /\ link' = "none" /\ armed' = {} /\ wire' = "empty"
    BY <1>2 DEF TransferEnd, dataOnly, operation, ResetSocket
  <2>2. op # "none" /\ sock \in 1..lastSock
    BY DEF IInv, Phases, TypeSocket
  <2>3. <<"end", sock>> \in Events
    BY <2>2, EndEvent DEF IInv
  <2>4. TypeControl'
    BY <2>1 DEF IInv, TypeControl, control
  <2>5. TypeOperation'
    BY <2>1 DEF IInv, TypeOperation, operation
  <2>6. TypeSocket'
    BY <2>1 DEF IInv, TypeSocket
  <2>7. TypeLayers'
    BY <1>2, <2>1, <2>2 DEF IInv, TypeLayers, control, operation, layers
  <2>8. TypeRest'
    BY <2>1 DEF IInv, TypeRest
  <2>9. BlockCounts'
    BY <1>2, <2>1 DEF IInv, BlockCounts, operation, layers
  <2>10. Phases'
    BY <2>1 DEF IInv, Phases, control, operation
  <2>11. Reports'
    BY <1>2, <2>1 DEF IInv, Reports, TypeOperation, control, operation
  <2>12. Carries'
    <3>1. CASE r = "successful"
      BY <2>1 DEF IInv, Carries, operation, layers
    <3>2. CASE r # "successful"
      BY <2>1, <3>2 DEF IInv, Carries, operation
    <3> QED BY <3>1, <3>2
  <2>13. Verdict'
    BY <2>1 DEF IInv, Verdict
  <2>14. Queue(queue)'
    <3>1. CASE r = "successful"
      BY <2>1, <2>2, <2>3, <3>1, AppendedQueue DEF operation, layers
    <3>2. CASE r # "successful"
      BY <2>1, <2>2, <3>2, FailedQueue DEF IInv, operation
    <3> QED BY <3>1, <3>2
  <2> QED BY <2>4, <2>5, <2>6, <2>7, <2>8, <2>9, <2>10, <2>11, <2>12, <2>13, <2>14 DEF IInv
<1> QED BY <1>1, <1>2

(* What OnReceive and OnSend can do when nothing blocks them: end the      *)
(* transfer, go on, send themselves an event, or give up a connection      *)
(* whose end has been reported.                                            *)
Worked(q) ==
    \/ \E r \in Reasons \ {"none"} : TransferEnd(r, q) /\ UNCHANGED <<busy, rounds>>
    \/ /\ queue' = q /\ UNCHANGED <<reason, link>>
       /\ busy' \in BOOLEAN /\ rounds' \in 0..MaxRounds
       /\ armed' \subseteq {"read", "write"} /\ wire' \in {wire, "empty"}
    \/ queue' = Append(q, <<"socket", "read">>) /\ wire' = "empty" /\ UNCHANGED <<reason, busy, rounds, link, armed>>
    \/ reason # "none" /\ ResetSocket /\ queue' = DropEvents(q) /\ UNCHANGED <<reason, busy, rounds>>

(* All of these keep the invariant. *)
LEMMA WorkedOK ==
    ASSUME IInv, NEW q, Queue(q), NoStale(q), link = "up", block = 0, Worked(q),
           UNCHANGED <<dataOnly, block, postponed, question, resumes>>
    PROVE  IInv'
<1>1. sock # 0 /\ op # "none" /\ ~question /\ commandSent
  BY DEF IInv, Phases, BlockCounts
<1>2. ASSUME NEW r \in Reasons \ {"none"}, TransferEnd(r, q), UNCHANGED <<busy, rounds>> PROVE IInv'
  BY <1>1, <1>2, TransferEndOK
<1>3. CASE /\ queue' = q /\ UNCHANGED <<reason, link>>
           /\ busy' \in BOOLEAN /\ rounds' \in 0..MaxRounds
           /\ armed' \subseteq {"read", "write"} /\ wire' \in {wire, "empty"}
  <2>1. TypeControl'
    BY DEF IInv, TypeControl, dataOnly, control
  <2>2. TypeOperation'
    BY DEF IInv, TypeOperation, dataOnly
  <2>3. TypeSocket'
    BY <1>3 DEF IInv, TypeSocket, dataOnly
  <2>4. TypeLayers'
    BY <1>3 DEF IInv, TypeLayers
  <2>5. TypeRest'
    BY DEF IInv, TypeRest, dataOnly
  <2>6. BlockCounts'
    BY DEF IInv, BlockCounts, dataOnly
  <2>7. Phases'
    BY DEF IInv, Phases, dataOnly, control
  <2>8. Reports'
    BY <1>3 DEF IInv, Reports, dataOnly, control
  <2>9. Carries'
    BY <1>1, <1>3 DEF Carries, dataOnly
  <2>10. Verdict'
    BY DEF IInv, Verdict, dataOnly
  <2>11. Queue(queue)'
    BY <1>3, KeptQueue DEF dataOnly
  <2> QED BY <2>1, <2>2, <2>3, <2>4, <2>5, <2>6, <2>7, <2>8, <2>9, <2>10, <2>11 DEF IInv
<1>4. CASE queue' = Append(q, <<"socket", "read">>) /\ wire' = "empty" /\ UNCHANGED <<reason, busy, rounds, link, armed>>
  <2>1. TypeControl'
    BY DEF IInv, TypeControl, dataOnly, control
  <2>2. TypeOperation'
    BY DEF IInv, TypeOperation, dataOnly
  <2>3. TypeSocket'
    BY <1>4 DEF IInv, TypeSocket, dataOnly
  <2>4. TypeLayers'
    BY <1>4 DEF IInv, TypeLayers
  <2>5. TypeRest'
    BY DEF IInv, TypeRest, dataOnly
  <2>6. BlockCounts'
    BY DEF IInv, BlockCounts, dataOnly
  <2>7. Phases'
    BY DEF IInv, Phases, dataOnly, control
  <2>8. Reports'
    BY <1>4 DEF IInv, Reports, dataOnly, control
  <2>9. Carries'
    BY <1>1, <1>4 DEF Carries, dataOnly
  <2>10. Verdict'
    BY DEF IInv, Verdict, dataOnly
  <2>11. Queue(queue)'
    <3>1. <<"socket", "read">> \in Events /\ "read" \in Sent(link)
      BY DEF Events, Sent
    <3> QED BY <1>4, <3>1, AppendedQueue DEF dataOnly
  <2> QED BY <2>1, <2>2, <2>3, <2>4, <2>5, <2>6, <2>7, <2>8, <2>9, <2>10, <2>11 DEF IInv
<1>5. CASE reason # "none" /\ ResetSocket /\ queue' = DropEvents(q) /\ UNCHANGED <<reason, busy, rounds>>
  <2>1. TypeControl'
    BY DEF IInv, TypeControl, dataOnly, control
  <2>2. TypeOperation'
    BY DEF IInv, TypeOperation, dataOnly
  <2>3. TypeSocket'
    BY <1>5 DEF IInv, TypeSocket, dataOnly
  <2>4. TypeLayers'
    BY <1>5 DEF TypeLayers, ResetSocket
  <2>5. TypeRest'
    BY DEF IInv, TypeRest, dataOnly
  <2>6. BlockCounts'
    BY DEF IInv, BlockCounts, dataOnly
  <2>7. Phases'
    BY DEF IInv, Phases, dataOnly, control
  <2>8. Reports'
    BY <1>5 DEF IInv, Reports, dataOnly, control
  <2>9. Carries'
    BY <1>1, <1>5 DEF Carries, dataOnly, ResetSocket
  <2>10. Verdict'
    BY DEF IInv, Verdict, dataOnly
  <2>11. Queue(queue)'
    BY <1>1, <1>5, DroppedQueue DEF dataOnly
  <2> QED BY <2>1, <2>2, <2>3, <2>4, <2>5, <2>6, <2>7, <2>8, <2>9, <2>10, <2>11 DEF IInv
<1> QED BY <1>2, <1>3, <1>4, <1>5 DEF Worked

(* CTransferSocket::OnReceive *)
LEMMA OnReceiveOK ==
    ASSUME IInv, NEW q, Queue(q), NoStale(q), link = "up", OnReceive(q),
           UNCHANGED <<block, question, resumes>>, UNCHANGED dataOnly
    PROVE  IInv'
<1>1. block \in 0..2 /\ rounds \in 0..MaxRounds /\ armed \subseteq {"read", "write"} /\ busy \in BOOLEAN
  BY DEF IInv, TypeSocket, TypeLayers
<1>2. CASE block > 0
  <2>1. postponed' = postponed \cup {"read"} /\ queue' = q /\ UNCHANGED <<reason, busy, rounds, layers>>
    BY <1>2 DEF OnReceive
  <2>2. TypeControl'
    BY DEF IInv, TypeControl, dataOnly, control
  <2>3. TypeOperation'
    BY DEF IInv, TypeOperation, dataOnly
  <2>4. TypeSocket'
    BY <2>1 DEF IInv, TypeSocket, dataOnly
  <2>5. TypeLayers'
    BY <2>1 DEF IInv, TypeLayers, layers
  <2>6. TypeRest'
    BY DEF IInv, TypeRest, dataOnly
  <2>7. BlockCounts'
    BY <2>1 DEF IInv, BlockCounts, dataOnly, layers
  <2>8. Phases'
    BY DEF IInv, Phases, dataOnly, control
  <2>9. Reports'
    BY <2>1 DEF IInv, Reports, dataOnly, control
  <2>10. Carries'
    BY <2>1 DEF IInv, Carries, dataOnly, layers
  <2>11. Verdict'
    BY DEF IInv, Verdict, dataOnly
  <2>12. Queue(queue)'
    BY <2>1, KeptQueue DEF dataOnly, layers
  <2> QED BY <2>2, <2>3, <2>4, <2>5, <2>6, <2>7, <2>8, <2>9, <2>10, <2>11, <2>12 DEF IInv
<1>3. CASE block = 0
  <2>1. UNCHANGED postponed
    BY <1>3 DEF OnReceive
  <2>2. Worked(q)
    <3>1. CASE \E r \in Reasons \ {"none"} : TransferEnd(r, q) /\ UNCHANGED <<busy, rounds>>
      BY <3>1 DEF Worked
    <3>2. CASE Wait /\ queue' = q /\ UNCHANGED <<reason, layers>>
      <4>1. rounds' \in 0..MaxRounds /\ busy' \in BOOLEAN /\ wire' \in {wire, "empty"}
        BY <1>1, <3>2, BoundsAssumption DEF Wait, layers
      <4>2. armed' \subseteq {"read", "write"} /\ queue' = q /\ UNCHANGED <<reason, link>>
        BY <1>1, <3>2 DEF layers
      <4> QED BY <4>1, <4>2 DEF Worked
    <3>3. CASE armed' = armed \cup {"read"} /\ queue' = q /\ UNCHANGED <<reason, busy, rounds, link, wire>>
      BY <1>1, <3>3 DEF Worked
    <3>4. CASE /\ wire' = "empty" /\ UNCHANGED <<reason, busy, rounds, link>>
               /\ \/ armed' = armed \cup {"read"} /\ queue' = q
                  \/ queue' = Append(q, <<"socket", "read">>) /\ UNCHANGED armed
      BY <1>1, <3>4 DEF Worked
    <3>5. CASE queue' = q /\ UNCHANGED <<reason, busy, rounds, layers>>
      BY <1>1, <3>5 DEF Worked, layers
    <3>6. CASE reason # "none" /\ ResetSocket /\ queue' = DropEvents(q) /\ UNCHANGED <<reason, busy, rounds>>
      BY <3>6 DEF Worked
    <3>7. {"transfer_failure_critical", "transfer_failure", "failed_resumetest", "successful"} \subseteq Reasons \ {"none"}
      BY DEF Reasons
    <3> QED BY <3>1, <3>2, <3>4, <3>5, <3>6, <3>7 DEF OnReceive
  <2> QED BY <1>3, <2>1, <2>2, WorkedOK
<1> QED BY <1>1, <1>2, <1>3

(* CTransferSocket::OnSend *)
LEMMA OnSendOK ==
    ASSUME IInv, NEW q, Queue(q), NoStale(q), link = "up", OnSend(q),
           UNCHANGED <<block, question, resumes>>, UNCHANGED dataOnly
    PROVE  IInv'
<1>1. block \in 0..2 /\ rounds \in 0..MaxRounds /\ armed \subseteq {"read", "write"} /\ busy \in BOOLEAN
  BY DEF IInv, TypeSocket, TypeLayers
<1>2. CASE block > 0
  <2>1. postponed' = postponed \cup {"write"} /\ queue' = q /\ UNCHANGED <<reason, busy, rounds, layers>>
    BY <1>2 DEF OnSend
  <2>2. TypeControl'
    BY DEF IInv, TypeControl, dataOnly, control
  <2>3. TypeOperation'
    BY DEF IInv, TypeOperation, dataOnly
  <2>4. TypeSocket'
    BY <2>1 DEF IInv, TypeSocket, dataOnly
  <2>5. TypeLayers'
    BY <2>1 DEF IInv, TypeLayers, layers
  <2>6. TypeRest'
    BY DEF IInv, TypeRest, dataOnly
  <2>7. BlockCounts'
    BY <2>1 DEF IInv, BlockCounts, dataOnly, layers
  <2>8. Phases'
    BY DEF IInv, Phases, dataOnly, control
  <2>9. Reports'
    BY <2>1 DEF IInv, Reports, dataOnly, control
  <2>10. Carries'
    BY <2>1 DEF IInv, Carries, dataOnly, layers
  <2>11. Verdict'
    BY DEF IInv, Verdict, dataOnly
  <2>12. Queue(queue)'
    BY <2>1, KeptQueue DEF dataOnly, layers
  <2> QED BY <2>2, <2>3, <2>4, <2>5, <2>6, <2>7, <2>8, <2>9, <2>10, <2>11, <2>12 DEF IInv
<1>3. CASE block = 0
  <2>1. UNCHANGED postponed
    BY <1>3 DEF OnSend
  <2>2. Worked(q)
    <3>1. CASE \E r \in Reasons \ {"none"} : TransferEnd(r, q) /\ UNCHANGED <<busy, rounds>>
      BY <3>1 DEF Worked
    <3>2. CASE Wait /\ queue' = q /\ UNCHANGED <<reason, layers>>
      <4>1. rounds' \in 0..MaxRounds /\ busy' \in BOOLEAN /\ wire' \in {wire, "empty"}
        BY <1>1, <3>2, BoundsAssumption DEF Wait, layers
      <4>2. armed' \subseteq {"read", "write"} /\ queue' = q /\ UNCHANGED <<reason, link>>
        BY <1>1, <3>2 DEF layers
      <4> QED BY <4>1, <4>2 DEF Worked
    <3>3. CASE /\ rounds < MaxRounds /\ rounds' = rounds + 1
               /\ armed' = armed \cup {"write"} /\ queue' = q /\ UNCHANGED <<reason, busy, link, wire>>
      BY <1>1, <3>3, BoundsAssumption DEF Worked
    <3>4. CASE queue' = q /\ UNCHANGED <<reason, busy, rounds, layers>>
      BY <1>1, <3>4 DEF Worked, layers
    <3>5. {"transfer_failure_critical", "transfer_failure", "successful"} \subseteq Reasons \ {"none"}
      BY DEF Reasons
    <3> QED BY <3>1, <3>2, <3>3, <3>4, <3>5 DEF OnSend
  <2> QED BY <1>3, <2>1, <2>2, WorkedOK
<1> QED BY <1>1, <1>2, <1>3

(* CTransferSocket::OnConnect *)
LEMMA OnConnectOK ==
    ASSUME IInv, NEW q, Queue(q), NoStale(q), No("socket", q), link \in {"listening", "connecting"},
           NEW resumed \in BOOLEAN, OnConnect(resumed, q), UNCHANGED dataOnly
    PROVE  IInv'
<1>1. sock # 0 /\ op # "none" /\ ~question
  BY DEF IInv, Phases, BlockCounts
<1>2. CASE tls /\ ~resumed /\ resumes = "yes"
  <2>1. TransferEnd("failed_tls_resumption", q) /\ UNCHANGED <<busy, rounds, block, postponed, question, resumes>>
    BY <1>2 DEF OnConnect
  <2>2. "failed_tls_resumption" \in Reasons \ {"none"}
    BY DEF Reasons
  <2> QED BY <1>1, <2>1, <2>2, TransferEndOK
<1>3. CASE ~(tls /\ ~resumed /\ resumes = "yes")
  <2>1. /\ UNCHANGED <<reason, busy, rounds>>
        /\ link' = "up" /\ armed' = {"read"} /\ wire' = "empty"
        /\ resumes' \in {resumes, "yes"}
        /\ (block' = block + 1 /\ question' = TRUE) \/ UNCHANGED <<block, question>>
        /\ postponed' \subseteq {"read", "write"}
        /\ queue' = q \/ queue' = Postponed(<<<<"socket", "write">>>> \o q)
    BY <1>3 DEF OnConnect, Block, IInv, TypeSocket
  <2>2. TypeControl'
    BY DEF IInv, TypeControl, dataOnly, control
  <2>3. TypeOperation'
    BY <1>1, <2>1 DEF IInv, TypeOperation, BlockCounts, dataOnly, control
  <2>4. TypeSocket'
    BY <2>1 DEF IInv, TypeSocket, BlockCounts, dataOnly
  <2>5. TypeLayers'
    BY <2>1 DEF TypeLayers
  <2>6. TypeRest'
    BY <2>1 DEF IInv, TypeRest, dataOnly
  <2>7. BlockCounts'
    BY <2>1 DEF IInv, BlockCounts, TypeSocket, dataOnly
  <2>8. Phases'
    BY DEF IInv, Phases, dataOnly, control
  <2>9. Reports'
    BY <2>1 DEF IInv, Reports, dataOnly, control
  <2>10. Carries'
    BY <2>1 DEF IInv, Carries, dataOnly
  <2>11. Verdict'
    BY DEF IInv, Verdict, dataOnly
  <2>12. Queue(queue)'
    <3>1. q \in Seq(Events) /\ Known(q)
      BY DEF Queue, Known
    <3>2. PICK v : v = <<<<"socket", "write">>>> \o q
      OBVIOUS
    <3>3. UpFrom(v, q)
      <4>1. <<"socket", "write">> \in Events
        BY DEF Events
      <4>2. PICK a : a = <<<<"socket", "write">>>>
        OBVIOUS
      <4>3. a \in Seq(Events) /\ \A j \in 1..Len(a) : a[j][1] = "socket" /\ a[j][2] = "write"
        BY <4>1, <4>2
      <4>4. v = a \o q
        BY <3>2, <4>2
      <4> QED BY <3>1, <4>3, <4>4, ConcatIs DEF UpFrom
    <3>4. PICK w : w = Postponed(v)
      OBVIOUS
    <3>5. UpFrom(w, v)
      BY <3>3, <3>4, PostponedIs DEF UpFrom
    <3>6. UpFrom(w, q) /\ UpFrom(q, q)
      BY <3>1, <3>3, <3>5 DEF UpFrom
    <3>7. No("command", q) /\ (No("ready", q) \/ commandSent)
      BY <1>1 DEF Queue, OneCommand, AskedFor, No
    <3>8. UNCHANGED <<sock, lastSock, commandSent>>
      BY DEF dataOnly
    <3>9. \A i \in 1..Len(q) : q[i][1] = "socket" => q[i][2] \in {"read", "write"}
      BY DEF No
    <3>10. queue' = q \/ queue' = w
      BY <2>1, <3>2, <3>4
    <3> QED BY <2>1, <3>1, <3>6, <3>7, <3>8, <3>9, <3>10, UpQueue
  <2> QED BY <2>2, <2>3, <2>4, <2>5, <2>6, <2>7, <2>8, <2>9, <2>10, <2>11, <2>12 DEF IInv
<1> QED BY <1>2, <1>3

-------------------------------------------------------------------------------
(***************************************************************************)
(* The end of an operation and its next step                               *)
(***************************************************************************)

(* What the reply handler may leave in the variables of the control        *)
(* connection                                                              *)
ControlTyped ==
    /\ owed \in {"nothing", "setting", "transfer", "final"}
    /\ pending \in BOOLEAN /\ code \in Codes

(* The reason that is reported is a reason, and a failure has one. *)
LEMMA BlameIs ==
    ASSUME NEW result, NEW why \in Reasons \ {"none"}
    PROVE  /\ Blame(result, why) \in Reasons
           /\ result # "ok" => Blame(result, why) # "successful"
           /\ Blame(result, why) \in {"failed_resumetest", "transfer_failure_critical"} => Blame(result, why) = why
  BY DEF Blame, Reasons

(* CFtpControlSocket::ResetOperation of a raw transfer whose operation     *)
(* goes on or ends too.  A transfer that is successful has been told so by *)
(* both sides, and a failure of the data connection is one of its own.     *)
LEMMA EndOK ==
    ASSUME IInv, op # "none", NEW result \in {"ok", "error"}, NEW why \in Reasons \ {"none"},
           NEW q, Queue(q), End(result, why, q), ControlTyped', UNCHANGED <<tls, resumes>>,
           result = "ok" => reason = "successful" /\ code' = "2",
           why \in {"failed_resumetest", "transfer_failure_critical"} => reason = why
    PROVE  IInv'
<1>1. /\ queue' = WithoutSocket(q) /\ skip' = pending' /\ todo' \in {"send", "nothing"}
      /\ block' = 1 /\ reason' = "none" /\ postponed' = {} /\ busy' = FALSE /\ rounds' = 0
      /\ link' = "none" /\ armed' = {} /\ wire' = "empty"
      /\ pasv' = TRUE /\ triedPasv' = FALSE /\ triedActive' = FALSE
      /\ endReason' = "successful" /\ commandSent' = FALSE /\ question' = FALSE /\ repeat' = FALSE
  BY DEF End, StartTransfer, NoOperation, NewSocket, NoSocket, ResetSocket
<1>2. \/ /\ lastSock < MaxSockets /\ op' = "init" /\ sock' = lastSock + 1 /\ lastSock' = lastSock + 1
         /\ mode' = IF mode = "resumetest" THEN "download" ELSE mode
      \/ op' = "none" /\ todo' = "nothing" /\ mode' = "list" /\ sock' = 0 /\ UNCHANGED lastSock
  BY DEF End, StartTransfer, NoOperation, NewSocket, NoSocket
<1>3. verdict' = [result |-> result, why |-> Blame(result, why), data |-> reason, reply |-> code', sent |-> commandSent]
  BY DEF End, Judge
<1>4. lastSock \in Nat /\ MaxSockets \in Nat /\ MaxRounds \in Nat /\ lastSock <= MaxSockets
  BY BoundsAssumption DEF IInv, TypeSocket
<1>5. TypeControl'
  BY <1>1 DEF TypeControl, ControlTyped
<1>6. TypeOperation'
  BY <1>1, <1>2, <1>4 DEF IInv, TypeOperation, ControlTyped, States, Codes, Reasons
<1>7. TypeSocket'
  <2>1. lastSock' \in 0..MaxSockets /\ sock' \in 0..lastSock'
    BY <1>2, <1>4
  <2>2. block' \in 0..2 /\ rounds' \in 0..MaxRounds
    BY <1>1, <1>4
  <2>3. reason' \in Reasons /\ postponed' \subseteq {"read", "write"} /\ busy' \in BOOLEAN
    BY <1>1 DEF Reasons
  <2> QED BY <2>1, <2>2, <2>3 DEF TypeSocket
<1>8. TypeLayers'
  BY <1>1 DEF TypeLayers
<1>9. TypeRest'
  BY <1>3, BlameIs DEF IInv, TypeRest, ControlTyped, TypeSocket, TypeOperation
<1>10. BlockCounts'
  BY <1>1 DEF BlockCounts
<1>11. Phases'
  BY <1>1, <1>2, <1>4 DEF Phases
<1>12. Reports'
  BY <1>1, <1>2 DEF Reports
<1>13. Carries'
  BY <1>1 DEF Carries
<1>14. Verdict'
  BY <1>3, BlameIs DEF IInv, Reports, Verdict
<1>15. Queue(queue)'
  <2>1. PICK w : w = WithoutSocket(q)
    OBVIOUS
  <2>2. From(w, q) /\ No("socket", w) /\ No("ready", w)
    BY <2>1, WithoutSocketIs DEF Queue, Known
  <2> QED BY <1>1, <1>2, <2>1, <2>2, EndedQueue DEF IInv
<1> QED BY <1>5, <1>6, <1>7, <1>8, <1>9, <1>10, <1>11, <1>12, <1>13, <1>14, <1>15 DEF IInv

(* The whole queue is a part of itself. *)
LEMMA FromItself == ASSUME NEW q, Queue(q) PROVE From(q, q)
  BY DEF Queue, Known, From

(* The whole stack of operations ends; the connection may be closed, and   *)
(* its replies with it.                                                    *)
LEMMA AbortOK ==
    ASSUME IInv, op # "none", NEW result, result # "ok", NEW why \in Reasons \ {"none"},
           NEW p, Queue(p), NEW q, From(q, p), Abort(result, why, q), ControlTyped', UNCHANGED <<tls, resumes>>
    PROVE  IInv'
<1>1. /\ queue' = WithoutSocket(q) /\ skip' = pending' /\ todo' = "nothing"
      /\ block' = 1 /\ reason' = "none" /\ postponed' = {} /\ busy' = FALSE /\ rounds' = 0
      /\ link' = "none" /\ armed' = {} /\ wire' = "empty"
      /\ pasv' = TRUE /\ triedPasv' = FALSE /\ triedActive' = FALSE
      /\ endReason' = "successful" /\ commandSent' = FALSE /\ question' = FALSE /\ repeat' = FALSE
      /\ op' = "none" /\ mode' = "list" /\ sock' = 0 /\ UNCHANGED lastSock
  BY DEF Abort, NoOperation, NoSocket, ResetSocket
<1>2. verdict' = [result |-> "aborted", why |-> Blame(result, why), data |-> reason, reply |-> code',
                  sent |-> commandSent]
  BY DEF Abort, Judge
<1>3. lastSock \in Nat /\ MaxRounds \in Nat
  BY BoundsAssumption DEF IInv, TypeSocket
<1>4. TypeControl'
  BY <1>1 DEF TypeControl, ControlTyped
<1>5. TypeOperation'
  BY <1>1, <1>3 DEF IInv, TypeOperation, ControlTyped, States, Codes, Reasons
<1>6. TypeSocket'
  <2>1. lastSock' \in 0..MaxSockets /\ sock' \in 0..lastSock'
    BY <1>1, <1>3 DEF IInv, TypeSocket
  <2>2. block' \in 0..2 /\ rounds' \in 0..MaxRounds
    BY <1>1, <1>3
  <2>3. reason' \in Reasons /\ postponed' \subseteq {"read", "write"} /\ busy' \in BOOLEAN
    BY <1>1 DEF Reasons
  <2> QED BY <2>1, <2>2, <2>3 DEF TypeSocket
<1>7. TypeLayers'
  BY <1>1 DEF TypeLayers
<1>8. TypeRest'
  BY <1>2, BlameIs DEF IInv, TypeRest, ControlTyped, TypeSocket, TypeOperation
<1>9. BlockCounts'
  BY <1>1 DEF BlockCounts
<1>10. Phases'
  BY <1>1 DEF Phases
<1>11. Reports'
  BY <1>1 DEF Reports
<1>12. Carries'
  BY <1>1 DEF Carries
<1>13. Verdict'
  BY <1>2 DEF Verdict
<1>14. Queue(queue)'
  <2>1. PICK w : w = WithoutSocket(q)
    OBVIOUS
  <2>2. From(w, q) /\ No("socket", w) /\ No("ready", w)
    BY <2>1, WithoutSocketIs DEF From
  <2>3. From(w, p)
    BY <2>2 DEF From
  <2> QED BY <1>1, <2>1, <2>2, <2>3, EndedQueue DEF IInv
<1> QED BY <1>4, <1>5, <1>6, <1>7, <1>8, <1>9, <1>10, <1>11, <1>12, <1>13, <1>14 DEF IInv

(* The operation goes on after a reply. *)
LEMMA ProceedOK ==
    ASSUME IInv, queue # << >>, NEW state, NEW passive \in BOOLEAN, Proceed(state, passive), ControlTyped',
           UNCHANGED <<tls, resumes>>, op \notin {"none", "parent"},
           \/ state \in {"port_pasv", "rest", "transfer"} /\ op \in {"type", "port_pasv", "rest"}
           \/ state = "waitfinish" /\ op = "transfer"
           \/ state = "waitsocket" /\ code' = "2"
           \/ state = "waittransfer" /\ op = "waittransferpre"
    PROVE  IInv'
<1>1. PICK q : q = Tail(queue)
  OBVIOUS
<1>2. Queue(q)
  BY <1>1, Taken DEF IInv
<1>3. /\ op' = state /\ pasv' = passive /\ todo' = "send" /\ queue' = q
      /\ UNCHANGED <<skip, mode, repeat, triedPasv, triedActive, endReason, commandSent, question, sock, lastSock,
                     block, reason, postponed, busy, rounds, link, armed, wire, verdict>>
  BY <1>1 DEF Proceed, socket, layers
<1>4. op' \notin {"none", "parent", "init", "type"}
  BY <1>3
<1>5. TypeControl'
  BY <1>3 DEF IInv, TypeControl, ControlTyped
<1>6. TypeOperation'
  BY <1>3 DEF IInv, TypeOperation, States
<1>7. TypeSocket'
  BY <1>3 DEF IInv, TypeSocket
<1>8. TypeLayers'
  BY <1>3 DEF IInv, TypeLayers
<1>9. TypeRest'
  BY <1>3 DEF IInv, TypeRest
<1>10. BlockCounts'
  BY <1>3 DEF IInv, BlockCounts
<1>11. Phases'
  BY <1>3 DEF IInv, Phases
<1>12. Reports'
  BY <1>3 DEF IInv, Reports
<1>13. Carries'
  BY <1>3 DEF IInv, Carries
<1>14. Verdict'
  BY <1>3 DEF IInv, Verdict
<1>15. Queue(queue)'
  BY <1>2, <1>3, KeptQueue
<1> QED BY <1>5, <1>6, <1>7, <1>8, <1>9, <1>10, <1>11, <1>12, <1>13, <1>14, <1>15 DEF IInv

-------------------------------------------------------------------------------
(***************************************************************************)
(* The steps that send                                                     *)
(***************************************************************************)

(* Nothing may be sent now. *)
LEMMA SendBlockedOK == ASSUME IInv, SendBlocked PROVE IInv'
<1>1. todo' = "nothing" /\ UNCHANGED <<queue, control, operation, socket, layers, tls, resumes, verdict>>
  BY DEF SendBlocked
<1>2. TypeControl'
  BY <1>1 DEF IInv, TypeControl, control
<1>3. TypeOperation'
  BY <1>1 DEF IInv, TypeOperation, operation
<1>4. TypeSocket'
  BY <1>1 DEF IInv, TypeSocket, socket
<1>5. TypeLayers'
  BY <1>1 DEF IInv, TypeLayers, layers
<1>6. TypeRest'
  BY <1>1 DEF IInv, TypeRest
<1>7. BlockCounts'
  BY <1>1 DEF IInv, BlockCounts, operation, socket, layers
<1>8. Phases'
  BY <1>1 DEF IInv, Phases, control, operation, socket, layers
<1>9. Reports'
  BY <1>1 DEF IInv, Reports, control, operation, socket
<1>10. Carries'
  BY <1>1 DEF IInv, Carries, operation, socket, layers
<1>11. Verdict'
  BY <1>1 DEF IInv, Verdict
<1>12. Queue(queue)'
  <2>1. PICK q : q = queue
    OBVIOUS
  <2>2. Queue(q)
    BY <2>1 DEF IInv
  <2> QED BY <1>1, <2>1, <2>2, KeptQueue DEF operation, socket, layers
<1> QED BY <1>2, <1>3, <1>4, <1>5, <1>6, <1>7, <1>8, <1>9, <1>10, <1>11, <1>12 DEF IInv

(* The operation makes its socket; nothing of an earlier one but its ends  *)
(* is left in the queue.                                                   *)
LEMMA SendParentOK == ASSUME IInv, SendParent PROVE IInv'
<1>1. /\ op = "parent" /\ op' = "init" /\ todo' = "send"
      /\ pasv' = TRUE /\ triedPasv' = FALSE /\ triedActive' = FALSE
      /\ endReason' = "successful" /\ commandSent' = FALSE /\ question' = FALSE
      /\ sock' = lastSock + 1 /\ lastSock' = lastSock + 1
      /\ block' = 1 /\ reason' = "none" /\ postponed' = {} /\ busy' = FALSE /\ rounds' = 0
      /\ link' = "none" /\ armed' = {} /\ wire' = "empty"
      /\ UNCHANGED <<queue, owed, pending, skip, code, mode, repeat, tls, resumes, verdict>>
  BY DEF SendParent, MaySend, StartTransfer, NewSocket, ResetSocket, control
<1>2. lastSock \in Nat /\ MaxSockets \in Nat /\ MaxRounds \in Nat /\ lastSock < MaxSockets
  BY <1>1, BoundsAssumption DEF IInv, TypeSocket, Phases
<1>3. sock = 0 /\ link = "none" /\ ~commandSent
  BY <1>1 DEF IInv, Phases
<1>4. TypeControl'
  BY <1>1 DEF IInv, TypeControl
<1>5. TypeOperation'
  BY <1>1, <1>2 DEF IInv, TypeOperation, States, Reasons
<1>6. TypeSocket'
  <2>1. lastSock' \in 0..MaxSockets /\ sock' \in 0..lastSock'
    BY <1>1, <1>2
  <2>2. block' \in 0..2 /\ rounds' \in 0..MaxRounds
    BY <1>1, <1>2
  <2>3. reason' \in Reasons /\ postponed' \subseteq {"read", "write"} /\ busy' \in BOOLEAN
    BY <1>1 DEF Reasons
  <2> QED BY <2>1, <2>2, <2>3 DEF TypeSocket
<1>7. TypeLayers'
  BY <1>1 DEF TypeLayers
<1>8. TypeRest'
  BY <1>1 DEF IInv, TypeRest
<1>9. BlockCounts'
  BY <1>1 DEF BlockCounts
<1>10. Phases'
  BY <1>1, <1>2 DEF Phases
<1>11. Reports'
  BY <1>1 DEF Reports
<1>12. Carries'
  BY <1>1 DEF Carries
<1>13. Verdict'
  BY <1>1 DEF IInv, Verdict
<1>14. Queue(queue)'
  <2>1. PICK q : q = queue
    OBVIOUS
  <2>2. Queue(q)
    BY <2>1 DEF IInv
  <2>3. q \in Seq(Events) /\ From(q, q)
    BY <2>2 DEF Queue, Known, From
  <2>4. No("socket", q)
    BY <1>3, <2>2 DEF Queue, OfTheLink, No, Sent
  <2>5. No("ready", q)
    BY <1>3, <2>2 DEF Queue, AskedFor, No
  <2> QED BY <1>1, <2>1, <2>2, <2>3, <2>4, <2>5, EndedQueue DEF IInv
<1> QED BY <1>4, <1>5, <1>6, <1>7, <1>8, <1>9, <1>10, <1>11, <1>12, <1>13, <1>14 DEF IInv

(* The raw transfer begins. *)
LEMMA SendInitOK == ASSUME IInv, SendInit PROVE IInv'
<1>1. /\ op = "init" /\ op' \in {"type", "port_pasv"} /\ pasv' \in BOOLEAN /\ triedActive' \in BOOLEAN
      /\ verdict' = NoVerdict
      /\ UNCHANGED <<queue, owed, pending, skip, code, todo, mode, repeat, triedPasv, endReason, commandSent, question,
                     sock, lastSock, block, reason, postponed, busy, rounds, link, armed, wire, tls, resumes>>
  BY DEF SendInit, MaySend, control, socket, layers
<1>2. TypeControl'
  BY <1>1 DEF IInv, TypeControl
<1>3. TypeOperation'
  BY <1>1 DEF IInv, TypeOperation, States
<1>4. TypeSocket'
  BY <1>1 DEF IInv, TypeSocket
<1>5. TypeLayers'
  BY <1>1 DEF IInv, TypeLayers
<1>6. TypeRest'
  BY <1>1 DEF IInv, TypeRest, NoVerdict, Reasons, Codes
<1>7. BlockCounts'
  BY <1>1 DEF IInv, BlockCounts
<1>8. Phases'
  BY <1>1 DEF IInv, Phases
<1>9. Reports'
  BY <1>1 DEF IInv, Reports
<1>10. Carries'
  BY <1>1 DEF IInv, Carries
<1>11. Verdict'
  BY <1>1 DEF Verdict, NoVerdict
<1>12. Queue(queue)'
  <2>1. PICK q : q = queue
    OBVIOUS
  <2>2. Queue(q)
    BY <2>1 DEF IInv
  <2> QED BY <1>1, <2>1, <2>2, KeptQueue
<1> QED BY <1>2, <1>3, <1>4, <1>5, <1>6, <1>7, <1>8, <1>9, <1>10, <1>11, <1>12 DEF IInv

(* A command that sets something is sent. *)
LEMMA SendSettingOK == ASSUME IInv, SendSetting PROVE IInv'
<1>1. /\ op \in {"type", "rest"} /\ owed' = "setting" /\ pending' = TRUE /\ code' = "none" /\ todo' = "nothing"
      /\ UNCHANGED <<queue, skip, operation, socket, layers, tls, resumes, verdict>>
  BY DEF SendSetting, MaySend, SendCommand
<1>2. TypeControl'
  BY <1>1 DEF IInv, TypeControl, Codes
<1>3. TypeOperation'
  BY <1>1 DEF IInv, TypeOperation, operation
<1>4. TypeSocket'
  BY <1>1 DEF IInv, TypeSocket, socket
<1>5. TypeLayers'
  BY <1>1 DEF IInv, TypeLayers, layers
<1>6. TypeRest'
  BY <1>1 DEF IInv, TypeRest
<1>7. BlockCounts'
  BY <1>1 DEF IInv, BlockCounts, operation, socket, layers
<1>8. Phases'
  BY <1>1 DEF IInv, Phases, operation, socket
<1>9. Reports'
  BY <1>1 DEF IInv, Reports, operation, socket
<1>10. Carries'
  BY <1>1 DEF IInv, Carries, operation, socket, layers
<1>11. Verdict'
  BY <1>1 DEF IInv, Verdict
<1>12. Queue(queue)'
  <2>1. PICK q : q = queue
    OBVIOUS
  <2>2. Queue(q)
    BY <2>1 DEF IInv
  <2> QED BY <1>1, <2>1, <2>2, KeptQueue DEF operation, socket, layers
<1> QED BY <1>2, <1>3, <1>4, <1>5, <1>6, <1>7, <1>8, <1>9, <1>10, <1>11, <1>12 DEF IInv

(* The connection below the socket is replaced before the transfer         *)
(* command, or the socket is told of it with the command.                  *)
Relinked ==
    /\ op \in {"port_pasv", "transfer"} /\ ~commandSent /\ ~question /\ UNCHANGED op
    /\ owed' \in {"setting", "transfer"} /\ pending' = TRUE /\ code' = "none" /\ todo' = "nothing" /\ UNCHANGED skip
    /\ pasv' \in BOOLEAN /\ triedPasv' \in BOOLEAN /\ triedActive' \in BOOLEAN
    /\ commandSent' \in BOOLEAN /\ (commandSent' <=> op = "transfer")
    /\ block' = (IF op = "transfer" /\ reason = "none" THEN block - 1 ELSE block)
    /\ skip => ~commandSent'
    /\ UNCHANGED <<mode, repeat, endReason, question, sock, lastSock, reason, busy, rounds, tls, resumes, verdict>>

(* Such a step with another connection *)
LEMMA RelinkedOK ==
    ASSUME IInv, Relinked, link' \in {"none", "listening", "connecting"}, armed' = {}, wire' = "empty",
           queue' = DropEvents(queue), UNCHANGED postponed
    PROVE  IInv'
<1>1. block = 1 /\ ~busy /\ op # "none"
  BY DEF Relinked, IInv, BlockCounts, TypeSocket, Carries
<1>2. TypeControl'
  BY <1>1 DEF IInv, TypeControl, Relinked, Codes
<1>3. TypeOperation'
  BY <1>1 DEF IInv, TypeOperation, Relinked, Codes
<1>4. TypeSocket'
  BY <1>1 DEF IInv, TypeSocket, Relinked, Codes
<1>5. TypeLayers'
  BY <1>1 DEF IInv, TypeLayers, Relinked, Codes
<1>6. TypeRest'
  BY <1>1 DEF IInv, TypeRest, Relinked, Codes
<1>7. BlockCounts'
  BY <1>1 DEF BlockCounts, Relinked
<1>8. Phases'
  BY DEF IInv, Phases, Relinked
<1>9. Reports'
  BY DEF IInv, Reports, Relinked
<1>10. Carries'
  BY <1>1 DEF Carries, Relinked
<1>11. Verdict'
  BY <1>1 DEF IInv, Verdict, Relinked, Codes
<1>12. Queue(queue)'
  <2>1. PICK q : q = queue
    OBVIOUS
  <2>2. Queue(q)
    BY <2>1 DEF IInv
  <2>3. No("ready", q)
    BY <2>2 DEF Queue, AskedFor, No, Relinked
  <2> QED BY <2>1, <2>2, <2>3, DroppedQueue DEF Relinked
<1> QED BY <1>2, <1>3, <1>4, <1>5, <1>6, <1>7, <1>8, <1>9, <1>10, <1>11, <1>12 DEF IInv

(* Such a step with the connection there is, whose postponed events come   *)
(* first                                                                   *)
LEMMA PromptedOK ==
    ASSUME IInv, Relinked, UNCHANGED layers,
           \/ UNCHANGED <<queue, postponed>>
           \/ link = "up" /\ queue' = Postponed(queue) /\ postponed' = {}
    PROVE  IInv'
<1>1. block = 1 /\ ~busy /\ op # "none"
  BY DEF Relinked, IInv, BlockCounts, TypeSocket, Carries
<1>2. TypeControl'
  BY DEF IInv, TypeControl, Relinked, Codes
<1>3. TypeOperation'
  BY DEF IInv, TypeOperation, Relinked
<1>4. TypeSocket'
  <2>1. postponed' \subseteq {"read", "write"}
    BY DEF IInv, TypeSocket
  <2>2. block' \in 0..2
    BY <1>1 DEF Relinked
  <2> QED BY <2>1, <2>2 DEF IInv, TypeSocket, Relinked
<1>5. TypeLayers'
  BY DEF IInv, TypeLayers, layers
<1>6. TypeRest'
  BY DEF IInv, TypeRest, Relinked
<1>7. BlockCounts'
  BY DEF IInv, BlockCounts, TypeSocket, Relinked
<1>8. Phases'
  BY DEF IInv, Phases, Relinked
<1>9. Reports'
  BY DEF IInv, Reports, Relinked
<1>10. Carries'
  BY DEF IInv, Carries, Relinked, layers
<1>11. Verdict'
  BY DEF IInv, Verdict, Relinked
<1>12. Queue(queue)'
  <2>1. PICK q : q = queue
    OBVIOUS
  <2>2. Queue(q)
    BY <2>1 DEF IInv
  <2>3. CASE UNCHANGED queue
    BY <2>1, <2>2, <2>3, KeptQueue DEF Relinked, layers
  <2>4. CASE link = "up" /\ queue' = Postponed(queue)
    <3>1. q \in Seq(Events) /\ Known(q) /\ NoStale(q) /\ No("command", q) /\ No("ready", q)
      BY <2>2, <2>4 DEF Queue, Known, StaleFirst, NoStale, OneCommand, AskedFor, No, Relinked
    <3>2. \A i \in 1..Len(q) : q[i][1] = "socket" => q[i][2] \in {"read", "write"}
      BY <2>2, <2>4 DEF Queue, OfTheLink, Sent
    <3>3. PICK w : w = Postponed(q)
      OBVIOUS
    <3>4. UpFrom(w, q)
      BY <3>1, <3>3, PostponedIs
    <3>5. queue' = w /\ link' = "up" /\ UNCHANGED <<sock, lastSock>>
      BY <2>1, <2>4, <3>3 DEF Relinked, layers
    <3> QED BY <3>1, <3>2, <3>4, <3>5, UpQueue
  <2> QED BY <2>3, <2>4
<1> QED BY <1>2, <1>3, <1>4, <1>5, <1>6, <1>7, <1>8, <1>9, <1>10, <1>11, <1>12 DEF IInv

(* PASV or PORT is sent, or cannot be. *)
LEMMA SendPortPasvOK == ASSUME IInv, SendPortPasv PROVE IInv'
<1>1. /\ op = "port_pasv" /\ todo = "send" /\ ~question /\ ~skip /\ ~commandSent /\ UNCHANGED <<tls, resumes>>
      /\ pasv \in BOOLEAN /\ commandSent \in BOOLEAN /\ triedPasv \in BOOLEAN /\ triedActive \in BOOLEAN
  BY DEF SendPortPasv, MaySend, IInv, Phases, TypeOperation
<1>2. CASE /\ triedPasv' = TRUE /\ SendCommand("setting") /\ todo' = "nothing"
           /\ UNCHANGED <<queue, pasv, triedActive, op, mode, repeat, endReason, commandSent, question, socket,
                          layers, verdict>>
  <2>1. Relinked
    BY <1>1, <1>2 DEF Relinked, SendCommand, socket
  <2> QED BY <1>2, <2>1, PromptedOK DEF socket
<1>3. CASE /\ triedActive' = TRUE /\ SendCommand("setting") /\ todo' = "nothing"
           /\ link' = "listening" /\ armed' = {} /\ wire' = "empty" /\ queue' = DropEvents(queue)
           /\ UNCHANGED <<pasv, triedPasv, op, mode, repeat, endReason, commandSent, question, socket, verdict>>
  <2>1. Relinked
    BY <1>1, <1>3 DEF Relinked, SendCommand, socket
  <2> QED BY <1>3, <2>1, RelinkedOK DEF socket
<1>4. CASE /\ triedActive' = TRUE /\ pasv' = TRUE /\ triedPasv' = TRUE
           /\ SendCommand("setting") /\ todo' = "nothing"
           /\ ResetSocket /\ queue' = DropEvents(queue)
           /\ UNCHANGED <<op, mode, repeat, endReason, commandSent, question, socket, verdict>>
  <2>1. Relinked
    BY <1>1, <1>4 DEF Relinked, SendCommand, socket
  <2> QED BY <1>4, <2>1, RelinkedOK DEF socket, ResetSocket
<1>5. CASE UNCHANGED <<owed, pending, code>> /\ End("error", endReason, queue)
  <2>1. PICK q : q = queue
    OBVIOUS
  <2>2. Queue(q) /\ End("error", endReason, q)
    BY <1>5, <2>1 DEF IInv, End
  <2>3. ControlTyped' /\ endReason \in Reasons \ {"none"}
    BY <1>5 DEF IInv, TypeControl, TypeOperation, ControlTyped
  <2>4. endReason \in {"failed_resumetest", "transfer_failure_critical"} => reason = endReason
    BY DEF IInv, Reports
  <2> QED BY <1>1, <2>2, <2>3, <2>4, EndOK
<1> QED BY <1>2, <1>3, <1>4, <1>5 DEF SendPortPasv

(* The transfer command is sent, or the connection cannot be made. *)
LEMMA SendTransferOK == ASSUME IInv, SendTransfer PROVE IInv'
<1>1. /\ op = "transfer" /\ todo = "send" /\ ~question /\ ~skip /\ ~commandSent /\ UNCHANGED <<tls, resumes>>
      /\ pasv \in BOOLEAN /\ commandSent \in BOOLEAN /\ triedPasv \in BOOLEAN /\ triedActive \in BOOLEAN /\ block = 1
  BY DEF SendTransfer, MaySend, IInv, Phases, TypeOperation, TypeSocket, BlockCounts
<1>2. CASE /\ commandSent' = TRUE /\ SendCommand("transfer") /\ todo' = "nothing"
           /\ SetActive
           /\ IF pasv
              THEN /\ link' = "connecting" /\ armed' = {} /\ wire' = "empty"
                   /\ queue' = DropEvents(queue) /\ UNCHANGED postponed
              ELSE /\ UNCHANGED layers
                   /\ IF link = "up" /\ block' = 0
                      THEN queue' = Postponed(queue) /\ postponed' = {}
                      ELSE UNCHANGED <<queue, postponed>>
           /\ UNCHANGED <<verdict, op, pasv, triedPasv, triedActive, mode, repeat, endReason, question, sock, lastSock,
                          reason, busy, rounds>>
  <2>1. Relinked
    BY <1>1, <1>2 DEF Relinked, SendCommand, SetActive
  <2> QED BY <1>2, <2>1, RelinkedOK, PromptedOK
<1>3. CASE UNCHANGED <<owed, pending, code>> /\ End("error", endReason, queue)
  <2>1. PICK q : q = queue
    OBVIOUS
  <2>2. Queue(q) /\ End("error", endReason, q)
    BY <1>3, <2>1 DEF IInv, End
  <2>3. ControlTyped' /\ endReason \in Reasons \ {"none"}
    BY <1>3 DEF IInv, TypeControl, TypeOperation, ControlTyped
  <2>4. endReason \in {"failed_resumetest", "transfer_failure_critical"} => reason = endReason
    BY DEF IInv, Reports
  <2> QED BY <1>1, <2>2, <2>3, <2>4, EndOK
<1> QED BY <1>2, <1>3 DEF SendTransfer

-------------------------------------------------------------------------------
(***************************************************************************)
(* The handlers of the control connection                                  *)
(***************************************************************************)

(* An event is taken and nothing else happens. *)
LEMMA IgnoreOK == ASSUME IInv, queue # << >>, Ignore, UNCHANGED <<tls, resumes>> PROVE IInv'
<1>1. TypeControl'
  BY DEF IInv, TypeControl, Ignore, control
<1>2. TypeOperation'
  BY DEF IInv, TypeOperation, Ignore, operation
<1>3. TypeSocket'
  BY DEF IInv, TypeSocket, Ignore, socket
<1>4. TypeLayers'
  BY DEF IInv, TypeLayers, Ignore, layers
<1>5. TypeRest'
  BY DEF IInv, TypeRest, Ignore
<1>6. BlockCounts'
  BY DEF IInv, BlockCounts, Ignore, operation, socket, layers
<1>7. Phases'
  BY DEF IInv, Phases, Ignore, control, operation, socket, layers
<1>8. Reports'
  BY DEF IInv, Reports, Ignore, control, operation, socket
<1>9. Carries'
  BY DEF IInv, Carries, Ignore, operation, socket, layers
<1>10. Verdict'
  BY DEF IInv, Verdict, Ignore
<1>11. Queue(queue)'
  <2>1. PICK q : q = Tail(queue)
    OBVIOUS
  <2>2. Queue(q)
    BY <2>1, Taken DEF IInv
  <2> QED BY <2>1, <2>2, KeptQueue DEF Ignore, operation, socket, layers
<1> QED BY <1>1, <1>2, <1>3, <1>4, <1>5, <1>6, <1>7, <1>8, <1>9, <1>10, <1>11 DEF IInv

(* The operation fails after a reply. *)
LEMMA FailOK ==
    ASSUME IInv, queue # << >>, op # "none", ControlTyped', UNCHANGED <<tls, resumes>>,
           NEW why \in {endReason, "transfer_command_failure_immediate", "transfer_command_failure"}, Fail(why)
    PROVE  IInv'
<1>1. PICK q : q = Tail(queue)
  OBVIOUS
<1>2. Queue(q) /\ End("error", why, q)
  BY <1>1, Taken DEF IInv, Fail, End
<1>3. why \in Reasons \ {"none"}
  BY DEF IInv, TypeOperation, Reasons
<1>4. why \in {"failed_resumetest", "transfer_failure_critical"} => reason = why
  BY DEF IInv, Reports
<1> QED BY <1>2, <1>3, <1>4, EndOK

(* The final reply comes after the end of the data connection. *)
LEMMA FinishedOK ==
    ASSUME IInv, queue # << >>, op \in {"waittransferpre", "waittransfer"}, ControlTyped', code' = "2",
           UNCHANGED <<tls, resumes>>, Finished
    PROVE  IInv'
<1>1. CASE endReason = "successful"
  <2>1. PICK q : q = Tail(queue)
    OBVIOUS
  <2>2. Queue(q) /\ End("ok", "successful", q)
    BY <1>1, <2>1, Taken DEF IInv, Finished
  <2>3. reason = "successful" /\ "successful" \in Reasons \ {"none"}
    BY <1>1 DEF IInv, Reports, Reasons
  <2> QED BY <2>2, <2>3, EndOK
<1>2. CASE endReason # "successful"
  BY <1>2, FailOK DEF Finished
<1> QED BY <1>1, <1>2

(* CFtpRawTransferOpData::ParseResponse *)
LEMMA ParseResponseOK ==
    ASSUME IInv, queue # << >>, op # "none", ControlTyped', UNCHANGED <<tls, resumes>>,
           Detail \in {"1", "2", "5"}, code' = Detail, ParseResponse
    PROVE  IInv'
<1>1. pasv \in BOOLEAN /\ triedPasv \in BOOLEAN
  BY DEF IInv, TypeOperation
<1>2. \A why \in {"transfer_command_failure_immediate", "transfer_command_failure"} :
         Rejected(why) \in {endReason, "transfer_command_failure_immediate", "transfer_command_failure"}
  BY DEF Rejected
<1>3. CASE op = "type" /\ IF Detail = "2" THEN Proceed("port_pasv", pasv) ELSE Fail(endReason)
  BY <1>1, <1>3, ProceedOK, FailOK
<1>4. CASE op = "port_pasv" /\ FallBack
  <2>1. CASE Fail(endReason)
    BY <1>4, <2>1, FailOK
  <2>2. CASE Proceed("port_pasv", ~triedPasv)
    <3>1. PICK p \in BOOLEAN : p = ~triedPasv
      BY <1>1
    <3>2. Proceed("port_pasv", p)
      BY <2>2, <3>1 DEF Proceed
    <3> QED BY <1>4, <3>2, ProceedOK
  <2> QED BY <1>4, <2>1, <2>2 DEF FallBack
<1>5. CASE op = "port_pasv" /\ (Proceed("rest", pasv) \/ Proceed("transfer", pasv))
  BY <1>1, <1>5, ProceedOK
<1>6. CASE op = "rest" /\ (Proceed("transfer", pasv) \/ Fail(endReason))
  BY <1>1, <1>6, ProceedOK, FailOK
<1>7. CASE /\ op = "transfer"
           /\ \/ Detail = "1" /\ Proceed("waitfinish", pasv)
              \/ Detail = "2" /\ Proceed("waitsocket", pasv)
              \/ Fail(Rejected("transfer_command_failure_immediate"))
  <2>1. PICK why : why = Rejected("transfer_command_failure_immediate")
    OBVIOUS
  <2>2. why \in {endReason, "transfer_command_failure_immediate", "transfer_command_failure"}
    BY <1>2, <2>1
  <2>3. CASE Fail(Rejected("transfer_command_failure_immediate"))
    <3>1. Fail(why)
      BY <2>1, <2>3 DEF Fail, End
    <3> QED BY <2>2, <3>1, FailOK
  <2> QED BY <1>1, <1>7, <2>3, ProceedOK
<1>8. CASE /\ op = "waittransferpre"
           /\ \/ Detail = "1" /\ Proceed("waittransfer", pasv)
              \/ Detail = "2" /\ Finished
              \/ Fail(Rejected("transfer_command_failure_immediate"))
  <2>1. PICK why : why = Rejected("transfer_command_failure_immediate")
    OBVIOUS
  <2>2. why \in {endReason, "transfer_command_failure_immediate", "transfer_command_failure"}
    BY <1>2, <2>1
  <2>3. CASE Fail(Rejected("transfer_command_failure_immediate"))
    <3>1. Fail(why)
      BY <2>1, <2>3 DEF Fail, End
    <3> QED BY <2>2, <3>1, FailOK
  <2> QED BY <1>1, <1>8, <2>3, ProceedOK, FinishedOK
<1>9. CASE /\ op \in {"waitfinish", "waittransfer"}
           /\ \/ op = "waitfinish" /\ Detail = "2" /\ Proceed("waitsocket", pasv)
              \/ op = "waittransfer" /\ Detail = "2" /\ Finished
              \/ Fail(Rejected("transfer_command_failure"))
  <2>1. PICK why : why = Rejected("transfer_command_failure")
    OBVIOUS
  <2>2. why \in {endReason, "transfer_command_failure_immediate", "transfer_command_failure"}
    BY <1>2, <2>1
  <2>3. CASE Fail(Rejected("transfer_command_failure"))
    <3>1. Fail(why)
      BY <2>1, <2>3 DEF Fail, End
    <3> QED BY <2>2, <3>1, FailOK
  <2> QED BY <1>1, <1>9, <2>3, ProceedOK, FinishedOK
<1> QED BY <1>3, <1>4, <1>5, <1>6, <1>7, <1>8, <1>9 DEF ParseResponse

(* CFtpControlSocket::ParseResponse *)
LEMMA ReplyOK == ASSUME IInv, Reply PROVE IInv'
<1>1. queue # << >> /\ Head(queue)[1] = "reply" /\ todo = "nothing" /\ UNCHANGED <<owed, tls, resumes>>
  BY DEF Reply, Event, Idle
<1>2. Detail \in {"1", "2", "5"}
  <2>1. Head(queue) \in Events
    BY <1>1, Taken DEF IInv
  <2> QED BY <1>1, <2>1 DEF Events, Detail
<1>3. pending \in BOOLEAN /\ pending' \in BOOLEAN /\ (pending' => pending)
  BY DEF Reply, IInv, TypeControl
<1>4. CASE skip
  <2>1. /\ skip' = pending' /\ UNCHANGED code /\ todo' \in {"send", "nothing"} /\ (op = "none" => todo' = "nothing")
        /\ queue' = Tail(queue) /\ UNCHANGED <<operation, socket, layers, verdict>>
    BY <1>4 DEF Reply
  <2>2. TypeControl'
    BY <1>1, <1>3, <2>1 DEF IInv, TypeControl
  <2>3. TypeOperation'
    BY <2>1 DEF IInv, TypeOperation, operation
  <2>4. TypeSocket'
    BY <2>1 DEF IInv, TypeSocket, socket
  <2>5. TypeLayers'
    BY <2>1 DEF IInv, TypeLayers, layers
  <2>6. TypeRest'
    BY <1>1, <2>1 DEF IInv, TypeRest
  <2>7. BlockCounts'
    BY <2>1 DEF IInv, BlockCounts, operation, socket, layers
  <2>8. Phases'
    BY <1>4, <2>1 DEF IInv, Phases, operation, socket, layers
  <2>9. Reports'
    BY <2>1 DEF IInv, Reports, operation, socket
  <2>10. Carries'
    BY <2>1 DEF IInv, Carries, operation, socket, layers
  <2>11. Verdict'
    BY <2>1 DEF IInv, Verdict
  <2>12. Queue(queue)'
    <3>1. PICK q : q = Tail(queue)
      OBVIOUS
    <3>2. Queue(q)
      BY <1>1, <3>1, Taken DEF IInv
    <3> QED BY <2>1, <3>1, <3>2, KeptQueue DEF operation, socket, layers
  <2> QED BY <2>2, <2>3, <2>4, <2>5, <2>6, <2>7, <2>8, <2>9, <2>10, <2>11, <2>12 DEF IInv
<1>5. CASE ~skip
  <2>1. code' = Detail /\ ParseResponse
    BY <1>5 DEF Reply
  <2>2. op # "none"
    BY <2>1 DEF ParseResponse
  <2>3. ControlTyped'
    BY <1>1, <1>2, <1>3, <2>1 DEF ControlTyped, IInv, TypeControl, Codes
  <2> QED BY <1>1, <1>2, <2>1, <2>2, <2>3, ParseResponseOK
<1> QED BY <1>4, <1>5

(* CFtpControlSocket::TransferEnd: the end that counts is the one of the   *)
(* socket there is, whichever end the event was.                           *)
LEMMA OnTransferEndOK == ASSUME IInv, OnTransferEnd PROVE IInv'
<1>1. queue # << >> /\ todo = "nothing" /\ UNCHANGED <<tls, resumes>>
  BY DEF OnTransferEnd, Event, Idle
<1>2. PICK q : q = Tail(queue)
  OBVIOUS
<1>3. Queue(q)
  BY <1>1, <1>2, Taken DEF IInv
<1>4. CASE Ignore
  BY <1>1, <1>4, IgnoreOK
<1>5. PICK why : why = Rejected(reason)
  OBVIOUS
<1>6. CASE ~(op \in {"none", "parent"} \/ sock = 0 \/ reason = "none")
  <2>1. why \in Reasons \ {"none"} /\ why \in {reason, endReason} /\ (why # "successful" => reason = why)
        /\ (why = "successful" => reason = "successful")
    BY <1>5, <1>6 DEF Rejected, IInv, TypeSocket, Reports
  <2>2. CASE UNCHANGED <<owed, pending, code>> /\ Abort("error", Rejected(reason), Tail(queue))
    <3>1. Abort("error", why, q) /\ ControlTyped'
      BY <1>2, <1>5, <2>2 DEF ControlTyped, IInv, TypeControl
    <3> QED BY <1>1, <1>3, <1>6, <2>1, <3>1, FromItself, AbortOK
  <2>3. CASE /\ op = "waitsocket" /\ UNCHANGED <<owed, pending, code>>
             /\ End(IF reason = "successful" THEN "ok" ELSE "error", Rejected(reason), Tail(queue))
    <3>1. PICK result : result = IF reason = "successful" THEN "ok" ELSE "error"
      OBVIOUS
    <3>2. End(result, why, q) /\ ControlTyped'
      BY <1>2, <1>5, <2>3, <3>1 DEF ControlTyped, IInv, TypeControl
    <3>3. result \in {"ok", "error"} /\ (result = "ok" => reason = "successful" /\ code' = "2")
      BY <2>3, <3>1 DEF IInv, Reports
    <3> QED BY <1>1, <1>3, <1>6, <2>1, <3>2, <3>3, EndOK
  <2>4. CASE /\ op # "waitsocket" /\ endReason' = Rejected(reason)
             /\ op' = CASE op = "transfer" -> "waittransferpre"
                        [] op = "waitfinish" -> "waittransfer"
                        [] OTHER -> op
             /\ queue' = Tail(queue)
             /\ UNCHANGED <<control, todo, mode, repeat, pasv, triedPasv, triedActive, commandSent, question,
                            socket, layers, verdict>>
    <3>1. /\ endReason' = why /\ queue' = q
          /\ op' = op \/ (op = "transfer" /\ op' = "waittransferpre") \/ (op = "waitfinish" /\ op' = "waittransfer")
          /\ UNCHANGED <<control, todo, mode, repeat, pasv, triedPasv, triedActive, commandSent, question,
                         socket, layers, verdict>>
      BY <1>2, <1>5, <2>4
    <3>2. TypeControl'
      BY <3>1 DEF IInv, TypeControl, control
    <3>3. TypeOperation'
      BY <2>1, <3>1 DEF IInv, TypeOperation, States
    <3>4. TypeSocket'
      BY <3>1 DEF IInv, TypeSocket, socket
    <3>5. TypeLayers'
      BY <3>1 DEF IInv, TypeLayers, layers
    <3>6. TypeRest'
      BY <1>1, <3>1 DEF IInv, TypeRest
    <3>7. BlockCounts'
      BY <3>1 DEF IInv, BlockCounts, socket, layers
    <3>8. Phases'
      BY <3>1 DEF IInv, Phases, control, socket, layers
    <3>9. Reports'
      BY <2>1, <2>4, <3>1 DEF IInv, Reports, socket
    <3>10. Carries'
      BY <3>1 DEF IInv, Carries, socket, layers
    <3>11. Verdict'
      BY <3>1 DEF IInv, Verdict
    <3>12. Queue(queue)'
      BY <1>3, <3>1, KeptQueue DEF socket, layers
    <3> QED BY <3>2, <3>3, <3>4, <3>5, <3>6, <3>7, <3>8, <3>9, <3>10, <3>11, <3>12 DEF IInv
  <2> QED BY <1>6, <2>2, <2>3, <2>4 DEF OnTransferEnd
<1> QED BY <1>4, <1>6 DEF OnTransferEnd

(* The user's answer to the question about TLS session resumption *)
LEMMA AnswerOK == ASSUME IInv, Answer PROVE IInv'
<1>1. queue # << >> /\ UNCHANGED tls
  BY DEF Answer, Event
<1>2. PICK q : q = Tail(queue)
  OBVIOUS
<1>3. Queue(q)
  BY <1>1, <1>2, Taken DEF IInv
<1>4. CASE Ignore /\ UNCHANGED resumes
  BY <1>1, <1>4, IgnoreOK
<1>5. CASE question /\ UNCHANGED <<owed, pending, code, resumes>> /\ Abort("canceled", endReason, Tail(queue))
  <2>1. Abort("canceled", endReason, q) /\ ControlTyped' /\ op # "none" /\ endReason \in Reasons \ {"none"}
    BY <1>2, <1>5 DEF ControlTyped, IInv, TypeControl, TypeOperation, BlockCounts, Phases
  <2> QED BY <1>1, <1>3, <1>5, <2>1, FromItself, AbortOK
<1>6. CASE /\ question /\ question' = FALSE /\ resumes' = "no"
           /\ ContinueWithoutResumption
           /\ UNCHANGED <<control, todo, mode, repeat, op, pasv, triedPasv, triedActive, endReason, commandSent,
                          sock, lastSock, reason, busy, rounds, layers, verdict>>
  <2>1. /\ link = "up" \/ (link = "none" /\ reason # "none")
        /\ op # "none" /\ block \in {1, 2}
    BY <1>6 DEF IInv, BlockCounts, Phases, TypeSocket
  <2>2. /\ block' = block - 1 /\ postponed' \subseteq {"read", "write"}
        /\ queue' = q \/ (link = "up" /\ queue' = Postponed(q))
    <3>1. block' = block - 1
      BY <1>6, <2>1 DEF ContinueWithoutResumption
    <3>2. postponed' \subseteq {"read", "write"}
      BY <1>6 DEF ContinueWithoutResumption, IInv, TypeSocket
    <3>3. queue' = q \/ (link = "up" /\ queue' = Postponed(q))
      BY <1>2, <1>6 DEF ContinueWithoutResumption
    <3> QED BY <3>1, <3>2, <3>3
  <2>3. TypeControl'
    BY <1>6 DEF IInv, TypeControl, control
  <2>4. TypeOperation'
    BY <1>1, <1>6, <2>1, <2>2 DEF IInv, TypeOperation, control, layers
  <2>5. TypeSocket'
    BY <1>6, <2>1, <2>2 DEF IInv, TypeSocket
  <2>6. TypeLayers'
    BY <1>6 DEF IInv, TypeLayers, layers
  <2>7. TypeRest'
    BY <1>1, <1>6 DEF IInv, TypeRest
  <2>8. BlockCounts'
    BY <1>6, <2>1, <2>2 DEF IInv, BlockCounts
  <2>9. Phases'
    BY <1>6 DEF IInv, Phases, control, layers
  <2>10. Reports'
    BY <1>6 DEF IInv, Reports, control
  <2>11. Carries'
    BY <1>6 DEF IInv, Carries, layers
  <2>12. Verdict'
    BY <1>6 DEF IInv, Verdict
  <2>13. Queue(queue)'
    <3>1. CASE link = "up"
      <4>1. q \in Seq(Events) /\ Known(q) /\ NoStale(q) /\ No("command", q)
        BY <1>3, <2>1, <3>1 DEF Queue, Known, StaleFirst, NoStale, OneCommand, No
      <4>2. No("ready", q) \/ commandSent
        BY <1>3 DEF Queue, AskedFor, No
      <4>3. \A i \in 1..Len(q) : q[i][1] = "socket" => q[i][2] \in {"read", "write"}
        BY <1>3, <3>1 DEF Queue, OfTheLink, Sent
      <4>4. PICK w : w = Postponed(q)
        OBVIOUS
      <4>5. UpFrom(w, q) /\ UpFrom(q, q)
        BY <4>1, <4>4, PostponedIs DEF UpFrom
      <4>6. link' = "up" /\ UNCHANGED <<sock, lastSock, commandSent>> /\ (queue' = q \/ queue' = w)
        BY <1>6, <2>2, <3>1, <4>4 DEF layers
      <4> QED BY <4>1, <4>2, <4>3, <4>5, <4>6, UpQueue
    <3>2. CASE link = "none" /\ reason # "none"
      <4>1. queue' = q /\ UNCHANGED <<link, op, lastSock, commandSent, reason, sock, busy>>
        BY <1>6, <2>2, <3>2 DEF layers
      <4> QED BY <1>3, <4>1, KeptQueue
    <3> QED BY <2>1, <3>1, <3>2
  <2> QED BY <2>3, <2>4, <2>5, <2>6, <2>7, <2>8, <2>9, <2>10, <2>11, <2>12, <2>13 DEF IInv
<1> QED BY <1>4, <1>5, <1>6 DEF Answer

(* The user cancels. *)
LEMMA CancelOK == ASSUME IInv, Cancel PROVE IInv'
<1>1. queue # << >> /\ UNCHANGED <<tls, resumes>>
  BY DEF Cancel, Event
<1>2. CASE Ignore
  BY <1>1, <1>2, IgnoreOK
<1>3. CASE op # "none" /\ UNCHANGED <<owed, pending, code>> /\ Abort("canceled", endReason, Tail(queue))
  <2>1. PICK q : q = Tail(queue)
    OBVIOUS
  <2>2. Queue(q) /\ Abort("canceled", endReason, q) /\ ControlTyped' /\ endReason \in Reasons \ {"none"}
    BY <1>1, <1>3, <2>1, Taken DEF ControlTyped, IInv, TypeControl, TypeOperation
  <2> QED BY <1>1, <1>3, <2>2, FromItself, AbortOK
<1> QED BY <1>2, <1>3 DEF Cancel

(* A command begins: there was no operation and no other command. *)
LEMMA CommandOK == ASSUME IInv, Command PROVE IInv'
<1>1. queue # << >> /\ Head(queue)[1] = "command"
  BY DEF Command, Event
<1>2. PICK q : q = Tail(queue)
  OBVIOUS
<1>3. Queue(q) /\ No("command", q) /\ op = "none" /\ lastSock + 1 < MaxSockets /\ Head(queue) \in Events
  BY <1>1, <1>2, Taken DEF IInv
<1>4. Detail \in {"list", "download", "upload", "resumetest"}
  BY <1>1, <1>3 DEF Events, Detail
<1>5. /\ op' = "parent" /\ todo' = "send" /\ mode' = Detail /\ repeat' \in BOOLEAN /\ queue' = q /\ verdict' = NoVerdict
      /\ UNCHANGED <<owed, pending, skip, code, pasv, triedPasv, triedActive, endReason, commandSent, question,
                     sock, lastSock, block, reason, postponed, busy, rounds, link, armed, wire, tls, resumes>>
  BY <1>2 DEF Command, control, socket, layers
<1>6. lastSock \in Nat /\ MaxSockets \in Nat
  BY BoundsAssumption DEF IInv, TypeSocket
<1>7. TypeControl'
  BY <1>5 DEF IInv, TypeControl
<1>8. TypeOperation'
  BY <1>4, <1>5 DEF IInv, TypeOperation, States
<1>9. TypeSocket'
  BY <1>5 DEF IInv, TypeSocket
<1>10. TypeLayers'
  BY <1>5 DEF IInv, TypeLayers
<1>11. TypeRest'
  BY <1>5 DEF IInv, TypeRest, NoVerdict, Reasons, Codes
<1>12. BlockCounts'
  BY <1>5 DEF IInv, BlockCounts
<1>13. Phases'
  BY <1>3, <1>5, <1>6 DEF IInv, Phases
<1>14. Reports'
  BY <1>5 DEF IInv, Reports
<1>15. Carries'
  BY <1>5 DEF IInv, Carries
<1>16. Verdict'
  BY <1>5 DEF Verdict, NoVerdict
<1>17. Queue(queue)'
  <2>1. Known(queue)' /\ OfTheLink(queue)' /\ AskedFor(queue)' /\ StaleFirst(queue)'
    BY <1>3, <1>5 DEF Queue, Known, OfTheLink, AskedFor, StaleFirst
  <2>2. OneCommand(queue)'
    BY <1>3, <1>5 DEF OneCommand, No
  <2> QED BY <2>1, <2>2 DEF Queue
<1> QED BY <1>7, <1>8, <1>9, <1>10, <1>11, <1>12, <1>13, <1>14, <1>15, <1>16, <1>17 DEF IInv

(* CControlSocket::OnTimer *)
LEMMA TimeoutOK == ASSUME IInv, Timeout PROVE IInv'
<1>1. /\ op # "none" /\ owed' = "nothing" /\ pending' = FALSE /\ UNCHANGED <<code, tls, resumes>>
      /\ Abort("timeout", endReason, Without({"reply"}, queue))
  BY DEF Timeout
<1>2. PICK q : q = Without({"reply"}, queue)
  OBVIOUS
<1>3. PICK p : p = queue
  OBVIOUS
<1>4. Queue(p) /\ From(q, p)
  BY <1>2, <1>3, WithoutKeeps DEF IInv, Queue, Known
<1>5. ControlTyped' /\ endReason \in Reasons \ {"none"} /\ Abort("timeout", endReason, q)
  BY <1>1, <1>2 DEF ControlTyped, IInv, TypeControl, TypeOperation, Abort
<1> QED BY <1>1, <1>4, <1>5, AbortOK

-------------------------------------------------------------------------------
(***************************************************************************)
(* The events of the data connection                                       *)
(***************************************************************************)

(* A connection is accepted, or not. *)
LEMMA AcceptOK == ASSUME IInv, Accept PROVE IInv'
<1>1. queue # << >> /\ Head(queue)[1] = "socket" /\ Head(queue)[2] = "accept" /\ UNCHANGED dataOnly
  BY DEF Accept, Event, Detail
<1>2. PICK q : q = Tail(queue)
  OBVIOUS
<1>3. Queue(q) /\ NoStale(q) /\ Head(queue)[2] \in Sent(link) /\ (link # "up" => No("socket", q))
  BY <1>1, <1>2, Taken DEF IInv
<1>4. link = "listening"
  BY <1>1, <1>3 DEF Sent
<1>5. sock # 0 /\ ~question /\ op # "none"
  BY <1>4 DEF IInv, Phases, BlockCounts
<1>6. CASE /\ queue' = Tail(queue) /\ rounds < MaxRounds /\ rounds' = rounds + 1
           /\ UNCHANGED <<reason, block, postponed, busy, layers, question, resumes>>
  <2>1. TypeControl'
    BY <1>1 DEF IInv, TypeControl, dataOnly, control
  <2>2. TypeOperation'
    BY <1>1, <1>6 DEF IInv, TypeOperation, dataOnly
  <2>3. TypeSocket'
    BY <1>1, <1>6, BoundsAssumption DEF IInv, TypeSocket, dataOnly
  <2>4. TypeLayers'
    BY <1>6 DEF IInv, TypeLayers, layers
  <2>5. TypeRest'
    BY <1>1, <1>6 DEF IInv, TypeRest, dataOnly
  <2>6. BlockCounts'
    BY <1>1, <1>6 DEF IInv, BlockCounts, dataOnly, layers
  <2>7. Phases'
    BY <1>1, <1>6 DEF IInv, Phases, dataOnly, control, layers
  <2>8. Reports'
    BY <1>1, <1>6 DEF IInv, Reports, dataOnly, control
  <2>9. Carries'
    BY <1>1, <1>6 DEF IInv, Carries, dataOnly, layers
  <2>10. Verdict'
    BY <1>1 DEF IInv, Verdict, dataOnly
  <2>11. Queue(queue)'
    BY <1>1, <1>2, <1>3, <1>6, KeptQueue DEF dataOnly, layers
  <2> QED BY <2>1, <2>2, <2>3, <2>4, <2>5, <2>6, <2>7, <2>8, <2>9, <2>10, <2>11 DEF IInv
<1>7. CASE /\ TransferEnd("transfer_failure", Tail(queue))
           /\ UNCHANGED <<block, postponed, busy, rounds, question, resumes>>
  <2>1. TransferEnd("transfer_failure", q) /\ "transfer_failure" \in Reasons \ {"none"}
    BY <1>2, <1>7 DEF TransferEnd, Reasons
  <2> QED BY <1>1, <1>3, <1>5, <1>7, <2>1, TransferEndOK
<1>8. CASE /\ link' = "connecting" /\ queue' = Tail(queue)
           /\ UNCHANGED <<reason, block, postponed, busy, rounds, armed, wire, question, resumes>>
  <2>1. TypeControl'
    BY <1>1 DEF IInv, TypeControl, dataOnly, control
  <2>2. TypeOperation'
    BY <1>1, <1>8 DEF IInv, TypeOperation, dataOnly
  <2>3. TypeSocket'
    BY <1>1, <1>8 DEF IInv, TypeSocket, dataOnly
  <2>4. TypeLayers'
    BY <1>8 DEF IInv, TypeLayers
  <2>5. TypeRest'
    BY <1>1, <1>8 DEF IInv, TypeRest, dataOnly
  <2>6. BlockCounts'
    BY <1>1, <1>5, <1>8 DEF IInv, BlockCounts, dataOnly
  <2>7. Phases'
    BY <1>1, <1>4 DEF IInv, Phases, dataOnly, control
  <2>8. Reports'
    BY <1>1, <1>8 DEF IInv, Reports, dataOnly, control
  <2>9. Carries'
    BY <1>1, <1>4, <1>8 DEF IInv, Carries, dataOnly
  <2>10. Verdict'
    BY <1>1 DEF IInv, Verdict, dataOnly
  <2>11. Queue(queue)'
    <3>1. Known(queue)' /\ OneCommand(queue)'
      BY <1>1, <1>2, <1>3, <1>8 DEF Queue, Known, OneCommand, dataOnly
    <3>2. OfTheLink(queue)'
      BY <1>2, <1>3, <1>4, <1>8 DEF OfTheLink, No
    <3>3. AskedFor(queue)' /\ StaleFirst(queue)'
      BY <1>1, <1>2, <1>3, <1>4, <1>8 DEF Queue, AskedFor, StaleFirst, dataOnly
    <3> QED BY <3>1, <3>2, <3>3 DEF Queue
  <2> QED BY <2>1, <2>2, <2>3, <2>4, <2>5, <2>6, <2>7, <2>8, <2>9, <2>10, <2>11 DEF IInv
<1>9. CASE OnConnect(TRUE, Tail(queue))
  <2>1. OnConnect(TRUE, q)
    BY <1>2, <1>9
  <2> QED BY <1>1, <1>3, <1>4, <2>1, OnConnectOK
<1> QED BY <1>6, <1>7, <1>8, <1>9 DEF Accept

(* A connection is made, or refused. *)
LEMMA ConnectedOK == ASSUME IInv, Connected PROVE IInv'
<1>1. /\ queue # << >> /\ Head(queue)[1] = "socket" /\ Head(queue)[2] \in {"resumed", "fresh", "refused"}
      /\ UNCHANGED dataOnly
  BY DEF Connected, Event, Detail
<1>2. PICK q : q = Tail(queue)
  OBVIOUS
<1>3. Queue(q) /\ NoStale(q) /\ Head(queue)[2] \in Sent(link) /\ (link # "up" => No("socket", q))
  BY <1>1, <1>2, Taken DEF IInv
<1>4. link = "connecting"
  BY <1>1, <1>3 DEF Sent
<1>5. sock # 0 /\ ~question /\ op # "none"
  BY <1>4 DEF IInv, Phases, BlockCounts
<1>6. CASE /\ TransferEnd("transfer_failure", Tail(queue))
           /\ UNCHANGED <<block, postponed, busy, rounds, question, resumes>>
  <2>1. TransferEnd("transfer_failure", q) /\ "transfer_failure" \in Reasons \ {"none"}
    BY <1>2, <1>6 DEF TransferEnd, Reasons
  <2> QED BY <1>1, <1>3, <1>5, <1>6, <2>1, TransferEndOK
<1>7. CASE OnConnect(Detail = "resumed", Tail(queue))
  <2>1. PICK r \in BOOLEAN : r = (Detail = "resumed")
    OBVIOUS
  <2>2. OnConnect(r, q)
    BY <1>2, <1>7, <2>1
  <2> QED BY <1>1, <1>3, <1>4, <2>2, OnConnectOK
<1> QED BY <1>6, <1>7 DEF Connected

(* The connection can be read or written. *)
LEMMA ReadOrWriteOK == ASSUME IInv, ReadOrWrite PROVE IInv'
<1>1. /\ queue # << >> /\ Head(queue)[1] = "socket" /\ Head(queue)[2] \in {"read", "write"}
      /\ UNCHANGED dataOnly /\ UNCHANGED <<block, question, resumes>>
      /\ OnSocketError(Tail(queue)) \/ OnReceive(Tail(queue)) \/ OnSend(Tail(queue))
  BY DEF ReadOrWrite, Event, Detail
<1>2. PICK q : q = Tail(queue)
  OBVIOUS
<1>3. Queue(q) /\ NoStale(q) /\ Head(queue)[2] \in Sent(link)
  BY <1>1, <1>2, Taken DEF IInv
<1>4. link = "up"
  BY <1>1, <1>3 DEF Sent
<1>5. OnSocketError(q) \/ OnReceive(q) \/ OnSend(q)
  BY <1>1, <1>2
<1>6. CASE OnSocketError(q)
  <2>1. sock # 0 /\ "transfer_failure" \in Reasons \ {"none"}
    BY <1>4 DEF IInv, Phases, Reasons
  <2>2. TransferEnd("transfer_failure", q) /\ UNCHANGED <<postponed, busy, rounds>>
    BY <1>6 DEF OnSocketError
  <2> QED BY <1>1, <1>3, <2>1, <2>2, TransferEndOK
<1> QED BY <1>1, <1>3, <1>4, <1>5, <1>6, OnReceiveOK, OnSendOK

(* The reader or writer is ready. *)
LEMMA ReadyOK == ASSUME IInv, Ready PROVE IInv'
<1>1. queue # << >> /\ Head(queue)[1] = "ready" /\ UNCHANGED dataOnly /\ UNCHANGED <<block, question, resumes>>
  BY DEF Ready, Event
<1>2. PICK q : q = Tail(queue)
  OBVIOUS
<1>3. Queue(q) /\ NoStale(q) /\ (link = "up" \/ reason # "none")
  BY <1>1, <1>2, Taken DEF IInv
<1>4. CASE queue' = Tail(queue) /\ UNCHANGED <<reason, postponed, busy, rounds, layers>>
  <2>1. TypeControl'
    BY <1>1 DEF IInv, TypeControl, dataOnly, control
  <2>2. TypeOperation'
    BY <1>1 DEF IInv, TypeOperation, dataOnly
  <2>3. TypeSocket'
    BY <1>1, <1>4 DEF IInv, TypeSocket, dataOnly
  <2>4. TypeLayers'
    BY <1>4 DEF IInv, TypeLayers, layers
  <2>5. TypeRest'
    BY <1>1 DEF IInv, TypeRest, dataOnly
  <2>6. BlockCounts'
    BY <1>1, <1>4 DEF IInv, BlockCounts, dataOnly, layers
  <2>7. Phases'
    BY <1>1, <1>4 DEF IInv, Phases, dataOnly, control, layers
  <2>8. Reports'
    BY <1>1, <1>4 DEF IInv, Reports, dataOnly, control
  <2>9. Carries'
    BY <1>1, <1>4 DEF IInv, Carries, dataOnly, layers
  <2>10. Verdict'
    BY <1>1 DEF IInv, Verdict, dataOnly
  <2>11. Queue(queue)'
    BY <1>1, <1>2, <1>3, <1>4, KeptQueue DEF dataOnly, layers
  <2> QED BY <2>1, <2>2, <2>3, <2>4, <2>5, <2>6, <2>7, <2>8, <2>9, <2>10, <2>11 DEF IInv
<1>5. CASE reason = "none" /\ (OnSend(Tail(queue)) \/ OnReceive(Tail(queue)))
  <2>1. link = "up" /\ (OnReceive(q) \/ OnSend(q))
    BY <1>2, <1>3, <1>5
  <2> QED BY <1>1, <1>3, <2>1, OnReceiveOK, OnSendOK
<1> QED BY <1>4, <1>5 DEF Ready

-------------------------------------------------------------------------------
(***************************************************************************)
(* The server, the user and the threads of reader and writer               *)
(***************************************************************************)

(* Someone else adds an event to the queue. *)
LEMMA AddedOK ==
    ASSUME IInv, NEW e \in Events, queue' = Append(queue, e),
           owed' \in {"nothing", "setting", "transfer", "final"},
           armed' \subseteq armed, wire' \in {"empty", "data", "eof", "broken"}, link # "up" => wire' = wire,
           rounds' \in 0..MaxRounds, busy' \in BOOLEAN, busy' => busy,
           UNCHANGED <<pending, skip, code, todo, operation, sock, lastSock, block, reason, postponed, link, tls,
                       resumes, verdict>>,
           e[1] # "end",
           e[1] = "socket" => e[2] \in Sent(link) /\ (link = "up" \/ ~Pending("socket")),
           e[1] = "ready" => busy,
           e[1] = "command" => op = "none" /\ lastSock + 1 < MaxSockets /\ ~Pending("command")
    PROVE  IInv'
<1>1. TypeControl'
  BY DEF IInv, TypeControl, operation
<1>2. TypeOperation'
  BY DEF IInv, TypeOperation, operation
<1>3. TypeSocket'
  BY DEF IInv, TypeSocket, operation
<1>4. TypeLayers'
  BY DEF IInv, TypeLayers, operation
<1>5. TypeRest'
  BY DEF IInv, TypeRest, operation
<1>6. BlockCounts'
  BY DEF IInv, BlockCounts, operation
<1>7. Phases'
  BY DEF IInv, Phases, operation
<1>8. Reports'
  BY DEF IInv, Reports, operation
<1>9. Carries'
  BY DEF IInv, Carries, operation
<1>10. Verdict'
  BY DEF IInv, Verdict, operation
<1>11. Queue(queue)'
  <2>1. PICK q : q = queue
    OBVIOUS
  <2>2. Queue(q) /\ queue' = Append(q, e)
    BY <2>1 DEF IInv
  <2>3. UNCHANGED <<sock, lastSock, commandSent, op, link, reason>>
    BY DEF operation
  <2>4. e[1] = "socket" => e[2] \in Sent(link) /\ (link = "up" \/ No("socket", q))
    BY <2>1 DEF Pending, No
  <2>5. e[1] = "ready" => commandSent /\ (link = "up" \/ reason # "none") /\ NoStale(q)
    BY <2>2 DEF IInv, Carries, Queue, StaleFirst, NoStale
  <2>6. e[1] = "command" => op = "none" /\ lastSock + 1 < MaxSockets /\ No("command", q)
    BY <2>1 DEF Pending, No
  <2> QED BY <2>2, <2>3, <2>4, <2>5, <2>6, AppendedQueue
<1> QED BY <1>1, <1>2, <1>3, <1>4, <1>5, <1>6, <1>7, <1>8, <1>9, <1>10, <1>11 DEF IInv

(* The server answers. *)
LEMMA ServerRepliesOK == ASSUME IInv, NEW c \in {"1", "2", "5"}, ServerReplies(c) PROVE IInv'
<1>1. <<"reply", c>> \in Events
  BY DEF Events
<1> QED BY <1>1, AddedOK DEF ServerReplies, socket, layers, IInv, TypeSocket, TypeLayers

(* An event that leaves the rest alone *)
LEMMA SendsOK ==
    ASSUME IInv, NEW e \in Events, Sends(e), armed' \subseteq armed, UNCHANGED <<link, wire>>,
           e[1] \notin {"end", "ready"},
           e[1] = "socket" => e[2] \in Sent(link) /\ (link = "up" \/ ~Pending("socket")),
           e[1] = "command" => op = "none" /\ lastSock + 1 < MaxSockets /\ ~Pending("command")
    PROVE  IInv'
  BY AddedOK DEF Sends, socket, control, IInv, TypeControl, TypeSocket, TypeLayers

(* The server connects. *)
LEMMA ServerConnectsOK == ASSUME IInv, ServerConnects PROVE IInv'
<1>1. /\ UNCHANGED layers /\ ~Pending("socket")
      /\ \/ link = "listening" /\ Sends(<<"socket", "accept">>)
         \/ link = "connecting" /\ \E d \in {"resumed", "fresh", "refused"} : Sends(<<"socket", d>>)
  BY DEF ServerConnects
<1>2. \A d \in {"accept", "resumed", "fresh", "refused"} : <<"socket", d>> \in Events
  BY DEF Events
<1>3. (link = "listening" => "accept" \in Sent(link))
      /\ (link = "connecting" => \A d \in {"resumed", "fresh", "refused"} : d \in Sent(link))
  BY DEF Sent
<1> QED BY <1>1, <1>2, <1>3, SendsOK DEF layers

(* Something arrives on the data connection. *)
LEMMA ArrivesOK == ASSUME IInv, NEW w \in {"data", "eof", "broken"}, Arrives(w) PROVE IInv'
<1>1. rounds' \in 0..MaxRounds /\ armed' \subseteq armed /\ link = "up"
  BY BoundsAssumption DEF Arrives, IInv, TypeSocket
<1>2. CASE queue' = Append(queue, <<"socket", "read">>)
  <2>1. <<"socket", "read">> \in Events /\ "read" \in Sent(link)
    BY <1>1 DEF Events, Sent
  <2> QED BY <1>1, <1>2, <2>1, AddedOK DEF Arrives, control, IInv, TypeControl, TypeSocket
<1>3. CASE queue' = queue
  <2>1. TypeControl'
    BY DEF IInv, TypeControl, Arrives, control
  <2>2. TypeOperation'
    BY DEF IInv, TypeOperation, Arrives, operation
  <2>3. TypeSocket'
    BY <1>1 DEF IInv, TypeSocket, Arrives
  <2>4. TypeLayers'
    BY DEF IInv, TypeLayers, Arrives
  <2>5. TypeRest'
    BY DEF IInv, TypeRest, Arrives
  <2>6. BlockCounts'
    BY DEF IInv, BlockCounts, Arrives, operation
  <2>7. Phases'
    BY DEF IInv, Phases, Arrives, control, operation
  <2>8. Reports'
    BY DEF IInv, Reports, Arrives, control, operation
  <2>9. Carries'
    BY DEF IInv, Carries, Arrives, operation
  <2>10. Verdict'
    BY DEF IInv, Verdict, Arrives
  <2>11. Queue(queue)'
    <3>1. PICK q : q = queue
      OBVIOUS
    <3>2. Queue(q)
      BY <3>1 DEF IInv
    <3> QED BY <1>3, <3>1, <3>2, KeptQueue DEF Arrives, operation
  <2> QED BY <2>1, <2>2, <2>3, <2>4, <2>5, <2>6, <2>7, <2>8, <2>9, <2>10, <2>11 DEF IInv
<1> QED BY <1>2, <1>3 DEF Arrives

(* The data connection takes more. *)
LEMMA WritableOK == ASSUME IInv, Writable PROVE IInv'
<1>1. "write" \in armed /\ armed' \subseteq armed /\ Sends(<<"socket", "write">>) /\ UNCHANGED <<link, wire>>
  BY DEF Writable
<1>2. link = "up"
  BY <1>1 DEF IInv, Carries
<1>3. <<"socket", "write">> \in Events /\ "write" \in Sent(link)
  BY <1>2 DEF Events, Sent
<1> QED BY <1>1, <1>2, <1>3, SendsOK

(* The reader or writer reports. *)
LEMMA IsReadyOK == ASSUME IInv, IsReady PROVE IInv'
<1>1. <<"ready", "">> \in Events
  BY DEF Events
<1> QED BY <1>1, AddedOK DEF IsReady, control, layers, IInv, TypeControl, TypeSocket, TypeLayers

(* The user answers, cancels or gives a command. *)
LEMMA UserOK == ASSUME IInv, UserAnswers \/ UserCancels \/ UserCommands PROVE IInv'
<1>1. CASE UserAnswers
  <2>1. PICK a \in {"yes", "no"} : Sends(<<"answer", a>>) /\ UNCHANGED layers
    BY <1>1 DEF UserAnswers
  <2>2. <<"answer", a>> \in Events
    BY DEF Events
  <2> QED BY <2>1, <2>2, SendsOK DEF layers
<1>2. CASE UserCancels
  <2>1. <<"cancel", "">> \in Events
    BY DEF Events
  <2> QED BY <1>2, <2>1, SendsOK DEF UserCancels, layers
<1>3. CASE UserCommands
  <2>1. PICK m \in {"list", "download", "upload", "resumetest"} : Sends(<<"command", m>>) /\ UNCHANGED layers
    BY <1>3 DEF UserCommands
  <2>2. <<"command", m>> \in Events
    BY DEF Events
  <2>3. op = "none" /\ lastSock + 1 < MaxSockets /\ ~Pending("command")
    BY <1>3 DEF UserCommands
  <2> QED BY <2>1, <2>2, <2>3, SendsOK DEF layers
<1> QED BY <1>1, <1>2, <1>3

-------------------------------------------------------------------------------
(***************************************************************************)
(* The theorems                                                            *)
(***************************************************************************)

(* The invariant holds at first. *)
LEMMA InitOK == ASSUME Init PROVE IInv
<1>1. << >> \in Seq(Events) /\ Len(<< >>) = 0
  OBVIOUS
<1>2. \A i \in 1..Len(queue) : FALSE
  BY <1>1 DEF Init
<1>3. Queue(queue)
  BY DEF Init, Queue, Known, OfTheLink, AskedFor, OneCommand, StaleFirst
<1>4. TypeControl /\ TypeOperation /\ TypeLayers /\ TypeRest
  BY DEF Init, TypeControl, TypeOperation, TypeLayers, TypeRest, NoVerdict, Codes, States, Reasons
<1>5. TypeSocket
  <2>1. 0 \in 0..MaxSockets /\ 0 \in 0..MaxRounds /\ 0 \in 0..0 /\ 1 \in 0..2
    BY BoundsAssumption
  <2> QED BY <2>1 DEF Init, TypeSocket, Reasons
<1>6. BlockCounts /\ Phases /\ Reports /\ Carries /\ Verdict
  BY DEF Init, BlockCounts, Phases, Reports, Carries, Verdict, NoVerdict
<1> QED BY <1>3, <1>4, <1>5, <1>6 DEF IInv

(* Every step keeps it. *)
LEMMA NextOK == ASSUME IInv, [Next]_vars PROVE IInv'
<1>1. CASE Send
  BY <1>1, SendBlockedOK, SendParentOK, SendInitOK, SendSettingOK, SendPortPasvOK,
     SendTransferOK DEF Send
<1>2. CASE Handlers
  BY <1>2, ReplyOK, OnTransferEndOK, AnswerOK, CancelOK, CommandOK, AcceptOK, ConnectedOK,
     ReadOrWriteOK, ReadyOK DEF Handlers
<1>3. CASE Timeout
  BY <1>3, TimeoutOK
<1>4. CASE \E c \in {"1", "2", "5"} : ServerReplies(c)
  BY <1>4, ServerRepliesOK
<1>5. CASE ServerConnects
  BY <1>5, ServerConnectsOK
<1>6. CASE \E w \in {"data", "eof", "broken"} : Arrives(w)
  BY <1>6, ArrivesOK
<1>7. CASE Writable \/ IsReady
  BY <1>7, WritableOK, IsReadyOK
<1>8. CASE UserAnswers \/ UserCancels \/ UserCommands
  BY <1>8, UserOK
<1>9. CASE UNCHANGED vars
  <2>1. TypeControl'
    BY <1>9 DEF IInv, TypeControl, vars, control
  <2>2. TypeOperation'
    BY <1>9 DEF IInv, TypeOperation, vars, operation
  <2>3. TypeSocket'
    BY <1>9 DEF IInv, TypeSocket, vars, socket
  <2>4. TypeLayers'
    BY <1>9 DEF IInv, TypeLayers, vars, layers
  <2>5. TypeRest'
    BY <1>9 DEF IInv, TypeRest, vars
  <2>6. BlockCounts'
    BY <1>9 DEF IInv, BlockCounts, vars, operation, socket, layers
  <2>7. Phases'
    BY <1>9 DEF IInv, Phases, vars, control, operation, socket, layers
  <2>8. Reports'
    BY <1>9 DEF IInv, Reports, vars, control, operation, socket
  <2>9. Carries'
    BY <1>9 DEF IInv, Carries, vars, operation, socket, layers
  <2>10. Verdict'
    BY <1>9 DEF IInv, Verdict, vars
  <2>11. Queue(queue)'
    <3>1. PICK q : q = queue
      OBVIOUS
    <3>2. Queue(q)
      BY <3>1 DEF IInv
    <3> QED BY <1>9, <3>1, <3>2, KeptQueue DEF vars, operation, socket, layers
  <2> QED BY <2>1, <2>2, <2>3, <2>4, <2>5, <2>6, <2>7, <2>8, <2>9, <2>10, <2>11 DEF IInv
<1> QED BY <1>1, <1>2, <1>3, <1>4, <1>5, <1>6, <1>7, <1>8, <1>9 DEF Next

(* The invariant holds in every state. *)
THEOREM Invariance == Spec => []IInv
<1>1. Init => IInv
  BY InitOK
<1>2. IInv /\ [Next]_vars => IInv'
  BY NextOK
<1> QED BY <1>1, <1>2, PTL DEF Spec

(* The variables have their types. *)
LEMMA Types == ASSUME IInv PROVE TypeOK
<1>1. TypeControl /\ TypeOperation /\ TypeSocket /\ TypeLayers /\ TypeRest /\ Known(queue)
  BY DEF IInv, Queue
<1>2. ASSUME NEW i \in 1..Len(queue)
      PROVE  \/ queue[i][1] = "reply" /\ queue[i][2] \in Codes \ {"none"}
             \/ queue[i][1] = "end" /\ queue[i][2] \in 1..lastSock
             \/ queue[i][1] = "socket" /\ queue[i][2] \in {"accept", "resumed", "fresh", "refused", "read", "write"}
             \/ queue[i][1] \in {"ready", "cancel"}
             \/ queue[i][1] = "answer" /\ queue[i][2] \in {"yes", "no"}
             \/ queue[i][1] = "command" /\ queue[i][2] \in {"list", "download", "upload", "resumetest"}
  <2>1. queue[i] \in Events
    BY <1>1 DEF Known
  <2>2. queue[i][1] = "end" => queue[i][2] \in 1..lastSock
    BY <1>1 DEF Known
  <2> QED BY <2>1, <2>2 DEF Events, Codes
<1>3. {pending, skip} \subseteq BOOLEAN /\ {pasv, triedPasv, triedActive, commandSent, question} \subseteq BOOLEAN
  BY <1>1 DEF TypeControl, TypeOperation
<1> QED BY <1>1, <1>2 DEF TypeOK, TypeControl, TypeOperation, TypeSocket, TypeLayers, TypeRest

(* A raw transfer is successful only if its transfer command was sent, its *)
(* own data connection came to a good end and the last reply was positive, *)
(* in whatever order the two reports came; one that fails says why, and    *)
(* blames its own data connection only for what happened there             *)
(* (CFtpRawTransferOpData::ParseResponse, CFtpControlSocket::TransferEnd). *)
THEOREM VerdictIsAlwaysTrue == Spec => []VerdictIsTrue
<1>1. IInv => VerdictIsTrue
  BY Types DEF VerdictIsTrue, IInv, Verdict
<1> QED BY <1>1, Invariance, PTL

(* When the TransferEndEvent of an earlier transfer socket reaches         *)
(* CFtpControlSocket::TransferEnd, which does not look at the socket it    *)
(* came from, the socket there is has not ended and the event is ignored.  *)
THEOREM StaleEndAlwaysIgnored == Spec => []StaleEndIgnored
<1>1. ASSUME IInv PROVE StaleEndIgnored
  <2>1. SUFFICES ASSUME queue # << >>, Head(queue)[1] = "end", Head(queue)[2] # sock PROVE reason = "none"
    BY DEF StaleEndIgnored
  <2>2. queue \in Seq(Events) /\ StaleFirst(queue)
    BY <1>1 DEF IInv, Queue, Known
  <2>3. Head(queue) = queue[1] /\ 1 \in 1..Len(queue)
    BY <2>1, <2>2, TailIs
  <2> QED BY <2>1, <2>2, <2>3 DEF StaleFirst
<1> QED BY <1>1, Invariance, PTL

(* Nothing is read from the data connection before the transfer command    *)
(* has been sent, nor while the user is asked about it: activity_block_    *)
(* counts right through every order of connecting, sending, asking and     *)
(* answering.                                                              *)
THEOREM ConsentAlwaysFirst == Spec => ConsentFirst
<1> DEFINE Reads == wire = "data" /\ wire' = "empty" /\ link' = "up"
<1>1. ASSUME IInv, [Next]_vars, Reads PROVE commandSent /\ ~question
  <2>1. link = "up" /\ block \in 0..2 /\ (block = 0 => commandSent /\ ~question)
    BY <1>1 DEF IInv, Carries, TypeSocket, BlockCounts
  <2>2. CASE Send
    <3>1. ~SendBlocked /\ ~SendInit /\ ~SendSetting
      BY <1>1 DEF SendBlocked, SendInit, SendSetting, layers
    <3>2. ~SendParent
      BY <1>1 DEF SendParent, StartTransfer, NewSocket, ResetSocket
    <3>3. ~SendPortPasv
      BY <1>1 DEF SendPortPasv, ResetSocket, layers, End, StartTransfer, NewSocket, NoOperation,
         NoSocket
    <3>4. ~SendTransfer
      BY <1>1 DEF SendTransfer, ResetSocket, layers, End, StartTransfer, NewSocket, NoOperation,
         NoSocket
    <3> QED BY <2>2, <3>1, <3>2, <3>3, <3>4 DEF Send
  <2>3. ~Reply
    BY <1>1 DEF Reply, ParseResponse, Proceed, Fail, FallBack, Finished, layers, End,
       StartTransfer, NewSocket, NoOperation, NoSocket, ResetSocket
  <2>4. ~OnTransferEnd /\ ~Answer /\ ~Cancel /\ ~Command /\ ~Timeout
    BY <1>1 DEF OnTransferEnd, Answer, Cancel, Command, Timeout, Ignore, layers, Abort, End,
       StartTransfer, NewSocket, NoOperation, NoSocket, ResetSocket
  <2>5. CASE Accept \/ Connected
    <3>1. queue # << >> /\ Head(queue)[1] = "socket" /\ Head(queue)[2] \in {"accept", "resumed", "fresh", "refused"}
      BY <2>5 DEF Accept, Connected, Event, Detail
    <3>2. Head(queue)[2] \in Sent(link)
      BY <1>1, <3>1, Taken DEF IInv
    <3> QED BY <2>1, <3>1, <3>2 DEF Sent
  <2>6. ASSUME NEW q, OnReceive(q) PROVE block = 0
    BY <1>1, <2>1, <2>6 DEF OnReceive, layers
  <2>7. ASSUME NEW q PROVE ~OnSend(q)
    BY <1>1 DEF OnSend, TransferEnd, ResetSocket, layers
  <2>8. CASE ReadOrWrite \/ Ready
    <3>1. PICK q : q = Tail(queue)
      OBVIOUS
    <3>2. OnReceive(q)
      BY <1>1, <2>7, <2>8, <3>1 DEF ReadOrWrite, Ready, layers, Reads
    <3> QED BY <2>1, <2>6, <3>2
  <2>9. \A c \in {"1", "2", "5"} : ~ServerReplies(c)
    BY <1>1 DEF ServerReplies, layers
  <2>10. ~ServerConnects /\ ~Writable /\ ~IsReady /\ ~UserAnswers /\ ~UserCancels /\ ~UserCommands
    BY <1>1 DEF ServerConnects, Writable, IsReady, UserAnswers, UserCancels, UserCommands, layers
  <2>11. \A w \in {"data", "eof", "broken"} : ~Arrives(w)
    BY <1>1 DEF Arrives
  <2>12. ~UNCHANGED vars
    BY <1>1 DEF vars, layers
  <2> QED BY <1>1, <2>2, <2>3, <2>4, <2>5, <2>8, <2>9, <2>10, <2>11, <2>12 DEF Next, Handlers
<1>2. IInv /\ [Next]_vars => [Reads => commandSent /\ ~question]_vars
  BY <1>1
<1> QED BY <1>2, Invariance, PTL DEF Spec, ConsentFirst

===============================================================================
