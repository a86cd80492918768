--------------------------- MODULE WorkingDirProofs ---------------------------
(***************************************************************************)
(* Proofs about WorkingDir: for any number of engines, directories of any  *)
(* names and depth, any commands in Scope and any number of them, of       *)
(* cancels and of lost connections, the engines believe to be where they   *)
(* are, and commands are carried out where they are meant.                 *)
(*                                                                         *)
(* None of the properties is inductive.  Inv follows each operation        *)
(* through its states: Control says which operations a stack has, whose    *)
(* turn it is and what has been sent; Local says, state by state, where    *)
(* the connection is, and that what is under way will tell.  Others can    *)
(* disturb that only by a removal or rename, and for those Announced says  *)
(* that before one is carried out nothing in the path cache is about the   *)
(* directory any more and nobody who believes to be in it or below it will *)
(* go on doing so.                                                         *)
(***************************************************************************)
EXTENDS WorkingDir, SequenceTheorems, TLAPS

-------------------------------------------------------------------------------
(***************************************************************************)
(* Paths, and what they lead to                                            *)
(***************************************************************************)
(* Resolve, Enter and Meaning, of the directories D and, if L, the link *)
RealPath(L, p) == IF L /\ p # << >> /\ Head(p) = Link THEN LinkTarget \o Tail(p) ELSE p
Reach(D, L, p) == IF RealPath(L, p) \in D THEN RealPath(L, p) ELSE None
Step(D, L, d, n) ==
    IF d = None \/ n = None THEN d
    ELSE IF n # Up THEN Reach(D, L, AddSegment(d, n))
    ELSE IF HasParent(d) THEN GetParent(d)
    ELSE d
Leads(D, L, p, n) == Step(D, L, Reach(D, L, p), n)

(* Directories are sequences of names of a bounded length. *)
LEMMA DirsAre ==
    ASSUME NEW d
    PROVE  d \in Dirs <=> d \in Canonical /\ Len(d) <= MaxDepth
<1>1. MaxDepth \in Nat
    BY WorkingDirAssumption
<1>2. ASSUME d \in Dirs
      PROVE  d \in Canonical /\ Len(d) <= MaxDepth
    <2>1. PICK m \in 0..MaxDepth : d \in [1..m -> Names]
        BY <1>2 DEF Dirs, SeqOf
    <2>2. d \in Seq(Names)
        BY <2>1, <1>1, SeqDef
    <2>3. DOMAIN d = 1..Len(d) /\ Len(d) \in Nat
        BY <2>2, LenProperties
    <2>4. Len(d) = m
        BY <2>1, <2>3, <1>1
    <2> QED
        BY <2>2, <2>4, <1>1 DEF Canonical
<1>3. ASSUME d \in Canonical, Len(d) <= MaxDepth
      PROVE  d \in Dirs
    <2>1. Len(d) \in 0..MaxDepth /\ d \in [1..Len(d) -> Names]
        BY <1>3, <1>1, LenProperties DEF Canonical
    <2> QED
        BY <2>1 DEF Dirs, SeqOf
<1> QED
    BY <1>2, <1>3

(* Covers says that one path is a beginning of the other. *)
LEMMA CoversIs ==
    ASSUME NEW S, NEW p \in Seq(S), NEW q \in Seq(S)
    PROVE  Covers(p, q) <=> Len(p) <= Len(q) /\ \A i \in 1..Len(p) : q[i] = p[i]
<1>1. Len(p) \in Nat /\ Len(q) \in Nat
    BY LenProperties
<1>2. CASE Len(p) = Len(q)
    BY <1>1, <1>2, SeqEqual DEF Covers, IsParentOf, IsSubdirOf, HasParent
<1>3. CASE Len(p) # Len(q)
    BY <1>1, <1>3 DEF Covers, IsParentOf, IsSubdirOf, HasParent
<1> QED
    BY <1>2, <1>3

(* What is above a path is above what lies below it. *)
LEMMA CoversTransitive ==
    ASSUME NEW S, NEW p \in Seq(S), NEW q \in Seq(S), NEW r \in Seq(S), Covers(p, q), Covers(q, r)
    PROVE  Covers(p, r)
<1>1. Len(p) \in Nat /\ Len(q) \in Nat /\ Len(r) \in Nat
    BY LenProperties
<1> QED
    BY <1>1, CoversIs

(* A path with a name added lies below the path and below nothing else     *)
(* that is new; its parent is the path.                                    *)
LEMMA CoversSegment ==
    ASSUME NEW S, NEW p \in Seq(S), NEW n \in S
    PROVE  /\ AddSegment(p, n) \in Seq(S) /\ AddSegment(p, n) # << >>
           /\ Covers(p, AddSegment(p, n))
           /\ ~Covers(AddSegment(p, n), p)
           /\ HasParent(AddSegment(p, n)) /\ GetParent(AddSegment(p, n)) = p
           /\ Last(AddSegment(p, n)) = n
<1> DEFINE a == AddSegment(p, n)
<1>1. /\ Len(p) \in Nat /\ a \in Seq(S) /\ a # << >> /\ Len(a) = Len(p) + 1
      /\ \A i \in 1..Len(p) : a[i] = p[i]
      /\ a[Len(p) + 1] = n
    BY AppendProperties, LenProperties DEF AddSegment
<1>2. Covers(p, a) /\ ~Covers(a, p)
    <2> HIDE DEF a
    <2> QED BY <1>1, CoversIs
<1>3. GetParent(a) = p
    <2>1. \A i \in 1..Len(p) : a[i] \in S
        BY <1>1, ElementOfSeq
    <2> DEFINE g == SubSeq(a, 1, Len(p))
    <2>2. /\ g \in Seq(S) /\ Len(g) = Len(p)
          /\ \A i \in 1..Len(p) : g[i] = a[i]
        <3> HIDE DEF a
        <3>1. /\ SubSeq(a, 1, Len(p)) \in Seq(S)
              /\ Len(SubSeq(a, 1, Len(p))) = IF 1 <= Len(p) THEN Len(p) - 1 + 1 ELSE 0
              /\ \A i \in 1..(Len(p) - 1 + 1) : SubSeq(a, 1, Len(p))[i] = a[1 + i - 1]
            BY <1>1, <2>1, SubSeqProperties
        <3> QED BY <3>1, <1>1
    <2>3. g = p
        <3> HIDE DEF g, a
        <3> QED BY <2>2, <1>1, SeqEqual
    <2>4. GetParent(a) = g
        <3> HIDE DEF a
        <3> QED BY <1>1 DEF GetParent
    <2> QED BY <2>3, <2>4
<1> HIDE DEF a
<1>4. HasParent(a) /\ Last(a) = n
    BY <1>1 DEF HasParent, Last
<1> QED
    BY <1>1, <1>2, <1>3, <1>4 DEF a

(* A path that has a parent is the parent with a name added. *)
LEMMA ParentIs ==
    ASSUME NEW S, NEW p \in Seq(S), HasParent(p)
    PROVE  /\ GetParent(p) \in Seq(S) /\ Last(p) \in S
           /\ p = AddSegment(GetParent(p), Last(p))
           /\ Covers(GetParent(p), p)
           /\ Len(GetParent(p)) = Len(p) - 1
<1>1. PICK s \in Seq(S), n \in S : p = Append(s, n)
    BY SequenceEmptyOrAppend DEF HasParent
<1>2. Len(p) = Len(s) + 1 /\ Len(s) \in Nat
    BY <1>1, AppendProperties, LenProperties
<1> QED
    BY <1>1, <1>2, CoversSegment DEF AddSegment

(* How the kinds of paths and names lie to each other *)
LEMMA PathsAre ==
    ASSUME Outside
    PROVE  /\ Canonical \subseteq Paths /\ Dirs \subseteq Canonical
           /\ None \notin Paths /\ None \notin Canonical /\ None \notin Dirs
           /\ Names \subseteq LinkNames /\ Link \notin Names /\ Up \notin LinkNames
           /\ None \notin LinkNames /\ None # Up /\ << >> \in Canonical
           /\ LinkTarget \in Dirs
<1>1. Names \subseteq LinkNames
    BY DEF LinkNames
<1>2. Canonical \subseteq Paths
    BY <1>1, SeqMonotonic DEF Canonical, Paths
<1>3. Dirs \subseteq Canonical
    BY DirsAre
<1>4. Link \notin Names /\ Up \notin LinkNames /\ LinkTarget \in Dirs
    BY WorkingDirAssumption DEF LinkNames
<1>5. << >> \in Canonical
    BY EmptySeq DEF Canonical
<1> QED
    BY <1>1, <1>2, <1>3, <1>4, <1>5 DEF Outside

(* A path without the link leads to itself. *)
LEMMA ReachCanonical ==
    ASSUME NEW D, NEW L, NEW p \in Canonical, Outside
    PROVE  Reach(D, L, p) = IF p \in D THEN p ELSE None
<1>1. RealPath(L, p) = p
    BY PathsAre, HeadTailProperties DEF RealPath, Canonical
<1> QED
    BY <1>1 DEF Reach

(* Whatever is reached is there. *)
LEMMA ReachIn ==
    ASSUME NEW D, NEW L, NEW p
    PROVE  Reach(D, L, p) \in D \cup {None}
BY DEF Reach

(* The parent of a directory is there. *)
LEMMA ParentIn ==
    ASSUME NEW D, D \subseteq Dirs, Closed(D), NEW d \in D, HasParent(d)
    PROVE  GetParent(d) \in D
<1>1. d \in Seq(Names) /\ Len(d) <= MaxDepth /\ Len(d) \in Nat
    BY DirsAre, LenProperties DEF Canonical
<1>2. GetParent(d) \in Canonical /\ Len(GetParent(d)) = Len(d) - 1 /\ Covers(GetParent(d), d)
    BY <1>1, ParentIs DEF Canonical
<1>3. GetParent(d) \in Dirs
    BY <1>1, <1>2, DirsAre, WorkingDirAssumption
<1> QED
    BY <1>2, <1>3 DEF Closed

(* A step from a directory leads to a directory or nowhere. *)
LEMMA StepIn ==
    ASSUME NEW D, D \subseteq Dirs, Closed(D), NEW L, NEW d \in D \cup {None}, NEW n
    PROVE  Step(D, L, d, n) \in D \cup {None}
BY ParentIn, ReachIn DEF Step

(* A path and a name lead to a directory or nowhere. *)
LEMMA LeadsIn ==
    ASSUME NEW D, D \subseteq Dirs, Closed(D), NEW L, NEW p, NEW n
    PROVE  Leads(D, L, p, n) \in D \cup {None}
BY StepIn, ReachIn DEF Leads

(* A path still leads to a directory that is still there. *)
LEMMA ReachStays ==
    ASSUME NEW D, NEW E, NEW L, NEW p, Reach(D, L, p) # None, Reach(D, L, p) \in E
    PROVE  Reach(E, L, p) = Reach(D, L, p)
BY DEF Reach

(* More directories: what was found is found. *)
LEMMA LeadsGrows ==
    ASSUME NEW D, NEW E, D \subseteq E, NEW L, NEW p, NEW n
    PROVE  /\ Reach(D, L, p) # None => Reach(E, L, p) = Reach(D, L, p)
           /\ Leads(D, L, p, n) # None => Leads(E, L, p, n) = Leads(D, L, p, n)
BY DEF Reach, Leads, Step

(* What leads to a directory that is not moved still does. *)
LEMMA LeadsStays ==
    ASSUME Outside, NEW D, D \subseteq Dirs, NEW E, NEW L,
           NEW v \in Canonical, v # << >>,
           \A d \in D : ~Covers(v, d) => d \in E,
           NEW p, NEW n \in Segments, Leads(D, L, p, n) # None, ~Covers(v, Leads(D, L, p, n)),
           Leads(D, L, p, n) \in D,
           n = Up => p \in Canonical /\ ~Covers(v, p)
    PROVE  Leads(E, L, p, n) = Leads(D, L, p, n)
<1> DEFINE r == Reach(D, L, p)
           t == Leads(D, L, p, n)
<1>1. r \in D /\ r # None
    BY ReachIn DEF Leads, Step
<1>2. t \in E
    OBVIOUS
<1>3. CASE n = None
    <2>1. t = r
        BY <1>3, <1>1 DEF Leads, Step
    <2>2. Reach(E, L, p) = r
        BY <2>1, <1>1, <1>2, ReachStays
    <2> QED
        BY <2>1, <2>2, <1>3 DEF Leads, Step
<1>4. CASE n = Up
    <2>1. r = p
        BY <1>1, <1>4, ReachCanonical
    <2>2. r \in E
        BY <1>1, <2>1, <1>4
    <2>3. Reach(E, L, p) = r
        BY <1>1, <2>2, ReachStays
    <2> QED
        BY <1>4, <2>3, PathsAre DEF Leads, Step
<1>5. CASE n \in LinkNames
    <2>1. t = Reach(D, L, AddSegment(r, n)) /\ n # Up /\ n # None
        BY <1>1, <1>5, PathsAre DEF Leads, Step
    <2>2. r \in Canonical /\ r \in Paths
        BY <1>1, PathsAre
    <2>3. ~Covers(v, r)
        <3> SUFFICES ASSUME Covers(v, r) PROVE FALSE
            OBVIOUS
        <3> DEFINE a == AddSegment(r, n)
        <3>1. /\ a \in Paths /\ a # << >> /\ Covers(r, a) /\ Len(r) \in Nat
              /\ Len(a) = Len(r) + 1 /\ \A i \in 1..Len(r) : a[i] = r[i]
            BY <2>2, <1>5, CoversSegment, AppendProperties, LenProperties DEF Paths, AddSegment
        <3>2. Len(v) \in Nat \ {0} /\ Len(v) <= Len(r) /\ Len(r) >= 1
            BY <2>2, CoversIs, EmptySeq, LenProperties DEF Canonical
        <3>3. Head(a) = r[1] /\ r[1] \in Names
            <4> HIDE DEF a
            <4>1. 1 \in 1..Len(r)
                BY <3>2, <3>1
            <4> QED BY <3>1, <4>1, <2>2, ElementOfSeq DEF Canonical
        <3>4. RealPath(L, a) = a
            <4> HIDE DEF a
            <4> QED BY <3>3, PathsAre DEF RealPath
        <3>5. t = a
            <4> HIDE DEF a
            <4> QED BY <3>4, <2>1 DEF Reach, a
        <3>6. v \in Paths
            BY PathsAre
        <3>7. Covers(v, a)
            <4> HIDE DEF a
            <4> QED BY <3>6, <2>2, <3>1, CoversTransitive DEF Paths
        <3> QED BY <3>5, <3>7
    <2>4. Reach(E, L, p) = r
        BY <1>1, <2>3, ReachStays
    <2>5. Reach(E, L, AddSegment(r, n)) = t
        BY <1>2, <2>1, ReachStays
    <2> QED
        BY <2>1, <2>4, <2>5, <1>1 DEF Leads, Step
<1> QED
    BY <1>3, <1>4, <1>5 DEF Segments

(* Where something is meant to be carried out *)
Places == (Paths \X Segments) \cup {None}

-------------------------------------------------------------------------------

(* The types of the variables.  Every operation and every command is a     *)
(* record.                                                                 *)
Ids == {"list", "rmd", "rename", "dele", "stor", "mkd", "raw", "cwd"}
States == {"init", "fallback", "waitcwd", "list", "send", "rnto", "findparent", "mkdsub", "cwdsub", "tryfull",
           "waitlock", "pwd", "cwd", "pwd_cwd", "cwd_subdir", "pwd_subdir"}
Parents == {GetCommonParent(p, q) : p, q \in Paths} \cup MaybePaths
OpType == [id : Ids, state : States, path : MaybePaths, subDir : Segments, meant : Places, target : MaybePaths,
           flag : BOOLEAN, tried : BOOLEAN, toPath : MaybePaths, toName : Segments, parent : Parents,
           mkdPath : MaybePaths, segments : Seq(Names)]
Verbs == {"none", "CWD", "CDUP", "PWD", "MKD", "LIST", "DELE", "STOR", "RAW", "RMD", "RNFR", "RNTO"}
WireType == [verb : Verbs, path : MaybePaths, name : Segments, meant : Places, move : MaybePaths,
             done : BOOLEAN, reply : {"none", "ok", "fail", "exists", "file", "unsupported"}, tells : MaybePaths, skip : BOOLEAN]
Entries == [source : Paths, subdir : Segments, target : Paths]

Types ==
    /\ dirs \subseteq Dirs /\ << >> \in dirs /\ Closed(dirs)
    /\ link \in BOOLEAN /\ pwdWorks \in BOOLEAN /\ (link => pwdWorks) /\ raced \in BOOLEAN
    /\ at \in [Engines -> dirs \cup {None}]
    /\ cache \subseteq Entries
    /\ currentPath \in [Engines -> MaybePaths]
    /\ invalidate \in [Engines -> BOOLEAN] /\ disturbed \in [Engines -> BOOLEAN]
    /\ ops \in [Engines -> Seq(OpType)]
    /\ wire \in [Engines -> WireType]
    /\ pending \in [Engines -> SUBSET Paths]
    /\ turn \in Engines \cup {None}
    /\ mkdOK \in [Engines -> MaybePaths]
    /\ commands \in 0..MaxCommands /\ faults \in 0..MaxFaults

-------------------------------------------------------------------------------
(* The states of the operations of the user *)
StatesOf(id) ==
    CASE id = "list" -> {"init", "fallback", "waitcwd", "list"}
      [] id = "rename" -> {"init", "waitcwd", "send", "rnto"}
      [] id = "mkd" -> {"init", "waitlock", "findparent", "mkdsub", "cwdsub", "tryfull"}
      [] id = "raw" -> {"init"}
      [] OTHER -> {"init", "waitcwd", "send"}

(* An operation of the user: what of it stays as it was asked for *)
UserOp(p) ==
    /\ p.id \in Ids \ {"cwd"} /\ p.state \in StatesOf(p.id)
    /\ p.id \notin {"list", "raw"} => p.path # None
    /\ p.id \in {"rename", "stor", "mkd"} => p.path \in Canonical
    /\ p.id \in {"rmd", "rename"} => p.subDir \in Names
    /\ p.id = "rename" => p.toPath \in Canonical /\ p.toName \in Names
    /\ p.id \in {"dele", "stor"} => p.subDir \in Names \cup {None}
    /\ p.id \in {"rmd", "rename", "dele", "stor"} => p.meant # None /\ p.meant[2] = None
    /\ p.id = "rmd" => p.meant[1] \in Canonical
    /\ p.id \in {"rename", "dele", "stor"} => p.path = p.meant[1]
    /\ p.id = "rmd" /\ (p.state # "send" \/ p.flag) => p.path = p.meant[1]
    /\ p.id = "list" /\ p.state \in {"init", "waitcwd"} =>
          IF p.path = None THEN p.meant = None ELSE p.meant = <<p.path, p.subDir>>
    /\ p.id = "list" /\ p.state = "fallback" => p.path = None /\ p.meant = None
    /\ p.id = "list" /\ p.subDir = Up => p.path \in Canonical
    /\ p.state = "rnto" => p.target \in Canonical /\ p.target # << >>

(* A change of directory for the operation p *)
CwdOp(p, c) ==
    /\ c.id = "cwd" /\ c.state \in {"init", "waitlock", "pwd", "cwd", "pwd_cwd", "cwd_subdir", "pwd_subdir"}
    /\ c.path = None <=> p.path = None
    /\ c.path = None => c.state \in {"init", "pwd"}
    /\ c.state = "pwd" => c.path = None
    /\ c.state \in {"cwd_subdir", "pwd_subdir"} => c.subDir # None
    /\ c.state \notin {"cwd", "waitlock"} => c.target = None
    /\ c.state = "waitlock" => p.id = "stor" /\ ~c.flag
    /\ c.subDir = Up => c.path \in Canonical
    /\ c.flag => p.id = "stor"
    /\ p.id # "list" => c.path = p.path /\ c.subDir = None
    /\ p.meant # None => <<c.path, c.subDir>> = p.meant
          \/ (p.id = "list" /\ c.state = "cwd" /\ c.subDir = None /\ c.target = c.path)

(* A creation of directories *)
MkdOp(m) ==
    /\ m.id = "mkd" /\ m.state \in StatesOf("mkd") /\ m.path \in Canonical
    /\ m.state \in {"findparent", "mkdsub", "cwdsub"} =>
          /\ m.mkdPath \in Canonical /\ m.segments # << >>
          /\ Len(m.mkdPath) + Len(m.segments) = Len(m.path)
          /\ \A i \in 1..Len(m.mkdPath) : m.mkdPath[i] = m.path[i]
          /\ \A i \in 1..Len(m.segments) : m.segments[i] = m.path[Len(m.path) + 1 - i]

(* The stack of operations: one of the user, above it a change of          *)
(* directory, above that, for an upload, the creation of the directory     *)
Stack(s) ==
    /\ Len(s) <= 3
    /\ Len(s) >= 1 => UserOp(s[1]) /\ (s[1].state = "waitcwd" <=> Len(s) > 1)
    /\ Len(s) >= 1 /\ s[1].id = "mkd" => MkdOp(s[1])
    /\ Len(s) >= 2 => CwdOp(s[1], s[2])
    /\ Len(s) = 3 => /\ MkdOp(s[3]) /\ s[1].id = "stor"
                     /\ s[2].state = "cwd" /\ ~s[2].flag

(* The command w that the operation t has sent *)
Sent(t, w) ==
    CASE t.id = "cwd" /\ t.state \in {"pwd", "pwd_cwd", "pwd_subdir"} ->
            w.verb = "PWD" /\ w.path = None /\ w.name = None /\ w.meant = None
      [] t.id = "cwd" /\ t.state = "cwd" -> w.verb = "CWD" /\ w.path = t.path /\ w.name = None /\ w.meant = None
      [] t.id = "cwd" /\ t.state = "cwd_subdir" ->
            /\ w.verb \in {"CWD", "CDUP"} /\ w.path = None /\ w.name = t.subDir /\ w.meant = None
            /\ w.verb = "CDUP" => t.subDir = Up
      [] t.id = "mkd" /\ t.state \in {"findparent", "cwdsub"} ->
            w.verb = "CWD" /\ w.path = t.mkdPath /\ w.name = None /\ w.meant = None
      [] t.id = "mkd" /\ t.state = "mkdsub" ->
            w.verb = "MKD" /\ w.path = None /\ w.name = Last(t.segments) /\ w.meant = <<t.mkdPath, None>>
      [] t.id = "mkd" /\ t.state = "tryfull" ->
            /\ w.verb = "MKD" /\ w.meant = None
            /\ IF HasParent(t.path)
               THEN w.path = GetParent(t.path) /\ w.name = Last(t.path)
               ELSE w.path = t.path /\ w.name = None
      [] t.id = "raw" -> w.verb = "RAW" /\ w.meant = None
      [] t.id = "list" -> t.state = "list" /\ w.verb = "LIST" /\ w.path = None /\ w.name = None /\ w.meant = t.meant
      [] t.id = "rename" /\ t.state = "rnto" ->
            /\ w.verb = "RNTO" /\ w.path = (IF ~t.flag /\ t.path = t.toPath THEN None ELSE t.toPath) /\ w.name = t.toName
            /\ w.meant = <<t.toPath, None>> /\ w.move = t.target
      [] OTHER ->
            /\ t.state = "send"
            /\ w.verb = (CASE t.id = "rmd" -> "RMD" [] t.id = "rename" -> "RNFR"
                           [] t.id = "dele" -> "DELE" [] OTHER -> "STOR")
            /\ w.path = PathOf(t) /\ w.name = t.subDir /\ w.meant = t.meant

(* What a command can be, whoever has sent it *)
WireOp(w) ==
    /\ w.verb = "none" => w = NoWire
    /\ w.verb \in Destroys => w.name \in Names /\ w.path \in Canonical \cup {None}
    /\ w.verb = "RNTO" => w.move \in Canonical /\ w.move # << >>
    /\ w.verb = "DELE" => w.name # Link
    /\ w.verb \in {"PWD", "RNFR"} /\ w.done /\ w.reply = "ok" => w.tells \in Dirs /\ (w.verb = "RNFR" => w.tells # << >>)
    /\ ~w.done => w.reply = "none"

(* Whose turn it is, and what has been sent *)
Control(e) ==
    /\ Stack(ops[e]) /\ WireOp(wire[e])
    /\ turn = e => ops[e] # << >> /\ wire[e] = NoWire
    /\ ops[e] # << >> /\ turn # e => Busy(e) \/ Top(e).state = "waitlock"
    /\ ops[e] # << >> /\ Top(e).state = "waitlock" => turn # e /\ ~Busy(e)
    /\ Busy(e) /\ ~wire[e].skip => ops[e] # << >> /\ Sent(Top(e), wire[e])
    /\ wire[e].skip /\ ops[e] # << >> => Len(ops[e]) = 1 /\ Top(e).state = "init"
    /\ invalidate[e] => ops[e] # << >>
    /\ mkdOK[e] # None => ops[e] = << >> /\ ~Busy(e)
    /\ wire[e].verb \in Moves \cup {"RAW"} => currentPath[e] = None
    /\ ops[e] # << >> /\ Top(e).id = "cwd" /\ Top(e).state \in {"pwd", "pwd_cwd", "pwd_subdir"} => currentPath[e] = None

-------------------------------------------------------------------------------

(* The engine has been told to forget its directory, and something has     *)
(* been destroyed meanwhile.                                               *)
Stale(e) == invalidate[e] /\ disturbed[e]

(* The operation on top goes on now, or when its reply comes *)
Live(e) == turn = e \/ (Busy(e) /\ ~wire[e].skip)

(* What an engine believes is true, or it will forget it. *)
Belief(e) == currentPath[e] = None \/ at[e] = currentPath[e] \/ Stale(e)

(* Where the operation on top is *)
AtPath(e, p) == at[e] # None /\ at[e] = Reach(dirs, link, p)
AtEntry(e, p, n) == at[e] # None /\ at[e] = Leads(dirs, link, p, n)

(* A change of directory that may have waited for a lock: another engine   *)
(* may have destroyed its directory meanwhile.                             *)
Waited(e) == ops[e][1].id = "stor" /\ ~Top(e).flag /\ Top(e).target = Top(e).path

(* A change of directory: at each state and each reply, where the          *)
(* connection is                                                           *)
CwdWhere(e) ==
    LET t == Top(e)
        w == wire[e]
    IN  ops[e] # << >> /\ t.id = "cwd" /\ Live(e) =>
          /\ t.state = "cwd" /\ t.target # None => Reach(dirs, link, t.path) = t.target \/ Waited(e)
          /\ t.state = "cwd" /\ w.done /\ w.reply = "ok" => AtPath(e, t.path)
          /\ t.state = "cwd" /\ w.done /\ w.reply # "ok" => t.target = None \/ Waited(e)
          /\ t.state = "pwd_cwd" => AtPath(e, t.path)
          /\ t.state = "cwd_subdir" /\ ~(w.done /\ w.reply = "ok") => AtPath(e, t.path) \/ (turn = e /\ Stale(e))
          /\ t.state = "cwd_subdir" /\ w.done /\ w.reply = "ok" => AtEntry(e, t.path, t.subDir)
          /\ t.state = "pwd_subdir" => AtEntry(e, t.path, t.subDir)
          /\ w.done /\ w.verb = "PWD" => IF w.reply = "ok" THEN w.tells = at[e] ELSE t.state = "pwd" \/ ~pwdWorks

(* A creation of directories: the same, and what exists already *)
MkdWhere(e) ==
    LET t == Top(e)
        w == wire[e]
    IN  ops[e] # << >> /\ t.id = "mkd" /\ Live(e) =>
          /\ t.state \in {"findparent", "cwdsub"} /\ w.done /\ w.reply = "ok" => at[e] = t.mkdPath
          /\ t.state = "mkdsub" => currentPath[e] = t.mkdPath
          /\ t.state = "mkdsub" /\ w.done /\ w.reply \notin {"fail", "file"} /\ ~disturbed[e] =>
                AddSegment(t.mkdPath, Last(t.segments)) \in dirs
          /\ t.state = "tryfull" /\ w.done /\ w.reply = "ok" /\ ~disturbed[e] => t.path \in dirs

(* A change of directory that takes the way through the path cache leads   *)
(* where its operation wants to go.                                        *)
Detour(e) ==
    Len(ops[e]) = 2 /\ ~disturbed[e] =>
        LET p == ops[e][1]
            c == ops[e][2]
        IN  p.meant # None => <<c.path, c.subDir>> = p.meant \/ Leads(dirs, link, p.meant[1], p.meant[2]) = c.path

(* An upload that creates its directory had to ask where it was; one that  *)
(* waits for a lock had, or knows that it is what it is called.            *)
Unknown(e) ==
    /\ Len(ops[e]) = 3 => ops[e][2].target = None
    /\ Len(ops[e]) = 2 /\ ops[e][2].state = "waitlock" => ops[e][2].target \in {None, ops[e][2].path}

(* An operation of the user that has gone to its directory is in it, and   *)
(* RNTO will move what RNFR has named.                                     *)
UserWhere(e) ==
    LET t == Top(e) IN
    ops[e] # << >> /\ t.state \in {"list", "send", "rnto"} =>
        /\ t.id # "list" /\ t.flag => currentPath[e] = None
        /\ t.id \in {"rmd", "rename"} => t.path = t.meant[1]
        /\ t.id \in {"rmd", "rename"} /\ ~t.flag => currentPath[e] = t.path
        /\ (t.id = "list" \/ ~t.flag) /\ t.meant # None /\ ~disturbed[e] => AtEntry(e, t.meant[1], t.meant[2])
        /\ t.state = "rnto" => t.target = AddSegment(t.path, t.subDir) \/ Stale(e)
        /\ wire[e].verb = "RNFR" /\ wire[e].done /\ wire[e].reply = "ok"
              => wire[e].tells = AddSegment(t.path, t.subDir) \/ Stale(e)

(* What was reported as made exists. *)
Made(e) == mkdOK[e] # None /\ ~disturbed[e] => mkdOK[e] \in dirs

(* All that is true of an engine while there has been no race *)
Local(e) == Belief(e) /\ CwdWhere(e) /\ MkdWhere(e) /\ Detour(e) /\ Unknown(e) /\ UserWhere(e) /\ Made(e)

(* The path cache says what the server would. *)
CacheTrue == \A x \in cache : Leads(dirs, link, x.source, x.subdir) = x.target /\ (x.subdir = Up => x.source \in Canonical)

(* No connection changes its directory while another one destroys one. *)
Apart == \A e, f \in Engines : e # f => ~(Moving(e) /\ Destroying(f))

(* The directory the command of f will destroy *)
Victim(f) ==
    IF wire[f].verb = "RNTO" THEN wire[f].move
    ELSE IF wire[f].path # None THEN AddSegment(wire[f].path, wire[f].name)
    ELSE IF at[f] = None THEN None
    ELSE AddSegment(at[f], wire[f].name)

(* Nothing in the path cache is about it, *)
Spared(f) ==
    \A x \in cache : ~Covers(Victim(f), x.target) /\ ~Covers(Victim(f), x.source)

(* and an engine does not believe to be in it, or is about to forget it. *)
Told(f, e) ==
    \/ currentPath[e] = None \/ ~Covers(Victim(f), currentPath[e]) \/ Stale(e)
    \/ f # e /\ (invalidate[e] \/ \E p \in pending[e] : Covers(p, currentPath[e]))
Announced == \A f \in Engines : Destroying(f) /\ Victim(f) # None => Spared(f) /\ \A e \in Engines : Told(f, e)

(* While there has been no race, everything is true. *)
Truth == ~raced => CacheTrue /\ Apart /\ Announced /\ \A e \in Engines : Local(e)

Inv == Types /\ (\A e \in Engines : Control(e)) /\ Truth

(* A step of the engine e leaves alone what the others have. *)
Others(e) ==
    /\ UNCHANGED <<dirs, link, pwdWorks>>
    /\ \A f \in Engines \ {e} :
          /\ at'[f] = at[f] /\ currentPath'[f] = currentPath[f] /\ invalidate'[f] = invalidate[f]
          /\ ops'[f] = ops[f] /\ wire'[f] = wire[f] /\ disturbed'[f] = disturbed[f] /\ mkdOK'[f] = mkdOK[f]
          /\ pending[f] \subseteq pending'[f]
    /\ turn \in {None, e} /\ turn' \in {None, e}

(* A step of e does not touch what the others have sent. *)
LEMMA OthersControl ==
    ASSUME NEW e \in Engines, Others(e), NEW f \in Engines \ {e}, Control(f)
    PROVE  Control(f)'
<1>1. turn # f /\ turn' # f
    BY WorkingDirAssumption DEF Others
<1> QED
    BY <1>1 DEF Others, Control, Busy, Top

(* Nor where they are. *)
LEMMA OthersLocal ==
    ASSUME NEW e \in Engines, Others(e), NEW f \in Engines \ {e}, Local(f)
    PROVE  Local(f)'
<1>1. turn # f /\ turn' # f
    BY WorkingDirAssumption DEF Others
<1>2. Belief(f)'
    BY DEF Others, Local, Belief, Stale
<1>3. CwdWhere(f)'
    BY <1>1 DEF Others, Local, CwdWhere, Stale, Live, Busy, Top, AtPath, AtEntry, Waited
<1>4. MkdWhere(f)'
    BY <1>1 DEF Others, Local, MkdWhere, Live, Busy, Top
<1>5. Detour(f)' /\ Unknown(f)'
    BY DEF Others, Local, Detour, Unknown
<1>6. UserWhere(f)'
    BY DEF Others, Local, UserWhere, Top, Stale, AtEntry
<1>7. Made(f)'
    BY DEF Others, Local, Made
<1> QED
    BY <1>2, <1>3, <1>4, <1>5, <1>6, <1>7 DEF Local

(* The invariant holds after a step of e if its parts about e and those    *)
(* about all do.                                                           *)
LEMMA Assemble ==
    ASSUME Inv, NEW e \in Engines, Others(e), Types', Control(e)',
           ~raced' => ~raced /\ CacheTrue' /\ Apart' /\ Announced' /\ Local(e)'
    PROVE  Inv'
<1>1. \A f \in Engines : Control(f)'
    BY OthersControl DEF Inv
<1>2. ASSUME ~raced' PROVE \A f \in Engines : Local(f)'
    BY <1>2, OthersLocal DEF Inv, Truth
<1> QED
    BY <1>1, <1>2 DEF Inv, Truth

(* A step that starts neither a change of directory nor a destruction      *)
(* keeps them apart.                                                       *)
LEMMA ApartSame ==
    ASSUME NEW e \in Engines, Others(e), Apart, Moving(e)' => Moving(e), Destroying(e)' => Destroying(e)
    PROVE  Apart'
<1>1. \A f \in Engines : Moving(f)' => Moving(f)
    BY DEF Others, Moving
<1>2. \A f \in Engines : Destroying(f)' => Destroying(f)
    BY DEF Others, Destroying
<1> QED
    BY <1>1, <1>2 DEF Apart

(* A step that adds nothing to beliefs and cache leaves all who were told  *)
(* of a destruction told.                                                  *)
LEMMA AnnouncedSame ==
    ASSUME NEW e \in Engines, Others(e), Announced, cache' \subseteq cache,
           Destroying(e)' => /\ Destroying(e) /\ at'[e] = at[e] /\ wire'[e].verb = wire[e].verb
                             /\ wire'[e].path = wire[e].path /\ wire'[e].name = wire[e].name
                             /\ wire'[e].move = wire[e].move,
           currentPath'[e] # None => /\ currentPath'[e] = currentPath[e]
                                     /\ Stale(e) => Stale(e)'
                                     /\ invalidate[e] => invalidate'[e]
                                     /\ pending[e] \subseteq pending'[e]
    PROVE  Announced'
<1> SUFFICES ASSUME NEW f \in Engines, Destroying(f)', Victim(f)' # None
             PROVE  Spared(f)' /\ \A g \in Engines : Told(f, g)'
    BY DEF Announced
<1>1. Destroying(f)
    BY DEF Others, Destroying
<1>2. Victim(f)' = Victim(f)
    <2>1. CASE f = e
        BY <2>1 DEF Victim
    <2>2. CASE f # e
        BY <2>2 DEF Victim, Others
    <2> QED BY <2>1, <2>2
<1>3. Spared(f) /\ \A g \in Engines : Told(f, g)
    BY <1>1, <1>2 DEF Announced
<1>4. Spared(f)'
    BY <1>2, <1>3 DEF Spared
<1>5. ASSUME NEW g \in Engines PROVE Told(f, g)'
    <2>1. CASE g = e
        BY <2>1, <1>2, <1>3 DEF Told
    <2>2. CASE g # e
        BY <2>2, <1>2, <1>3 DEF Told, Others, Stale
    <2> QED BY <2>1, <2>2
<1> QED BY <1>4, <1>5

(* While e changes its directory, there is no destruction to be told of. *)
LEMMA AnnouncedNone ==
    ASSUME NEW e \in Engines, Others(e), Apart, Moving(e), ~Destroying(e)'
    PROVE  Announced'
<1>1. \A f \in Engines : ~Destroying(f)'
    BY DEF Others, Apart, Destroying
<1> QED BY <1>1 DEF Announced

(* The lengths of a stack *)
LEMMA SmallNumbers ==
    \A n \in Nat : n >= 1 => (n = 1 \/ n > 1) /\ (n <= 3 => n = 1 \/ n = 2 \/ n = 3)
OBVIOUS

(* A sequence is its front and its last element. *)
LEMMA FrontLast ==
    ASSUME NEW S, NEW s \in Seq(S), s # << >>
    PROVE  /\ Len(s) \in Nat /\ Len(s) >= 1 /\ Last(s) = s[Len(s)] /\ Last(s) \in S
           /\ Front(s) \in Seq(S) /\ Len(Front(s)) = Len(s) - 1
           /\ \A i \in 1..(Len(s) - 1) : Front(s)[i] = s[i]
<1>1. Len(s) \in Nat /\ Len(s) >= 1
    BY EmptySeq
<1>2. Last(s) = s[Len(s)] /\ Last(s) \in S
    BY <1>1, ElementOfSeq DEF Last
<1>3. \A i \in 1..(Len(s) - 1) : s[i] \in S
    BY <1>1, ElementOfSeq
<1>4. /\ SubSeq(s, 1, Len(s) - 1) \in Seq(S)
      /\ Len(SubSeq(s, 1, Len(s) - 1)) = IF 1 <= Len(s) - 1 THEN Len(s) - 1 - 1 + 1 ELSE 0
      /\ \A i \in 1..(Len(s) - 1 - 1 + 1) : SubSeq(s, 1, Len(s) - 1)[i] = s[1 + i - 1]
    <2>1. Len(s) - 1 \in Int
        BY <1>1
    <2> QED
        BY <1>3, <2>1, SubSeqProperties
<1>5. /\ SubSeq(s, 1, Len(s) - 1) \in Seq(S) /\ Len(SubSeq(s, 1, Len(s) - 1)) = Len(s) - 1
      /\ \A i \in 1..(Len(s) - 1) : SubSeq(s, 1, Len(s) - 1)[i] = s[i]
    <2> DEFINE b == SubSeq(s, 1, Len(s) - 1)
    <2>1. /\ b \in Seq(S) /\ Len(b) = IF 1 <= Len(s) - 1 THEN Len(s) - 1 - 1 + 1 ELSE 0
          /\ \A i \in 1..(Len(s) - 1 - 1 + 1) : b[i] = s[1 + i - 1]
        BY <1>4
    <2> HIDE DEF b
    <2>0. Len(b) = IF 1 <= Len(s) - 1 THEN Len(s) - 1 - 1 + 1 ELSE 0
        BY <2>1
    <2>2. b \in Seq(S) /\ Len(b) = Len(s) - 1
        <3>1. CASE Len(s) = 1
            BY <2>0, <2>1, <3>1
        <3>2. CASE Len(s) > 1
            BY <2>0, <2>1, <1>1, <3>2
        <3> QED BY <1>1, <3>1, <3>2, SmallNumbers
    <2>3. ASSUME NEW i \in 1..(Len(s) - 1) PROVE b[i] = s[i]
        <3>1. i \in 1..(Len(s) - 1 - 1 + 1) /\ 1 + i - 1 = i
            BY <1>1
        <3> QED BY <2>1, <3>1
    <2> QED BY <2>2, <2>3 DEF b
<1> QED
    BY <1>1, <1>2, <1>5 DEF Front

(* The last element of a sequence replaced *)
LEMMA Replaced ==
    ASSUME NEW S, NEW s \in Seq(S), s # << >>, NEW x \in S
    PROVE  LET a == Append(Front(s), x)
           IN  /\ a \in Seq(S) /\ a # << >> /\ Len(a) = Len(s) /\ Last(a) = x /\ a[Len(s)] = x
               /\ \A i \in 1..(Len(s) - 1) : a[i] = s[i]
<1>1. Len(s) \in Nat /\ Len(s) >= 1 /\ Front(s) \in Seq(S) /\ Len(Front(s)) = Len(s) - 1
    BY FrontLast
<1> DEFINE a == Append(Front(s), x)
<1>2. /\ a \in Seq(S) /\ a # << >> /\ Len(a) = Len(s) - 1 + 1
      /\ \A i \in 1..(Len(s) - 1) : a[i] = Front(s)[i]
      /\ a[Len(s) - 1 + 1] = x
    BY <1>1, AppendProperties
<1>3. Len(a) = Len(s) /\ a[Len(s)] = x
    <2> HIDE DEF a
    <2> QED BY <1>1, <1>2
<1>4. Last(a) = x
    BY <1>3 DEF Last
<1> QED
    BY <1>2, <1>3, <1>4, FrontLast

(* The last element of a sequence replaced and another one added *)
LEMMA Pushed ==
    ASSUME NEW S, NEW s \in Seq(S), s # << >>, NEW x \in S, NEW y \in S
    PROVE  LET a == Append(Append(Front(s), x), y)
           IN  /\ a \in Seq(S) /\ a # << >> /\ Len(a) = Len(s) + 1 /\ Last(a) = y
               /\ a[Len(s)] = x /\ a[Len(s) + 1] = y
               /\ \A i \in 1..(Len(s) - 1) : a[i] = s[i]
<1> DEFINE b == Append(Front(s), x)
           a == Append(b, y)
<1>1. /\ b \in Seq(S) /\ Len(b) = Len(s) /\ b[Len(s)] = x
      /\ \A i \in 1..(Len(s) - 1) : b[i] = s[i]
    BY Replaced
<1>2. Len(s) \in Nat /\ Len(s) >= 1
    BY FrontLast
<1> HIDE DEF b
<1>3. /\ a \in Seq(S) /\ a # << >> /\ Len(a) = Len(b) + 1
      /\ \A i \in 1..Len(b) : a[i] = b[i]
      /\ a[Len(b) + 1] = y
    BY <1>1, AppendProperties
<1> HIDE DEF a
<1>4. Last(a) = y
    BY <1>3 DEF Last
<1>5. a[Len(s)] = x /\ \A i \in 1..(Len(s) - 1) : a[i] = s[i]
    BY <1>1, <1>2, <1>3
<1> QED
    BY <1>1, <1>3, <1>4, <1>5 DEF a, b

(* The last element of a sequence dropped and the one below replaced *)
LEMMA Popped ==
    ASSUME NEW S, NEW s \in Seq(S), Len(s) > 1, NEW x \in S
    PROVE  LET a == Append(Front(Front(s)), x)
           IN  /\ Front(s) # << >> /\ Last(Front(s)) = s[Len(s) - 1]
               /\ a \in Seq(S) /\ a # << >> /\ Len(a) = Len(s) - 1 /\ Last(a) = x /\ a[Len(s) - 1] = x
               /\ \A i \in 1..(Len(s) - 2) : a[i] = s[i]
<1> DEFINE b == Front(s)
<1>1. s # << >> /\ Len(s) \in Nat
    BY EmptySeq, LenProperties
<1>2. /\ b \in Seq(S) /\ Len(b) = Len(s) - 1
      /\ \A i \in 1..(Len(s) - 1) : b[i] = s[i]
    BY <1>1, FrontLast
<1> HIDE DEF b
<1>3. b # << >>
    BY <1>1, <1>2, EmptySeq
<1>4. Last(b) = s[Len(s) - 1]
    BY <1>1, <1>2 DEF Last
<1> DEFINE a == Append(Front(b), x)
<1>5. /\ a \in Seq(S) /\ a # << >> /\ Len(a) = Len(b) /\ Last(a) = x /\ a[Len(b)] = x
      /\ \A i \in 1..(Len(b) - 1) : a[i] = b[i]
    BY <1>2, <1>3, Replaced
<1> HIDE DEF a
<1>6. \A i \in 1..(Len(s) - 2) : a[i] = s[i]
    BY <1>1, <1>2, <1>5
<1> QED
    BY <1>2, <1>3, <1>4, <1>5, <1>6 DEF a, b

(* What a stack of operations looks like, from the one on top. *)
LEMMA Shape ==
    ASSUME Types, NEW e \in Engines, Control(e), ops[e] # << >>
    PROVE  /\ Len(ops[e]) \in 1..3 /\ Top(e) = ops[e][Len(ops[e])] /\ Top(e) \in OpType
           /\ \A i \in 1..Len(ops[e]) : ops[e][i] \in OpType
           /\ Top(e).id = "cwd" <=> Len(ops[e]) = 2
           /\ Top(e).id \notin {"cwd", "mkd"} => Len(ops[e]) = 1
           /\ Len(ops[e]) = 1 => UserOp(Top(e)) /\ Top(e).state # "waitcwd"
           /\ Len(ops[e]) >= 2 => UserOp(ops[e][1]) /\ ops[e][1].state = "waitcwd" /\ CwdOp(ops[e][1], ops[e][2])
           /\ Top(e).id = "mkd" => MkdOp(Top(e)) /\ (Len(ops[e]) = 1 \/ Len(ops[e]) = 3)
           /\ Stack(ops[e]) /\ ops[e] \in Seq(OpType)
<1>1. ops[e] \in Seq(OpType) /\ Stack(ops[e])
    BY DEF Types, Control
<1>2. Len(ops[e]) \in Nat /\ Len(ops[e]) >= 1 /\ Top(e) = ops[e][Len(ops[e])] /\ Top(e) \in OpType
    BY <1>1, FrontLast DEF Top
<1>3. \A i \in 1..Len(ops[e]) : ops[e][i] \in OpType
    BY <1>1, ElementOfSeq
<1>4. Len(ops[e]) <= 3
    BY <1>1 DEF Stack
<1>5. CASE Len(ops[e]) = 1
    <2>1. Top(e) = ops[e][1]
        BY <1>2, <1>5
    <2>2. UserOp(Top(e)) /\ Top(e).state # "waitcwd" /\ (Top(e).id = "mkd" => MkdOp(Top(e)))
        BY <2>1, <1>1, <1>5 DEF Stack
    <2>3. Top(e).id # "cwd"
        BY <2>2 DEF UserOp
    <2> QED BY <1>5, <1>1, <1>2, <1>3, <2>2, <2>3
<1>6. CASE Len(ops[e]) = 2
    BY <1>6, <1>1, <1>2, <1>3 DEF Stack, CwdOp
<1>7. CASE Len(ops[e]) = 3
    <2>1. ops[e][3].id = "mkd" /\ MkdOp(ops[e][3]) /\ Top(e) = ops[e][3]
        BY <1>7, <1>1, <1>2 DEF Stack, MkdOp
    <2>2. UserOp(ops[e][1]) /\ ops[e][1].state = "waitcwd" /\ CwdOp(ops[e][1], ops[e][2])
        BY <1>7, <1>1 DEF Stack
    <2> QED
        BY <1>7, <1>1, <1>2, <1>3, <2>1, <2>2
<1>8. Len(ops[e]) = 1 \/ Len(ops[e]) = 2 \/ Len(ops[e]) = 3
    <2>1. Len(ops[e]) \in Nat /\ Len(ops[e]) >= 1
        BY <1>2
    <2> QED BY <2>1, <1>4, SmallNumbers
<1> QED
    BY <1>5, <1>6, <1>7, <1>8

(* SubcommandResult ends the operation below or leaves an operation. *)
LEMMA ResultType ==
    ASSUME NEW p \in OpType, NEW ok \in BOOLEAN, NEW cp \in MaybePaths
    PROVE  LET r == SubcommandResult(p, ok, cp)
           IN  r.state = "end" \/ r \in OpType
<1>1. None \in MaybePaths /\ None \in Segments /\ None \in Places
    BY DEF MaybePaths, Segments, Places
<1>2. CASE p.id = "cwd"
    BY <1>2 DEF SubcommandResult
<1>3. CASE p.id = "list"
    <2>1. CASE ok
        BY <1>1, <1>3, <2>1 DEF SubcommandResult, OpType, States
    <2>2. CASE ~ok /\ p.flag
        BY <1>1, <1>3, <2>2 DEF SubcommandResult, OpType, States
    <2>3. CASE ~ok /\ ~p.flag
        BY <1>3, <2>3 DEF SubcommandResult, OpType
    <2> QED BY <2>1, <2>2, <2>3
<1>4. CASE p.id = "rmd"
    BY <1>4 DEF SubcommandResult, OpType, States
<1>5. CASE p.id \notin {"cwd", "list", "rmd"}
    BY <1>5 DEF SubcommandResult, OpType, States
<1> QED
    BY <1>2, <1>3, <1>4, <1>5

(* The two outcomes of ResetOperation *)
Ended(e, ok, cp) ==
    /\ ops'[e] = << >> /\ turn' = None /\ invalidate'[e] = FALSE
    /\ currentPath'[e] = IF invalidate[e] THEN None ELSE cp
    /\ mkdOK'[e] = IF ok /\ Top(e).id = "mkd" /\ wire[e].reply # "file" THEN Top(e).path ELSE None

(* The operation below goes on. *)
WentOn(e, cp) ==
    /\ turn' = e /\ currentPath'[e] = cp /\ invalidate'[e] = invalidate[e] /\ mkdOK'[e] = mkdOK[e]

(* What ResetOperation does: the command of the user is done, or the       *)
(* operation below goes on.                                                *)
LEMMA ResetOps ==
    ASSUME Types, NEW e \in Engines, Control(e), ops[e] # << >>,
           NEW ok \in BOOLEAN, NEW cp \in MaybePaths, ResetOperation(e, Top(e), ok, cp)
    PROVE  /\ \A f \in Engines \ {e} : /\ ops'[f] = ops[f] /\ currentPath'[f] = currentPath[f]
                                       /\ invalidate'[f] = invalidate[f] /\ mkdOK'[f] = mkdOK[f]
           /\ ops' \in [Engines -> Seq(OpType)] /\ currentPath' \in [Engines -> MaybePaths]
           /\ invalidate' \in [Engines -> BOOLEAN] /\ mkdOK' \in [Engines -> MaybePaths]
           /\ turn' \in {None, e}
           /\ \/ Len(ops[e]) <= 2 /\ Ended(e, ok, cp)
              \/ /\ Len(ops[e]) = 2 /\ WentOn(e, cp)
                 /\ Len(ops'[e]) = 1 /\ ops'[e] # << >>
                 /\ ops'[e][1] = SubcommandResult(ops[e][1], ok, cp) /\ Last(ops'[e]) = ops'[e][1]
                 /\ ops'[e][1].state # "end"
              \/ /\ Len(ops[e]) = 3 /\ WentOn(e, cp)
                 /\ Len(ops'[e]) = 2 /\ ops'[e] # << >>
                 /\ ops'[e][1] = ops[e][1] /\ ops'[e][2] = ops[e][2] /\ Last(ops'[e]) = ops[e][2]
<1> DEFINE s == ops[e]
           p == SubcommandResult(Last(Front(s)), ok, cp)
<1>1. /\ s \in Seq(OpType) /\ s # << >> /\ Len(s) \in 1..3 /\ Top(e) \in OpType /\ Top(e).path \in MaybePaths
      /\ \A i \in 1..Len(s) : s[i] \in OpType
      /\ Len(s) = 1 \/ Len(s) = 2 \/ Len(s) = 3
    <2>1. /\ s \in Seq(OpType) /\ s # << >> /\ Len(s) \in 1..3 /\ Top(e) \in OpType
          /\ \A i \in 1..Len(s) : s[i] \in OpType
        BY Shape
    <2>2. Len(s) = 1 \/ Len(s) = 2 \/ Len(s) = 3
        <3> HIDE DEF s
        <3>1. \A n \in 1..3 : n = 1 \/ n = 2 \/ n = 3
            OBVIOUS
        <3> QED BY <3>1, <2>1
    <2> QED BY <2>1, <2>2 DEF OpType
<1>2. ops \in [Engines -> Seq(OpType)] /\ currentPath \in [Engines -> MaybePaths] /\ invalidate \in [Engines -> BOOLEAN]
      /\ mkdOK \in [Engines -> MaybePaths] /\ << >> \in Seq(OpType) /\ None \in MaybePaths
    BY EmptySeq DEF Types, MaybePaths
<1>3. CASE Front(s) = << >> \/ p.state = "end"
    <2>1. /\ ops' = [ops EXCEPT ![e] = << >>]
          /\ currentPath' = [currentPath EXCEPT ![e] = IF invalidate[e] THEN None ELSE cp]
          /\ invalidate' = [invalidate EXCEPT ![e] = FALSE]
          /\ turn' = None
          /\ mkdOK' = [mkdOK EXCEPT ![e] = IF ok /\ Top(e).id = "mkd" /\ wire[e].reply # "file"
                                           THEN Top(e).path ELSE None]
        BY <1>3 DEF ResetOperation, EndCommand
    <2>2. Len(s) <= 2
        <3> SUFFICES ASSUME Len(s) = 3 PROVE FALSE
            BY <1>1
        <3>1. Front(s) # << >> /\ Last(Front(s)) = s[Len(s) - 1]
            <4>1. Len(s) > 1
                OBVIOUS
            <4> QED BY <1>1, <4>1, Popped
        <3>2. Last(Front(s)) = s[2] /\ s[2].id = "cwd" /\ s[2].state = "cwd"
            BY <3>1, Shape DEF Stack, CwdOp
        <3>3. p = s[2]
            BY <3>2 DEF SubcommandResult
        <3> QED BY <1>3, <3>1, <3>2, <3>3
    <2>3. Ended(e, ok, cp)
        BY <2>1, <1>2 DEF Ended
    <2>4. \A f \in Engines \ {e} : /\ ops'[f] = ops[f] /\ currentPath'[f] = currentPath[f]
                                   /\ invalidate'[f] = invalidate[f] /\ mkdOK'[f] = mkdOK[f]
        BY <2>1, <1>2
    <2>5. /\ ops' \in [Engines -> Seq(OpType)] /\ currentPath' \in [Engines -> MaybePaths]
          /\ invalidate' \in [Engines -> BOOLEAN] /\ mkdOK' \in [Engines -> MaybePaths]
        BY <2>1, <1>1, <1>2
    <2> QED
        BY <2>1, <2>2, <2>3, <2>4, <2>5
<1>4. CASE ~(Front(s) = << >> \/ p.state = "end")
    <2> DEFINE a == Append(Front(Front(s)), p)
    <2>1. /\ ops' = [ops EXCEPT ![e] = a]
          /\ currentPath' = [currentPath EXCEPT ![e] = cp]
          /\ turn' = e
          /\ UNCHANGED <<invalidate, mkdOK>>
        BY <1>4 DEF ResetOperation
    <2>2. Len(s) = 2 \/ Len(s) = 3
        <3>1. Len(s) # 1
            <4> SUFFICES ASSUME Len(s) = 1 PROVE FALSE
                OBVIOUS
            <4>1. Len(Front(s)) = 0 /\ Front(s) \in Seq(OpType)
                BY <1>1, FrontLast
            <4>2. Front(s) = << >>
                BY <4>1, EmptySeq
            <4> QED BY <4>2, <1>4
        <3> QED BY <3>1, <1>1
    <2>3. Len(s) > 1
        <3>1. \A n : n = 2 \/ n = 3 => n > 1
            OBVIOUS
        <3> QED BY <2>2, <3>1
    <2>4. Last(Front(s)) = s[Len(s) - 1] /\ Last(Front(s)) \in OpType
        <3>1. Last(Front(s)) = s[Len(s) - 1]
            BY <2>3, <1>1, Popped
        <3>2. Len(s) - 1 \in 1..Len(s)
            <4>1. \A n : n = 2 \/ n = 3 => n - 1 \in 1..n
                OBVIOUS
            <4> QED BY <2>2, <4>1, Zenon
        <3> QED BY <3>1, <3>2, <1>1
    <2>5. p \in OpType
        BY <2>4, <1>4, ResultType
    <2> HIDE DEF p
    <2>6. /\ a \in Seq(OpType) /\ a # << >> /\ Len(a) = Len(s) - 1 /\ Last(a) = p /\ a[Len(s) - 1] = p
          /\ \A i \in 1..(Len(s) - 2) : a[i] = s[i]
        BY <2>3, <2>5, <1>1, Popped
    <2> HIDE DEF a
    <2>7. ops'[e] = a /\ WentOn(e, cp)
        BY <2>1, <1>2 DEF WentOn
    <2>8. \A f \in Engines \ {e} : /\ ops'[f] = ops[f] /\ currentPath'[f] = currentPath[f]
                                   /\ invalidate'[f] = invalidate[f] /\ mkdOK'[f] = mkdOK[f]
        BY <2>1, <1>2
    <2>9. /\ ops' \in [Engines -> Seq(OpType)] /\ currentPath' \in [Engines -> MaybePaths]
          /\ invalidate' \in [Engines -> BOOLEAN] /\ mkdOK' \in [Engines -> MaybePaths]
        BY <2>1, <2>6, <1>1, <1>2
    <2>10. CASE Len(s) = 2
        <3>1. Len(a) = 1 /\ a[1] = p /\ Last(a) = p /\ a # << >> /\ p.state # "end"
            BY <2>6, <2>10, <1>4
        <3>2. p = SubcommandResult(s[1], ok, cp)
            BY <2>4, <2>10 DEF p
        <3> QED
            BY <2>1, <2>7, <2>8, <2>9, <2>10, <3>1, <3>2
    <2>11. CASE Len(s) = 3
        <3>1. Last(Front(s)) = s[2] /\ s[2].id = "cwd"
            BY <2>4, <2>11, Shape DEF CwdOp
        <3>2. p = s[2]
            BY <3>1 DEF SubcommandResult, p
        <3>3. Len(a) = 2 /\ a[1] = s[1] /\ a[2] = p /\ Last(a) = p /\ a # << >>
            <4>1. 1 \in 1..(Len(s) - 2)
                BY <2>11
            <4> QED BY <2>6, <2>11, <4>1
        <3> QED
            BY <2>1, <2>7, <2>8, <2>9, <2>11, <3>2, <3>3
    <2> QED
        BY <2>2, <2>10, <2>11
<1> QED
    BY <1>3, <1>4

(* An operation of the user that goes on after a change of directory has   *)
(* kept what it was asked for.                                             *)
LEMMA ResultUser ==
    ASSUME Scope, NEW p \in OpType, UserOp(p), p.state = "waitcwd", NEW ok \in BOOLEAN, NEW cp \in MaybePaths,
           ok => cp # None, SubcommandResult(p, ok, cp).state # "end"
    PROVE  LET r == SubcommandResult(p, ok, cp)
           IN  UserOp(r) /\ r.state \in {"list", "fallback", "send"} /\ r.id = p.id /\ p.id \notin {"mkd", "raw", "cwd"}
               /\ (r.id # "list" => r.meant = p.meant /\ r.flag = ~ok /\ r.state = "send" /\ r.subDir = p.subDir
                                    /\ r.toPath = p.toPath /\ r.toName = p.toName
                                    /\ (r.id # "rmd" \/ ~ok => r.path = p.path) /\ (r.id = "rmd" /\ ok => r.path = cp))
               /\ (r.state = "list" => r.id = "list" /\ ok /\ r.meant = p.meant /\ r.path = cp /\ r.subDir = None)
               /\ (r.state = "send" => r.id # "list")
<1>1. p.id \in {"list", "rmd", "rename", "dele", "stor"}
    BY DEF UserOp, StatesOf, Ids
<1>0. None # Up
    BY PathsAre DEF Scope
<1>2. CASE p.id = "list"
    <2>1. CASE ok
        BY <1>0, <1>2, <2>1 DEF SubcommandResult, OpType, UserOp, StatesOf, Ids
    <2>2. CASE ~ok /\ p.flag
        BY <1>0, <1>2, <2>2 DEF SubcommandResult, OpType, UserOp, StatesOf, Ids
    <2>3. CASE ~ok /\ ~p.flag
        BY <1>2, <2>3 DEF SubcommandResult, OpType
    <2> QED BY <2>1, <2>2, <2>3
<1>3. CASE p.id = "rmd"
    BY <1>3 DEF SubcommandResult, OpType, UserOp, StatesOf, Ids
<1>4. CASE p.id \in {"rename", "dele", "stor"}
    BY <1>4 DEF SubcommandResult, OpType, UserOp, StatesOf, Ids
<1> QED
    BY <1>1, <1>2, <1>3, <1>4

(* After ResetOperation it is clear whose turn it is and what has been     *)
(* sent.                                                                   *)
LEMMA ResetControl ==
    ASSUME Scope, Types, NEW e \in Engines, Control(e), ops[e] # << >>,
           NEW ok \in BOOLEAN, NEW cp \in MaybePaths, ResetOperation(e, Top(e), ok, cp),
           Top(e).id = "cwd" /\ ok => cp # None,
           wire'[e] = NoWire
    PROVE  Control(e)'
<1>1. Stack(ops[e]) /\ mkdOK[e] = None
    BY DEF Control
<1>2. CASE Ended(e, ok, cp)
    <2>1. Stack(ops'[e])
        BY <1>2 DEF Ended, Stack
    <2>2. None # e
        BY WorkingDirAssumption
    <2> QED
        BY <1>2, <2>1, <2>2 DEF Control, Ended, NoWire, WireOp, Busy, Destroys, Moves
<1>3. ASSUME Len(ops[e]) = 2, WentOn(e, cp),
             Len(ops'[e]) = 1, ops'[e] # << >>,
             ops'[e][1] = SubcommandResult(ops[e][1], ok, cp), Last(ops'[e]) = ops'[e][1],
             ops'[e][1].state # "end"
      PROVE  Control(e)'
    <2> DEFINE r == ops'[e][1]
    <2>1. /\ UserOp(ops[e][1]) /\ ops[e][1].state = "waitcwd" /\ ops[e][1] \in OpType /\ Top(e).id = "cwd"
        <3>1. 1 \in 1..Len(ops[e])
            BY <1>3
        <3>2. Len(ops[e]) >= 2
            BY <1>3
        <3>3. Len(ops[e]) = 2
            BY <1>3
        <3> QED BY <3>1, <3>2, <3>3, Shape
    <2>2. UserOp(r) /\ r.state \in {"list", "fallback", "send"} /\ r.id \notin {"mkd", "raw", "cwd"}
        BY <1>3, <2>1, ResultUser
    <2> HIDE DEF r
    <2>3. Stack(ops'[e])
        BY <1>3, <2>2 DEF Stack, r
    <2> QED
        BY <1>1, <1>3, <2>2, <2>3 DEF Control, WentOn, NoWire, WireOp, Busy, Destroys, Moves, Top, r
<1>4. ASSUME Len(ops[e]) = 3, WentOn(e, cp),
             Len(ops'[e]) = 2, ops'[e] # << >>,
             ops'[e][1] = ops[e][1], ops'[e][2] = ops[e][2], Last(ops'[e]) = ops[e][2]
      PROVE  Control(e)'
    <2>1. /\ UserOp(ops[e][1]) /\ ops[e][1].state = "waitcwd" /\ CwdOp(ops[e][1], ops[e][2])
          /\ ops[e][1].id = "stor" /\ ops[e][2].state = "cwd"
        BY <1>4, <1>1, Shape DEF Stack
    <2>2. Stack(ops'[e])
        BY <1>4, <2>1 DEF Stack
    <2> QED
        BY <1>1, <1>4, <2>1, <2>2 DEF Control, WentOn, NoWire, WireOp, Busy, Destroys, Moves, Top
<1> QED
    BY <1>2, <1>3, <1>4, ResetOps

(* ResetOperation with a true path leaves beliefs that are true and an     *)
(* operation that is where it is meant to be.                              *)
LEMMA ResetLocal ==
    ASSUME Scope, Types, NEW e \in Engines, Control(e), ops[e] # << >>, Unknown(e),
           NEW ok \in BOOLEAN, NEW cp \in MaybePaths, ResetOperation(e, Top(e), ok, cp),
           wire'[e] = NoWire,
           UNCHANGED <<dirs, link, pwdWorks>>, at'[e] = at[e], disturbed'[e] = disturbed[e],
           cp = None \/ at[e] = cp \/ Stale(e),
           Top(e).id = "cwd" => /\ ok => cp # None
                                /\ ~ok => cp = None
                                /\ ok /\ ops[e][1].id \in {"rmd", "rename"} => cp = ops[e][1].path
                                /\ ok /\ ops[e][1].meant # None /\ ~disturbed[e] =>
                                      AtEntry(e, ops[e][1].meant[1], ops[e][1].meant[2]),
           Top(e).id = "mkd" /\ ok /\ wire[e].reply # "file" /\ ~disturbed[e] => Top(e).path \in dirs
    PROVE  Local(e)'
<1>1. Stack(ops[e]) /\ mkdOK[e] = None
    BY DEF Control
<1>2. CASE Ended(e, ok, cp)
    <2>1. Belief(e)'
        BY <1>2 DEF Ended, Belief, Stale
    <2>2. CwdWhere(e)' /\ MkdWhere(e)' /\ UserWhere(e)' /\ Detour(e)' /\ Unknown(e)'
        <3>1. Len(ops'[e]) = 0 /\ ops'[e] = << >>
            BY <1>2, EmptySeq DEF Ended
        <3> QED BY <3>1 DEF CwdWhere, MkdWhere, UserWhere, Detour, Unknown
    <2>3. Made(e)'
        BY <1>2 DEF Ended, Made
    <2> QED BY <2>1, <2>2, <2>3 DEF Local
<1>3. ASSUME Len(ops[e]) = 2, WentOn(e, cp),
             Len(ops'[e]) = 1, ops'[e] # << >>,
             ops'[e][1] = SubcommandResult(ops[e][1], ok, cp), Last(ops'[e]) = ops'[e][1],
             ops'[e][1].state # "end"
      PROVE  Local(e)'
    <2> DEFINE r == ops'[e][1]
               p == ops[e][1]
    <2>1. /\ UserOp(p) /\ p.state = "waitcwd" /\ p \in OpType /\ Top(e).id = "cwd"
        BY <1>3, Shape
    <2>2. /\ UserOp(r) /\ r.state \in {"list", "fallback", "send"} /\ r.id = p.id /\ p.id \notin {"mkd", "raw", "cwd"}
          /\ (r.id # "list" => r.meant = p.meant /\ r.flag = ~ok /\ r.state = "send" /\ r.subDir = p.subDir
                               /\ (r.id # "rmd" \/ ~ok => r.path = p.path) /\ (r.id = "rmd" /\ ok => r.path = cp))
          /\ (r.state = "list" => r.id = "list" /\ ok /\ r.meant = p.meant)
          /\ (r.state = "send" => r.id # "list")
        BY <1>3, <2>1, ResultUser
    <2>3. Top(e)' = r
        BY <1>3 DEF Top
    <2>4. p.id \in {"rmd", "rename"} => p.path = p.meant[1]
        BY <2>1 DEF UserOp
    <2> HIDE DEF r, p
    <2>5. Belief(e)'
        BY <1>3 DEF WentOn, Belief, Stale
    <2>6. CwdWhere(e)' /\ MkdWhere(e)'
        BY <2>2, <2>3 DEF CwdWhere, MkdWhere
    <2>7. Detour(e)' /\ Unknown(e)'
        BY <1>3 DEF Detour, Unknown
    <2>8. UserWhere(e)'
        <3>1. wire'[e].verb = "none"
            BY DEF NoWire
        <3>2. CASE r.state = "list"
            BY <2>1, <2>2, <2>3, <3>1, <3>2, <1>3 DEF UserWhere, AtEntry, WentOn, p
        <3>3. CASE r.state = "send"
            <4>1. r.id \in {"rmd", "rename"} => r.path = r.meant[1] /\ (~r.flag => cp = r.path)
                BY <2>1, <2>2, <2>4, <3>3 DEF p
            <4>2. r.flag => cp = None
                BY <2>1, <2>2, <3>3
            <4>3. ~r.flag /\ r.meant # None /\ ~disturbed[e] => AtEntry(e, r.meant[1], r.meant[2])
                BY <2>1, <2>2, <3>3 DEF p
            <4> QED
                BY <2>2, <2>3, <3>1, <3>3, <4>1, <4>2, <4>3, <1>3 DEF UserWhere, AtEntry, WentOn
        <3>4. CASE r.state = "fallback"
            BY <2>3, <3>4 DEF UserWhere
        <3> QED BY <2>2, <3>2, <3>3, <3>4
    <2>9. Made(e)'
        BY <1>1, <1>3 DEF WentOn, Made
    <2> QED BY <2>5, <2>6, <2>7, <2>8, <2>9 DEF Local
<1>4. ASSUME Len(ops[e]) = 3, WentOn(e, cp),
             Len(ops'[e]) = 2, ops'[e] # << >>,
             ops'[e][1] = ops[e][1], ops'[e][2] = ops[e][2], Last(ops'[e]) = ops[e][2]
      PROVE  Local(e)'
    <2>1. /\ ops[e][1].id = "stor" /\ ops[e][2].state = "cwd" /\ ops[e][2].id = "cwd" /\ ops[e][2].target = None
          /\ CwdOp(ops[e][1], ops[e][2])
        <3>1. Stack(ops[e]) /\ Unknown(e)
            BY <1>4, <1>1, Shape
        <3>2. ops[e][1].id = "stor" /\ ops[e][2].state = "cwd" /\ CwdOp(ops[e][1], ops[e][2])
            BY <1>4, <3>1 DEF Stack
        <3>3. ops[e][2].id = "cwd"
            BY <3>2 DEF CwdOp
        <3>4. ops[e][2].target = None
            BY <1>4, <3>1 DEF Unknown
        <3> QED BY <3>2, <3>3, <3>4
    <2>2. Top(e)' = ops[e][2]
        BY <1>4 DEF Top
    <2>3. Belief(e)'
        BY <1>4 DEF WentOn, Belief, Stale
    <2>4. CwdWhere(e)' /\ MkdWhere(e)'
        BY <2>1, <2>2 DEF CwdWhere, MkdWhere, NoWire
    <2>5. Detour(e)'
        BY <1>4, <2>1 DEF Detour, CwdOp
    <2>6. Unknown(e)'
        BY <1>4 DEF Unknown
    <2>7. UserWhere(e)'
        BY <2>1, <2>2 DEF UserWhere
    <2>8. Made(e)'
        BY <1>1, <1>4 DEF WentOn, Made
    <2> QED BY <2>3, <2>4, <2>5, <2>6, <2>7, <2>8 DEF Local
<1> QED
    BY <1>2, <1>3, <1>4, ResetOps

(* Nothing sent is a command, too. *)
LEMMA NoWireType ==
    NoWire \in WireType
BY DEF NoWire, WireType, Verbs, MaybePaths, Segments, Places

(* A step of e that the server does not see and that leaves nothing sent *)
Quiet(e) ==
    /\ UNCHANGED <<server, pending, observers, commands, faults>>
    /\ \A f \in Engines \ {e} : wire'[f] = wire[f]
    /\ wire'[e] = NoWire /\ wire' \in [Engines -> WireType]
    /\ turn \in {None, e}

(* A step of e that the server does not see keeps the invariant if it does *)
(* for e.                                                                  *)
LEMMA StepInv ==
    ASSUME Scope, Inv, NEW e \in Engines, Quiet(e), turn' \in {None, e},
           \A f \in Engines \ {e} : /\ ops'[f] = ops[f] /\ currentPath'[f] = currentPath[f]
                                    /\ invalidate'[f] = invalidate[f] /\ mkdOK'[f] = mkdOK[f],
           ops' \in [Engines -> Seq(OpType)], currentPath' \in [Engines -> MaybePaths],
           invalidate' \in [Engines -> BOOLEAN], mkdOK' \in [Engines -> MaybePaths],
           cache' \subseteq Entries, Control(e)',
           ~raced => /\ Local(e)' /\ CacheTrue'
                     /\ \/ Moving(e)
                        \/ /\ cache' \subseteq cache
                           /\ currentPath'[e] # None => /\ currentPath'[e] = currentPath[e]
                                                        /\ Stale(e) => Stale(e)'
                                                        /\ invalidate[e] => invalidate'[e]
    PROVE  Inv'
<1>1. Others(e)
    BY DEF Others, Quiet, server, observers
<1>2. Types'
    BY DEF Inv, Types, Quiet, server, observers
<1>3. ASSUME ~raced PROVE Apart' /\ Announced'
    <2>1. Apart /\ Announced
        BY <1>3 DEF Inv, Truth
    <2>2. ~Moving(e)' /\ ~Destroying(e)'
        BY DEF Quiet, NoWire, Moving, Destroying, Moves, Destroys
    <2>3. Apart'
        BY <1>1, <2>1, <2>2, ApartSame
    <2>4. CASE Moving(e)
        BY <1>1, <2>1, <2>2, <2>3, <2>4, AnnouncedNone
    <2>5. CASE ~Moving(e)
        BY <1>1, <1>3, <2>1, <2>2, <2>3, <2>5, AnnouncedSame DEF Quiet
    <2> QED BY <2>3, <2>4, <2>5
<1>4. raced' = raced
    BY DEF Quiet, observers
<1> QED
    BY <1>1, <1>2, <1>3, <1>4, Assemble

(* The end of an operation with a true path keeps the invariant. *)
LEMMA ResetInv ==
    ASSUME Scope, Inv, NEW e \in Engines, ops[e] # << >>, Quiet(e),
           NEW ok \in BOOLEAN, NEW cp \in MaybePaths, ResetOperation(e, Top(e), ok, cp),
           cache' \subseteq Entries,
           Top(e).id = "cwd" /\ ok => cp # None,
           ~raced => /\ CacheTrue'
                     /\ Moving(e) \/ (cache' \subseteq cache /\ (cp = None \/ cp = currentPath[e]))
                     /\ cp = None \/ at[e] = cp \/ Stale(e)
                     /\ Top(e).id = "cwd" =>
                          /\ ~ok => cp = None
                          /\ ok /\ ops[e][1].id \in {"rmd", "rename"} => cp = ops[e][1].path
                          /\ ok /\ ops[e][1].meant # None /\ ~disturbed[e] =>
                                AtEntry(e, ops[e][1].meant[1], ops[e][1].meant[2])
                     /\ Top(e).id = "mkd" /\ ok /\ wire[e].reply # "file" /\ ~disturbed[e] => Top(e).path \in dirs
    PROVE  Inv'
<1>1. Types /\ Control(e) /\ wire'[e] = NoWire
    BY DEF Inv, Quiet
<1>2. /\ turn' \in {None, e}
      /\ \A f \in Engines \ {e} : /\ ops'[f] = ops[f] /\ currentPath'[f] = currentPath[f]
                                  /\ invalidate'[f] = invalidate[f] /\ mkdOK'[f] = mkdOK[f]
      /\ ops' \in [Engines -> Seq(OpType)] /\ currentPath' \in [Engines -> MaybePaths]
      /\ invalidate' \in [Engines -> BOOLEAN] /\ mkdOK' \in [Engines -> MaybePaths]
    BY <1>1, ResetOps
<1>3. Control(e)'
    BY <1>1, ResetControl
<1>4. ASSUME ~raced PROVE Local(e)'
    <2>1. Unknown(e)
        BY <1>4 DEF Inv, Truth, Local
    <2>2. UNCHANGED <<dirs, link, pwdWorks>> /\ at'[e] = at[e] /\ disturbed'[e] = disturbed[e]
        BY DEF Quiet, server, observers
    <2> QED
        BY <1>1, <1>4, <2>1, <2>2, ResetLocal
<1>5. currentPath'[e] # None => /\ currentPath'[e] = cp
                                /\ Stale(e) => Stale(e)'
                                /\ invalidate[e] => invalidate'[e]
    <2>1. Ended(e, ok, cp) \/ WentOn(e, cp)
        BY <1>1, ResetOps
    <2>2. disturbed' = disturbed
        BY DEF Quiet, observers
    <2> QED
        BY <2>1, <2>2 DEF Ended, WentOn, Stale
<1> QED
    BY <1>2, <1>3, <1>4, <1>5, StepInv

(* The end of the whole command keeps the invariant. *)
LEMMA EndInv ==
    ASSUME Scope, Inv, NEW e \in Engines, ops[e] # << >>, Quiet(e), EndCommand(e, None, currentPath[e]), UNCHANGED cache
    PROVE  Inv'
<1>1. Types /\ Control(e) /\ wire'[e] = NoWire /\ disturbed' = disturbed /\ at' = at
    BY DEF Inv, Quiet, observers, server
<1>2. /\ ops'[e] = << >> /\ invalidate'[e] = FALSE /\ mkdOK'[e] = None /\ turn' = None
      /\ currentPath'[e] = (IF invalidate[e] THEN None ELSE currentPath[e])
      /\ \A f \in Engines \ {e} : /\ ops'[f] = ops[f] /\ currentPath'[f] = currentPath[f]
                                  /\ invalidate'[f] = invalidate[f] /\ mkdOK'[f] = mkdOK[f]
      /\ ops' \in [Engines -> Seq(OpType)] /\ currentPath' \in [Engines -> MaybePaths]
      /\ invalidate' \in [Engines -> BOOLEAN] /\ mkdOK' \in [Engines -> MaybePaths]
    BY <1>1, EmptySeq DEF EndCommand, Types, MaybePaths
<1>3. Control(e)'
    <2>1. Stack(<< >>)
        BY DEF Stack
    <2>2. None # e
        BY WorkingDirAssumption
    <2> QED
        BY <1>1, <1>2, <2>1, <2>2 DEF Control, NoWire, WireOp, Busy, Destroys, Moves
<1>4. cache' \subseteq Entries
    BY <1>1 DEF Types
<1>5. ASSUME ~raced PROVE Local(e)' /\ CacheTrue'
    <2>1. CacheTrue /\ Belief(e)
        BY <1>5 DEF Inv, Truth, Local
    <2>2. CacheTrue'
        BY <2>1 DEF CacheTrue, Quiet, server
    <2>3. Belief(e)'
        BY <1>1, <1>2, <2>1 DEF Belief, Stale
    <2>4. Len(ops'[e]) # 2 /\ Len(ops'[e]) # 3
        BY <1>2
    <2> QED
        BY <1>2, <2>2, <2>3, <2>4 DEF Local, CwdWhere, MkdWhere, Detour, Unknown, UserWhere, Made
<1>6. currentPath'[e] # None => currentPath'[e] = currentPath[e] /\ ~invalidate[e]
    BY <1>2
<1> QED
    BY <1>2, <1>3, <1>4, <1>5, <1>6, StepInv DEF Stale

(* What the path cache finds is a path, or nothing. *)
LEMMA LookupType ==
    ASSUME Types, NEW p, NEW n
    PROVE  Lookup(p, n) \in MaybePaths
<1> DEFINE found == {x \in cache : x.source = p /\ x.subdir = n}
<1>1. CASE found = {}
    BY <1>1 DEF Lookup, MaybePaths
<1>2. CASE found # {}
    <2>1. (CHOOSE x \in found : TRUE) \in found
        BY <1>2
    <2>2. (CHOOSE x \in found : TRUE).target \in Paths
        BY <2>1 DEF Types, Entries
    <2> QED BY <1>2, <2>2 DEF Lookup, MaybePaths
<1> QED BY <1>1, <1>2

(* What a true path cache finds is where the server would go. *)
LEMMA LookupTrue ==
    ASSUME CacheTrue, NEW p, NEW n, Lookup(p, n) # None
    PROVE  Leads(dirs, link, p, n) = Lookup(p, n)
<1> DEFINE found == {x \in cache : x.source = p /\ x.subdir = n}
<1>1. found # {}
    BY DEF Lookup
<1>2. (CHOOSE x \in found : TRUE) \in found
    BY <1>1
<1>3. PICK y \in cache : y.source = p /\ y.subdir = n /\ y.target = (CHOOSE x \in found : TRUE).target
    BY <1>2
<1>4. Lookup(p, n) = y.target
    BY <1>1, <1>3 DEF Lookup
<1> QED
    BY <1>3, <1>4 DEF CacheTrue

(* What SetTop does to the stack *)
LEMMA SetTopOps ==
    ASSUME Types, NEW e \in Engines, Control(e), ops[e] # << >>, NEW new \in OpType, SetTop(e, new)
    PROVE  /\ \A f \in Engines \ {e} : ops'[f] = ops[f]
           /\ ops' \in [Engines -> Seq(OpType)]
           /\ ops'[e] # << >> /\ Len(ops'[e]) = Len(ops[e]) /\ Last(ops'[e]) = new /\ ops'[e][Len(ops[e])] = new
           /\ \A i \in 1..(Len(ops[e]) - 1) : ops'[e][i] = ops[e][i]
<1> DEFINE a == Append(Front(ops[e]), new)
<1>1. ops \in [Engines -> Seq(OpType)]
    BY DEF Types
<1>2. /\ a \in Seq(OpType) /\ a # << >> /\ Len(a) = Len(ops[e]) /\ Last(a) = new /\ a[Len(ops[e])] = new
      /\ \A i \in 1..(Len(ops[e]) - 1) : a[i] = ops[e][i]
    BY <1>1, Replaced
<1>3. ops' = [ops EXCEPT ![e] = a]
    BY DEF SetTop
<1> HIDE DEF a
<1>4. ops'[e] = a /\ ops' \in [Engines -> Seq(OpType)] /\ \A f \in Engines \ {e} : ops'[f] = ops[f]
    BY <1>1, <1>2, <1>3
<1> QED
    BY <1>2, <1>4

(* The change of directory on top goes on as new. *)
LEMMA CwdGoInv ==
    ASSUME Scope, Inv, NEW e \in Engines, ops[e] # << >>, Top(e).id = "cwd", Quiet(e),
           NEW new \in OpType, SetTop(e, new), turn' = e, UNCHANGED <<invalidate, mkdOK>>,
           currentPath' \in [Engines -> MaybePaths], \A f \in Engines \ {e} : currentPath'[f] = currentPath[f],
           cache' \subseteq Entries,
           CwdOp(ops[e][1], new), new.state # "waitlock",
           new.state \in {"pwd", "pwd_cwd", "pwd_subdir"} => currentPath'[e] = None,
           ~raced => /\ CacheTrue'
                     /\ \/ Moving(e)
                        \/ cache' \subseteq cache /\ (currentPath'[e] = None \/ currentPath'[e] = currentPath[e])
                     /\ currentPath'[e] = None \/ at[e] = currentPath'[e] \/ Stale(e)
                     /\ new.state = "cwd" /\ new.target # None =>
                           \/ Reach(dirs, link, new.path) = new.target
                           \/ ops[e][1].id = "stor" /\ ~new.flag /\ new.target = new.path
                     /\ new.state = "pwd_cwd" => AtPath(e, new.path)
                     /\ new.state = "cwd_subdir" => AtPath(e, new.path) \/ Stale(e)
                     /\ new.state = "pwd_subdir" => AtEntry(e, new.path, new.subDir)
                     /\ ~disturbed[e] /\ ops[e][1].meant # None =>
                           \/ <<new.path, new.subDir>> = ops[e][1].meant
                           \/ Leads(dirs, link, ops[e][1].meant[1], ops[e][1].meant[2]) = new.path
    PROVE  Inv'
<1>1. Types /\ Control(e) /\ wire'[e] = NoWire
    BY DEF Inv, Quiet
<1>2. Len(ops[e]) = 2 /\ UserOp(ops[e][1]) /\ ops[e][1].state = "waitcwd" /\ Stack(ops[e]) /\ ops[e][1].id # "mkd"
    <2>1. Len(ops[e]) = 2 /\ Stack(ops[e])
        BY <1>1, Shape
    <2>2. Len(ops[e]) >= 2
        BY <2>1
    <2>3. UserOp(ops[e][1]) /\ ops[e][1].state = "waitcwd"
        BY <1>1, <2>2, Shape
    <2> QED BY <2>1, <2>3 DEF UserOp, StatesOf
<1>3. /\ \A f \in Engines \ {e} : ops'[f] = ops[f]
      /\ ops' \in [Engines -> Seq(OpType)]
      /\ ops'[e] # << >> /\ Len(ops'[e]) = 2 /\ Last(ops'[e]) = new /\ ops'[e][2] = new
      /\ ops'[e][1] = ops[e][1]
    <2>1. /\ \A f \in Engines \ {e} : ops'[f] = ops[f]
          /\ ops' \in [Engines -> Seq(OpType)]
          /\ ops'[e] # << >> /\ Len(ops'[e]) = Len(ops[e]) /\ Last(ops'[e]) = new /\ ops'[e][Len(ops[e])] = new
          /\ \A i \in 1..(Len(ops[e]) - 1) : ops'[e][i] = ops[e][i]
        BY <1>1, SetTopOps
    <2>2. 1 \in 1..(Len(ops[e]) - 1)
        BY <1>2
    <2> QED BY <1>2, <2>1, <2>2
<1>4. Stack(ops'[e])
    BY <1>2, <1>3 DEF Stack
<1>5. Top(e)' = new /\ new.id = "cwd"
    BY <1>3 DEF Top, CwdOp
<1>6. mkdOK'[e] = None /\ invalidate'[e] = invalidate[e]
    BY <1>1 DEF Control
<1>7. Control(e)'
    BY <1>1, <1>3, <1>4, <1>5, <1>6 DEF Control, NoWire, WireOp, Busy, Destroys, Moves
<1>8. ASSUME ~raced PROVE Local(e)'
    <2>1. UNCHANGED <<dirs, link, pwdWorks, at, disturbed>>
        BY DEF Quiet, server, observers
    <2>2. Belief(e)'
        BY <1>8, <1>6, <2>1 DEF Belief, Stale
    <2>3. CwdWhere(e)'
        BY <1>1, <1>3, <1>5, <1>6, <1>8, <2>1 DEF CwdWhere, AtPath, AtEntry, NoWire, Stale, Waited
    <2>4. MkdWhere(e)' /\ UserWhere(e)'
        <3>1. new.state \notin {"list", "send", "rnto"}
            BY DEF CwdOp
        <3> QED BY <1>5, <3>1 DEF MkdWhere, UserWhere
    <2>5. Detour(e)' /\ Unknown(e)'
        BY <1>3, <1>8, <2>1 DEF Detour, Unknown
    <2>6. Made(e)'
        BY <1>6 DEF Made
    <2> QED BY <2>2, <2>3, <2>4, <2>5, <2>6 DEF Local
<1>9. ~raced /\ ~Moving(e) =>
         /\ cache' \subseteq cache
         /\ currentPath'[e] # None => currentPath'[e] = currentPath[e] /\ (Stale(e) => Stale(e)')
             /\ (invalidate[e] => invalidate'[e])
    BY DEF Quiet, observers, Stale
<1>10. mkdOK' \in [Engines -> MaybePaths] /\ invalidate' \in [Engines -> BOOLEAN]
       /\ \A f \in Engines \ {e} : invalidate'[f] = invalidate[f] /\ mkdOK'[f] = mkdOK[f]
    BY <1>1 DEF Types
<1> QED
    BY <1>3, <1>7, <1>8, <1>9, <1>10, StepInv

(* What is known of a change of directory on top *)
LEMMA CwdFacts ==
    ASSUME Scope, Types, NEW e \in Engines, Control(e), ops[e] # << >>, Top(e).id = "cwd"
    PROVE  /\ Top(e) \in OpType /\ ops[e][1] \in OpType /\ Len(ops[e]) = 2 /\ Top(e) = ops[e][2]
           /\ UserOp(ops[e][1]) /\ ops[e][1].state = "waitcwd" /\ CwdOp(ops[e][1], Top(e))
           /\ Top(e).path \in MaybePaths /\ Top(e).subDir \in Segments /\ Top(e).target \in MaybePaths
           /\ ops[e][1].id \in {"rmd", "rename"} =>
                 Top(e).path \in Canonical /\ ops[e][1].path = Top(e).path /\ ops[e][1].path # None
           /\ ops[e][1].meant # None => ops[e][1].meant[1] \in Paths /\ ops[e][1].meant[2] \in Segments
           /\ ops[e][1].meant # None /\ Top(e).state # "cwd" =>
                 /\ ops[e][1].meant = <<Top(e).path, Top(e).subDir>>
                 /\ ops[e][1].meant[1] = Top(e).path /\ ops[e][1].meant[2] = Top(e).subDir
<1>1. Len(ops[e]) = 2 /\ Top(e) \in OpType /\ Top(e) = ops[e][2]
    BY Shape
<1>2. 1 \in 1..Len(ops[e]) /\ Len(ops[e]) >= 2
    BY <1>1
<1>3. ops[e][1] \in OpType /\ UserOp(ops[e][1]) /\ ops[e][1].state = "waitcwd" /\ CwdOp(ops[e][1], Top(e))
    BY <1>1, <1>2, Shape
<1>4. Top(e).path \in MaybePaths /\ Top(e).subDir \in Segments /\ Top(e).target \in MaybePaths
    BY <1>1 DEF OpType
<1>5. ops[e][1].id \in {"rmd", "rename"} =>
         Top(e).path \in Canonical /\ ops[e][1].path = Top(e).path /\ ops[e][1].path # None
    BY <1>3 DEF UserOp, CwdOp
<1>6. ops[e][1].meant # None => ops[e][1].meant \in Paths \X Segments
    BY <1>3 DEF OpType, Places
<1>7. ops[e][1].meant # None /\ Top(e).state # "cwd" => ops[e][1].meant = <<Top(e).path, Top(e).subDir>>
    BY <1>3 DEF CwdOp
<1> QED
    BY <1>1, <1>3, <1>4, <1>5, <1>6, <1>7

(* What is believed and not about to be forgotten is a directory. *)
LEMMA BeliefIn ==
    ASSUME Scope, Types, NEW e \in Engines, currentPath[e] # None, at[e] = currentPath[e]
    PROVE  /\ currentPath[e] \in dirs /\ currentPath[e] \in Canonical /\ at[e] # None
           /\ Reach(dirs, link, currentPath[e]) = currentPath[e]
<1>1. at[e] \in dirs /\ dirs \subseteq Canonical
    BY PathsAre DEF Types, Scope
<1> QED
    BY <1>1, ReachCanonical DEF Scope

(* cwd_init keeps the invariant: if it takes a directory from the path     *)
(* cache, that is the one it was asked for.                                *)
LEMMA CwdInitInv ==
    ASSUME Scope, Inv, NEW e \in Engines, CwdInit(e)
    PROVE  Inv'
<1> DEFINE t == Top(e)
           p == ops[e][1]
           target == Lookup(t.path, t.subDir)
           parent == Lookup(t.path, None)
           there == currentPath[e] = t.path \/ (parent # None /\ parent = currentPath[e])
<1>1. turn = e /\ ops[e] # << >> /\ t.id = "cwd" /\ t.state = "init"
    BY DEF CwdInit, Is
<1>2. Types /\ Control(e)
    BY DEF Inv
<1>3. /\ t \in OpType /\ p \in OpType /\ Len(ops[e]) = 2
      /\ UserOp(p) /\ p.state = "waitcwd" /\ CwdOp(p, t)
      /\ t.path \in MaybePaths /\ t.subDir \in Segments
      /\ p.id \in {"rmd", "rename"} => t.path \in Canonical /\ p.path = t.path /\ p.path # None
      /\ p.meant # None => /\ p.meant = <<t.path, t.subDir>> /\ p.meant[1] = t.path /\ p.meant[2] = t.subDir
                           /\ p.meant[1] \in Paths
    BY <1>1, <1>2, CwdFacts
<1>4. wire[e] = NoWire /\ wire \in [Engines -> WireType]
    BY <1>1, <1>2 DEF Control, Types
<1>5. target \in MaybePaths /\ parent \in MaybePaths /\ currentPath[e] \in MaybePaths /\ cache \subseteq Entries
      /\ currentPath \in [Engines -> MaybePaths] /\ None \in MaybePaths
    BY <1>2, LookupType DEF Types, MaybePaths
<1>6. ~raced => CacheTrue /\ Belief(e)
    BY DEF Inv, Truth, Local
<1>7. None \notin Paths /\ None # Up
    BY PathsAre DEF Scope
<1>8. ~raced /\ t.path # None /\ there => currentPath[e] # None /\ (AtPath(e, t.path) \/ Stale(e))
    <2> SUFFICES ASSUME ~raced, t.path # None, there PROVE currentPath[e] # None /\ (AtPath(e, t.path) \/ Stale(e))
        OBVIOUS
    <2>1. currentPath[e] # None
        OBVIOUS
    <2>2. CASE Stale(e)
        BY <2>1, <2>2
    <2>3. CASE at[e] = currentPath[e]
        <3>1. currentPath[e] \in dirs /\ at[e] # None /\ Reach(dirs, link, currentPath[e]) = currentPath[e]
            BY <1>2, <2>1, <2>3, BeliefIn
        <3>2. CASE currentPath[e] = t.path
            BY <2>1, <2>3, <3>1, <3>2 DEF AtPath
        <3>3. CASE parent # None /\ parent = currentPath[e]
            <4>1. Leads(dirs, link, t.path, None) = currentPath[e]
                BY <1>6, <3>3, LookupTrue
            <4>2. Leads(dirs, link, t.path, None) = Reach(dirs, link, t.path)
                BY DEF Leads, Step
            <4> QED BY <2>1, <2>3, <3>1, <4>1, <4>2 DEF AtPath
        <3> QED BY <3>2, <3>3
    <2> QED BY <1>6, <2>1, <2>2, <2>3 DEF Belief
<1> HIDE DEF target, parent, there
<1>9. ASSUME ResetOperation(e, t, TRUE, currentPath[e]), Unsent, UNCHANGED cache, currentPath[e] # None,
             ~raced /\ t.path # None /\ ~disturbed[e] => AtEntry(e, t.path, t.subDir),
             p.id \in {"rmd", "rename"} /\ ~raced => currentPath[e] = t.path
      PROVE  Inv'
    <2>1. Quiet(e)
        BY <1>1, <1>4, <1>9 DEF Quiet, Unsent
    <2>2. PICK cp \in MaybePaths : cp = currentPath[e]
        BY <1>5
    <2>3. ResetOperation(e, Top(e), TRUE, cp)
        BY <1>9, <2>2
    <2>4. ~raced => CacheTrue'
        BY <1>6, <1>9 DEF CacheTrue, Unsent, server
    <2>5. ~raced => cp = None \/ at[e] = cp \/ Stale(e)
        BY <1>6, <2>2 DEF Belief
    <2>6. p.meant # None => t.path # None
        BY <1>3, <1>7
    <2>7. ~raced /\ p.meant # None /\ ~disturbed[e] => AtEntry(e, p.meant[1], p.meant[2])
        BY <1>3, <1>9, <2>6
    <2>8. p.id \in {"rmd", "rename"} /\ ~raced => cp = p.path
        BY <1>3, <1>9, <2>2
    <2>9. cache' \subseteq cache /\ cache' \subseteq Entries
        BY <1>5, <1>9
    <2> QED
        BY <1>1, <1>9, <2>1, <2>2, <2>3, <2>4, <2>5, <2>7, <2>8, <2>9, ResetInv
<1>10. ASSUME NEW new \in OpType, SetTop(e, new), Continue(e), CwdOp(p, new),
              new.state \in {"pwd", "pwd_cwd", "pwd_subdir"} => currentPath[e] = None,
              ~raced => /\ new.state = "cwd" /\ new.target # None => Reach(dirs, link, new.path) = new.target
                        /\ new.state = "cwd_subdir" => AtPath(e, new.path) \/ Stale(e)
                        /\ p.meant # None =>
                              \/ <<new.path, new.subDir>> = p.meant
                              \/ Leads(dirs, link, p.meant[1], p.meant[2]) = new.path,
              new.state \notin {"pwd_cwd", "pwd_subdir", "waitlock"}
       PROVE  Inv'
    <2>1. Quiet(e) /\ turn' = e /\ UNCHANGED <<invalidate, mkdOK, currentPath, cache>>
        BY <1>1, <1>4, <1>10 DEF Quiet, Unsent, Continue
    <2>2. ~raced => CacheTrue'
        BY <1>6, <1>10, <2>1 DEF CacheTrue, Unsent, Continue, server
    <2>3. ~raced => currentPath'[e] = None \/ at[e] = currentPath'[e] \/ Stale(e)
        BY <1>6, <2>1 DEF Belief
    <2>4. cache' \subseteq cache /\ cache' \subseteq Entries /\ currentPath' \in [Engines -> MaybePaths]
        BY <1>5, <2>1
    <2> QED
        BY <1>1, <1>10, <2>1, <2>2, <2>3, <2>4, CwdGoInv
<1>11. CASE t.path = None /\ currentPath[e] = None
    <2>1. PICK new \in OpType : new = [t EXCEPT !.state = "pwd"]
        BY <1>3 DEF OpType, States
    <2>2. SetTop(e, new) /\ Continue(e)
        BY <1>11, <2>1 DEF CwdInit
    <2>3. /\ new.state = "pwd" /\ new.path = t.path /\ new.subDir = t.subDir /\ new.target = t.target /\ new.flag = t.flag
          /\ new.id = t.id
        BY <1>3, <2>1 DEF OpType
    <2>4. CwdOp(p, new)
        BY <1>1, <1>3, <1>11, <2>3 DEF CwdOp
    <2> QED
        BY <1>3, <1>10, <1>11, <2>2, <2>3, <2>4
<1>12. CASE t.path = None /\ currentPath[e] # None
    <2>1. ResetOperation(e, t, TRUE, currentPath[e]) /\ Unsent /\ UNCHANGED cache
        BY <1>12 DEF CwdInit
    <2>2. p.id \notin {"rmd", "rename"}
        BY <1>3, <1>12
    <2> QED
        BY <1>9, <1>12, <2>1, <2>2
<1>13. CASE t.path # None /\ t.subDir # None
    <2>1. p.id = "list"
        BY <1>3, <1>13 DEF CwdOp
    <2>2. CASE target # None /\ currentPath[e] = target
        <3>1. ResetOperation(e, t, TRUE, currentPath[e]) /\ Unsent /\ UNCHANGED cache
            BY <1>13, <2>2 DEF CwdInit, target
        <3>2. ASSUME ~raced, ~disturbed[e] PROVE AtEntry(e, t.path, t.subDir)
            <4>1. Leads(dirs, link, t.path, t.subDir) = currentPath[e]
                BY <1>6, <2>2, <3>2, LookupTrue DEF target
            <4>2. at[e] = currentPath[e]
                BY <1>6, <2>2, <3>2 DEF Belief, Stale
            <4> QED BY <2>2, <4>1, <4>2 DEF AtEntry
        <3> QED
            BY <1>9, <2>1, <2>2, <3>1, <3>2
    <2>3. CASE target # None /\ currentPath[e] # target
        <3>1. PICK new \in OpType : new = [t EXCEPT !.path = target, !.target = target, !.subDir = None, !.state = "cwd"]
            BY <1>3, <1>5 DEF OpType, States, Segments
        <3>2. SetTop(e, new) /\ Continue(e)
            BY <1>13, <2>3, <3>1 DEF CwdInit, target
        <3>3. /\ new.state = "cwd" /\ new.path = target /\ new.subDir = None /\ new.target = target /\ new.flag = t.flag
              /\ new.id = t.id
            BY <1>3, <3>1 DEF OpType
        <3>4. CwdOp(p, new)
            BY <1>1, <1>3, <1>7, <1>13, <2>1, <2>3, <3>3 DEF CwdOp
        <3>5. ASSUME ~raced
              PROVE  /\ Reach(dirs, link, target) = target
                     /\ p.meant # None => Leads(dirs, link, p.meant[1], p.meant[2]) = target
            <4>1. Leads(dirs, link, t.path, t.subDir) = target
                BY <1>6, <2>3, <3>5, LookupTrue DEF target
            <4>2. target \in dirs /\ target \in Canonical
                <5>1. dirs \subseteq Dirs /\ Closed(dirs)
                    BY <1>2 DEF Types
                <5>2. target \in dirs
                    BY <2>3, <4>1, <5>1, LeadsIn
                <5> QED BY <5>1, <5>2, PathsAre DEF Scope
            <4>3. Reach(dirs, link, target) = target
                BY <4>2, ReachCanonical DEF Scope
            <4> QED BY <1>3, <4>1, <4>3
        <3> QED
            BY <1>10, <3>2, <3>3, <3>4, <3>5
    <2>4. CASE target = None /\ there
        <3>1. PICK new \in OpType : new = [t EXCEPT !.state = "cwd_subdir"]
            BY <1>3 DEF OpType, States
        <3>2. SetTop(e, new) /\ Continue(e)
            BY <1>13, <2>4, <3>1 DEF CwdInit, target, there, parent
        <3>3. /\ new.state = "cwd_subdir" /\ new.path = t.path /\ new.subDir = t.subDir /\ new.target = t.target
              /\ new.flag = t.flag /\ new.id = t.id
            BY <1>3, <3>1 DEF OpType
        <3>4. CwdOp(p, new)
            BY <1>1, <1>3, <1>13, <3>3 DEF CwdOp
        <3> QED
            BY <1>3, <1>8, <1>10, <1>13, <2>4, <3>2, <3>3, <3>4
    <2>5. CASE target = None /\ ~there
        <3>1. PICK new \in OpType : new = [t EXCEPT !.target = parent, !.state = "cwd"]
            BY <1>3, <1>5 DEF OpType, States
        <3>2. SetTop(e, new) /\ Continue(e)
            BY <1>13, <2>5, <3>1 DEF CwdInit, target, there, parent
        <3>3. /\ new.state = "cwd" /\ new.path = t.path /\ new.subDir = t.subDir /\ new.target = parent
              /\ new.flag = t.flag /\ new.id = t.id
            BY <1>3, <3>1 DEF OpType
        <3>4. CwdOp(p, new)
            BY <1>1, <1>3, <1>13, <3>3 DEF CwdOp
        <3>5. ~raced /\ parent # None => Reach(dirs, link, t.path) = parent
            BY <1>6, LookupTrue DEF parent, Leads, Step
        <3> QED
            BY <1>3, <1>10, <1>13, <3>2, <3>3, <3>4, <3>5
    <2> QED
        BY <2>2, <2>3, <2>4, <2>5
<1>14. CASE t.path # None /\ t.subDir = None
    <2>1. CASE there
        <3>1. ResetOperation(e, t, TRUE, currentPath[e]) /\ Unsent /\ UNCHANGED cache
            BY <1>14, <2>1 DEF CwdInit, there, parent
        <3>2. currentPath[e] # None
            BY <1>14, <2>1 DEF there
        <3>3. ~raced /\ ~disturbed[e] => AtEntry(e, t.path, t.subDir)
            BY <1>8, <1>14, <2>1 DEF AtEntry, AtPath, Leads, Step, Stale
        <3>4. p.id \in {"rmd", "rename"} /\ ~raced => currentPath[e] = t.path
            <4> SUFFICES ASSUME p.id \in {"rmd", "rename"}, ~raced, parent # None, parent = currentPath[e]
                         PROVE  currentPath[e] = t.path
                BY <2>1 DEF there
            <4>1. Leads(dirs, link, t.path, None) = currentPath[e]
                BY <1>6, LookupTrue DEF parent
            <4>2. Leads(dirs, link, t.path, None) = Reach(dirs, link, t.path)
                BY DEF Leads, Step
            <4> QED BY <1>3, <3>2, <4>1, <4>2, ReachCanonical DEF Scope
        <3> QED
            BY <1>9, <3>1, <3>2, <3>3, <3>4
    <2>2. CASE ~there
        <3>1. PICK new \in OpType : new = [t EXCEPT !.target = parent, !.state = "cwd"]
            BY <1>3, <1>5 DEF OpType, States
        <3>2. SetTop(e, new) /\ Continue(e)
            BY <1>14, <2>2, <3>1 DEF CwdInit, there, parent
        <3>3. /\ new.state = "cwd" /\ new.path = t.path /\ new.subDir = t.subDir /\ new.target = parent
              /\ new.flag = t.flag /\ new.id = t.id
            BY <1>3, <3>1 DEF OpType
        <3>4. CwdOp(p, new)
            BY <1>1, <1>3, <1>14, <3>3 DEF CwdOp
        <3>5. ~raced /\ parent # None => Reach(dirs, link, t.path) = parent
            BY <1>6, LookupTrue DEF parent, Leads, Step
        <3> QED
            BY <1>3, <1>10, <1>14, <3>2, <3>3, <3>4, <3>5
    <2> QED
        BY <2>1, <2>2
<1> QED
    BY <1>11, <1>12, <1>13, <1>14

(* A command of e that destroys nothing leaves all who were told of a      *)
(* destruction told.                                                       *)
LEMMA AnnouncedOther ==
    ASSUME NEW e \in Engines, Others(e), Announced, cache' \subseteq cache,
           currentPath'[e] # None => /\ currentPath'[e] = currentPath[e]
                                     /\ Stale(e) => Stale(e)'
                                     /\ invalidate[e] => invalidate'[e]
                                     /\ pending[e] \subseteq pending'[e],
           NEW f \in Engines \ {e}, Destroying(f)', Victim(f)' # None
    PROVE  Spared(f)' /\ \A g \in Engines : Told(f, g)'
<1>1. Destroying(f)
    BY DEF Others, Destroying
<1>2. Victim(f)' = Victim(f)
    BY DEF Victim, Others
<1>3. Spared(f) /\ \A g \in Engines : Told(f, g)
    BY <1>1, <1>2 DEF Announced
<1>4. Spared(f)'
    BY <1>2, <1>3 DEF Spared
<1>5. ASSUME NEW g \in Engines PROVE Told(f, g)'
    <2>1. CASE g = e
        BY <2>1, <1>2, <1>3 DEF Told
    <2>2. CASE g # e
        BY <2>2, <1>2, <1>3 DEF Told, Others, Stale
    <2> QED BY <2>1, <2>2
<1> QED BY <1>4, <1>5

(* A command just sent *)
LEMMA NewWire ==
    ASSUME NEW verb \in Verbs, NEW path \in MaybePaths, NEW name \in Segments,
           NEW meant \in Places, NEW move \in MaybePaths
    PROVE  LET w == Command(verb, path, name, meant, move)
           IN  /\ w \in WireType
               /\ w.verb = verb /\ w.path = path /\ w.name = name /\ w.meant = meant /\ w.move = move
               /\ w.done = FALSE /\ w.skip = FALSE /\ w.reply = "none"
<1> DEFINE w == Command(verb, path, name, meant, move)
<1>1. w \in WireType
    BY DEF Command, NoWire, WireType, MaybePaths
<1>2. /\ w.verb = verb /\ w.path = path /\ w.name = name /\ w.meant = meant /\ w.move = move
      /\ w.done = FALSE /\ w.skip = FALSE /\ w.reply = "none"
    BY DEF Command, NoWire
<1> QED
    BY <1>1, <1>2

(* The operation on top of e sends a command. *)
LEMMA SendInv ==
    ASSUME Scope, Inv, NEW e \in Engines, turn = e,
           NEW verb \in Verbs \ {"none"}, NEW path \in MaybePaths, NEW name \in Segments,
           NEW meant \in Places, NEW move \in MaybePaths,
           SendCommand(e, verb, path, name, meant, move), UNCHANGED ops,
           NEW w \in WireType,
           w = Command(verb, path, name, meant, move),
           WireOp(w), Sent(Top(e), w),
           currentPath' \in [Engines -> MaybePaths], \A f \in Engines \ {e} : currentPath'[f] = currentPath[f],
           \/ currentPath'[e] = currentPath[e]
           \/ /\ currentPath'[e] = None /\ Top(e).id \in {"cwd", "mkd", "raw"}
              /\ Top(e).state \notin {"mkdsub", "list", "send", "rnto"},
           verb \in Moves \cup {"RAW"} => currentPath'[e] = None,
           cache' \subseteq cache,
           pending' \in [Engines -> SUBSET Paths], \A f \in Engines : pending[f] \subseteq pending'[f],
           Top(e).id = "cwd" => verb \in Moves,
           ~raced' /\ verb \in Destroys => (Victim(e)' # None => Spared(e)' /\ \A g \in Engines : Told(e, g)')
    PROVE  Inv'
<1>1. Types /\ Control(e) /\ ops[e] # << >> /\ wire[e] = NoWire /\ mkdOK[e] = None /\ Stack(ops[e])
    BY DEF Inv, Control
<1>2. /\ wire' = [wire EXCEPT ![e] = w] /\ turn' = None
      /\ UNCHANGED <<dirs, link, pwdWorks, at, disturbed, mkdOK, invalidate, commands, faults>>
      /\ raced' = \/ raced
                  \/ verb \in Moves \cup Destroys /\ invalidate[e] /\ disturbed[e]
                  \/ verb \in Moves /\ \E f \in Engines \ {e} : Destroying(f)
                  \/ verb \in Destroys /\ \E f \in Engines \ {e} : Moving(f)
    BY DEF SendCommand, server
<1>3. wire'[e] = w /\ wire' \in [Engines -> WireType] /\ \A f \in Engines \ {e} : wire'[f] = wire[f]
    BY <1>1, <1>2 DEF Types
<1>4. /\ w.verb = verb /\ w.path = path /\ w.name = name /\ w.meant = meant /\ w.move = move
      /\ w.done = FALSE /\ w.skip = FALSE /\ w.reply = "none"
    BY DEF Command, NoWire
<1>5. Others(e)
    BY <1>2, <1>3 DEF Others
<1>6. Types'
    <2>1. raced' \in BOOLEAN
        BY <1>1, <1>2 DEF Types
    <2> QED
        BY <1>1, <1>2, <1>3, <2>1 DEF Types
<1>7. Control(e)'
    <2>1. None # e /\ Top(e)' = Top(e)
        BY WorkingDirAssumption DEF Top
    <2>2. Busy(e)'
        BY <1>3, <1>4 DEF Busy
    <2>3. Stack(ops'[e]) /\ WireOp(wire'[e]) /\ Sent(Top(e)', wire'[e])
        BY <1>1, <1>3, <2>1
    <2>4. ops'[e] # << >> /\ Top(e)'.id = "cwd" /\ Top(e)'.state \in {"pwd", "pwd_cwd", "pwd_subdir"}
              => currentPath'[e] = None
        BY <1>1, <2>1 DEF Control
    <2>5. mkdOK'[e] = None /\ ops'[e] # << >> /\ turn' # e /\ wire'[e].skip = FALSE /\ wire'[e].verb = verb
        BY <1>1, <1>2, <1>3, <1>4, <2>1
    <2>6. Top(e)'.state # "waitlock"
        BY <1>1, <2>1 DEF Control
    <2> QED
        BY <2>2, <2>3, <2>4, <2>5, <2>6 DEF Control
<1>8. ASSUME ~raced' PROVE CacheTrue' /\ Apart' /\ Announced' /\ Local(e)' /\ ~raced
    <2>1. CacheTrue /\ Apart /\ Announced /\ Local(e) /\ ~raced
        BY <1>2, <1>8 DEF Inv, Truth
    <2>2. CacheTrue'
        BY <1>2, <2>1 DEF CacheTrue
    <2>3. Apart'
        <3>1. Moving(e)' <=> verb \in Moves
            BY <1>3, <1>4 DEF Moving
        <3>2. Destroying(e)' <=> verb \in Destroys
            BY <1>3, <1>4 DEF Destroying
        <3>3. \A f \in Engines \ {e} : (Moving(f)' <=> Moving(f)) /\ (Destroying(f)' <=> Destroying(f))
            BY <1>3 DEF Moving, Destroying
        <3> QED
            BY <1>2, <1>8, <2>1, <3>1, <3>2, <3>3 DEF Apart
    <2>4. Announced'
        <3>1. currentPath'[e] # None => /\ currentPath'[e] = currentPath[e]
                                        /\ Stale(e) => Stale(e)'
                                        /\ invalidate[e] => invalidate'[e]
                                        /\ pending[e] \subseteq pending'[e]
            BY <1>2 DEF Stale
        <3>2. ASSUME NEW f \in Engines \ {e}, Destroying(f)', Victim(f)' # None
              PROVE  Spared(f)' /\ \A g \in Engines : Told(f, g)'
            BY <1>5, <2>1, <3>1, <3>2, AnnouncedOther
        <3>3. ASSUME Destroying(e)', Victim(e)' # None
              PROVE  Spared(e)' /\ \A g \in Engines : Told(e, g)'
            <4>1. verb \in Destroys
                BY <1>3, <1>4, <3>3 DEF Destroying
            <4> QED BY <1>8, <3>3, <4>1
        <3> QED
            BY <3>2, <3>3 DEF Announced
    <2>5. Local(e)'
        <3>1. Belief(e) /\ CwdWhere(e) /\ MkdWhere(e) /\ Detour(e) /\ Unknown(e) /\ UserWhere(e) /\ Made(e)
            BY <2>1 DEF Local
        <3>2. Top(e)' = Top(e) /\ None # e /\ Live(e)
            BY WorkingDirAssumption DEF Top, Live
        <3>3. Belief(e)'
            BY <1>2, <3>1 DEF Belief, Stale
        <3>4. CwdWhere(e)'
            <4>1. Top(e).id = "cwd" => ~Stale(e)
                BY <1>2, <1>8 DEF Stale
            <4>2. Waited(e)' <=> Waited(e)
                BY <3>2 DEF Waited
            <4> QED
                BY <1>1, <1>2, <1>3, <1>4, <3>1, <3>2, <4>1, <4>2 DEF CwdWhere, AtPath, AtEntry, NoWire
        <3>5. MkdWhere(e)'
            BY <1>2, <1>3, <1>4, <3>1, <3>2 DEF MkdWhere
        <3>6. Detour(e)' /\ Unknown(e)' /\ Made(e)'
            BY <1>2, <3>1 DEF Detour, Unknown, Made
        <3>7. UserWhere(e)'
            BY <1>2, <1>3, <1>4, <3>1, <3>2 DEF UserWhere, AtEntry, Stale
        <3> QED
            BY <3>3, <3>4, <3>5, <3>6, <3>7 DEF Local
    <2> QED
        BY <2>1, <2>2, <2>3, <2>4, <2>5
<1> QED
    BY <1>5, <1>6, <1>7, <1>8, Assemble

(* What is known when e is about to send *)
LEMMA SendFacts ==
    ASSUME Scope, Inv, NEW e \in Engines, turn = e
    PROVE  /\ Types /\ Control(e) /\ ops[e] # << >> /\ wire[e] = NoWire /\ Top(e) \in OpType
           /\ None \in MaybePaths /\ None \in Segments /\ None \in Places /\ Up \in Segments
           /\ currentPath \in [Engines -> MaybePaths] /\ currentPath[e] \in MaybePaths
           /\ pending \in [Engines -> SUBSET Paths] /\ cache \subseteq Entries
<1>1. Types /\ Control(e) /\ ops[e] # << >> /\ wire[e] = NoWire
    BY DEF Inv, Control
<1> QED
    BY <1>1, Shape DEF MaybePaths, Segments, Places, Types

(* PWD, CWD and CDUP keep the invariant: nothing is believed until the     *)
(* reply comes.                                                            *)
LEMMA CwdSendInv ==
    ASSUME Scope, Inv, NEW e \in Engines, CwdSend(e)
    PROVE  Inv'
<1> DEFINE t == Top(e)
<1>1. turn = e /\ ops[e] # << >> /\ t.id = "cwd" /\ t.state # "init" /\ UNCHANGED <<cache, ops, pending>>
    BY DEF CwdSend
<1>2. /\ Types /\ Control(e) /\ t \in OpType
      /\ None \in MaybePaths /\ None \in Segments /\ None \in Places /\ Up \in Segments
      /\ currentPath \in [Engines -> MaybePaths] /\ pending \in [Engines -> SUBSET Paths] /\ cache \subseteq Entries
    BY <1>1, SendFacts
<1>3. CwdOp(ops[e][1], t) /\ t.path \in MaybePaths /\ t.subDir \in Segments
    BY <1>1, <1>2, CwdFacts
<1>4. t.state \in {"pwd", "pwd_cwd", "pwd_subdir", "cwd", "cwd_subdir"}
    <2>1. t.state # "waitlock"
        BY <1>1, <1>2 DEF Control
    <2> QED BY <1>1, <1>3, <2>1 DEF CwdOp
<1>5. ASSUME NEW verb \in Moves, NEW path \in MaybePaths, NEW name \in Segments,
             SendCommand(e, verb, path, name, None, None),
             currentPath' = currentPath \/ currentPath' = [currentPath EXCEPT ![e] = None], currentPath'[e] = None,
             t.state \in {"pwd", "pwd_cwd", "pwd_subdir"} => verb = "PWD" /\ path = None /\ name = None,
             t.state = "cwd" => verb = "CWD" /\ path = t.path /\ name = None,
             t.state = "cwd_subdir" => verb \in {"CWD", "CDUP"} /\ path = None /\ name = t.subDir
                 /\ (verb = "CDUP" => t.subDir = Up)
      PROVE  Inv'
    <2> DEFINE w == Command(verb, path, name, None, None)
    <2>1. /\ w \in WireType
              /\ w.verb = verb /\ w.path = path /\ w.name = name /\ w.meant = None /\ w.move = None
              /\ w.done = FALSE /\ w.skip = FALSE /\ w.reply = "none"
        <3>1. w \in WireType
            <4>1. verb \in Verbs
                BY DEF Moves, Verbs
            <4> QED
                BY <4>1, <1>2, <1>3, NewWire, <1>5
        <3> QED
            BY <3>1 DEF Command, NoWire
    <2>2. WireOp(w)
        BY <2>1 DEF WireOp, Moves, Destroys
    <2>3. Sent(t, w)
        BY <1>1, <1>4, <1>5, <2>1 DEF Sent
    <2>4. currentPath' \in [Engines -> MaybePaths] /\ \A f \in Engines \ {e} : currentPath'[f] = currentPath[f]
        BY <1>2, <1>5
    <2>5. verb \in Verbs \ {"none"} /\ verb \notin Destroys
        BY DEF Moves, Verbs, Destroys
    <2>6. t.state \notin {"mkdsub", "list", "send", "rnto"}
        BY <1>4
    <2> QED
        BY <1>1, <1>2, <1>5, <2>1, <2>2, <2>3, <2>4, <2>5, <2>6, SendInv
<1>6. CASE t.state \in {"pwd", "pwd_cwd", "pwd_subdir"}
    <2>1. SendCommand(e, "PWD", None, None, None, None) /\ UNCHANGED currentPath
        BY <1>6 DEF CwdSend
    <2>2. currentPath'[e] = None
        BY <1>1, <1>2, <1>6, <2>1 DEF Control
    <2>3. "PWD" \in Moves /\ t.state # "cwd" /\ t.state # "cwd_subdir"
        BY <1>6 DEF Moves
    <2> QED
        BY <1>2, <1>5, <2>1, <2>2, <2>3
<1>7. CASE t.state = "cwd"
    <2>1. SendCommand(e, "CWD", t.path, None, None, None) /\ currentPath' = [currentPath EXCEPT ![e] = None]
        BY <1>7 DEF CwdSend
    <2>2. "CWD" \in Moves /\ currentPath'[e] = None
        BY <1>2, <2>1 DEF Moves
    <2> QED
        BY <1>2, <1>3, <1>5, <1>7, <2>1, <2>2
<1>8. CASE t.state = "cwd_subdir"
    <2>1. /\ currentPath' = [currentPath EXCEPT ![e] = None]
          /\ IF t.subDir = Up /\ ~t.tried
             THEN SendCommand(e, "CDUP", None, Up, None, None)
             ELSE SendCommand(e, "CWD", None, t.subDir, None, None)
        BY <1>8 DEF CwdSend
    <2>2. "CWD" \in Moves /\ "CDUP" \in Moves /\ currentPath'[e] = None
        BY <1>2, <2>1 DEF Moves
    <2>3. CASE t.subDir = Up /\ ~t.tried
        BY <1>2, <1>3, <1>5, <1>8, <2>1, <2>2, <2>3
    <2>4. CASE ~(t.subDir = Up /\ ~t.tried)
        BY <1>2, <1>3, <1>5, <1>8, <2>1, <2>2, <2>4
    <2> QED BY <2>3, <2>4
<1> QED
    BY <1>4, <1>6, <1>7, <1>8

(* The commands of a creation of directories keep the invariant. *)
LEMMA MkdSendInv ==
    ASSUME Scope, Inv, NEW e \in Engines, MkdSend(e)
    PROVE  Inv'
<1> DEFINE t == Top(e)
<1>1. turn = e /\ ops[e] # << >> /\ t.id = "mkd" /\ t.state # "init" /\ UNCHANGED <<cache, ops, pending>>
    BY DEF MkdSend
<1>2. /\ Types /\ Control(e) /\ t \in OpType
      /\ None \in MaybePaths /\ None \in Segments /\ None \in Places /\ Up \in Segments
      /\ currentPath \in [Engines -> MaybePaths] /\ pending \in [Engines -> SUBSET Paths] /\ cache \subseteq Entries
    BY <1>1, SendFacts
<1>3. MkdOp(t) /\ t.path \in Canonical /\ t.path \in MaybePaths /\ t.mkdPath \in MaybePaths
      /\ t.state \in {"findparent", "mkdsub", "cwdsub", "tryfull"}
    <2>1. MkdOp(t)
        BY <1>1, <1>2, Shape
    <2>2. t.state # "waitlock"
        BY <1>1, <1>2 DEF Control
    <2> QED
        BY <1>1, <1>2, <2>1, <2>2 DEF MkdOp, StatesOf, OpType
<1>4. ASSUME NEW verb \in {"CWD", "MKD"}, NEW path \in MaybePaths, NEW name \in Segments, NEW meant \in Places,
             SendCommand(e, verb, path, name, meant, None),
             currentPath' = currentPath \/ (currentPath' = [currentPath EXCEPT ![e] = None] /\ t.state # "mkdsub"),
             verb = "CWD" => currentPath' = [currentPath EXCEPT ![e] = None],
             NEW w \in WireType,
             w = Command(verb, path, name, meant, None),
             w.verb = verb, w.done = FALSE, w.reply = "none",
             Sent(t, w)
      PROVE  Inv'
    <2>1. WireOp(w)
        BY <1>4 DEF WireOp, Destroys
    <2>2. currentPath' \in [Engines -> MaybePaths] /\ \A f \in Engines \ {e} : currentPath'[f] = currentPath[f]
        BY <1>2, <1>4
    <2>3. currentPath'[e] = currentPath[e] \/ (currentPath'[e] = None /\ t.state # "mkdsub")
        BY <1>2, <1>4
    <2>4. verb \in Moves \cup {"RAW"} => currentPath'[e] = None
        BY <1>2, <1>4 DEF Moves
    <2>5. verb \in Verbs \ {"none"} /\ verb \notin Destroys
        BY DEF Verbs, Destroys
    <2>6. t.state \notin {"list", "send", "rnto"}
        BY <1>3
    <2> QED
        BY <1>1, <1>2, <1>4, <2>1, <2>2, <2>3, <2>4, <2>5, <2>6, SendInv
<1>5. CASE t.state \in {"findparent", "cwdsub"}
    <2>1. SendCommand(e, "CWD", t.mkdPath, None, None, None) /\ currentPath' = [currentPath EXCEPT ![e] = None]
        BY <1>5 DEF MkdSend
    <2> DEFINE w == Command("CWD", t.mkdPath, None, None, None)
    <2>2. /\ w \in WireType
              /\ w.verb = "CWD" /\ w.path = t.mkdPath /\ w.name = None /\ w.meant = None /\ w.move = None
              /\ w.done = FALSE /\ w.skip = FALSE /\ w.reply = "none"
        <3>1. w \in WireType
            <4>1. "CWD" \in Verbs
                BY DEF Moves, Verbs
            <4> QED
                BY <4>1, <1>2, <1>3, NewWire
        <3> QED
            BY <3>1 DEF Command, NoWire
    <2>3. Sent(t, w)
        BY <1>1, <1>5, <2>2 DEF Sent
    <2>4. t.state # "mkdsub"
        BY <1>5
    <2> QED
        BY <1>2, <1>3, <1>4, <2>1, <2>2, <2>3, <2>4
<1>6. CASE t.state = "mkdsub"
    <2>1. SendCommand(e, "MKD", None, Last(t.segments), <<t.mkdPath, None>>, None) /\ UNCHANGED currentPath
        BY <1>6 DEF MkdSend
    <2>2. t.mkdPath \in Canonical /\ t.segments \in Seq(Names) /\ t.segments # << >>
        BY <1>2, <1>3, <1>6 DEF MkdOp, OpType
    <2>3. Last(t.segments) \in Segments /\ <<t.mkdPath, None>> \in Places
        <3>1. Last(t.segments) \in Names
            BY <2>2, FrontLast
        <3>2. t.mkdPath \in Paths
            BY <2>2, PathsAre DEF Scope
        <3> QED BY <3>1, <3>2 DEF Segments, LinkNames, Places
    <2> DEFINE w == Command("MKD", None, Last(t.segments), <<t.mkdPath, None>>, None)
    <2>4. /\ w \in WireType
              /\ w.verb = "MKD" /\ w.path = None /\ w.name = Last(t.segments) /\ w.meant = <<t.mkdPath, None>>
              /\ w.done = FALSE /\ w.skip = FALSE /\ w.reply = "none"
        <3>1. w \in WireType
            <4>1. "MKD" \in Verbs
                BY DEF Moves, Verbs
            <4> QED
                BY <4>1, <1>2, <1>3, NewWire, <2>2, <2>3
        <3> QED
            BY <3>1 DEF Command, NoWire
    <2>5. Sent(t, w)
        BY <1>1, <1>6, <2>4 DEF Sent
    <2> QED
        BY <1>2, <1>4, <2>1, <2>3, <2>4, <2>5
<1>7. CASE t.state = "tryfull"
    <2> DEFINE path == IF HasParent(t.path) THEN GetParent(t.path) ELSE t.path
               name == IF HasParent(t.path) THEN Last(t.path) ELSE None
    <2>1. SendCommand(e, "MKD", path, name, None, None) /\ UNCHANGED currentPath
        BY <1>7 DEF MkdSend
    <2>2. path \in MaybePaths /\ name \in Segments
        <3>1. HasParent(t.path) => GetParent(t.path) \in Canonical /\ Last(t.path) \in Names
            BY <1>3, ParentIs DEF Canonical
        <3>2. Canonical \subseteq Paths
            BY PathsAre DEF Scope
        <3> QED BY <1>2, <1>3, <3>1, <3>2 DEF Segments, LinkNames, MaybePaths
    <2>3. (HasParent(t.path) => path = GetParent(t.path) /\ name = Last(t.path))
              /\ (~HasParent(t.path) => path = t.path /\ name = None)
        OBVIOUS
    <2> HIDE DEF path, name
    <2> DEFINE w == Command("MKD", path, name, None, None)
    <2>4. /\ w \in WireType
              /\ w.verb = "MKD" /\ w.path = path /\ w.name = name /\ w.meant = None
              /\ w.done = FALSE /\ w.skip = FALSE /\ w.reply = "none"
        <3>1. w \in WireType
            <4>1. "MKD" \in Verbs
                BY DEF Moves, Verbs
            <4> QED
                BY <4>1, <1>2, <1>3, NewWire, <2>2, <2>3
        <3> QED
            BY <3>1 DEF Command, NoWire
    <2>5. Sent(t, w)
        BY <1>1, <1>7, <2>3, <2>4 DEF Sent
    <2> QED
        BY <1>2, <1>4, <2>1, <2>2, <2>4, <2>5
<1> QED
    BY <1>3, <1>5, <1>6, <1>7

(* A name in a directory without the link leads to the directory of that   *)
(* name, or nowhere.                                                       *)
LEMMA LeadsName ==
    ASSUME Outside, NEW D, NEW L, NEW p \in Canonical, NEW n \in Names, Leads(D, L, p, n) # None
    PROVE  Leads(D, L, p, n) = AddSegment(p, n) /\ AddSegment(p, n) \in D /\ p \in D
<1>1. Reach(D, L, p) = IF p \in D THEN p ELSE None
    BY ReachCanonical
<1>2. Reach(D, L, p) = p /\ p \in D /\ n # Up /\ n # None
    BY <1>1, PathsAre DEF Leads, Step
<1>3. AddSegment(p, n) \in Canonical
    BY CoversSegment DEF Canonical
<1>4. Reach(D, L, AddSegment(p, n)) = IF AddSegment(p, n) \in D THEN AddSegment(p, n) ELSE None
    BY <1>3, ReachCanonical
<1>5. p # None
    BY PathsAre
<1> QED
    BY <1>2, <1>4, <1>5 DEF Leads, Step

(* InvalidatePath adds nothing. *)
LEMMA InvalidatedLess ==
    ASSUME NEW c, NEW p, NEW n
    PROVE  InvalidatePath(c, p, n) \subseteq c
BY DEF InvalidatePath

(* What leads to or below the entry n of p is forgotten. *)
LEMMA Invalidated ==
    ASSUME Outside, Types, CacheTrue, NEW p \in Canonical, NEW n \in Names,
           NEW x \in InvalidatePath(cache, p, n)
    PROVE  ~Covers(AddSegment(p, n), x.target) /\ ~Covers(AddSegment(p, n), x.source)
<1> DEFINE entry == {y \in cache : y.source = p /\ y.subdir = n}
           a == AddSegment(p, n)
           target == IF entry # {} THEN (CHOOSE y \in entry : TRUE).target ELSE IF n # None THEN a ELSE None
<1>1. target = a
    <2>1. CASE entry # {}
        <3>1. PICK y \in entry : y = CHOOSE z \in entry : TRUE
            BY <2>1
        <3>2. Leads(dirs, link, p, n) = y.target
            BY <3>1 DEF CacheTrue
        <3>3. y.target # None
            BY <3>1, PathsAre DEF Types, Entries
        <3>4. y.target = a
            BY <3>2, <3>3, LeadsName
        <3> QED BY <3>1, <3>4, <2>1
    <2>2. CASE entry = {}
        BY <2>2, PathsAre
    <2> QED BY <2>1, <2>2
<1>2. a # None
    BY CoversSegment, PathsAre DEF Canonical
<1>3. InvalidatePath(cache, p, n) = IF target = None THEN cache
         ELSE {y \in cache \ entry : ~Covers(target, y.target) /\ ~Covers(target, y.source)}
    BY DEF InvalidatePath
<1> HIDE DEF target, a
<1>4. ~Covers(a, x.target) /\ ~Covers(a, x.source)
    BY <1>1, <1>2, <1>3
<1> QED
    BY <1>4 DEF a

(* What the path cache knows of an entry is the entry itself. *)
LEMMA KnownIs ==
    ASSUME Outside, Types, CacheTrue, NEW p \in Canonical, NEW n \in Names
    PROVE  (IF Lookup(p, n) # None THEN Lookup(p, n) ELSE AddSegment(p, n)) = AddSegment(p, n)
BY LookupTrue, LeadsName

(* The operation on top of an engine whose turn it is, if it is the user's *)
LEMMA UserFacts ==
    ASSUME Scope, Inv, NEW e \in Engines, turn = e, Top(e).id \notin {"cwd", "mkd"}
    PROVE  /\ UserOp(Top(e)) /\ Top(e).meant \in Places /\ Top(e).path \in MaybePaths /\ Top(e).subDir \in Segments
           /\ PathOf(Top(e)) \in MaybePaths /\ (PathOf(Top(e)) = None \/ Top(e).flag)
           /\ Top(e).target \in MaybePaths /\ Top(e).flag \in BOOLEAN
<1>1. Types /\ Control(e) /\ ops[e] # << >> /\ Top(e) \in OpType /\ None \in MaybePaths
    BY SendFacts
<1>2. UserOp(Top(e))
    BY <1>1, Shape
<1>3. /\ Top(e).meant \in Places /\ Top(e).path \in MaybePaths /\ Top(e).subDir \in Segments
      /\ Top(e).target \in MaybePaths /\ Top(e).flag \in BOOLEAN
    BY <1>1 DEF OpType
<1> QED
    BY <1>1, <1>2, <1>3 DEF PathOf

(* LIST, DELE and STOR keep the invariant. *)
LEMMA SendPlainInv ==
    ASSUME Scope, Inv, NEW e \in Engines, SendPlain(e)
    PROVE  Inv'
<1> DEFINE t == Top(e)
<1>1. /\ turn = e /\ ops[e] # << >> /\ UNCHANGED <<cache, currentPath, ops, pending>>
      /\ t.id \in {"list", "dele", "stor"}
      /\ \/ t.id = "list" /\ t.state = "list" /\ SendCommand(e, "LIST", None, None, t.meant, None)
         \/ /\ t.id # "list" /\ t.state = "send"
            /\ SendCommand(e, IF t.id = "dele" THEN "DELE" ELSE "STOR", PathOf(t), t.subDir, t.meant, None)
    BY DEF SendPlain, Is
<1>2. /\ None \in MaybePaths /\ None \in Segments /\ Control(e)
      /\ currentPath \in [Engines -> MaybePaths] /\ pending \in [Engines -> SUBSET Paths]
    BY <1>1, SendFacts
<1>3. UserOp(t) /\ t.meant \in Places /\ t.subDir \in Segments /\ PathOf(t) \in MaybePaths
    BY <1>1, UserFacts
<1>4. ASSUME NEW verb \in {"LIST", "DELE", "STOR"}, NEW path \in MaybePaths, NEW name \in Segments,
             SendCommand(e, verb, path, name, t.meant, None),
             verb = "LIST" => t.id = "list" /\ t.state = "list" /\ path = None /\ name = None,
             verb # "LIST" => /\ t.id = (IF verb = "DELE" THEN "dele" ELSE "stor") /\ t.state = "send"
                              /\ path = PathOf(t) /\ name = t.subDir
      PROVE  Inv'
    <2> DEFINE w == Command(verb, path, name, t.meant, None)
    <2>1. verb \in Verbs \ {"none"} /\ verb \notin Destroys /\ verb \notin Moves \cup {"RAW"}
        BY DEF Verbs, Destroys, Moves
    <2>2. w \in WireType
        BY <1>2, <1>3, <2>1, NewWire
    <2>3. /\ w.verb = verb /\ w.path = path /\ w.name = name /\ w.meant = t.meant /\ w.done = FALSE /\ w.reply = "none"
        BY DEF Command, NoWire
    <2> HIDE DEF w
    <2>4. Sent(t, w)
        BY <1>4, <2>3 DEF Sent
    <2>5. WireOp(w)
        <3>1. verb = "DELE" => name # Link
            BY <1>3, <1>4, PathsAre DEF UserOp, Scope, LinkNames
        <3> QED
            BY <2>1, <2>3, <3>1 DEF WireOp
    <2>6. w = Command(verb, path, name, t.meant, None)
        BY DEF w
    <2> QED
        BY <1>1, <1>2, <1>3, <1>4, <2>1, <2>2, <2>4, <2>5, <2>6, SendInv
<1>5. CASE t.id = "list"
    BY <1>1, <1>2, <1>4, <1>5
<1>6. CASE t.id # "list"
    <2> DEFINE verb == IF t.id = "dele" THEN "DELE" ELSE "STOR"
    <2>1. /\ verb \in {"LIST", "DELE", "STOR"} /\ verb # "LIST" /\ t.id = (IF verb = "DELE" THEN "dele" ELSE "stor")
          /\ t.state = "send" /\ SendCommand(e, verb, PathOf(t), t.subDir, t.meant, None)
        BY <1>1, <1>6
    <2> HIDE DEF verb
    <2> QED
        BY <1>3, <1>4, <2>1
<1> QED
    BY <1>5, <1>6

(* A raw command keeps the invariant: cache and belief are given up first. *)
LEMMA SendRawInv ==
    ASSUME Scope, Inv, NEW e \in Engines, SendRaw(e)
    PROVE  Inv'
<1> DEFINE t == Top(e)
           w == Command("RAW", t.path, None, None, None)
<1>1. /\ turn = e /\ ops[e] # << >> /\ UNCHANGED <<ops, pending>> /\ t.id = "raw" /\ t.state = "init"
      /\ cache' = {} /\ currentPath' = [currentPath EXCEPT ![e] = None]
      /\ SendCommand(e, "RAW", t.path, None, None, None)
    BY DEF SendRaw, Is
<1>2. /\ None \in MaybePaths /\ None \in Segments /\ None \in Places /\ Control(e)
      /\ currentPath \in [Engines -> MaybePaths] /\ pending \in [Engines -> SUBSET Paths]
    BY <1>1, SendFacts
<1>3. UserOp(t) /\ t.path \in MaybePaths
    BY <1>1, UserFacts
<1>4. "RAW" \in Verbs \ {"none"} /\ "RAW" \notin Destroys /\ "RAW" \notin Moves
    BY DEF Verbs, Destroys, Moves
<1>5. w \in WireType
    BY <1>2, <1>3, <1>4, NewWire
<1>6. w.verb = "RAW" /\ w.meant = None /\ w.done = FALSE /\ w.reply = "none"
    BY DEF Command, NoWire
<1>7. Sent(t, w)
    <2> HIDE DEF w
    <2> QED BY <1>1, <1>6 DEF Sent
<1>8. WireOp(w)
    <2> HIDE DEF w
    <2> QED BY <1>6 DEF WireOp, Destroys
<1>9. currentPath'[e] = None /\ currentPath' \in [Engines -> MaybePaths]
          /\ \A f \in Engines \ {e} : currentPath'[f] = currentPath[f]
    BY <1>1, <1>2
<1> QED
    BY <1>1, <1>2, <1>3, <1>4, <1>5, <1>7, <1>8, <1>9, SendInv

(* What is announced: the entry of the directory the operation names *)
Known(op) == IF Lookup(op.path, op.subDir) # None THEN Lookup(op.path, op.subDir) ELSE AddSegment(op.path, op.subDir)

(* RMD or RNTO is sent: who is in the entry that goes is told. *)
LEMMA DestroyInv ==
    ASSUME Scope, Inv, NEW e \in Engines, turn = e, Top(e).id \in {"rmd", "rename"},
           NEW verb \in Destroys, NEW path \in Canonical \cup {None}, NEW name \in Names,
           NEW meant \in Places, NEW move \in MaybePaths,
           SendCommand(e, verb, path, name, meant, move), UNCHANGED <<ops, currentPath>>,
           cache' \subseteq InvalidatePath(cache, Top(e).path, Top(e).subDir),
           InvalidateCurrentWorkingDirs(e, Known(Top(e))),
           verb = "RMD" => Top(e).state = "send" /\ Top(e).id = "rmd" /\ path = PathOf(Top(e)) /\ name = Top(e).subDir,
           verb = "RNTO" => Top(e).state = "rnto" /\ Top(e).id = "rename" /\ move = Top(e).target,
           Sent(Top(e), Command(verb, path, name, meant, move))
    PROVE  Inv'
<1> DEFINE t == Top(e)
           w == Command(verb, path, name, meant, move)
<1>1. /\ None \in MaybePaths /\ Control(e) /\ Types /\ ops[e] # << >>
      /\ currentPath \in [Engines -> MaybePaths] /\ pending \in [Engines -> SUBSET Paths]
    BY SendFacts
<1>2. UserOp(t) /\ t.path \in MaybePaths /\ t.target \in MaybePaths /\ t.flag \in BOOLEAN
    BY UserFacts
<1>3. t.path \in Paths /\ t.subDir \in Names /\ t.path # None
    BY <1>2 DEF UserOp, MaybePaths
<1>4. Outside /\ Canonical \subseteq Paths /\ Names \subseteq LinkNames
    BY PathsAre DEF Scope
<1>5. verb \in Verbs \ {"none"} /\ verb \notin Moves \cup {"RAW"} /\ (verb = "RMD" \/ verb = "RNTO")
    BY DEF Verbs, Moves, Destroys
<1>6. path \in MaybePaths /\ name \in Segments
    BY <1>4 DEF MaybePaths, Segments
<1>7. w \in WireType
    BY <1>5, <1>6, NewWire
<1>8. w.verb = verb /\ w.path = path /\ w.name = name /\ w.move = move /\ w.done = FALSE /\ w.reply = "none"
    BY DEF Command, NoWire
<1>9. WireOp(w)
    <2> HIDE DEF w
    <2>1. verb = "RNTO" => move \in Canonical /\ move # << >>
        BY <1>2 DEF UserOp
    <2> QED BY <1>5, <1>8, <2>1 DEF WireOp
<1>10. cache' \subseteq cache
    BY InvalidatedLess
<1>11. pending' \in [Engines -> SUBSET Paths] /\ \A f \in Engines : pending[f] \subseteq pending'[f]
    <2>1. Known(t) \in Paths
        <3>1. Lookup(t.path, t.subDir) \in MaybePaths
            BY <1>1, LookupType
        <3>2. AddSegment(t.path, t.subDir) \in Paths
            BY <1>3, <1>4, CoversSegment DEF Paths
        <3> QED BY <3>1, <3>2 DEF Known, MaybePaths
    <2>2. pending' = [f \in Engines |-> IF f = e THEN pending[f] ELSE pending[f] \cup {Known(t)}]
        BY DEF InvalidateCurrentWorkingDirs
    <2> QED BY <1>1, <2>1, <2>2
<1>12. ASSUME ~raced', Victim(e)' # None PROVE Spared(e)' /\ \A g \in Engines : Told(e, g)'
    <2> DEFINE v == AddSegment(t.path, t.subDir)
    <2>1. ~raced /\ ~Stale(e)
        BY <1>12 DEF SendCommand, Stale
    <2>2. CacheTrue /\ UserWhere(e) /\ Belief(e)
        BY <2>1 DEF Inv, Truth, Local
    <2>3. t.state \in {"send", "rnto"}
        BY <1>5
    <2>4. /\ t.flag => currentPath[e] = None
          /\ t.path = t.meant[1]
          /\ ~t.flag => currentPath[e] = t.path
          /\ t.state = "rnto" => t.target = v
        <3> HIDE DEF v
        <3>1. t.id # "list"
            OBVIOUS
        <3> QED BY <1>1, <2>1, <2>2, <2>3, <3>1 DEF UserWhere, v
    <2>5. t.path \in Canonical
        BY <1>2, <2>4 DEF UserOp
    <2>6. ~t.flag => at[e] = t.path
        BY <1>3, <2>1, <2>2, <2>4 DEF Belief
    <2>7. wire'[e] = w /\ at' = at /\ disturbed' = disturbed /\ invalidate' = invalidate
        BY <1>1 DEF SendCommand, server, Types
    <2>8. Victim(e)' = v
        <3> HIDE DEF v, w
        <3>1. CASE verb = "RNTO"
            BY <1>8, <2>4, <2>7, <3>1 DEF Victim
        <3>2. CASE verb = "RMD" /\ t.flag
            BY <1>3, <1>8, <2>7, <3>2 DEF Victim, PathOf, v
        <3>3. CASE verb = "RMD" /\ ~t.flag
            BY <1>3, <1>8, <2>6, <2>7, <3>3 DEF Victim, PathOf, v
        <3> QED BY <1>2, <1>5, <3>1, <3>2, <3>3
    <2>9. Spared(e)'
        <3> HIDE DEF v
        <3>1. \A x \in cache' : ~Covers(v, x.target) /\ ~Covers(v, x.source)
            BY <1>1, <1>3, <1>4, <2>2, <2>5, Invalidated DEF v
        <3> QED BY <2>8, <3>1 DEF Spared
    <2>10. ASSUME NEW g \in Engines PROVE Told(e, g)'
        <3>1. CASE g = e
            <4>1. t.flag \/ ~Covers(v, t.path)
                BY <1>3, <1>4, CoversSegment DEF Canonical, Paths
            <4> QED
                BY <1>2, <2>4, <2>8, <3>1, <4>1 DEF Told
        <3>2. CASE g # e
            <4>1. Known(t) = v
                BY <1>1, <1>3, <1>4, <2>2, <2>5, KnownIs DEF Known
            <4>2. v \in pending'[g]
                BY <3>2, <4>1 DEF InvalidateCurrentWorkingDirs
            <4> HIDE DEF v
            <4> QED
                BY <2>8, <3>2, <4>2 DEF Told
        <3> QED BY <3>1, <3>2
    <2> QED BY <2>9, <2>10
<1>13. currentPath' \in [Engines -> MaybePaths] /\ \A f \in Engines : currentPath'[f] = currentPath[f]
    BY <1>1
<1> HIDE DEF w
<1>14. w = Command(verb, path, name, meant, move) /\ Sent(t, w)
    BY DEF w
<1> QED
    BY <1>5, <1>6, <1>7, <1>9, <1>10, <1>11, <1>12, <1>13, <1>14, SendInv

(* RMD keeps the invariant: cache and the other engines have been told of  *)
(* what it removes.                                                        *)
LEMMA SendRmdInv ==
    ASSUME Scope, Inv, NEW e \in Engines, SendRmd(e)
    PROVE  Inv'
<1> DEFINE t == Top(e)
           w == Command("RMD", PathOf(t), t.subDir, t.meant, None)
<1>1. /\ turn = e /\ ops[e] # << >> /\ UNCHANGED <<ops, currentPath>> /\ t.id = "rmd" /\ t.state = "send"
      /\ cache' = InvalidatePath(cache, t.path, t.subDir)
      /\ InvalidateCurrentWorkingDirs(e, Known(t))
      /\ SendCommand(e, "RMD", PathOf(t), t.subDir, t.meant, None)
    BY DEF SendRmd, Is, Known
<1>2. UserOp(t) /\ t.meant \in Places /\ None \in MaybePaths
    BY <1>1, UserFacts, SendFacts
<1>3. PathOf(t) \in Canonical \cup {None} /\ t.subDir \in Names
    BY <1>1, <1>2 DEF UserOp, PathOf
<1>4. "RMD" \in Destroys
    BY DEF Destroys
<1>5. Sent(t, w)
    <2>1. w.verb = "RMD" /\ w.path = PathOf(t) /\ w.name = t.subDir /\ w.meant = t.meant
        BY DEF Command, NoWire
    <2> HIDE DEF w
    <2> QED BY <1>1, <2>1 DEF Sent
<1> QED
    BY <1>1, <1>2, <1>3, <1>4, <1>5, DestroyInv

(* RNFR and RNTO keep the invariant.  The directory that is moved is the   *)
(* one RNFR named, and that is the one cache and other engines are told    *)
(* of, unless the engine should have left its directory.                   *)
LEMMA SendRenameInv ==
    ASSUME Scope, Inv, NEW e \in Engines, SendRename(e)
    PROVE  Inv'
<1> DEFINE t == Top(e)
<1>1. turn = e /\ ops[e] # << >> /\ UNCHANGED <<ops, currentPath>> /\ t.id = "rename"
    BY DEF SendRename, Is
<1>2. UserOp(t) /\ t.meant \in Places /\ t.target \in MaybePaths /\ t.subDir \in Segments /\ PathOf(t) \in MaybePaths
    BY <1>1, UserFacts
<1>3. /\ None \in MaybePaths /\ None \in Segments /\ Control(e) /\ Types
      /\ currentPath \in [Engines -> MaybePaths] /\ pending \in [Engines -> SUBSET Paths]
    BY <1>1, SendFacts
<1>4. CASE t.state = "send"
    <2> DEFINE w == Command("RNFR", PathOf(t), t.subDir, t.meant, None)
    <2>1. SendCommand(e, "RNFR", PathOf(t), t.subDir, t.meant, None) /\ UNCHANGED <<cache, pending>>
        BY <1>4 DEF SendRename, Is
    <2>2. "RNFR" \in Verbs \ {"none"} /\ "RNFR" \notin Destroys /\ "RNFR" \notin Moves \cup {"RAW"}
        BY DEF Verbs, Destroys, Moves
    <2>3. w \in WireType
        BY <1>2, <1>3, <2>2, NewWire
    <2>4. w.verb = "RNFR" /\ w.path = PathOf(t) /\ w.name = t.subDir /\ w.meant = t.meant /\ w.done = FALSE
              /\ w.reply = "none"
        BY DEF Command, NoWire
    <2> HIDE DEF w
    <2>5. Sent(t, w)
        BY <1>1, <1>4, <2>4 DEF Sent
    <2>6. WireOp(w)
        BY <2>4 DEF WireOp, Destroys
    <2>7. w = Command("RNFR", PathOf(t), t.subDir, t.meant, None)
        BY DEF w
    <2> QED
        BY <1>1, <1>2, <1>3, <2>1, <2>2, <2>3, <2>5, <2>6, <2>7, SendInv
<1>5. CASE t.state = "rnto"
    <2> DEFINE path == IF ~t.flag /\ t.path = t.toPath THEN None ELSE t.toPath
               w == Command("RNTO", path, t.toName, <<t.toPath, None>>, t.target)
    <2>1. /\ InvalidateCurrentWorkingDirs(e, Known(t))
          /\ cache' = InvalidatePath(InvalidatePath(cache, t.path, t.subDir), t.toPath, t.toName)
          /\ SendCommand(e, "RNTO", path, t.toName, <<t.toPath, None>>, t.target)
        BY <1>5 DEF SendRename, Is, Known
    <2>2. t.toPath \in Canonical /\ t.toName \in Names
        BY <1>1, <1>2 DEF UserOp
    <2>3. cache' \subseteq InvalidatePath(cache, t.path, t.subDir)
        BY <2>1, InvalidatedLess
    <2>4. <<t.toPath, None>> \in Places
        BY <1>3, <2>2, PathsAre DEF Places, Scope
    <2>5. path \in Canonical \cup {None}
        BY <2>2
    <2>6. Sent(t, w)
        <3>1. w.verb = "RNTO" /\ w.path = path /\ w.name = t.toName /\ w.meant = <<t.toPath, None>> /\ w.move = t.target
            BY DEF Command, NoWire
        <3> HIDE DEF w
        <3> QED BY <1>1, <1>5, <3>1 DEF Sent
    <2>7. "RNTO" \in Destroys
        BY DEF Destroys
    <2> HIDE DEF path
    <2> QED
        BY <1>1, <1>2, <1>5, <2>1, <2>2, <2>3, <2>4, <2>5, <2>6, <2>7, DestroyInv
<1>6. t.state = "send" \/ t.state = "rnto"
    BY DEF SendRename, Is
<1> QED
    BY <1>4, <1>5, <1>6

(* The creation of directories on top of e goes on. *)
LEMMA MkdGoInv ==
    ASSUME Scope, Inv, NEW e \in Engines, ops[e] # << >>, Top(e).id = "mkd", Quiet(e),
           NEW new \in OpType, SetTop(e, new), turn' = e, UNCHANGED <<invalidate, mkdOK, cache>>,
           currentPath' \in [Engines -> MaybePaths], \A f \in Engines \ {e} : currentPath'[f] = currentPath[f],
           MkdOp(new), new.state # "waitlock",
           ~raced => /\ Moving(e) \/ currentPath'[e] = None \/ currentPath'[e] = currentPath[e]
                     /\ currentPath'[e] = None \/ at[e] = currentPath'[e] \/ Stale(e)
                     /\ new.state = "mkdsub" => currentPath'[e] = new.mkdPath
    PROVE  Inv'
<1>1. Types /\ Control(e) /\ wire'[e] = NoWire
    BY DEF Inv, Quiet
<1>2. Len(ops[e]) \in 1..3 /\ (Len(ops[e]) = 1 \/ Len(ops[e]) = 3) /\ Stack(ops[e])
    BY <1>1, Shape
<1>3. /\ \A f \in Engines \ {e} : ops'[f] = ops[f]
      /\ ops' \in [Engines -> Seq(OpType)]
      /\ ops'[e] # << >> /\ Len(ops'[e]) = Len(ops[e]) /\ Last(ops'[e]) = new /\ ops'[e][Len(ops[e])] = new
      /\ \A i \in 1..(Len(ops[e]) - 1) : ops'[e][i] = ops[e][i]
    BY <1>1, SetTopOps
<1>4. Len(ops[e]) = 3 => ops'[e][1] = ops[e][1] /\ ops'[e][2] = ops[e][2] /\ ops'[e][3] = new
    <2>1. Len(ops[e]) = 3 => 1 \in 1..(Len(ops[e]) - 1) /\ 2 \in 1..(Len(ops[e]) - 1)
        OBVIOUS
    <2> QED BY <1>3, <2>1
<1>5. UserOp(new) /\ new.id = "mkd" /\ new.state \notin {"waitcwd", "list", "send", "rnto"}
    <2>1. None \notin Canonical
        BY PathsAre DEF Scope
    <2> QED BY <2>1 DEF UserOp, MkdOp, StatesOf, Ids
<1>6. Stack(ops'[e])
    BY <1>2, <1>3, <1>4, <1>5 DEF Stack
<1>7. Top(e)' = new
    BY <1>3 DEF Top
<1>8. mkdOK'[e] = None /\ invalidate'[e] = invalidate[e]
    BY <1>1 DEF Control
<1>9. Control(e)'
    BY <1>1, <1>3, <1>5, <1>6, <1>7, <1>8 DEF Control, NoWire, WireOp, Busy, Destroys, Moves
<1>10. ASSUME ~raced PROVE Local(e)' /\ CacheTrue'
    <2>1. UNCHANGED <<dirs, link, pwdWorks, at, disturbed>>
        BY DEF Quiet, server, observers
    <2>2. Belief(e)'
        BY <1>10, <1>8, <2>1 DEF Belief, Stale
    <2>3. CwdWhere(e)' /\ UserWhere(e)' /\ Made(e)'
        BY <1>5, <1>7, <1>8 DEF CwdWhere, UserWhere, Made
    <2>4. MkdWhere(e)'
        BY <1>1, <1>7, <1>10, <2>1 DEF MkdWhere, NoWire
    <2>5. Unknown(e) /\ CacheTrue
        BY <1>10 DEF Inv, Truth, Local
    <2>6. Detour(e)' /\ Unknown(e)'
        <3>1. Len(ops'[e]) # 2
            <4>1. Len(ops[e]) # 2
                BY <1>2
            <4> QED BY <1>3, <4>1
        <3>2. Len(ops'[e]) = 3 => ops'[e][2] = ops[e][2] /\ Len(ops[e]) = 3
            BY <1>3, <1>4
        <3>3. Detour(e)'
            BY <3>1 DEF Detour
        <3> QED BY <2>5, <3>1, <3>2, <3>3 DEF Unknown
    <2>7. CacheTrue'
        BY <2>1, <2>5 DEF CacheTrue
    <2> QED BY <2>2, <2>3, <2>4, <2>6, <2>7 DEF Local
<1>11. ~raced /\ ~Moving(e) =>
         /\ cache' \subseteq cache
         /\ currentPath'[e] # None => currentPath'[e] = currentPath[e] /\ (Stale(e) => Stale(e)')
             /\ (invalidate[e] => invalidate'[e])
    BY DEF Quiet, observers, Stale
<1>12. /\ mkdOK' \in [Engines -> MaybePaths] /\ invalidate' \in [Engines -> BOOLEAN] /\ cache' \subseteq Entries
       /\ \A f \in Engines \ {e} : invalidate'[f] = invalidate[f] /\ mkdOK'[f] = mkdOK[f]
    BY <1>1 DEF Types
<1> QED
    BY <1>3, <1>9, <1>10, <1>11, <1>12, StepInv

(* A handler that sends nothing *)
LEMMA UnsentQuiet ==
    ASSUME Inv, NEW e \in Engines, turn = e, Unsent
    PROVE  Quiet(e)
<1>1. Types /\ wire[e] = NoWire
    BY DEF Inv, Control
<1> QED
    BY <1>1 DEF Unsent, Quiet, Types

(* mkd_init keeps the invariant: that there is nothing to do is true. *)
LEMMA MkdInitInv ==
    ASSUME Scope, Inv, NEW e \in Engines, MkdInit(e)
    PROVE  Inv'
<1> DEFINE t == Top(e)
           cp == currentPath[e]
           parent == IF cp = None THEN None ELSE IF IsParentOf(cp, t.path) THEN cp ELSE GetCommonParent(t.path, cp)
           from == GetParent(t.path)
           new == IF ~HasParent(t.path) THEN [t EXCEPT !.parent = parent, !.state = "tryfull"]
                  ELSE [t EXCEPT !.parent = parent, !.mkdPath = from, !.segments = <<Last(t.path)>>,
                                 !.state = IF from = cp THEN "mkdsub" ELSE "findparent"]
<1>1. /\ turn = e /\ ops[e] # << >> /\ t.id = "mkd" /\ t.state = "init"
      /\ IF cp # None /\ Covers(t.path, cp)
         THEN ResetOperation(e, t, TRUE, cp) /\ Unsent /\ UNCHANGED cache
         ELSE SetTop(e, new) /\ Continue(e)
    BY DEF MkdInit, Is
<1>2. Types /\ Control(e) /\ t \in OpType /\ cp \in MaybePaths /\ cache \subseteq Entries
    BY <1>1, SendFacts
<1>3. MkdOp(t) /\ t.path \in Canonical /\ t.path \in Paths
    <2>1. MkdOp(t)
        BY <1>1, <1>2, Shape
    <2> QED BY <2>1, PathsAre DEF MkdOp, Scope
<1>4. CASE cp # None /\ Covers(t.path, cp)
    <2>1. ResetOperation(e, t, TRUE, cp) /\ Unsent /\ UNCHANGED cache
        BY <1>1, <1>4
    <2>2. Quiet(e)
        BY <1>1, <2>1, UnsentQuiet
    <2>3. ASSUME ~raced PROVE CacheTrue' /\ (at[e] = cp \/ Stale(e)) /\ (~disturbed[e] => t.path \in dirs)
        <3>1. CacheTrue /\ Belief(e)
            BY <2>3 DEF Inv, Truth, Local
        <3>2. CacheTrue'
            BY <2>1, <3>1 DEF CacheTrue, Unsent, server
        <3>3. at[e] = cp \/ Stale(e)
            BY <1>4, <3>1 DEF Belief
        <3>4. ASSUME ~disturbed[e] PROVE t.path \in dirs
            <4>1. at[e] = cp
                BY <3>3, <3>4 DEF Stale
            <4>2. cp \in dirs /\ cp \in Canonical /\ cp \in Dirs
                BY <1>2, <1>4, <4>1, BeliefIn DEF Types
            <4>3. Len(t.path) <= Len(cp) /\ Len(cp) <= MaxDepth /\ Len(t.path) \in Nat /\ Len(cp) \in Nat
                BY <1>3, <1>4, <4>2, CoversIs, DirsAre, LenProperties DEF Canonical
            <4>4. t.path \in Dirs
                BY <1>3, <4>3, DirsAre, WorkingDirAssumption
            <4> QED BY <1>2, <1>4, <4>2, <4>4 DEF Types, Closed
        <3> QED BY <3>2, <3>3, <3>4
    <2> HIDE DEF cp
    <2>4. cp = currentPath[e] /\ t.id # "cwd"
        BY <1>1 DEF cp
    <2> QED
        BY <1>1, <1>2, <2>1, <2>2, <2>3, <2>4, ResetInv
<1>5. CASE ~(cp # None /\ Covers(t.path, cp))
    <2>1. SetTop(e, new) /\ Continue(e)
        BY <1>1, <1>5
    <2>2. Quiet(e) /\ turn' = e /\ UNCHANGED <<invalidate, mkdOK, cache, currentPath>>
        BY <1>1, <2>1, UnsentQuiet DEF Continue
    <2>3. parent \in Parents
        BY <1>2, <1>3 DEF Parents, MaybePaths
    <2>4. new \in OpType /\ MkdOp(new) /\ new.state # "waitlock" /\ (new.state = "mkdsub" => new.mkdPath = cp)
        <3>1. CASE ~HasParent(t.path)
            <4>1. new = [t EXCEPT !.parent = parent, !.state = "tryfull"]
                BY <3>1
            <4> HIDE DEF new, parent
            <4>2. new \in OpType /\ new.id = "mkd" /\ new.state = "tryfull" /\ new.path = t.path
                BY <1>1, <1>2, <2>3, <4>1 DEF OpType, States
            <4> QED BY <1>3, <4>2 DEF MkdOp, StatesOf
        <3>2. CASE HasParent(t.path)
            <4>1. new = [t EXCEPT !.parent = parent, !.mkdPath = from, !.segments = <<Last(t.path)>>,
                                  !.state = IF from = cp THEN "mkdsub" ELSE "findparent"]
                BY <3>2
            <4>2. from \in Canonical /\ Last(t.path) \in Names /\ Covers(from, t.path) /\ Len(from) = Len(t.path) - 1
                BY <1>3, <3>2, ParentIs DEF Canonical
            <4>3. from \in MaybePaths
                BY <4>2, PathsAre DEF MaybePaths, Scope
            <4>4. <<Last(t.path)>> \in Seq(Names) /\ <<Last(t.path)>> # << >> /\ Len(<<Last(t.path)>>) = 1
                BY <4>2
            <4>5. \A i \in 1..Len(from) : from[i] = t.path[i]
                BY <1>3, <4>2, CoversIs DEF Canonical
            <4>6. Len(t.path) \in Nat /\ Last(t.path) = t.path[Len(t.path)]
                BY <1>3, LenProperties DEF Canonical, Last
            <4> DEFINE seg == <<Last(t.path)>>
            <4>7. seg[1] = t.path[Len(t.path)] /\ seg \in Seq(Names) /\ seg # << >> /\ Len(seg) = 1
                BY <4>4, <4>6
            <4> HIDE DEF new, parent, from, seg
            <4>8. /\ new \in OpType /\ new.id = "mkd" /\ new.path = t.path /\ new.mkdPath = from
                  /\ new.segments = seg /\ new.state = IF from = cp THEN "mkdsub" ELSE "findparent"
                BY <1>1, <1>2, <2>3, <4>1, <4>3, <4>7 DEF OpType, States, seg
            <4>9. new.state \in StatesOf("mkd")
                BY <4>8 DEF StatesOf
            <4>10. /\ Len(from) + Len(seg) = Len(t.path)
                   /\ \A i \in 1..Len(seg) : seg[i] = t.path[Len(t.path) + 1 - i]
                BY <4>2, <4>6, <4>7
            <4>11. MkdOp(new)
                BY <1>3, <4>2, <4>5, <4>7, <4>8, <4>9, <4>10 DEF MkdOp
            <4> QED BY <4>8, <4>11
        <3> QED BY <3>1, <3>2
    <2>5. ASSUME ~raced PROVE cp = None \/ at[e] = cp \/ Stale(e)
        BY <2>5 DEF Inv, Truth, Local, Belief
    <2>6. currentPath' \in [Engines -> MaybePaths]
        BY <1>2, <2>2 DEF Types
    <2> HIDE DEF new
    <2> QED
        BY <1>1, <2>1, <2>2, <2>4, <2>5, <2>6, MkdGoInv
<1> QED
    BY <1>4, <1>5

(* A handler that sends nothing and stops there keeps the invariant if it  *)
(* does for e.                                                             *)
LEMMA WaitInv ==
    ASSUME Scope, Inv, NEW e \in Engines, Quiet(e), turn' = None, UNCHANGED <<cache, currentPath, invalidate, mkdOK>>,
           ops' \in [Engines -> Seq(OpType)], \A f \in Engines \ {e} : ops'[f] = ops[f],
           Control(e)', ~raced => Local(e)'
    PROVE  Inv'
<1>1. /\ currentPath' \in [Engines -> MaybePaths] /\ invalidate' \in [Engines -> BOOLEAN]
      /\ mkdOK' \in [Engines -> MaybePaths] /\ cache' \subseteq Entries
    BY DEF Inv, Types
<1>2. ~raced => CacheTrue'
    BY DEF Inv, Truth, CacheTrue, Quiet, server
<1>3. Stale(e) => Stale(e)'
    BY DEF Stale, Quiet, observers
<1> QED
    BY <1>1, <1>2, <1>3, StepInv

(* An operation that waits for a lock keeps the invariant: a directory     *)
(* that others may destroy meanwhile is all it relies on, and it will ask. *)
LEMMA AwaitLockInv ==
    ASSUME Scope, Inv, NEW e \in Engines, AwaitLock(e)
    PROVE  Inv'
<1> DEFINE t == Top(e)
           new == [t EXCEPT !.state = "waitlock", !.flag = FALSE]
<1>1. turn = e /\ ops[e] # << >> /\ LocksFirst(t) /\ SetTop(e, new) /\ turn' = None /\ Unsent
      /\ UNCHANGED <<cache, currentPath, invalidate, mkdOK>>
    BY DEF AwaitLock
<1>2. Types /\ Control(e) /\ t \in OpType /\ wire[e] = NoWire
    BY <1>1, SendFacts
<1>3. /\ new \in OpType /\ new.id = t.id /\ new.state = "waitlock" /\ new.path = t.path /\ new.subDir = t.subDir
      /\ new.target = t.target /\ new.flag = FALSE
    BY <1>2 DEF OpType, States
<1>4. Quiet(e) /\ wire'[e] = NoWire /\ UNCHANGED <<dirs, link, pwdWorks, at, disturbed>>
    BY <1>1, UnsentQuiet DEF Unsent, Quiet, server, observers
<1> HIDE DEF new
<1>5. /\ \A f \in Engines \ {e} : ops'[f] = ops[f]
      /\ ops' \in [Engines -> Seq(OpType)]
      /\ ops'[e] # << >> /\ Len(ops'[e]) = Len(ops[e]) /\ Last(ops'[e]) = new /\ ops'[e][Len(ops[e])] = new
      /\ \A i \in 1..(Len(ops[e]) - 1) : ops'[e][i] = ops[e][i]
    BY <1>1, <1>2, <1>3, SetTopOps
<1>6. Top(e)' = new /\ turn' # e /\ mkdOK'[e] = None /\ invalidate'[e] = invalidate[e]
    BY <1>1, <1>2, <1>5, WorkingDirAssumption DEF Top, Control
<1>7. CASE t.id = "cwd"
    <2>1. t.state = "cwd" /\ t.flag
        BY <1>1, <1>7 DEF LocksFirst
    <2>2. /\ Len(ops[e]) = 2 /\ t = ops[e][2] /\ UserOp(ops[e][1]) /\ ops[e][1].state = "waitcwd" /\ CwdOp(ops[e][1], t)
        BY <1>1, <1>2, <1>7, CwdFacts
    <2>3. ops[e][1].id = "stor" /\ ops[e][1].path \in Canonical /\ t.path = ops[e][1].path
        BY <2>1, <2>2 DEF CwdOp, UserOp
    <2>4. ops'[e][1] = ops[e][1] /\ ops'[e][2] = new /\ Len(ops'[e]) = 2
        <3>1. 1 \in 1..(Len(ops[e]) - 1)
            BY <2>2
        <3> QED BY <1>5, <2>2, <3>1
    <2>5. CwdOp(ops[e][1], new)
        <3>1. ops[e][1].meant # None => <<t.path, t.subDir>> = ops[e][1].meant
            BY <2>2, <2>3 DEF CwdOp
        <3> QED BY <1>3, <2>1, <2>2, <2>3, <3>1 DEF CwdOp
    <2>6. Stack(ops'[e])
        BY <2>2, <2>3, <2>4, <2>5 DEF Stack
    <2>7. Control(e)'
        BY <1>3, <1>4, <1>5, <1>6, <2>6 DEF Control, NoWire, WireOp, Busy, Destroys, Moves
    <2>8. ASSUME ~raced PROVE Local(e)'
        <3>1. Belief(e) /\ CwdWhere(e) /\ Detour(e)
            BY <2>8 DEF Inv, Truth, Local
        <3>2. Belief(e)'
            BY <1>1, <1>4, <3>1 DEF Belief, Stale
        <3>3. ~Live(e)'
            BY <1>4, <1>6 DEF Live, Busy, NoWire
        <3>4. CwdWhere(e)' /\ MkdWhere(e)'
            BY <3>3 DEF CwdWhere, MkdWhere
        <3>5. Detour(e)'
            BY <1>3, <1>4, <2>2, <2>4, <3>1 DEF Detour
        <3>6. t.target \in {None, t.path}
            <4>1. t.target # None => Reach(dirs, link, t.path) = t.target
                BY <1>1, <1>7, <2>1, <3>1 DEF CwdWhere, Live, Waited
            <4> QED BY <2>3, <4>1, ReachCanonical DEF Scope
        <3>7. Unknown(e)'
            BY <1>3, <2>4, <3>6 DEF Unknown
        <3>8. UserWhere(e)' /\ Made(e)'
            BY <1>3, <1>6 DEF UserWhere, Made
        <3> QED BY <3>2, <3>4, <3>5, <3>7, <3>8 DEF Local
    <2> QED BY <1>1, <1>4, <1>5, <2>7, <2>8, WaitInv
<1>8. CASE t.id = "mkd"
    <2>1. t.state = "init"
        BY <1>1, <1>8 DEF LocksFirst
    <2>2. MkdOp(t) /\ (Len(ops[e]) = 1 \/ Len(ops[e]) = 3) /\ Stack(ops[e])
        BY <1>1, <1>2, <1>8, Shape
    <2>3. MkdOp(new)
        BY <1>3, <1>8, <2>2 DEF MkdOp, StatesOf
    <2>4. UserOp(new) /\ new.state # "waitcwd"
        <3>1. None \notin Canonical
            BY PathsAre DEF Scope
        <3> QED BY <1>3, <1>8, <2>3, <3>1 DEF UserOp, MkdOp, StatesOf, Ids
    <2>5. Len(ops[e]) = 3 => ops'[e][1] = ops[e][1] /\ ops'[e][2] = ops[e][2] /\ ops'[e][3] = new
        <3>1. Len(ops[e]) = 3 => 1 \in 1..(Len(ops[e]) - 1) /\ 2 \in 1..(Len(ops[e]) - 1)
            OBVIOUS
        <3> QED BY <1>5, <3>1
    <2>6. Stack(ops'[e])
        BY <1>5, <2>2, <2>3, <2>4, <2>5 DEF Stack
    <2>7. Control(e)'
        BY <1>3, <1>4, <1>5, <1>6, <1>8, <2>6 DEF Control, NoWire, WireOp, Busy, Destroys, Moves
    <2>8. ASSUME ~raced PROVE Local(e)'
        <3>1. Belief(e) /\ Unknown(e)
            BY <2>8 DEF Inv, Truth, Local
        <3>2. Belief(e)'
            BY <1>1, <1>4, <3>1 DEF Belief, Stale
        <3>3. ~Live(e)'
            BY <1>4, <1>6 DEF Live, Busy, NoWire
        <3>4. CwdWhere(e)' /\ MkdWhere(e)'
            BY <3>3 DEF CwdWhere, MkdWhere
        <3>5. Len(ops'[e]) # 2 /\ (Len(ops'[e]) = 3 => Len(ops[e]) = 3 /\ ops'[e][2] = ops[e][2])
            <4>1. Len(ops[e]) # 2
                BY <2>2
            <4> QED BY <1>5, <2>5, <4>1
        <3>6. Detour(e)' /\ Unknown(e)'
            BY <3>1, <3>5 DEF Detour, Unknown
        <3>7. UserWhere(e)' /\ Made(e)'
            BY <1>3, <1>6 DEF UserWhere, Made
        <3> QED BY <3>2, <3>4, <3>6, <3>7 DEF Local
    <2> QED BY <1>1, <1>4, <1>5, <2>7, <2>8, WaitInv
<1> QED
    BY <1>1, <1>7, <1>8 DEF LocksFirst

(* An operation that has got its lock keeps the invariant. *)
LEMMA ObtainLockInv ==
    ASSUME Scope, Inv, NEW e \in Engines, OnObtainLock(e)
    PROVE  Inv'
<1> DEFINE t == Top(e)
           new == [t EXCEPT !.state = IF t.id = "cwd" THEN "cwd" ELSE "init"]
<1>1. turn = None /\ ops[e] # << >> /\ t.state = "waitlock" /\ SetTop(e, new) /\ turn' = e /\ Unsent
      /\ UNCHANGED <<cache, currentPath, invalidate, mkdOK>>
    BY DEF OnObtainLock
<1>2. Types /\ Control(e) /\ t \in OpType /\ ~Busy(e) /\ wire[e] = NoWire
    <2>1. Types /\ Control(e)
        BY DEF Inv
    <2> QED BY <1>1, <2>1, Shape DEF Control, WireOp, Busy
<1>3. Quiet(e)
    BY <1>1, <1>2 DEF Quiet, Unsent, Types
<1>4. /\ new \in OpType /\ new.id = t.id /\ new.path = t.path /\ new.subDir = t.subDir
      /\ new.target = t.target /\ new.flag = t.flag /\ new.state = (IF t.id = "cwd" THEN "cwd" ELSE "init")
    BY <1>2 DEF OpType, States
<1>5. /\ currentPath' \in [Engines -> MaybePaths] /\ cache' \subseteq Entries /\ cache' \subseteq cache
      /\ \A f \in Engines : currentPath'[f] = currentPath[f]
    BY <1>1, <1>2 DEF Types
<1>6. ~raced => CacheTrue' /\ (currentPath'[e] = None \/ at[e] = currentPath'[e] \/ Stale(e))
    <2>1. ~raced => CacheTrue /\ Belief(e)
        BY DEF Inv, Truth, Local
    <2> QED BY <1>1, <1>5, <2>1 DEF CacheTrue, Belief, Unsent, server
<1> HIDE DEF new
<1>7. CASE t.id = "cwd"
    <2>1. Len(ops[e]) = 2 /\ t = ops[e][2] /\ UserOp(ops[e][1]) /\ CwdOp(ops[e][1], t)
        BY <1>1, <1>2, <1>7, CwdFacts
    <2>2. ops[e][1].id = "stor" /\ ~t.flag /\ t.path # None
        BY <1>1, <2>1 DEF CwdOp, UserOp
    <2>3. ops[e][1].meant # None => <<t.path, t.subDir>> = ops[e][1].meant
        BY <2>1, <2>2 DEF CwdOp
    <2>4. CwdOp(ops[e][1], new)
        BY <1>4, <1>7, <2>1, <2>2, <2>3 DEF CwdOp
    <2>5. ~raced => t.target \in {None, t.path}
        BY <1>1, <2>1 DEF Inv, Truth, Local, Unknown
    <2> QED
        BY <1>1, <1>3, <1>4, <1>5, <1>6, <1>7, <2>2, <2>3, <2>4, <2>5, CwdGoInv
<1>8. CASE t.id # "cwd"
    <2>1. t.id = "mkd"
        <3>1. t.id \notin {"cwd", "mkd"} => UserOp(t)
            BY <1>1, <1>2, Shape
        <3> QED BY <1>1, <1>8, <3>1 DEF UserOp, StatesOf
    <2>2. MkdOp(t)
        BY <1>1, <1>2, <2>1, Shape
    <2>3. MkdOp(new) /\ new.state = "init"
        BY <1>4, <1>8, <2>2 DEF MkdOp, StatesOf
    <2> QED
        BY <1>1, <1>3, <1>4, <1>5, <1>6, <2>1, <2>3, MkdGoInv
<1> QED
    BY <1>7, <1>8

(* What Push does to the stack *)
LEMMA PushOps ==
    ASSUME Types, NEW e \in Engines, ops[e] # << >>, NEW x \in OpType, NEW y \in OpType, Push(e, x, y)
    PROVE  /\ \A f \in Engines \ {e} : ops'[f] = ops[f]
           /\ ops' \in [Engines -> Seq(OpType)]
           /\ ops'[e] # << >> /\ Len(ops'[e]) = Len(ops[e]) + 1 /\ Last(ops'[e]) = y
           /\ ops'[e][Len(ops[e])] = x /\ ops'[e][Len(ops[e]) + 1] = y
           /\ \A i \in 1..(Len(ops[e]) - 1) : ops'[e][i] = ops[e][i]
<1> DEFINE a == Append(Append(Front(ops[e]), x), y)
<1>1. ops \in [Engines -> Seq(OpType)] /\ ops[e] \in Seq(OpType)
    BY DEF Types
<1>2. ops' = [ops EXCEPT ![e] = a]
    BY DEF Push
<1>3. /\ a \in Seq(OpType) /\ a # << >> /\ Len(a) = Len(ops[e]) + 1 /\ Last(a) = y
      /\ a[Len(ops[e])] = x /\ a[Len(ops[e]) + 1] = y
      /\ \A i \in 1..(Len(ops[e]) - 1) : a[i] = ops[e][i]
    BY <1>1, Pushed
<1> HIDE DEF a
<1> QED
    BY <1>1, <1>2, <1>3

(* A new change of directory is a state of an operation. *)
LEMMA NewOperation ==
    ASSUME NEW id \in Ids, NEW path \in MaybePaths, NEW subdir \in Segments, NEW flag \in BOOLEAN
    PROVE  LET o == Operation(id, path, subdir)
               c == ChangeDir(path, subdir, flag)
           IN  /\ o \in OpType /\ o.id = id /\ o.state = "init" /\ o.path = path /\ o.subDir = subdir /\ o.target = None
               /\ c \in OpType /\ c.id = "cwd" /\ c.state = "init" /\ c.path = path /\ c.subDir = subdir
               /\ c.target = None /\ c.flag = flag
<1>1. /\ None \in MaybePaths /\ None \in Segments /\ None \in Places /\ None \in Parents /\ << >> \in Seq(Names)
      /\ "init" \in States /\ "cwd" \in Ids
    BY DEF MaybePaths, Segments, Places, Parents, States, Ids
<1>2. Operation(id, path, subdir) \in OpType /\ Operation("cwd", path, subdir) \in OpType
    BY <1>1 DEF Operation, OpType
<1>3. ChangeDir(path, subdir, flag) \in OpType
    BY <1>2 DEF ChangeDir, OpType
<1> QED
    BY <1>2, <1>3 DEF Operation, ChangeDir

(* An operation that goes to its directory keeps the invariant. *)
LEMMA GoToDirectoryInv ==
    ASSUME Scope, Inv, NEW e \in Engines, GoToDirectory(e)
    PROVE  Inv'
<1> DEFINE t == Top(e)
           x == [t EXCEPT !.state = "waitcwd"]
           y == ChangeDir(t.path, IF t.id = "list" THEN t.subDir ELSE None, t.id = "stor")
<1>1. /\ turn = e /\ ops[e] # << >> /\ t.id \in {"list", "rmd", "rename", "dele", "stor"}
      /\ t.state \in {"init", "fallback"} /\ Push(e, x, y) /\ Continue(e)
    BY DEF GoToDirectory
<1>2. Types /\ Control(e) /\ t \in OpType /\ None \in Segments /\ wire[e] = NoWire
    BY <1>1, SendFacts
<1>3. /\ UserOp(t) /\ t.path \in MaybePaths /\ t.subDir \in Segments /\ t.meant \in Places
      /\ Len(ops[e]) = 1
    BY <1>1, <1>2, UserFacts, Shape
<1>4. /\ x \in OpType /\ x.state = "waitcwd" /\ x.id = t.id /\ x.path = t.path /\ x.subDir = t.subDir
      /\ x.meant = t.meant /\ x.flag = t.flag /\ x.toPath = t.toPath /\ x.toName = t.toName /\ x.target = t.target
    BY <1>2 DEF OpType, States
<1>5. /\ y \in OpType /\ y.id = "cwd" /\ y.state = "init" /\ y.path = t.path
      /\ y.subDir = (IF t.id = "list" THEN t.subDir ELSE None) /\ y.target = None /\ y.flag = (t.id = "stor")
    <2> DEFINE n == IF t.id = "list" THEN t.subDir ELSE None
               b == t.id = "stor"
    <2>1. n \in Segments /\ b \in BOOLEAN
        BY <1>2, <1>3
    <2> HIDE DEF n, b
    <2>2. /\ ChangeDir(t.path, n, b) \in OpType /\ ChangeDir(t.path, n, b).id = "cwd"
          /\ ChangeDir(t.path, n, b).state = "init" /\ ChangeDir(t.path, n, b).path = t.path
          /\ ChangeDir(t.path, n, b).subDir = n /\ ChangeDir(t.path, n, b).target = None
          /\ ChangeDir(t.path, n, b).flag = b
        <3>1. "cwd" \in Ids
            BY DEF Ids
        <3>2. ChangeDir(t.path, n, b) \in OpType
            BY <1>3, <2>1, <3>1, NewOperation
        <3> QED
            BY <3>2 DEF ChangeDir, Operation
    <2> QED BY <2>2 DEF n, b
<1> HIDE DEF x, y
<1>6. t.meant # None => t.meant = <<t.meant[1], t.meant[2]>>
    BY <1>3 DEF Places
<1>7. UserOp(x)
    BY <1>1, <1>3, <1>4 DEF UserOp, StatesOf
<1>8. CwdOp(x, y)
    <2>1. t.meant # None => <<y.path, y.subDir>> = t.meant
        BY <1>1, <1>3, <1>5, <1>6 DEF UserOp
    <2>2. None # Up
        BY PathsAre DEF Scope
    <2>3. y.subDir = Up => y.path \in Canonical
        BY <1>3, <1>5, <2>2 DEF UserOp
    <2>4. y.flag => x.id = "stor"
        BY <1>4, <1>5
    <2> QED
        BY <1>1, <1>4, <1>5, <2>1, <2>3, <2>4 DEF CwdOp
<1>9. /\ \A f \in Engines \ {e} : ops'[f] = ops[f]
      /\ ops' \in [Engines -> Seq(OpType)]
      /\ ops'[e] # << >> /\ Len(ops'[e]) = 2 /\ Last(ops'[e]) = y /\ ops'[e][1] = x /\ ops'[e][2] = y
    <2>1. /\ \A f \in Engines \ {e} : ops'[f] = ops[f]
          /\ ops' \in [Engines -> Seq(OpType)]
          /\ ops'[e] # << >> /\ Len(ops'[e]) = Len(ops[e]) + 1 /\ Last(ops'[e]) = y
          /\ ops'[e][Len(ops[e])] = x /\ ops'[e][Len(ops[e]) + 1] = y
        BY <1>1, <1>2, <1>4, <1>5, PushOps
    <2>2. Len(ops[e]) + 1 = 2
        BY <1>3
    <2> QED BY <1>3, <2>1, <2>2
<1>10. Stack(ops'[e])
    <2>1. Len(ops'[e]) > 1 /\ Len(ops'[e]) >= 1 /\ Len(ops'[e]) <= 3 /\ Len(ops'[e]) # 3
        BY <1>9
    <2>2. x.id # "mkd"
        BY <1>1, <1>4
    <2> QED BY <1>4, <1>7, <1>8, <1>9, <2>1, <2>2 DEF Stack
<1>11. Quiet(e) /\ turn' = e /\ UNCHANGED <<invalidate, mkdOK, cache, currentPath>>
    BY <1>1, UnsentQuiet DEF Continue
<1>12. Top(e)' = y /\ wire'[e] = NoWire
    BY <1>9, <1>11 DEF Top, Quiet
<1>13. Control(e)'
    <2>1. mkdOK'[e] = None /\ invalidate'[e] = invalidate[e]
        BY <1>1, <1>2, <1>11 DEF Control
    <2> QED
        BY <1>5, <1>9, <1>10, <1>11, <1>12, <2>1 DEF Control, NoWire, WireOp, Busy, Destroys, Moves
<1>14. ASSUME ~raced PROVE Local(e)' /\ CacheTrue'
    <2>1. UNCHANGED <<dirs, link, pwdWorks, at, disturbed>>
        BY <1>11 DEF Quiet, server, observers
    <2>2. CacheTrue /\ Belief(e)
        BY <1>14 DEF Inv, Truth, Local
    <2>3. CacheTrue' /\ Belief(e)'
        BY <1>11, <2>1, <2>2 DEF CacheTrue, Belief, Stale
    <2>4. CwdWhere(e)' /\ MkdWhere(e)' /\ UserWhere(e)'
        BY <1>5, <1>12 DEF CwdWhere, MkdWhere, UserWhere, NoWire
    <2>5. Detour(e)' /\ Unknown(e)'
        <3>1. ops'[e][1].meant # None => <<ops'[e][2].path, ops'[e][2].subDir>> = ops'[e][1].meant
            BY <1>1, <1>3, <1>4, <1>5, <1>6, <1>9 DEF UserOp
        <3>2. Len(ops'[e]) # 3
            BY <1>9
        <3>3. ops'[e][2].state # "waitlock"
            BY <1>5, <1>9
        <3> QED BY <3>1, <3>2, <3>3 DEF Detour, Unknown
    <2>6. Made(e)'
        BY <1>2, <1>1, <1>11 DEF Made, Control
    <2> QED BY <2>3, <2>4, <2>5, <2>6 DEF Local
<1>15. Stale(e) => Stale(e)'
    BY <1>11 DEF Stale, Quiet, observers
<1>16. /\ currentPath' \in [Engines -> MaybePaths] /\ mkdOK' \in [Engines -> MaybePaths]
       /\ invalidate' \in [Engines -> BOOLEAN] /\ cache' \subseteq Entries
    BY <1>2, <1>11 DEF Types
<1> QED
    BY <1>9, <1>11, <1>13, <1>14, <1>15, <1>16, StepInv

(* A reply that the operation on top waits for has come. *)
Replied(e) ==
    /\ turn = None /\ wire[e].done /\ ~wire[e].skip
    /\ wire' = [wire EXCEPT ![e] = NoWire]
    /\ UNCHANGED <<server, pending, observers, commands, faults>>

(* What is known when a reply comes that is not skipped *)
LEMMA ParseFacts ==
    ASSUME Scope, Inv, NEW e \in Engines, Replied(e)
    PROVE  /\ Quiet(e) /\ Types /\ Control(e) /\ ops[e] # << >> /\ Sent(Top(e), wire[e]) /\ Live(e)
           /\ wire[e] \in WireType /\ WireOp(wire[e]) /\ Top(e) \in OpType
           /\ wire[e].reply \in {"none", "ok", "fail", "exists", "file", "unsupported"} /\ wire[e].tells \in MaybePaths
           /\ currentPath \in [Engines -> MaybePaths] /\ currentPath[e] \in MaybePaths /\ None \in MaybePaths
           /\ cache \subseteq Entries /\ turn # e
           /\ ~raced => CacheTrue /\ Local(e) /\ (UNCHANGED cache => CacheTrue')
<1>1. Types /\ Control(e)
    BY DEF Inv
<1>2. wire[e] \in WireType /\ wire \in [Engines -> WireType] /\ WireOp(wire[e])
    BY <1>1 DEF Types, Control
<1>3. Busy(e)
    BY <1>2 DEF Replied, WireOp, Busy, NoWire
<1>4. ops[e] # << >> /\ Sent(Top(e), wire[e]) /\ Live(e)
    BY <1>1, <1>3 DEF Control, Replied, Live
<1>5. Quiet(e)
    BY <1>2, NoWireType DEF Quiet, Replied
<1>6. Top(e) \in OpType
    BY <1>1, <1>4, Shape
<1>7. wire[e].reply \in {"none", "ok", "fail", "exists", "file", "unsupported"} /\ wire[e].tells \in MaybePaths
    BY <1>2 DEF WireType
<1>8. ~raced => CacheTrue /\ Local(e) /\ (UNCHANGED cache => CacheTrue')
    BY DEF Inv, Truth, Replied, server, CacheTrue
<1>9. turn # e
    BY WorkingDirAssumption DEF Replied
<1> QED
    BY <1>1, <1>2, <1>4, <1>5, <1>6, <1>7, <1>8, <1>9 DEF Types, MaybePaths

(* What GoOn does *)
LEMMA GoOnFacts ==
    ASSUME Types, NEW e \in Engines, NEW new, NEW cp \in MaybePaths, GoOn(e, new, cp)
    PROVE  /\ SetTop(e, new) /\ turn' = e /\ UNCHANGED <<invalidate, mkdOK>>
           /\ currentPath' \in [Engines -> MaybePaths] /\ \A f \in Engines \ {e} : currentPath'[f] = currentPath[f]
           /\ currentPath'[e] = cp
BY DEF GoOn, Types

(* Without a link, paths are what they say. *)
LEMMA NoLink ==
    ASSUME NEW D, NEW L, \A q : RealPath(L, q) = q, NEW p, Reach(D, L, p) # None
    PROVE  Reach(D, L, p) = p
BY DEF Reach

(* Without the link every path leads to itself. *)
LEMMA NoLinkLeads ==
    ASSUME NEW D, NEW L, \A q : RealPath(L, q) = q, NEW p, NEW n, Leads(D, L, p, n) # None, n # None, p # None
    PROVE  /\ n # Up => Leads(D, L, p, n) = AddSegment(p, n)
           /\ n = Up => Leads(D, L, p, n) = IF HasParent(p) THEN GetParent(p) ELSE p
<1>1. Reach(D, L, p) # None
    BY DEF Leads, Step
<1>2. Reach(D, L, p) = p
    BY <1>1, NoLink
<1>3. CASE n = Up
    BY <1>2, <1>3 DEF Leads, Step
<1>4. CASE n # Up
    <2>1. Leads(D, L, p, n) = Reach(D, L, AddSegment(p, n))
        BY <1>2, <1>4 DEF Leads, Step
    <2> QED BY <1>4, <2>1, NoLink
<1> QED BY <1>3, <1>4

(* A path alone leads where it leads. *)
LEMMA LeadsNone ==
    ASSUME NEW D, NEW L, NEW p
    PROVE  Leads(D, L, p, None) = Reach(D, L, p)
BY DEF Leads, Step

(* The states of a change of directory that waits for a reply *)
LEMMA CwdStates ==
    ASSUME Scope, Inv, NEW e \in Engines, Replied(e), Top(e).id = "cwd"
    PROVE  /\ Top(e).state \in {"pwd", "cwd", "pwd_cwd", "cwd_subdir", "pwd_subdir"}
           /\ Moving(e) /\ wire[e].verb \in Moves /\ currentPath[e] = None
           /\ Top(e).state \in {"pwd", "pwd_cwd", "pwd_subdir"} => wire[e].verb = "PWD"
           /\ ~raced => CwdWhere(e)
<1>1. Control(e) /\ Types /\ Sent(Top(e), wire[e]) /\ ops[e] # << >> /\ (~raced => Local(e))
    BY ParseFacts
<1>2. CwdOp(ops[e][1], Top(e))
    BY <1>1, CwdFacts
<1>3. Top(e).state \in {"init", "waitlock", "pwd", "cwd", "pwd_cwd", "cwd_subdir", "pwd_subdir"}
    BY <1>2 DEF CwdOp
<1>4. Top(e).state \notin {"init", "waitlock"}
    BY <1>1 DEF Sent
<1>5. wire[e].verb \in Moves /\ (Top(e).state \in {"pwd", "pwd_cwd", "pwd_subdir"} => wire[e].verb = "PWD")
    BY <1>1, <1>3, <1>4 DEF Sent, Moves
<1> QED
    BY <1>1, <1>3, <1>4, <1>5 DEF Control, Moving, Replied, Local

(* The path PWD tells, or the one assumed, is where the connection is. *)
LEMMA PwdTrue ==
    ASSUME Scope, Inv, NEW e \in Engines, Replied(e), Top(e).id = "cwd", Top(e).state \in {"pwd_cwd", "pwd_subdir"}
    PROVE  LET op == Top(e)
               assumed == IF op.state = "pwd_cwd" THEN op.path
                          ELSE IF op.subDir # Up THEN AddSegment(op.path, op.subDir)
                          ELSE IF HasParent(op.path) THEN GetParent(op.path)
                          ELSE None
               path == PathAfterPwd(wire[e], assumed)
           IN  path \in MaybePaths /\ (~raced /\ path # None => path = at[e])
<1> DEFINE op == Top(e)
           assumed == IF op.state = "pwd_cwd" THEN op.path
                      ELSE IF op.subDir # Up THEN AddSegment(op.path, op.subDir)
                      ELSE IF HasParent(op.path) THEN GetParent(op.path)
                      ELSE None
           path == PathAfterPwd(wire[e], assumed)
<1>1. /\ Control(e) /\ Types /\ ops[e] # << >> /\ wire[e].tells \in MaybePaths /\ None \in MaybePaths
      /\ Live(e) /\ wire[e].done
    BY ParseFacts DEF Replied
<1>2. CwdOp(ops[e][1], op) /\ op.path \in MaybePaths /\ op.subDir \in Segments
    BY <1>1, CwdFacts
<1>3. /\ op.path # None /\ op.path \in Paths
      /\ op.state = "pwd_subdir" => op.subDir # None /\ op.subDir \in LinkNames \cup {Up}
      /\ op.subDir = Up => op.path \in Canonical
    BY <1>2 DEF CwdOp, MaybePaths, Segments
<1>4. assumed \in MaybePaths
    <2>1. op.state = "pwd_subdir" /\ op.subDir # Up => AddSegment(op.path, op.subDir) \in Paths
        BY <1>3, CoversSegment DEF Paths
    <2>2. HasParent(op.path) => GetParent(op.path) \in Paths
        BY <1>3, ParentIs DEF Paths
    <2> QED BY <1>1, <1>2, <2>1, <2>2 DEF MaybePaths
<1>5. ASSUME ~raced, path # None PROVE path = at[e]
    <2>1. CwdWhere(e) /\ wire[e].verb = "PWD"
        BY <1>5, CwdStates
    <2>2. CASE wire[e].reply = "ok"
        <3>1. wire[e].tells = at[e]
            BY <1>1, <2>1, <2>2 DEF CwdWhere
        <3> QED BY <2>2, <3>1 DEF PathAfterPwd
    <2>3. CASE wire[e].reply # "ok"
        <3>1. path = assumed
            BY <2>3 DEF PathAfterPwd
        <3>2. ~pwdWorks
            BY <1>1, <2>1, <2>3 DEF CwdWhere
        <3>3. \A q : RealPath(link, q) = q
            BY <1>1, <3>2 DEF Types, RealPath
        <3>4. CASE op.state = "pwd_cwd"
            <4>1. AtPath(e, op.path)
                BY <1>1, <2>1, <3>4 DEF CwdWhere
            <4>2. at[e] = op.path
                BY <3>3, <4>1, NoLink DEF AtPath
            <4> QED BY <3>1, <3>4, <4>2
        <3>5. CASE op.state = "pwd_subdir"
            <4>1. AtEntry(e, op.path, op.subDir)
                BY <1>1, <2>1, <3>5 DEF CwdWhere
            <4>2. at[e] = IF op.subDir # Up THEN AddSegment(op.path, op.subDir)
                          ELSE IF HasParent(op.path) THEN GetParent(op.path) ELSE op.path
                <5>1. at[e] # None /\ at[e] = Leads(dirs, link, op.path, op.subDir)
                    BY <4>1 DEF AtEntry
                <5>2. op.subDir # None /\ op.path # None
                    BY <1>3, <3>5
                <5>3. Leads(dirs, link, op.path, op.subDir) # None
                    BY <5>1
                <5>4. /\ op.subDir # Up => Leads(dirs, link, op.path, op.subDir) = AddSegment(op.path, op.subDir)
                      /\ op.subDir = Up => Leads(dirs, link, op.path, op.subDir) =
                                            IF HasParent(op.path) THEN GetParent(op.path) ELSE op.path
                    BY ONLY <3>3, <5>2, <5>3, NoLinkLeads
                <5> QED BY <5>1, <5>4
            <4>3. assumed = IF op.subDir # Up THEN AddSegment(op.path, op.subDir)
                            ELSE IF HasParent(op.path) THEN GetParent(op.path) ELSE None
                BY <3>5
            <4> HIDE DEF assumed, path
            <4> QED BY <1>5, <3>1, <4>2, <4>3
        <3> QED BY <3>4, <3>5
    <2> QED BY <2>2, <2>3
<1>6. path \in MaybePaths
    BY <1>1, <1>4 DEF PathAfterPwd
<1> QED
    BY <1>5, <1>6

(* A true path stored in a true cache leaves it true. *)
LEMMA StoreTrue ==
    ASSUME CacheTrue, UNCHANGED <<dirs, link>>, NEW target, NEW source, NEW subdir,
           cache' = Store(cache, target, source, subdir),
           Leads(dirs, link, source, subdir) = target, subdir = Up => source \in Canonical
    PROVE  CacheTrue'
<1>1. ASSUME NEW x \in cache'
      PROVE  Leads(dirs, link, x.source, x.subdir) = x.target /\ (x.subdir = Up => x.source \in Canonical)
    <2>1. CASE x \in cache
        BY <2>1 DEF CacheTrue
    <2>2. CASE x = [source |-> source, subdir |-> subdir, target |-> target]
        BY <2>2
    <2> QED BY <2>1, <2>2 DEF Store
<1> QED
    BY <1>1 DEF CacheTrue

(* The reply to PWD keeps the invariant: path and cache entry are what the *)
(* server says; if it does not say, they are right because there is no     *)
(* link.                                                                   *)
LEMMA ParsePwdInv ==
    ASSUME Scope, Inv, NEW e \in Engines, Replied(e), Top(e).id = "cwd", Top(e).state \in {"pwd_cwd", "pwd_subdir"},
           ParsePwd(e, wire[e])
    PROVE  Inv'
<1> DEFINE op == Top(e)
           p == ops[e][1]
           assumed == IF op.state = "pwd_cwd" THEN op.path
                      ELSE IF op.subDir # Up THEN AddSegment(op.path, op.subDir)
                      ELSE IF HasParent(op.path) THEN GetParent(op.path)
                      ELSE None
           path == PathAfterPwd(wire[e], assumed)
           subdir == IF op.state = "pwd_cwd" THEN None ELSE op.subDir
           new == [op EXCEPT !.state = "cwd_subdir"]
<1>1. /\ Quiet(e) /\ Types /\ Control(e) /\ ops[e] # << >> /\ Live(e) /\ op \in OpType
      /\ currentPath \in [Engines -> MaybePaths] /\ None \in MaybePaths /\ cache \subseteq Entries
      /\ ~raced => CacheTrue /\ Local(e) /\ (UNCHANGED cache => CacheTrue')
    BY ParseFacts
<1>2. /\ CwdOp(p, op) /\ op.path \in MaybePaths /\ op.subDir \in Segments
      /\ p.id \in {"rmd", "rename"} => op.path \in Canonical /\ p.path = op.path /\ p.path # None
      /\ p.meant # None => p.meant[1] = op.path /\ p.meant[2] = op.subDir /\ p.meant = <<op.path, op.subDir>>
    BY <1>1, CwdFacts
<1>3. /\ op.path # None /\ op.path \in Paths /\ op.target = None
      /\ op.state = "pwd_subdir" => op.subDir # None
      /\ op.subDir = Up => op.path \in Canonical
      /\ p.id # "list" => op.subDir = None
    BY <1>2 DEF CwdOp, MaybePaths
<1>4. /\ Moving(e) /\ currentPath[e] = None /\ (~raced => CwdWhere(e))
    BY CwdStates
<1>5. path \in MaybePaths /\ (~raced /\ path # None => path = at[e])
    BY PwdTrue
<1>6. ~raced => /\ op.state = "pwd_cwd" => AtPath(e, op.path)
                /\ op.state = "pwd_subdir" => AtEntry(e, op.path, op.subDir)
    BY <1>1, <1>4 DEF CwdWhere
<1>7. IF path = None THEN ResetOperation(e, op, FALSE, currentPath[e]) /\ UNCHANGED cache
      ELSE /\ cache' = Store(cache, path, op.path, subdir)
           /\ IF op.state = "pwd_cwd" /\ op.subDir # None
              THEN GoOn(e, new, path)
              ELSE ResetOperation(e, op, TRUE, path)
    BY <1>3 DEF ParsePwd
<1> HIDE DEF path
<1>8. CASE path = None
    <2>1. ResetOperation(e, op, FALSE, None) /\ UNCHANGED cache
        BY <1>4, <1>7, <1>8
    <2> QED
        BY <1>1, <1>4, <2>1, ResetInv
<1>9. ASSUME path # None PROVE Inv'
    <2>1. cache' = Store(cache, path, op.path, subdir)
        BY <1>7, <1>9
    <2>2. path \in Paths
        BY <1>5, <1>9 DEF MaybePaths
    <2>3. cache' \subseteq Entries
        <3>1. subdir \in Segments
            BY <1>2 DEF Segments
        <3> QED
            BY <1>1, <1>3, <2>1, <2>2, <3>1 DEF Store, Entries
    <2>4. ASSUME ~raced
          PROVE  CacheTrue' /\ path = at[e] /\ Leads(dirs, link, op.path, subdir) = path
        <3>1. path = at[e] /\ CacheTrue
            BY <1>1, <1>5, <1>9, <2>4
        <3>2. Leads(dirs, link, op.path, subdir) = path
            <4>1. CASE op.state = "pwd_cwd"
                BY <1>6, <2>4, <3>1, <4>1, LeadsNone DEF AtPath
            <4>2. CASE op.state = "pwd_subdir"
                BY <1>6, <2>4, <3>1, <4>2 DEF AtEntry
            <4> QED BY <4>1, <4>2
        <3>3. subdir = Up => op.path \in Canonical
            BY <1>3, PathsAre DEF Scope
        <3>4. UNCHANGED <<dirs, link>>
            BY DEF Replied, server
        <3> HIDE DEF subdir
        <3> QED BY <2>1, <3>1, <3>2, <3>3, <3>4, StoreTrue
    <2>5. CASE op.state = "pwd_cwd" /\ op.subDir # None
        <3>1. GoOn(e, new, path)
            BY <1>7, <1>9, <2>5
        <3>2. /\ new \in OpType /\ new.id = op.id /\ new.state = "cwd_subdir" /\ new.path = op.path
                  /\ new.subDir = op.subDir
              /\ new.target = op.target /\ new.flag = op.flag
            BY <1>1 DEF OpType, States
        <3> HIDE DEF new
        <3>3. CwdOp(p, new)
            BY <1>2, <1>3, <2>5, <3>2 DEF CwdOp
        <3>4. /\ SetTop(e, new) /\ turn' = e /\ UNCHANGED <<invalidate, mkdOK>>
              /\ currentPath' \in [Engines -> MaybePaths] /\ \A f \in Engines \ {e} : currentPath'[f] = currentPath[f]
              /\ currentPath'[e] = path
            BY <1>1, <1>5, <3>1, GoOnFacts
        <3>5. ~raced => AtPath(e, new.path) /\ at[e] = currentPath'[e]
            BY <1>6, <2>4, <2>5, <3>2, <3>4
        <3>6. p.meant # None => <<new.path, new.subDir>> = p.meant
            BY <1>2, <3>2
        <3> QED
            BY <1>1, <1>4, <2>3, <2>4, <3>2, <3>3, <3>4, <3>5, <3>6, CwdGoInv
    <2>6. CASE ~(op.state = "pwd_cwd" /\ op.subDir # None)
        <3>1. ResetOperation(e, op, TRUE, path)
            BY <1>7, <1>9, <2>6
        <3>2. subdir = op.subDir
            BY <2>6
        <3>3. ASSUME ~raced, p.meant # None PROVE AtEntry(e, p.meant[1], p.meant[2])
            BY <1>2, <1>9, <2>4, <3>2, <3>3 DEF AtEntry
        <3>4. ASSUME ~raced, p.id \in {"rmd", "rename"} PROVE path = p.path
            <4>1. op.subDir = None /\ op.path \in Canonical /\ p.path = op.path
                BY <1>2, <1>3, <3>4
            <4>2. Reach(dirs, link, op.path) = path
                BY <2>4, <3>2, <3>4, <4>1, LeadsNone
            <4>3. Outside
                BY DEF Scope
            <4> QED BY <1>9, <4>1, <4>2, <4>3, ReachCanonical
        <3> QED
            BY <1>1, <1>4, <1>5, <1>9, <2>3, <2>4, <3>1, <3>3, <3>4, ResetInv
    <2> QED BY <2>5, <2>6
<1> QED
    BY <1>8, <1>9

(* CWD has failed for an upload: the directory is to be created. *)
LEMMA CwdPushInv ==
    ASSUME Scope, Inv, NEW e \in Engines, Replied(e), Top(e).id = "cwd", Top(e).state = "cwd", wire[e].reply # "ok",
           Top(e).flag, Push(e, [Top(e) EXCEPT !.flag = FALSE], Operation("mkd", Top(e).path, None)), turn' = e,
           UNCHANGED <<currentPath, invalidate, mkdOK, cache>>
    PROVE  Inv'
<1> DEFINE op == Top(e)
           p == ops[e][1]
           x == [op EXCEPT !.flag = FALSE]
           y == Operation("mkd", op.path, None)
<1>1. /\ Quiet(e) /\ Types /\ Control(e) /\ ops[e] # << >> /\ Live(e) /\ op \in OpType
      /\ currentPath \in [Engines -> MaybePaths] /\ cache \subseteq Entries
      /\ ~raced => CacheTrue /\ Local(e) /\ CacheTrue'
    BY ParseFacts
<1>2. CwdOp(p, op) /\ op.path \in MaybePaths /\ Len(ops[e]) = 2 /\ UserOp(p) /\ p.state = "waitcwd"
    BY <1>1, CwdFacts
<1>3. p.id = "stor" /\ op.path \in Canonical
    BY <1>2 DEF CwdOp, UserOp
<1>4. /\ x \in OpType /\ x.id = "cwd" /\ x.state = "cwd" /\ x.path = op.path /\ x.subDir = op.subDir
      /\ x.target = op.target /\ x.flag = FALSE
    BY <1>1 DEF OpType
<1>5. y \in OpType
    <2>1. "mkd" \in Ids /\ None \in Segments /\ FALSE \in BOOLEAN
        BY DEF Ids, Segments
    <2> QED BY <1>2, <2>1, NewOperation
<1>6. y.id = "mkd" /\ y.state = "init" /\ y.path = op.path
    BY DEF Operation
<1> HIDE DEF x, y
<1>7. CwdOp(p, x)
    BY <1>2, <1>4 DEF CwdOp
<1>8. MkdOp(y)
    BY <1>3, <1>6 DEF MkdOp, StatesOf
<1>9. /\ \A f \in Engines \ {e} : ops'[f] = ops[f]
      /\ ops' \in [Engines -> Seq(OpType)]
      /\ ops'[e] # << >> /\ Len(ops'[e]) = 3 /\ Last(ops'[e]) = y /\ ops'[e][1] = p /\ ops'[e][2] = x /\ ops'[e][3] = y
    <2>1. Push(e, x, y)
        BY DEF x, y
    <2>2. /\ \A f \in Engines \ {e} : ops'[f] = ops[f]
          /\ ops' \in [Engines -> Seq(OpType)]
          /\ ops'[e] # << >> /\ Len(ops'[e]) = Len(ops[e]) + 1 /\ Last(ops'[e]) = y
          /\ ops'[e][Len(ops[e])] = x /\ ops'[e][Len(ops[e]) + 1] = y
          /\ \A i \in 1..(Len(ops[e]) - 1) : ops'[e][i] = ops[e][i]
        BY <1>1, <1>4, <1>5, <2>1, PushOps
    <2>3. Len(ops[e]) + 1 = 3 /\ 1 \in 1..(Len(ops[e]) - 1)
        BY <1>2
    <2> QED BY <1>2, <2>2, <2>3
<1>10. Stack(ops'[e])
    <2>1. Len(ops'[e]) > 1 /\ Len(ops'[e]) >= 1 /\ Len(ops'[e]) >= 2 /\ Len(ops'[e]) <= 3
        BY <1>9
    <2>2. p.id # "mkd"
        BY <1>3
    <2> QED BY <1>2, <1>3, <1>4, <1>7, <1>8, <1>9, <2>1, <2>2 DEF Stack
<1>11. Top(e)' = y /\ wire'[e] = NoWire
    BY <1>1, <1>9 DEF Top, Quiet
<1>12. mkdOK'[e] = None /\ invalidate'[e] = invalidate[e]
    BY <1>1 DEF Control
<1>13. Control(e)'
    BY <1>6, <1>9, <1>10, <1>11, <1>12 DEF Control, NoWire, WireOp, Busy, Destroys, Moves
<1>14. ASSUME ~raced PROVE Local(e)'
    <2>1. UNCHANGED <<dirs, link, pwdWorks, at, disturbed>>
        BY <1>1 DEF Quiet, server, observers
    <2>2. Belief(e) /\ CwdWhere(e)
        BY <1>1, <1>14 DEF Local
    <2>3. Belief(e)'
        BY <2>1, <2>2 DEF Belief, Stale
    <2>4. CwdWhere(e)' /\ MkdWhere(e)' /\ UserWhere(e)' /\ Made(e)'
        BY <1>6, <1>11, <1>12 DEF CwdWhere, MkdWhere, UserWhere, Made
    <2>5. op.target = None
        BY <1>1, <2>2 DEF CwdWhere, Replied, Waited
    <2>6. Detour(e)'
        <3>1. Len(ops'[e]) # 2
            BY <1>9
        <3> QED BY <3>1 DEF Detour
    <2>7. Unknown(e)'
        BY <1>4, <1>9, <2>5 DEF Unknown
    <2> QED BY <2>3, <2>4, <2>6, <2>7 DEF Local
<1>15. Stale(e) => Stale(e)'
    BY <1>1 DEF Stale, Quiet, observers
<1>16. /\ currentPath' \in [Engines -> MaybePaths] /\ mkdOK' \in [Engines -> MaybePaths]
       /\ invalidate' \in [Engines -> BOOLEAN] /\ cache' \subseteq Entries
    BY <1>1 DEF Types
<1> QED
    BY <1>1, <1>9, <1>13, <1>14, <1>15, <1>16, StepInv

(* A reply to a change of directory keeps the invariant. *)
LEMMA ParseCwdInv ==
    ASSUME Scope, Inv, NEW e \in Engines, Replied(e), Top(e).id = "cwd", ParseCwd(e, wire[e])
    PROVE  Inv'
<1> DEFINE op == Top(e)
           p == ops[e][1]
           r == wire[e]
<1>1. /\ Quiet(e) /\ Types /\ Control(e) /\ ops[e] # << >> /\ Live(e) /\ op \in OpType
      /\ currentPath \in [Engines -> MaybePaths] /\ None \in MaybePaths /\ cache \subseteq Entries
      /\ WireOp(r) /\ r.tells \in MaybePaths /\ r.done
      /\ ~raced => CacheTrue /\ Local(e) /\ (UNCHANGED cache => CacheTrue')
    BY ParseFacts DEF Replied
<1>2. /\ CwdOp(p, op) /\ op.path \in MaybePaths /\ op.subDir \in Segments /\ op.target \in MaybePaths /\ UserOp(p)
      /\ p.id \in {"rmd", "rename"} => op.path \in Canonical /\ p.path = op.path /\ p.path # None
      /\ p.meant # None => p.meant[1] \in Paths
      /\ p.meant # None /\ op.state # "cwd" => p.meant[1] = op.path /\ p.meant[2] = op.subDir
          /\ p.meant = <<op.path, op.subDir>>
      /\ Len(ops[e]) = 2 /\ op = ops[e][2]
    BY <1>1, CwdFacts
<1>3. /\ Moving(e) /\ currentPath[e] = None /\ (~raced => CwdWhere(e) /\ Detour(e))
      /\ op.state \in {"pwd", "cwd", "pwd_cwd", "cwd_subdir", "pwd_subdir"}
      /\ op.state \in {"pwd", "pwd_cwd", "pwd_subdir"} => r.verb = "PWD"
    BY <1>1, CwdStates DEF Local
<1>4. ASSUME NEW new \in OpType, NEW cp \in MaybePaths, GoOn(e, new, cp), UNCHANGED cache,
             CwdOp(p, new), new.state \in {"pwd_cwd", "pwd_subdir"} => cp = None, new.state \notin {"pwd", "cwd", "waitlock"},
             ~raced => /\ cp = None \/ at[e] = cp
                       /\ new.state = "pwd_cwd" => AtPath(e, new.path)
                       /\ new.state = "cwd_subdir" => AtPath(e, new.path)
                       /\ new.state = "pwd_subdir" => AtEntry(e, new.path, new.subDir)
      PROVE  Inv'
    <2>1. /\ SetTop(e, new) /\ turn' = e /\ UNCHANGED <<invalidate, mkdOK>>
          /\ currentPath' \in [Engines -> MaybePaths] /\ \A f \in Engines \ {e} : currentPath'[f] = currentPath[f]
          /\ currentPath'[e] = cp
        BY <1>1, <1>4, GoOnFacts
    <2>2. p.meant # None => <<new.path, new.subDir>> = p.meant
        BY <1>4 DEF CwdOp
    <2>3. cache' \subseteq Entries
        BY <1>1, <1>4
    <2> QED
        BY <1>1, <1>3, <1>4, <2>1, <2>2, <2>3, CwdGoInv
<1>5. ASSUME ResetOperation(e, op, FALSE, None), UNCHANGED cache PROVE Inv'
    BY <1>1, <1>3, <1>5, ResetInv
<1>6. CASE op.state = "pwd"
    <2> DEFINE ok == r.reply = "ok"
               cp == PathAfterPwd(r, None)
    <2>1. ResetOperation(e, op, ok, cp) /\ UNCHANGED cache
        BY <1>6 DEF ParseCwd
    <2>2. cp \in MaybePaths /\ ok \in BOOLEAN /\ (~ok => cp = None)
        BY <1>1 DEF PathAfterPwd
    <2>3. ok => cp # None
        BY <1>1, <1>3, <1>6, PathsAre DEF WireOp, PathAfterPwd, Scope
    <2>4. ~raced => cp = None \/ at[e] = cp
        BY <1>1, <1>3, <1>6 DEF CwdWhere, PathAfterPwd
    <2>5. p.meant = None /\ p.id \notin {"rmd", "rename"}
        <3>1. op.path = None
            BY <1>2, <1>6 DEF CwdOp
        <3> QED BY <1>2, <1>6, <3>1, PathsAre DEF Scope
    <2> HIDE DEF ok, cp
    <2> QED
        BY <1>1, <1>3, <2>1, <2>2, <2>3, <2>4, <2>5, ResetInv
<1>7. ASSUME op.state = "cwd", r.reply = "ok" PROVE Inv'
    <2>1. /\ IF op.target = None THEN GoOn(e, [op EXCEPT !.state = "pwd_cwd"], None)
             ELSE IF op.subDir = None THEN ResetOperation(e, op, TRUE, op.target)
             ELSE GoOn(e, [op EXCEPT !.target = None, !.state = "cwd_subdir"], op.target)
          /\ UNCHANGED cache
        BY <1>7 DEF ParseCwd
    <2>2. ~raced => AtPath(e, op.path) /\ (op.target # None => at[e] = op.target)
        <3>1. ~raced => AtPath(e, op.path) /\ (op.target # None => Reach(dirs, link, op.path) = op.target \/ Waited(e))
            BY <1>1, <1>3, <1>7 DEF CwdWhere
        <3>2. Waited(e) => op.path \in Canonical /\ op.target = op.path
            BY <1>2 DEF Waited, CwdOp, UserOp
        <3> QED BY <3>1, <3>2, ReachCanonical DEF AtPath, Scope
    <2>3. op.path # None
        BY <1>2, <1>7 DEF CwdOp
    <2>4. CASE op.target = None
        <3> DEFINE new == [op EXCEPT !.state = "pwd_cwd"]
        <3>1. GoOn(e, new, None)
            BY <2>1, <2>4
        <3>2. /\ new \in OpType /\ new.id = op.id /\ new.state = "pwd_cwd" /\ new.path = op.path /\ new.subDir = op.subDir
              /\ new.target = op.target /\ new.flag = op.flag
            BY <1>1 DEF OpType, States
        <3> HIDE DEF new
        <3>3. CwdOp(p, new)
            BY <1>2, <2>3, <2>4, <3>2 DEF CwdOp
        <3> QED
            BY <1>1, <1>4, <2>1, <2>2, <3>1, <3>2, <3>3
    <2>5. CASE op.target # None /\ op.subDir # None
        <3> DEFINE new == [op EXCEPT !.target = None, !.state = "cwd_subdir"]
        <3>1. GoOn(e, new, op.target)
            BY <2>1, <2>5
        <3>2. /\ new \in OpType /\ new.id = op.id /\ new.state = "cwd_subdir" /\ new.path = op.path
                  /\ new.subDir = op.subDir
              /\ new.target = None /\ new.flag = op.flag
            BY <1>1 DEF OpType, States
        <3> HIDE DEF new
        <3>3. CwdOp(p, new)
            BY <1>2, <2>3, <2>5, <3>2 DEF CwdOp
        <3> QED
            BY <1>2, <1>4, <2>1, <2>2, <2>5, <3>1, <3>2, <3>3
    <2>6. CASE op.target # None /\ op.subDir = None
        <3>1. ResetOperation(e, op, TRUE, op.target)
            BY <2>1, <2>6
        <3>2. ASSUME ~raced, p.id \in {"rmd", "rename"} PROVE op.target = p.path
            <4>1. Reach(dirs, link, op.path) = op.target /\ Outside
                BY <2>2, <2>6, <3>2 DEF AtPath, Scope
            <4> QED BY <1>2, <2>6, <3>2, <4>1, ReachCanonical
        <3>3. ASSUME ~raced, ~disturbed[e], p.meant # None PROVE AtEntry(e, p.meant[1], p.meant[2])
            <4>1. CASE <<op.path, op.subDir>> = p.meant
                <5>1. p.meant[1] = op.path /\ p.meant[2] = None
                    BY <2>6, <4>1
                <5> QED BY <2>2, <3>3, <5>1, LeadsNone DEF AtPath, AtEntry
            <4>2. CASE <<op.path, op.subDir>> # p.meant
                <5>1. op.target = op.path
                    BY <1>2, <3>3, <4>2 DEF CwdOp
                <5>2. Leads(dirs, link, p.meant[1], p.meant[2]) = op.path
                    BY <1>2, <1>3, <3>3, <4>2 DEF Detour
                <5> QED BY <2>2, <2>6, <3>3, <5>1, <5>2 DEF AtEntry
            <4> QED BY <4>1, <4>2
        <3> QED
            BY <1>1, <1>2, <1>3, <2>1, <2>2, <2>6, <3>1, <3>2, <3>3, ResetInv
    <2> QED BY <2>4, <2>5, <2>6
<1>8. ASSUME op.state = "cwd", r.reply # "ok" PROVE Inv'
    <2>1. /\ IF op.flag
             THEN /\ Push(e, [op EXCEPT !.flag = FALSE], Operation("mkd", op.path, None))
                  /\ turn' = e
                  /\ UNCHANGED <<currentPath, invalidate, mkdOK>>
             ELSE ResetOperation(e, op, FALSE, None)
          /\ UNCHANGED cache
        BY <1>8 DEF ParseCwd
    <2>2. CASE op.flag
        BY <1>8, <2>1, <2>2, CwdPushInv
    <2>3. CASE ~op.flag
        BY <1>5, <2>1, <2>3
    <2> QED BY <2>2, <2>3
<1>9. ASSUME op.state = "cwd_subdir" PROVE Inv'
    <2>1. UNCHANGED cache /\ op.path # None /\ op.subDir # None /\ op.target = None
        BY <1>2, <1>9 DEF ParseCwd, CwdOp
    <2>2. CASE r.reply = "ok"
        <3> DEFINE new == [op EXCEPT !.state = "pwd_subdir"]
        <3>1. GoOn(e, new, None)
            BY <1>9, <2>2 DEF ParseCwd
        <3>2. /\ new \in OpType /\ new.id = op.id /\ new.state = "pwd_subdir" /\ new.path = op.path
                  /\ new.subDir = op.subDir
              /\ new.target = op.target /\ new.flag = op.flag
            BY <1>1 DEF OpType, States
        <3> HIDE DEF new
        <3>3. CwdOp(p, new)
            BY <1>2, <1>9, <2>1, <3>2 DEF CwdOp
        <3>4. ~raced => AtEntry(e, op.path, op.subDir)
            BY <1>1, <1>3, <1>9, <2>2 DEF CwdWhere
        <3> QED
            BY <1>1, <1>4, <2>1, <3>1, <3>2, <3>3, <3>4
    <2>3. CASE r.reply = "unsupported" /\ op.subDir = Up /\ ~op.tried
        <3> DEFINE new == [op EXCEPT !.tried = TRUE]
        <3>1. GoOn(e, new, None)
            BY <1>9, <2>3 DEF ParseCwd
        <3>2. /\ new \in OpType /\ new.id = op.id /\ new.state = "cwd_subdir" /\ new.path = op.path
                  /\ new.subDir = op.subDir
              /\ new.target = op.target /\ new.flag = op.flag
            BY <1>1, <1>9 DEF OpType
        <3> HIDE DEF new
        <3>3. CwdOp(p, new)
            BY <1>2, <1>9, <2>1, <3>2 DEF CwdOp
        <3>4. ~raced => AtPath(e, op.path)
            BY <1>1, <1>3, <1>9, <2>3, WorkingDirAssumption DEF CwdWhere, Replied
        <3> QED
            BY <1>1, <1>4, <2>1, <3>1, <3>2, <3>3, <3>4
    <2>4. CASE r.reply # "ok" /\ ~(r.reply = "unsupported" /\ op.subDir = Up /\ ~op.tried)
        <3>1. ResetOperation(e, op, FALSE, None)
            BY <1>9, <2>4 DEF ParseCwd
        <3> QED BY <1>5, <2>1, <3>1
    <2> QED BY <2>2, <2>3, <2>4
<1>10. ASSUME op.state \in {"pwd_cwd", "pwd_subdir"} PROVE Inv'
    <2>1. ParsePwd(e, r)
        BY <1>10 DEF ParseCwd
    <2> QED BY <1>10, <2>1, ParsePwdInv
<1> QED
    BY <1>3, <1>6, <1>7, <1>8, <1>9, <1>10

(* q is looked for or gone to, and the segments s of path are to be created there *)
Segmented(path, q, s) ==
    /\ s # << >> /\ Len(q) + Len(s) = Len(path)
    /\ \A i \in 1..Len(q) : q[i] = path[i]
    /\ \A i \in 1..Len(s) : s[i] = path[Len(path) + 1 - i]

(* One directory up: the last segment has to be created too. *)
LEMMA SegmentedUp ==
    ASSUME NEW path \in Canonical, NEW q \in Canonical, NEW s \in Seq(Names), Segmented(path, q, s), HasParent(q)
    PROVE  /\ Segmented(path, GetParent(q), Append(s, Last(q)))
           /\ GetParent(q) \in Canonical /\ Append(s, Last(q)) \in Seq(Names)
<1> DEFINE k == Len(q)
           l == Last(q)
           g == GetParent(q)
           a == Append(s, l)
<1>1. /\ g \in Canonical /\ l \in Names /\ Len(g) = k - 1 /\ Covers(g, q)
      /\ k \in Nat /\ k >= 1 /\ l = q[k] /\ Len(s) \in Nat /\ Len(path) \in Nat
    BY ParentIs, LenProperties DEF Canonical, HasParent, Last
<1>2. /\ a \in Seq(Names) /\ Len(a) = Len(s) + 1 /\ a[Len(s) + 1] = l
      /\ \A i \in 1..Len(s) : a[i] = s[i]
    BY <1>1, AppendProperties
<1> HIDE DEF g, a, l
<1>3. \A i \in 1..(k - 1) : g[i] = q[i]
    BY <1>1, CoversIs DEF Canonical
<1>4. a # << >> /\ Len(g) + Len(a) = Len(path)
    <2>1. (k - 1) + (Len(s) + 1) = Len(path) /\ Len(s) + 1 # 0
        <3> DEFINE ls == Len(s)
                   lp == Len(path)
        <3>1. k \in Nat /\ ls \in Nat /\ lp \in Nat /\ k + ls = lp
            BY <1>1 DEF Segmented
        <3> HIDE DEF k, ls, lp
        <3>2. (k - 1) + (ls + 1) = lp /\ ls + 1 # 0
            BY <3>1
        <3> QED BY <3>2 DEF ls, lp
    <2>2. Len(a) # 0
        BY <1>2, <2>1
    <2> QED BY <1>1, <1>2, <2>1, <2>2
<1>5. ASSUME NEW i \in 1..(k - 1) PROVE g[i] = path[i]
    <2>1. i \in 1..k
        BY <1>1
    <2> QED BY <1>3, <2>1 DEF Segmented
<1>6. ASSUME NEW i \in 1..(Len(s) + 1) PROVE a[i] = path[Len(path) + 1 - i]
    <2>1. CASE i \in 1..Len(s)
        BY <1>2, <2>1 DEF Segmented
    <2>2. CASE i = Len(s) + 1
        <3>1. Len(path) + 1 - i = k /\ k \in 1..k
            BY <1>1, <2>2 DEF Segmented
        <3>2. q[k] = path[k]
            BY <3>1 DEF Segmented
        <3> QED BY <1>1, <1>2, <2>2, <3>1, <3>2
    <2> QED BY <1>1, <2>1, <2>2
<1> QED
    BY <1>1, <1>2, <1>4, <1>5, <1>6 DEF Segmented, g, a, l

(* The directory that is created next *)
LEMMA SegmentedMade ==
    ASSUME NEW path \in Canonical, NEW q \in Canonical, NEW s \in Seq(Names), Segmented(path, q, s)
    PROVE  LET made == AddSegment(q, Last(s))
           IN  /\ made \in Canonical /\ Len(made) = Len(q) + 1
               /\ \A i \in 1..Len(made) : made[i] = path[i]
               /\ Len(s) \in Nat /\ Len(s) >= 1
               /\ ~(Len(s) > 1) => made = path
<1> DEFINE k == Len(q)
           l == Last(s)
           made == AddSegment(q, l)
<1>1. /\ k \in Nat /\ Len(s) \in Nat /\ Len(s) >= 1 /\ l = s[Len(s)] /\ l \in Names /\ Len(path) \in Nat
      /\ k + Len(s) = Len(path)
    BY FrontLast, LenProperties DEF Segmented, Canonical
<1>2. /\ made \in Canonical /\ Len(made) = k + 1 /\ made[k + 1] = l
      /\ \A i \in 1..k : made[i] = q[i]
    BY <1>1, AppendProperties DEF Canonical, AddSegment
<1>3. l = path[k + 1]
    <2>1. Len(s) \in 1..Len(s) /\ Len(path) + 1 - Len(s) = k + 1
        BY <1>1
    <2>2. s[Len(s)] = path[Len(path) + 1 - Len(s)]
        BY <2>1 DEF Segmented
    <2> QED BY <1>1, <2>1, <2>2
<1> HIDE DEF made, l
<1>4. ASSUME NEW i \in 1..Len(made) PROVE made[i] = path[i]
    <2>1. CASE i \in 1..k
        BY <1>2, <2>1 DEF Segmented
    <2>2. CASE i = k + 1
        BY <1>2, <1>3, <2>2
    <2>3. i \in 1..k \/ i = k + 1
        BY <1>1, <1>2
    <2> QED BY <2>1, <2>2, <2>3
<1>5. ASSUME ~(Len(s) > 1) PROVE made = path
    <2>1. Len(made) = Len(path)
        BY <1>1, <1>2, <1>5
    <2> QED BY <1>2, <1>4, <2>1, SeqEqual DEF Canonical
<1> QED
    BY <1>1, <1>2, <1>4, <1>5 DEF made, l

(* ... and then the next one in it *)
LEMMA SegmentedDown ==
    ASSUME NEW path \in Canonical, NEW q \in Canonical, NEW s \in Seq(Names), Segmented(path, q, s), Len(s) > 1
    PROVE  /\ Segmented(path, AddSegment(q, Last(s)), Front(s))
           /\ AddSegment(q, Last(s)) \in Canonical /\ Front(s) \in Seq(Names)
<1> DEFINE k == Len(q)
           made == AddSegment(q, Last(s))
           r == Front(s)
<1>1. made \in Canonical /\ Len(made) = k + 1 /\ \A i \in 1..Len(made) : made[i] = path[i]
    BY SegmentedMade
<1>2. s # << >> /\ k \in Nat /\ Len(path) \in Nat /\ k + Len(s) = Len(path)
    BY LenProperties DEF Segmented, Canonical
<1>3. /\ Len(s) \in Nat /\ r \in Seq(Names) /\ Len(r) = Len(s) - 1
      /\ \A i \in 1..(Len(s) - 1) : r[i] = s[i]
    BY <1>2, FrontLast
<1> HIDE DEF made, r
<1>4. r # << >> /\ Len(made) + Len(r) = Len(path)
    <2>1. Len(r) # 0
        BY <1>3
    <2>2. r # << >>
        BY <2>1
    <2>3. (k + 1) + (Len(s) - 1) = Len(path)
        <3> DEFINE ls == Len(s)
                   lp == Len(path)
        <3>1. k \in Nat /\ ls \in Nat /\ lp \in Nat /\ k + ls = lp
            BY <1>2, <1>3
        <3> HIDE DEF k, ls, lp
        <3>2. (k + 1) + (ls - 1) = lp
            BY <3>1
        <3> QED BY <3>2 DEF ls, lp
    <2> QED BY <1>1, <1>3, <2>2, <2>3
<1>5. ASSUME NEW i \in 1..(Len(s) - 1) PROVE r[i] = path[Len(path) + 1 - i]
    <2>1. i \in 1..Len(s)
        BY <1>3
    <2> QED BY <1>3, <2>1 DEF Segmented
<1>6. Segmented(path, made, r)
    BY <1>1, <1>3, <1>4, <1>5 DEF Segmented
<1> QED
    BY <1>1, <1>3, <1>6 DEF made, r

(* What is left of a path that is created bit by bit *)
LEMMA MkdParts ==
    ASSUME Scope, NEW m \in OpType, MkdOp(m)
    PROVE  /\ m.id = "mkd" /\ m.path \in Canonical /\ m.segments \in Seq(Names)
           /\ m.state \in {"findparent", "mkdsub", "cwdsub"} =>
                 m.mkdPath \in Canonical /\ Segmented(m.path, m.mkdPath, m.segments)
BY DEF MkdOp, Segmented, OpType

(* When the last part has been made, the path has been. *)
LEMMA MkdMade ==
    ASSUME NEW m, m.id = "mkd", m.path \in Canonical, m.state \in StatesOf("mkd"),
           m.state \in {"findparent", "mkdsub", "cwdsub"} => m.mkdPath \in Canonical
               /\ Segmented(m.path, m.mkdPath, m.segments)
    PROVE  MkdOp(m)
BY DEF MkdOp, Segmented

(* A reply to a creation of directories keeps the invariant. *)
LEMMA ParseMkdInv ==
    ASSUME Scope, Inv, NEW e \in Engines, Replied(e), Top(e).id = "mkd", ParseMkd(e, wire[e]), UNCHANGED cache
    PROVE  Inv'
<1> DEFINE op == Top(e)
           r == wire[e]
           ok == r.reply = "ok"
           made == AddSegment(op.mkdPath, Last(op.segments))
<1>1. /\ Quiet(e) /\ Types /\ Control(e) /\ ops[e] # << >> /\ Live(e) /\ op \in OpType
      /\ currentPath[e] \in MaybePaths /\ None \in MaybePaths /\ cache \subseteq Entries
      /\ Sent(op, r) /\ r.done /\ ~r.skip
      /\ ~raced => CacheTrue /\ Local(e) /\ CacheTrue'
    BY ParseFacts DEF Replied
<1>2. MkdOp(op)
    BY <1>1, Shape
<1>3. /\ op.path \in Canonical /\ op.segments \in Seq(Names)
      /\ op.state \in {"findparent", "mkdsub", "cwdsub"} =>
            op.mkdPath \in Canonical /\ Segmented(op.path, op.mkdPath, op.segments)
    BY <1>1, <1>2, MkdParts
<1>4. op.state \in {"findparent", "mkdsub", "cwdsub", "tryfull"}
    BY <1>1, <1>2 DEF MkdOp, StatesOf, Sent
<1>5. op.state \in {"findparent", "cwdsub"} => Moving(e)
    BY <1>1 DEF Sent, Moving, Moves
<1>6. ~raced => MkdWhere(e) /\ Belief(e)
    BY <1>1 DEF Local
<1>7. ASSUME NEW new \in OpType, NEW cp \in MaybePaths, GoOn(e, new, cp), MkdOp(new), new.state # "waitlock",
             ~raced => /\ Moving(e) \/ cp = None \/ cp = currentPath[e]
                       /\ cp = None \/ at[e] = cp \/ cp = currentPath[e]
                       /\ new.state = "mkdsub" => cp = new.mkdPath
      PROVE  Inv'
    <2>1. /\ SetTop(e, new) /\ turn' = e /\ UNCHANGED <<invalidate, mkdOK>>
          /\ currentPath' \in [Engines -> MaybePaths] /\ \A f \in Engines \ {e} : currentPath'[f] = currentPath[f]
          /\ currentPath'[e] = cp
        BY <1>1, <1>7, GoOnFacts
    <2>2. ~raced => cp = None \/ at[e] = cp \/ Stale(e)
        BY <1>6, <1>7 DEF Belief
    <2> QED
        BY <1>1, <1>7, <2>1, <2>2, MkdGoInv
<1>8. ASSUME NEW cp \in MaybePaths, GoOn(e, [op EXCEPT !.state = "tryfull"], cp),
          cp = None \/ cp = currentPath[e] PROVE Inv'
    <2> DEFINE new == [op EXCEPT !.state = "tryfull"]
    <2>1. new \in OpType /\ new.id = "mkd" /\ new.path = op.path /\ new.state = "tryfull"
        BY <1>1 DEF OpType, States
    <2> HIDE DEF new
    <2>2. MkdOp(new)
        BY <1>3, <2>1, MkdMade DEF StatesOf
    <2> QED
        BY <1>7, <1>8, <2>1, <2>2 DEF new
<1>9. ASSUME op.state \in {"findparent", "cwdsub"}, GoOn(e, [op EXCEPT !.state = "mkdsub"], op.mkdPath), ok PROVE Inv'
    <2> DEFINE new == [op EXCEPT !.state = "mkdsub"]
    <2>1. /\ new \in OpType /\ new.id = "mkd" /\ new.path = op.path /\ new.state = "mkdsub"
          /\ new.mkdPath = op.mkdPath /\ new.segments = op.segments
        BY <1>1 DEF OpType, States
    <2> HIDE DEF new
    <2>2. MkdOp(new)
        BY <1>3, <1>9, <2>1, MkdMade DEF StatesOf
    <2>3. op.mkdPath \in MaybePaths
        BY <1>1 DEF OpType
    <2>4. ~raced => at[e] = op.mkdPath
        BY <1>1, <1>6, <1>9 DEF MkdWhere
    <2> QED
        BY <1>5, <1>7, <1>9, <2>1, <2>2, <2>3, <2>4 DEF new
<1>10. ASSUME NEW b \in BOOLEAN, ResetOperation(e, op, b, currentPath[e]),
              ~raced /\ b /\ r.reply # "file" /\ ~disturbed[e] => op.path \in dirs
       PROVE  Inv'
    <2>1. ~raced => currentPath[e] = None \/ at[e] = currentPath[e] \/ Stale(e)
        BY <1>6 DEF Belief
    <2>2. PICK cp \in MaybePaths : cp = currentPath[e]
        BY <1>1
    <2> QED
        BY <1>1, <1>10, <2>1, <2>2, ResetInv
<1>11. CASE op.state = "findparent"
    <2>1. CASE ok
        BY <1>9, <1>11, <2>1 DEF ParseMkd
    <2>2. CASE ~ok /\ op.mkdPath # op.parent /\ HasParent(op.mkdPath)
        <3> DEFINE new == [op EXCEPT !.segments = Append(@, Last(op.mkdPath)), !.mkdPath = GetParent(op.mkdPath)]
        <3>1. GoOn(e, new, None)
            BY <1>11, <2>2 DEF ParseMkd
        <3>2. /\ Segmented(op.path, GetParent(op.mkdPath), Append(op.segments, Last(op.mkdPath)))
              /\ GetParent(op.mkdPath) \in Canonical /\ Append(op.segments, Last(op.mkdPath)) \in Seq(Names)
            BY <1>3, <1>11, <2>2, SegmentedUp
        <3>3. GetParent(op.mkdPath) \in MaybePaths
            BY <3>2, PathsAre DEF Scope, MaybePaths
        <3>4. /\ new \in OpType /\ new.id = "mkd" /\ new.path = op.path /\ new.state = "findparent"
              /\ new.mkdPath = GetParent(op.mkdPath) /\ new.segments = Append(op.segments, Last(op.mkdPath))
            BY <1>1, <1>11, <3>2, <3>3 DEF OpType
        <3> HIDE DEF new
        <3>5. MkdOp(new)
            BY <1>3, <3>2, <3>4, MkdMade DEF StatesOf
        <3> QED BY <1>1, <1>7, <3>1, <3>4, <3>5
    <2>3. CASE ~ok /\ ~(op.mkdPath # op.parent /\ HasParent(op.mkdPath))
        <3>1. GoOn(e, [op EXCEPT !.state = "tryfull"], None)
            BY <1>11, <2>3 DEF ParseMkd
        <3> QED BY <1>1, <1>8, <3>1
    <2> QED BY <2>1, <2>2, <2>3
<1>12. CASE op.state = "cwdsub"
    <2>1. CASE ok
        BY <1>9, <1>12, <2>1 DEF ParseMkd
    <2>2. CASE ~ok
        <3>1. GoOn(e, [op EXCEPT !.state = "tryfull"], None)
            BY <1>12, <2>2 DEF ParseMkd
        <3> QED BY <1>1, <1>8, <3>1
    <2> QED BY <2>1, <2>2
<1>13. CASE op.state = "tryfull"
    <2>1. ResetOperation(e, op, ok, currentPath[e])
        BY <1>13 DEF ParseMkd
    <2>2. ~raced /\ ok /\ ~disturbed[e] => op.path \in dirs
        BY <1>1, <1>6, <1>13 DEF MkdWhere
    <2>3. ok \in BOOLEAN
        OBVIOUS
    <2> HIDE DEF ok
    <2> QED BY <1>10, <2>1, <2>2, <2>3
<1>14. CASE op.state = "mkdsub"
    <2>1. ASSUME EndCommand(e, None, currentPath[e]) PROVE Inv'
        BY <1>1, <2>1, EndInv
    <2>2. ASSUME ResetOperation(e, op, FALSE, currentPath[e]) PROVE Inv'
        BY <1>10, <2>2
    <2>3. ASSUME Len(op.segments) > 1,
                 GoOn(e, [op EXCEPT !.mkdPath = made, !.segments = Front(@), !.state = "cwdsub"], currentPath[e])
          PROVE  Inv'
        <3> DEFINE new == [op EXCEPT !.mkdPath = made, !.segments = Front(@), !.state = "cwdsub"]
        <3>1. GoOn(e, new, currentPath[e])
            BY <2>3
        <3>2. Segmented(op.path, made, Front(op.segments)) /\ made \in Canonical /\ Front(op.segments) \in Seq(Names)
            BY <1>3, <1>14, <2>3, SegmentedDown
        <3>3. made \in MaybePaths
            BY <3>2, PathsAre DEF Scope, MaybePaths
        <3> HIDE DEF made
        <3>4. /\ new \in OpType /\ new.id = "mkd" /\ new.path = op.path /\ new.state = "cwdsub"
              /\ new.mkdPath = made /\ new.segments = Front(op.segments)
            BY <1>1, <3>2, <3>3 DEF OpType, States
        <3> HIDE DEF new
        <3>5. MkdOp(new)
            BY <1>3, <3>2, <3>4, MkdMade DEF StatesOf
        <3> QED BY <1>1, <1>7, <3>1, <3>4, <3>5
    <2>4. ASSUME r.reply # "fail", ~(Len(op.segments) > 1), ResetOperation(e, op, TRUE, currentPath[e]) PROVE Inv'
        <3>2. made = op.path
            BY <1>3, <1>14, <2>4, SegmentedMade
        <3>3. ~raced /\ r.reply # "file" /\ ~disturbed[e] => made \in dirs
            BY <1>1, <1>6, <1>14, <2>4 DEF MkdWhere
        <3> QED BY <1>10, <2>4, <3>2, <3>3
    <2>5. \/ EndCommand(e, None, currentPath[e])
          \/ ResetOperation(e, op, FALSE, currentPath[e])
          \/ /\ Len(op.segments) > 1
             /\ GoOn(e, [op EXCEPT !.mkdPath = made, !.segments = Front(@), !.state = "cwdsub"], currentPath[e])
          \/ r.reply # "fail" /\ ~(Len(op.segments) > 1) /\ ResetOperation(e, op, TRUE, currentPath[e])
        BY <1>14 DEF ParseMkd
    <2> QED BY <2>1, <2>3, <2>4, <2>2, <2>5
<1> QED
    BY <1>4, <1>11, <1>12, <1>13, <1>14

(* A reply to any other operation keeps the invariant. *)
LEMMA ParseOtherInv ==
    ASSUME Scope, Inv, NEW e \in Engines, Replied(e), Top(e).id \notin {"cwd", "mkd"}, ParseOther(e, wire[e]),
        UNCHANGED cache
    PROVE  Inv'
<1> DEFINE op == Top(e)
           r == wire[e]
           ok == r.reply = "ok"
<1>1. /\ Quiet(e) /\ Types /\ Control(e) /\ ops[e] # << >> /\ Live(e) /\ op \in OpType
      /\ currentPath[e] \in MaybePaths /\ None \in MaybePaths /\ cache \subseteq Entries
      /\ Sent(op, r) /\ r.done /\ ~r.skip /\ WireOp(r) /\ r.tells \in MaybePaths
      /\ ~raced => CacheTrue /\ Local(e) /\ CacheTrue'
    BY ParseFacts DEF Replied
<1>2. UserOp(op) /\ Len(ops[e]) = 1
    BY <1>1, Shape
<1>3. ~raced => UserWhere(e) /\ Belief(e)
    BY <1>1 DEF Local
<1>4. CASE op.id = "rename" /\ op.state = "send" /\ ok
    <2> DEFINE new == [op EXCEPT !.state = "rnto", !.target = r.tells]
    <2>1. GoOn(e, new, currentPath[e])
        BY <1>4 DEF ParseOther
    <2>2. /\ new \in OpType /\ new.id = "rename" /\ new.state = "rnto" /\ new.target = r.tells /\ new.path = op.path
          /\ new.subDir = op.subDir /\ new.meant = op.meant /\ new.flag = op.flag
          /\ new.toPath = op.toPath /\ new.toName = op.toName
        BY <1>1, <1>4 DEF OpType, States
    <2> HIDE DEF new
    <2>3. r.verb = "RNFR"
        BY <1>1, <1>4 DEF Sent
    <2>4. r.tells \in Canonical /\ r.tells # << >>
        BY <1>1, <1>4, <2>3, PathsAre DEF WireOp, Scope
    <2>5. UserOp(new)
        BY <1>2, <1>4, <2>2, <2>4 DEF UserOp, StatesOf
    <2>6. /\ SetTop(e, new) /\ turn' = e /\ UNCHANGED <<invalidate, mkdOK>>
          /\ currentPath' \in [Engines -> MaybePaths] /\ \A f \in Engines \ {e} : currentPath'[f] = currentPath[f]
          /\ currentPath'[e] = currentPath[e]
        BY <1>1, <2>1, GoOnFacts
    <2>7. /\ \A f \in Engines \ {e} : ops'[f] = ops[f]
          /\ ops' \in [Engines -> Seq(OpType)]
          /\ ops'[e] # << >> /\ Len(ops'[e]) = 1 /\ Last(ops'[e]) = new /\ ops'[e][1] = new
        <3>1. /\ \A f \in Engines \ {e} : ops'[f] = ops[f]
              /\ ops' \in [Engines -> Seq(OpType)]
              /\ ops'[e] # << >> /\ Len(ops'[e]) = Len(ops[e]) /\ Last(ops'[e]) = new /\ ops'[e][Len(ops[e])] = new
            BY <1>1, <2>2, <2>6, SetTopOps
        <3> QED BY <1>2, <3>1
    <2>8. Stack(ops'[e])
        <3>1. ~(Len(ops'[e]) > 1) /\ ~(Len(ops'[e]) >= 2) /\ Len(ops'[e]) # 3 /\ Len(ops'[e]) <= 3
            BY <2>7
        <3>2. new.id # "mkd" /\ new.state # "waitcwd"
            BY <2>2
        <3> QED BY <2>5, <2>7, <3>1, <3>2 DEF Stack
    <2>9. Top(e)' = new /\ wire'[e] = NoWire
        BY <1>1, <2>7 DEF Top, Quiet
    <2>10. mkdOK'[e] = None /\ invalidate'[e] = invalidate[e]
        BY <1>1, <2>6 DEF Control
    <2>11. Control(e)'
        BY <2>2, <2>6, <2>7, <2>8, <2>9, <2>10 DEF Control, NoWire, WireOp, Busy, Destroys, Moves
    <2>12. ASSUME ~raced PROVE Local(e)'
        <3>1. UNCHANGED <<dirs, link, pwdWorks, at, disturbed>>
            BY <1>1 DEF Quiet, server, observers
        <3>2. Belief(e)'
            BY <1>3, <2>6, <2>12, <3>1 DEF Belief, Stale
        <3>3. CwdWhere(e)' /\ MkdWhere(e)' /\ Made(e)'
            BY <2>2, <2>9, <2>10 DEF CwdWhere, MkdWhere, Made
        <3>4. UserWhere(e)'
            <4>1. r.tells = AddSegment(op.path, op.subDir) \/ Stale(e)
                BY <1>1, <1>3, <1>4, <2>3, <2>12 DEF UserWhere
            <4>2. /\ op.flag => currentPath[e] = None
                  /\ op.path = op.meant[1]
                  /\ ~op.flag => currentPath[e] = op.path
                  /\ ~op.flag /\ op.meant # None /\ ~disturbed[e] => AtEntry(e, op.meant[1], op.meant[2])
                BY <1>1, <1>3, <1>4, <2>12 DEF UserWhere
            <4> QED
                BY <2>2, <2>6, <2>9, <2>10, <3>1, <4>1, <4>2 DEF UserWhere, NoWire, Stale, AtEntry
        <3>5. Detour(e)' /\ Unknown(e)'
            <4>1. Len(ops'[e]) # 2 /\ Len(ops'[e]) # 3
                BY <2>7
            <4> QED BY <4>1 DEF Detour, Unknown
        <3> QED BY <3>2, <3>3, <3>4, <3>5 DEF Local
    <2>13. Stale(e) => Stale(e)'
        BY <1>1, <2>10 DEF Stale, Quiet, observers
    <2>14. /\ mkdOK' \in [Engines -> MaybePaths] /\ invalidate' \in [Engines -> BOOLEAN] /\ cache' \subseteq Entries
           /\ \A f \in Engines \ {e} : invalidate'[f] = invalidate[f] /\ mkdOK'[f] = mkdOK[f]
        BY <1>1, <2>6 DEF Types
    <2> QED
        BY <1>1, <2>6, <2>7, <2>10, <2>11, <2>12, <2>13, <2>14, StepInv
<1>5. CASE ~(op.id = "rename" /\ op.state = "send" /\ ok)
    <2>1. ResetOperation(e, op, ok, currentPath[e])
        BY <1>5 DEF ParseOther
    <2>2. PICK cp \in MaybePaths : cp = currentPath[e]
        BY <1>1
    <2>3. ~raced => cp = None \/ at[e] = cp \/ Stale(e)
        BY <1>3, <2>2 DEF Belief
    <2>4. ok \in BOOLEAN
        OBVIOUS
    <2> HIDE DEF ok
    <2> QED
        BY <1>1, <2>1, <2>2, <2>3, <2>4, ResetInv
<1> QED
    BY <1>4, <1>5

(* The reply to a command of a cancelled operation is skipped. *)
LEMMA SkipInv ==
    ASSUME Scope, Inv, NEW e \in Engines, turn = None, wire[e].done, wire[e].skip,
           wire' = [wire EXCEPT ![e] = NoWire],
           turn' = IF ops[e] = << >> THEN None ELSE e,
           UNCHANGED <<cache, currentPath, invalidate, ops, mkdOK>>,
           UNCHANGED <<server, pending, observers, commands, faults>>
    PROVE  Inv'
<1>1. Types /\ Control(e) /\ WireOp(wire[e]) /\ wire \in [Engines -> WireType] /\ ops[e] \in Seq(OpType)
    BY DEF Inv, Control, Types
<1>2. Busy(e)
    BY <1>1 DEF WireOp, Busy, NoWire
<1>3. Quiet(e) /\ wire'[e] = NoWire /\ Top(e)' = Top(e)
    BY <1>1, NoWireType DEF Quiet, Top
<1>4. mkdOK[e] = None /\ (ops[e] # << >> => Len(ops[e]) = 1 /\ Top(e).state = "init")
    BY <1>1, <1>2 DEF Control
<1>5. ops[e] # << >> => Top(e).id # "cwd"
    BY <1>1, <1>4, Shape DEF UserOp
<1>6. None # e
    BY WorkingDirAssumption
<1>7. Control(e)'
    BY <1>1, <1>3, <1>4, <1>5, <1>6 DEF Control, NoWire, WireOp, Busy, Destroys, Moves
<1>8. ASSUME ~raced PROVE Local(e)' /\ CacheTrue'
    <2>1. UNCHANGED <<dirs, link, pwdWorks, at, disturbed>>
        BY DEF server, observers
    <2>2. CacheTrue /\ Belief(e)
        BY <1>8 DEF Inv, Truth, Local
    <2>3. CacheTrue' /\ Belief(e)'
        BY <2>1, <2>2 DEF CacheTrue, Belief, Stale
    <2>4. CwdWhere(e)' /\ MkdWhere(e)' /\ UserWhere(e)' /\ Made(e)'
        BY <1>3, <1>4, <1>5 DEF CwdWhere, MkdWhere, UserWhere, Made
    <2>5. Len(ops[e]) # 2 /\ Len(ops[e]) # 3
        <3>1. CASE ops[e] = << >>
            BY <3>1
        <3>2. CASE ops[e] # << >>
            <4>1. Len(ops[e]) = 1
                BY <1>4, <3>2
            <4> QED BY <4>1
        <3> QED BY <3>1, <3>2
    <2>6. Detour(e)' /\ Unknown(e)'
        BY <2>5 DEF Detour, Unknown
    <2> QED BY <2>3, <2>4, <2>6 DEF Local
<1>9. Stale(e) => Stale(e)'
    BY DEF Stale, observers
<1>10. /\ currentPath' \in [Engines -> MaybePaths] /\ mkdOK' \in [Engines -> MaybePaths]
       /\ invalidate' \in [Engines -> BOOLEAN] /\ cache' \subseteq Entries /\ ops' \in [Engines -> Seq(OpType)]
       /\ turn' \in {None, e}
    BY <1>1 DEF Types
<1> QED
    BY <1>3, <1>7, <1>8, <1>9, <1>10, StepInv

(* A reply keeps the invariant. *)
LEMMA ParseResponseInv ==
    ASSUME Scope, Inv, NEW e \in Engines, ParseResponse(e)
    PROVE  Inv'
<1>1. /\ turn = None /\ wire[e].done /\ wire' = [wire EXCEPT ![e] = NoWire]
      /\ UNCHANGED <<server, pending, observers, commands, faults>>
    BY DEF ParseResponse
<1>2. CASE wire[e].skip
    <2>1. turn' = (IF ops[e] = << >> THEN None ELSE e) /\ UNCHANGED <<cache, currentPath, invalidate, ops, mkdOK>>
        BY <1>2 DEF ParseResponse
    <2> QED BY <1>1, <1>2, <2>1, SkipInv
<1>3. CASE ~wire[e].skip
    <2>1. Replied(e)
        BY <1>1, <1>3 DEF Replied
    <2>2. CASE Top(e).id = "cwd"
        <3>1. ParseCwd(e, wire[e])
            BY <1>3, <2>2 DEF ParseResponse
        <3> QED BY <2>1, <2>2, <3>1, ParseCwdInv
    <2>3. CASE Top(e).id = "mkd"
        <3>1. ParseMkd(e, wire[e]) /\ UNCHANGED cache
            BY <1>3, <2>3 DEF ParseResponse
        <3> QED BY <2>1, <2>3, <3>1, ParseMkdInv
    <2>4. CASE Top(e).id \notin {"cwd", "mkd"}
        <3>1. ParseOther(e, wire[e]) /\ UNCHANGED cache
            BY <1>3, <2>4 DEF ParseResponse
        <3> QED BY <2>1, <2>4, <3>1, ParseOtherInv
    <2> QED BY <2>2, <2>3, <2>4
<1> QED
    BY <1>2, <1>3

(* An event about a directory that is about to go keeps the invariant: who *)
(* has dropped it has been told.                                           *)
LEMMA OnInvalidateInv ==
    ASSUME Scope, Inv, NEW e \in Engines, OnInvalidateCurrentWorkingDir(e)
    PROVE  Inv'
<1>1. PICK p \in pending[e] :
          /\ pending' = [pending EXCEPT ![e] = @ \ {p}]
          /\ InvalidateCurrentWorkingDir(e, p)
    BY DEF OnInvalidateCurrentWorkingDir
<1>2. /\ turn = None
      /\ UNCHANGED <<dirs, link, pwdWorks, at, cache, ops, wire, turn, raced, disturbed, mkdOK, commands, faults>>
    BY DEF OnInvalidateCurrentWorkingDir, server, observers
<1>3. Types /\ Control(e)
    BY DEF Inv
<1>4. /\ currentPath' \in [Engines -> MaybePaths] /\ invalidate' \in [Engines -> BOOLEAN]
      /\ \A f \in Engines \ {e} : currentPath'[f] = currentPath[f] /\ invalidate'[f] = invalidate[f]
      /\ \/ currentPath'[e] = currentPath[e] /\ invalidate'[e] = invalidate[e]
            /\ (currentPath[e] = None \/ ~Covers(p, currentPath[e]))
         \/ ops[e] # << >> /\ invalidate'[e] /\ currentPath'[e] = currentPath[e]
         \/ ops[e] = << >> /\ currentPath'[e] = None /\ invalidate'[e] = invalidate[e]
    BY <1>1, <1>3 DEF InvalidateCurrentWorkingDir, Types, MaybePaths
<1>5. /\ pending' \in [Engines -> SUBSET Paths] /\ pending'[e] = pending[e] \ {p}
      /\ \A f \in Engines \ {e} : pending'[f] = pending[f]
    BY <1>1, <1>3 DEF Types
<1>6. Others(e)
    BY <1>2, <1>4, <1>5 DEF Others
<1>7. Types'
    BY <1>2, <1>3, <1>4, <1>5 DEF Types
<1>8. Top(e)' = Top(e) /\ (Busy(e)' <=> Busy(e)) /\ turn # e
    BY <1>2, WorkingDirAssumption DEF Top, Busy
<1>9. Control(e)'
    BY <1>2, <1>3, <1>4, <1>8 DEF Control
<1>10. invalidate[e] => invalidate'[e]
    BY <1>4
<1>11. Stale(e) => Stale(e)'
    BY <1>2, <1>10 DEF Stale
<1>12. ASSUME ~raced PROVE CacheTrue' /\ Apart' /\ Announced' /\ Local(e)'
    <2>1. CacheTrue /\ Apart /\ Announced /\ Local(e)
        BY <1>12 DEF Inv, Truth
    <2>2. CacheTrue' /\ Apart'
        BY <1>2, <2>1 DEF CacheTrue, Apart, Moving, Destroying
    <2>3. Announced'
        <3> SUFFICES ASSUME NEW f \in Engines, Destroying(f)', Victim(f)' # None
                     PROVE  Spared(f)' /\ \A g \in Engines : Told(f, g)'
            BY DEF Announced
        <3>1. Destroying(f) /\ Victim(f)' = Victim(f)
            BY <1>2 DEF Destroying, Victim
        <3>2. Spared(f) /\ \A g \in Engines : Told(f, g)
            BY <2>1, <3>1 DEF Announced
        <3>3. Spared(f)'
            BY <1>2, <3>1, <3>2 DEF Spared
        <3>4. ASSUME NEW g \in Engines \ {e} PROVE Told(f, g)'
            BY <1>2, <1>4, <1>5, <3>1, <3>2 DEF Told, Stale
        <3>5. Told(f, e)'
            <4>1. CASE currentPath'[e] = None
                BY <4>1 DEF Told
            <4>2. CASE currentPath'[e] # None
                <5>1. currentPath'[e] = currentPath[e] /\ currentPath[e] # None
                    BY <1>4, <4>2
                <5>2. CASE ~Covers(Victim(f), currentPath[e])
                    BY <3>1, <5>1, <5>2 DEF Told
                <5>3. CASE Stale(e)
                    BY <1>11, <5>3 DEF Told
                <5>4. CASE f # e /\ invalidate[e]
                    BY <1>10, <5>4 DEF Told
                <5>5. ASSUME f # e, NEW q \in pending[e], Covers(q, currentPath[e]) PROVE Told(f, e)'
                    <6>1. CASE q = p
                        BY <1>4, <4>2, <5>1, <5>5, <6>1 DEF Told
                    <6>2. CASE q # p
                        BY <1>5, <5>1, <5>5, <6>2 DEF Told
                    <6> QED BY <6>1, <6>2
                <5> QED BY <3>2, <5>1, <5>2, <5>3, <5>4, <5>5 DEF Told
            <4> QED BY <4>1, <4>2
        <3> QED BY <3>3, <3>4, <3>5
    <2>4. Local(e)'
        <3>1. Belief(e) /\ CwdWhere(e) /\ MkdWhere(e) /\ Detour(e) /\ Unknown(e) /\ UserWhere(e) /\ Made(e)
            BY <2>1 DEF Local
        <3>2. ops[e] # << >> => currentPath'[e] = currentPath[e]
            BY <1>4
        <3>3. Belief(e)'
            BY <1>2, <1>4, <1>11, <3>1 DEF Belief
        <3>4. CwdWhere(e)' /\ MkdWhere(e)'
            BY <1>2, <1>8, <3>1, <3>2 DEF CwdWhere, MkdWhere, Live, AtPath, AtEntry, Waited
        <3>5. Detour(e)' /\ Unknown(e)' /\ Made(e)'
            BY <1>2, <3>1 DEF Detour, Unknown, Made
        <3>6. UserWhere(e)'
            BY <1>2, <1>8, <1>11, <3>1, <3>2 DEF UserWhere, AtEntry
        <3> QED BY <3>3, <3>4, <3>5, <3>6 DEF Local
    <2> QED BY <2>2, <2>3, <2>4
<1> QED
    BY <1>2, <1>6, <1>7, <1>9, <1>12, Assemble

(* A cancel keeps the invariant: the command under way is still where it   *)
(* was meant to be, and nobody waits for it.                               *)
LEMMA CancelInv ==
    ASSUME Scope, Inv, NEW e \in Engines, Cancel(e)
    PROVE  Inv'
<1> DEFINE w == [wire[e] EXCEPT !.skip = Busy(e)]
<1>1. /\ turn = None /\ ops[e] # << >> /\ faults < MaxFaults /\ faults' = faults + 1
      /\ ops' = [ops EXCEPT ![e] = << >>] /\ wire' = [wire EXCEPT ![e].skip = Busy(e)]
      /\ currentPath' = [currentPath EXCEPT ![e] = IF invalidate[e] THEN None ELSE @]
      /\ invalidate' = [invalidate EXCEPT ![e] = FALSE]
      /\ UNCHANGED <<dirs, link, pwdWorks, at, cache, pending, turn, raced, disturbed, mkdOK, commands>>
    BY DEF Cancel, server, observers
<1>2. Types /\ Control(e) /\ wire[e] \in WireType
    BY DEF Inv, Types
<1>3. wire' = [wire EXCEPT ![e] = w]
    BY <1>1
<1>4. /\ w \in WireType /\ w.verb = wire[e].verb /\ w.path = wire[e].path /\ w.name = wire[e].name /\ w.move = wire[e].move
      /\ w.done = wire[e].done /\ w.reply = wire[e].reply /\ w.tells = wire[e].tells /\ w.skip = Busy(e)
      /\ (~Busy(e) => w = NoWire)
    <2>1. Busy(e) \in BOOLEAN /\ (~Busy(e) => wire[e] = NoWire)
        BY <1>2 DEF Control, WireOp, Busy
    <2> QED BY <1>2, <2>1 DEF WireType, NoWire
<1> HIDE DEF w
<1>5. /\ ops'[e] = << >> /\ wire'[e] = w /\ invalidate'[e] = FALSE
      /\ currentPath'[e] = (IF invalidate[e] THEN None ELSE currentPath[e])
      /\ ops' \in [Engines -> Seq(OpType)] /\ wire' \in [Engines -> WireType]
      /\ invalidate' \in [Engines -> BOOLEAN] /\ currentPath' \in [Engines -> MaybePaths]
      /\ \A f \in Engines \ {e} : /\ ops'[f] = ops[f] /\ wire'[f] = wire[f] /\ invalidate'[f] = invalidate[f]
                                  /\ currentPath'[f] = currentPath[f]
    <2>1. ops'[e] = << >> /\ ops' \in [Engines -> Seq(OpType)] /\ \A f \in Engines \ {e} : ops'[f] = ops[f]
        BY <1>1, <1>2 DEF Types
    <2>2. wire'[e] = w /\ wire' \in [Engines -> WireType] /\ \A f \in Engines \ {e} : wire'[f] = wire[f]
        BY <1>2, <1>3, <1>4 DEF Types
    <2>3. /\ invalidate'[e] = FALSE /\ invalidate' \in [Engines -> BOOLEAN]
          /\ \A f \in Engines \ {e} : invalidate'[f] = invalidate[f]
        BY <1>1, <1>2 DEF Types
    <2>4. /\ currentPath'[e] = (IF invalidate[e] THEN None ELSE currentPath[e])
          /\ currentPath' \in [Engines -> MaybePaths] /\ \A f \in Engines \ {e} : currentPath'[f] = currentPath[f]
        BY <1>1, <1>2 DEF Types, MaybePaths
    <2> QED BY <2>1, <2>2, <2>3, <2>4
<1>6. Others(e)
    BY <1>1, <1>5 DEF Others
<1>7. Types'
    <2>1. faults' \in 0..MaxFaults
        BY <1>1, <1>2, WorkingDirAssumption DEF Types
    <2> QED BY <1>1, <1>2, <1>5, <2>1 DEF Types
<1>8. turn' # e /\ mkdOK'[e] = None
    BY <1>1, <1>2, WorkingDirAssumption DEF Control
<1>9. Control(e)'
    <2>1. WireOp(w)
        <3>1. WireOp(wire[e]) /\ WireOp(NoWire)
            BY <1>2 DEF Control, WireOp, NoWire, Destroys
        <3>2. w.verb = "none" => w = NoWire
            BY <1>4 DEF Busy
        <3> QED BY <1>4, <3>1, <3>2 DEF WireOp
    <2>2. Stack(<< >>)
        BY DEF Stack
    <2>3. (Busy(e)' <=> Busy(e)) /\ (Busy(e) => wire'[e].skip)
        BY <1>4, <1>5 DEF Busy
    <2>4. wire'[e].verb \in Moves \cup {"RAW"} => currentPath'[e] = None
        BY <1>2, <1>4, <1>5 DEF Control
    <2> QED
        BY <1>5, <1>8, <2>1, <2>2, <2>3, <2>4 DEF Control
<1>10. ASSUME ~raced PROVE CacheTrue' /\ Apart' /\ Announced' /\ Local(e)'
    <2>1. CacheTrue /\ Apart /\ Announced /\ Local(e)
        BY <1>10 DEF Inv, Truth
    <2>2. CacheTrue'
        BY <1>1, <2>1 DEF CacheTrue
    <2>3. ~Moving(e)' /\ (Destroying(e)' => Destroying(e))
        BY <1>4, <1>5 DEF Moving, Destroying, Busy, Moves
    <2>4. Apart'
        BY <1>6, <2>1, <2>3, ApartSame
    <2>5. Announced'
        BY <1>1, <1>4, <1>5, <1>6, <2>1, <2>3, AnnouncedSame DEF Stale
    <2>6. Local(e)'
        <3>1. Belief(e)'
            BY <1>1, <1>5, <2>1 DEF Local, Belief, Stale
        <3>2. Len(ops'[e]) # 2 /\ Len(ops'[e]) # 3
            BY <1>5
        <3> QED
            BY <1>5, <1>8, <3>1, <3>2 DEF Local, CwdWhere, MkdWhere, Detour, Unknown, UserWhere, Made
    <2> QED BY <2>2, <2>4, <2>5, <2>6
<1> QED
    BY <1>1, <1>6, <1>7, <1>9, <1>10, Assemble

(* A lost connection keeps the invariant. *)
LEMMA DisconnectInv ==
    ASSUME Scope, Inv, NEW e \in Engines, Disconnect(e)
    PROVE  Inv'
<1>1. /\ turn = None /\ (Busy(e) \/ ops[e] # << >>) /\ faults < MaxFaults /\ faults' = faults + 1
      /\ ops' = [ops EXCEPT ![e] = << >>] /\ wire' = [wire EXCEPT ![e] = NoWire]
      /\ currentPath' = [currentPath EXCEPT ![e] = None]
      /\ invalidate' = [invalidate EXCEPT ![e] = FALSE]
      /\ at' = [at EXCEPT ![e] = << >>]
      /\ UNCHANGED <<dirs, link, pwdWorks, cache, pending, turn, raced, disturbed, mkdOK, commands>>
    BY DEF Disconnect, observers
<1>2. Types /\ Control(e)
    BY DEF Inv
<1>3. /\ ops'[e] = << >> /\ wire'[e] = NoWire /\ invalidate'[e] = FALSE /\ currentPath'[e] = None
      /\ ops' \in [Engines -> Seq(OpType)] /\ wire' \in [Engines -> WireType]
      /\ invalidate' \in [Engines -> BOOLEAN] /\ currentPath' \in [Engines -> MaybePaths]
      /\ at' \in [Engines -> dirs \cup {None}]
      /\ \A f \in Engines \ {e} : /\ ops'[f] = ops[f] /\ wire'[f] = wire[f] /\ invalidate'[f] = invalidate[f]
                                  /\ currentPath'[f] = currentPath[f] /\ at'[f] = at[f]
    BY <1>1, <1>2, NoWireType DEF Types, MaybePaths
<1>4. Others(e)
    BY <1>1, <1>3 DEF Others
<1>5. Types'
    <2>1. faults' \in 0..MaxFaults
        BY <1>1, <1>2, WorkingDirAssumption DEF Types
    <2> QED BY <1>1, <1>2, <1>3, <2>1 DEF Types
<1>6. turn' # e /\ mkdOK'[e] = None
    BY <1>1, <1>2, WorkingDirAssumption DEF Control
<1>7. Control(e)'
    <2>1. Stack(<< >>)
        BY DEF Stack
    <2> QED
        BY <1>3, <1>6, <2>1 DEF Control, WireOp, NoWire, Busy, Destroys, Moves
<1>8. ASSUME ~raced PROVE CacheTrue' /\ Apart' /\ Announced' /\ Local(e)'
    <2>1. CacheTrue /\ Apart /\ Announced
        BY <1>8 DEF Inv, Truth
    <2>2. CacheTrue'
        BY <1>1, <2>1 DEF CacheTrue
    <2>3. ~Moving(e)' /\ ~Destroying(e)'
        BY <1>3 DEF Moving, Destroying, NoWire, Moves, Destroys
    <2>4. Apart'
        BY <1>4, <2>1, <2>3, ApartSame
    <2>5. Announced'
        BY <1>1, <1>3, <1>4, <2>1, <2>3, AnnouncedSame
    <2>6. Len(ops'[e]) # 2 /\ Len(ops'[e]) # 3
        BY <1>3
    <2>7. Local(e)'
        BY <1>3, <1>6, <2>6 DEF Local, Belief, CwdWhere, MkdWhere, Detour, Unknown, UserWhere, Made
    <2> QED BY <2>2, <2>4, <2>5, <2>7
<1> QED
    BY <1>1, <1>4, <1>5, <1>7, <1>8, Assemble

(* A new command of the user keeps the invariant. *)
LEMMA StartInv ==
    ASSUME Scope, Inv, NEW e \in Engines, NEW q \in Requests, Start(e, q)
    PROVE  Inv'
<1> DEFINE o == Operation(q.id, q.path, q.name)
           meant == IF q.path = None THEN None ELSE <<q.path, IF q.id = "list" THEN q.name ELSE None>>
           t == [o EXCEPT !.meant = meant, !.flag = q.flag, !.toPath = q.toPath, !.toName = q.toName]
<1>1. /\ turn = None /\ ops[e] = << >> /\ commands < MaxCommands /\ commands' = commands + 1
      /\ ops' = [ops EXCEPT ![e] = <<t>>] /\ cache' \subseteq cache
      /\ turn' = (IF Busy(e) THEN None ELSE e)
      /\ disturbed' = [disturbed EXCEPT ![e] = FALSE] /\ mkdOK' = [mkdOK EXCEPT ![e] = None]
      /\ UNCHANGED <<dirs, link, pwdWorks, at, currentPath, invalidate, wire, pending, raced, faults>>
    BY DEF Start, server
<1>2. Types /\ Control(e)
    BY DEF Inv
<1>3. Asked(q)
    BY DEF Scope
<1>4. /\ q.id \in Ids /\ q.path \in MaybePaths /\ q.name \in Segments /\ q.flag \in BOOLEAN
      /\ q.toPath \in MaybePaths /\ q.toName \in Segments
    BY <1>3 DEF Asked, Ids
<1>5. meant \in Places
    BY <1>4 DEF Places, MaybePaths, Segments
<1>6. o \in OpType /\ o.id = q.id /\ o.state = "init" /\ o.path = q.path /\ o.subDir = q.name
    <2>1. o \in OpType
        BY <1>4, NewOperation
    <2> QED BY <2>1 DEF Operation
<1> HIDE DEF o
<1>7. /\ t \in OpType /\ t.id = q.id /\ t.state = "init" /\ t.path = q.path /\ t.subDir = q.name /\ t.meant = meant
      /\ t.flag = q.flag /\ t.toPath = q.toPath /\ t.toName = q.toName
    <2> HIDE DEF meant
    <2> QED BY <1>4, <1>5, <1>6 DEF OpType
<1>8. q.path # None => meant[1] = q.path /\ meant[2] = (IF q.id = "list" THEN q.name ELSE None)
                       /\ (q.id = "list" => meant = <<q.path, q.name>>)
    OBVIOUS
<1>9. q.path = None => meant = None
    OBVIOUS
<1>10. q.path # None => meant # None
    <2>1. q.path # None => meant \in Paths \X Segments
        BY <1>4 DEF MaybePaths, Segments
    <2> QED BY <2>1 DEF Scope, Outside
<1> HIDE DEF t, meant
<1>11. UserOp(t)
    <2>1. t.id \in Ids \ {"cwd"} /\ "init" \in StatesOf(t.id)
        BY <1>3, <1>4, <1>7 DEF Asked, StatesOf
    <2> QED
        BY <1>3, <1>7, <1>8, <1>9, <1>10, <2>1 DEF UserOp, Asked
<1>12. t.id = "mkd" => MkdOp(t)
    BY <1>3, <1>7 DEF MkdOp, StatesOf, Asked
<1>13. /\ ops'[e] = <<t>> /\ ops'[e] # << >> /\ Len(ops'[e]) = 1 /\ ops'[e][1] = t /\ Last(ops'[e]) = t
       /\ ops' \in [Engines -> Seq(OpType)]
       /\ \A f \in Engines \ {e} : ops'[f] = ops[f]
    <2>1. <<t>> \in Seq(OpType) /\ <<t>> # << >> /\ Len(<<t>>) = 1 /\ <<t>>[1] = t /\ Last(<<t>>) = t
        BY <1>7 DEF Last
    <2> QED BY <1>1, <1>2, <2>1 DEF Types
<1>14. /\ disturbed' \in [Engines -> BOOLEAN] /\ mkdOK' \in [Engines -> MaybePaths] /\ mkdOK'[e] = None
       /\ \A f \in Engines \ {e} : disturbed'[f] = disturbed[f] /\ mkdOK'[f] = mkdOK[f]
    BY <1>1, <1>2 DEF Types, MaybePaths
<1>15. Others(e)
    BY <1>1, <1>13, <1>14 DEF Others
<1>16. Types'
    <2>1. commands' \in 0..MaxCommands
        BY <1>1, <1>2, WorkingDirAssumption DEF Types
    <2>2. turn' \in Engines \cup {None} /\ cache' \subseteq Entries
        BY <1>1, <1>2 DEF Types
    <2> QED BY <1>1, <1>2, <1>13, <1>14, <2>1, <2>2 DEF Types
<1>17. None # e /\ invalidate[e] = FALSE /\ Top(e)' = t /\ (Busy(e)' <=> Busy(e)) /\ (Busy(e) => wire[e].skip)
    BY <1>1, <1>2, <1>13, WorkingDirAssumption DEF Control, Top, Busy, Types
<1>18. Control(e)'
    <2>1. Stack(ops'[e])
        <3>1. ~(Len(ops'[e]) > 1) /\ ~(Len(ops'[e]) >= 2) /\ Len(ops'[e]) # 3 /\ Len(ops'[e]) <= 3
            BY <1>13
        <3> QED BY <1>7, <1>11, <1>12, <1>13, <3>1 DEF Stack
    <2>2. ~Busy(e) => wire[e] = NoWire
        BY <1>2 DEF Control, WireOp, Busy
    <2>3. t.id # "cwd"
        BY <1>11 DEF UserOp
    <2> QED
        BY <1>1, <1>2, <1>7, <1>13, <1>14, <1>17, <2>1, <2>2, <2>3 DEF Control
<1>19. ASSUME ~raced PROVE CacheTrue' /\ Apart' /\ Announced' /\ Local(e)'
    <2>1. CacheTrue /\ Apart /\ Announced /\ Belief(e)
        BY <1>19 DEF Inv, Truth, Local
    <2>2. CacheTrue'
        BY <1>1, <2>1 DEF CacheTrue
    <2>3. (Moving(e)' => Moving(e)) /\ (Destroying(e)' => Destroying(e))
        BY <1>1 DEF Moving, Destroying
    <2>4. Apart'
        BY <1>15, <2>1, <2>3, ApartSame
    <2>5. Announced'
        BY <1>1, <1>15, <1>17, <2>1, <2>3, AnnouncedSame DEF Stale
    <2>6. Len(ops'[e]) # 2 /\ Len(ops'[e]) # 3
        BY <1>13
    <2>7. Belief(e)'
        BY <1>1, <1>17, <2>1 DEF Belief, Stale
    <2>8. t.id # "cwd"
        BY <1>11 DEF UserOp
    <2>9. Local(e)'
        BY <1>7, <1>14, <1>17, <2>6, <2>7, <2>8 DEF Local, CwdWhere, MkdWhere, Detour, Unknown, UserWhere, Made
    <2> QED BY <2>2, <2>4, <2>5, <2>9
<1> QED
    BY <1>1, <1>15, <1>16, <1>18, <1>19, Assemble

(* The server has answered the command of e; w is the command and the answer. *)
Answered(e, w) ==
    /\ turn = None /\ Busy(e) /\ ~wire[e].done /\ w \in WireType /\ WireOp(w)
    /\ wire' = [wire EXCEPT ![e] = w]
    /\ w.verb = wire[e].verb /\ w.path = wire[e].path /\ w.name = wire[e].name /\ w.meant = wire[e].meant
    /\ w.move = wire[e].move /\ w.skip = wire[e].skip /\ w.done
    /\ UNCHANGED <<link, pwdWorks, cache, currentPath, invalidate, ops, pending, turn, raced, mkdOK, commands, faults>>

(* An answer changes nothing of what was sent. *)
LEMMA AnsweredWire ==
    ASSUME Types, NEW e \in Engines, NEW w, Answered(e, w)
    PROVE  /\ wire'[e] = w /\ wire' \in [Engines -> WireType] /\ \A f \in Engines \ {e} : wire'[f] = wire[f]
           /\ \A f \in Engines : /\ wire'[f].verb = wire[f].verb /\ wire'[f].path = wire[f].path
                                 /\ wire'[f].name = wire[f].name /\ wire'[f].move = wire[f].move
                                 /\ wire'[f].skip = wire[f].skip
           /\ \A f \in Engines : Top(f)' = Top(f) /\ (Busy(f)' <=> Busy(f)) /\ turn # f /\ turn' # f
           /\ \A f \in Engines : (Live(f)' <=> Live(f)) /\ (Moving(f)' <=> Moving(f)) /\ (Destroying(f)' => Destroying(f))
           /\ ~Destroying(e)'
<1>1. wire'[e] = w /\ wire' \in [Engines -> WireType] /\ \A f \in Engines \ {e} : wire'[f] = wire[f]
    BY DEF Answered, Types
<1>2. ASSUME NEW f \in Engines
      PROVE  /\ wire'[f].verb = wire[f].verb /\ wire'[f].path = wire[f].path
             /\ wire'[f].name = wire[f].name /\ wire'[f].move = wire[f].move /\ wire'[f].skip = wire[f].skip
    BY <1>1 DEF Answered
<1>3. ASSUME NEW f \in Engines PROVE Top(f)' = Top(f) /\ (Busy(f)' <=> Busy(f)) /\ turn # f /\ turn' # f
    BY <1>2, WorkingDirAssumption DEF Answered, Top, Busy
<1>4. ASSUME NEW f \in Engines PROVE (Live(f)' <=> Live(f)) /\ (Moving(f)' <=> Moving(f))
          /\ (Destroying(f)' => Destroying(f))
    <2>1. CASE f = e
        BY <1>1, <1>2, <1>3, <2>1 DEF Live, Moving, Destroying, Answered
    <2>2. CASE f # e
        BY <1>1, <1>3, <2>2 DEF Live, Moving, Destroying
    <2> QED BY <2>1, <2>2
<1>5. ~Destroying(e)'
    BY <1>1 DEF Destroying, Answered
<1> QED
    BY <1>1, <1>2, <1>3, <1>4, <1>5

(* After an answer it is still clear whose turn it is and what has been    *)
(* sent.                                                                   *)
LEMMA AnsweredControl ==
    ASSUME Inv, NEW e \in Engines, NEW w, Answered(e, w), NEW f \in Engines
    PROVE  Control(f)'
<1>1. Types /\ Control(f) /\ Control(e)
    BY DEF Inv
<1>2. /\ wire'[e] = w /\ (f # e => wire'[f] = wire[f]) /\ Top(f)' = Top(f) /\ (Busy(f)' <=> Busy(f))
      /\ turn # f /\ turn' # f /\ wire'[f].verb = wire[f].verb /\ wire'[f].skip = wire[f].skip
    BY <1>1, AnsweredWire
<1>3. WireOp(wire'[f])
    BY <1>1, <1>2 DEF Answered, Control
<1>4. Sent(Top(f), wire[f]) => Sent(Top(f), wire'[f])
    <2>1. CASE f = e
        BY <1>2, <2>1, SMTT(30) DEF Sent, Answered
    <2>2. CASE f # e
        BY <1>2, <2>2
    <2> QED BY <2>1, <2>2
<1> QED
    BY <1>1, <1>2, <1>3, <1>4 DEF Control, Answered

(* What is sent tells what the operation on top is. *)
LEMMA SentIs ==
    ASSUME Scope, Inv, NEW e \in Engines, turn = None, ops[e] # << >>, Busy(e)
    PROVE  /\ Types /\ Control(e) /\ Top(e) \in OpType /\ turn # e /\ mkdOK[e] = None
           /\ wire[e].skip => Len(ops[e]) = 1 /\ Top(e).state = "init" /\ Top(e).id # "cwd"
           /\ ~wire[e].skip => Sent(Top(e), wire[e])
           /\ ~wire[e].skip /\ Top(e).id = "cwd" =>
                 Moving(e) /\ wire[e].verb \in Moves /\ Top(e).state \notin {"init", "waitlock"} /\ CwdOp(ops[e][1], Top(e))
           /\ ~wire[e].skip /\ Top(e).id = "mkd" =>
                 /\ MkdOp(Top(e)) /\ Top(e).state \in {"findparent", "mkdsub", "cwdsub", "tryfull"}
                 /\ Top(e).state \in {"findparent", "cwdsub"} => Moving(e)
                 /\ wire[e].verb \in {"CWD", "MKD"}
           /\ Top(e).id \notin {"cwd", "mkd"} => UserOp(Top(e))
           /\ Len(ops[e]) = 2 <=> Top(e).id = "cwd"
<1>1. Types /\ Control(e) /\ turn # e
    BY WorkingDirAssumption DEF Inv
<1>2. mkdOK[e] = None /\ Top(e) \in OpType /\ (Len(ops[e]) = 2 <=> Top(e).id = "cwd")
    BY <1>1, Shape DEF Control
<1>3. wire[e].skip => Len(ops[e]) = 1 /\ Top(e).state = "init" /\ Top(e).id # "cwd"
    BY <1>1, Shape DEF Control, UserOp
<1>4. ~wire[e].skip => Sent(Top(e), wire[e])
    BY <1>1, <1>2 DEF Control
<1>5. ASSUME ~wire[e].skip, Top(e).id = "cwd"
      PROVE  Moving(e) /\ wire[e].verb \in Moves /\ Top(e).state \notin {"init", "waitlock"} /\ CwdOp(ops[e][1], Top(e))
    <2>1. CwdOp(ops[e][1], Top(e))
        BY <1>1, <1>5, CwdFacts
    <2>2. Top(e).state \in {"init", "waitlock", "pwd", "cwd", "pwd_cwd", "cwd_subdir", "pwd_subdir"}
        BY <2>1 DEF CwdOp
    <2>3. Top(e).state \notin {"init", "waitlock"}
        BY <1>4, <1>5 DEF Sent
    <2>4. wire[e].verb \in Moves
        BY <1>4, <1>5, <2>2, <2>3 DEF Sent, Moves
    <2> QED BY <1>5, <2>1, <2>3, <2>4 DEF Moving
<1>6. ASSUME ~wire[e].skip, Top(e).id = "mkd"
      PROVE  /\ MkdOp(Top(e)) /\ Top(e).state \in {"findparent", "mkdsub", "cwdsub", "tryfull"}
             /\ Top(e).state \in {"findparent", "cwdsub"} => Moving(e)
             /\ wire[e].verb \in {"CWD", "MKD"}
    <2>1. MkdOp(Top(e))
        BY <1>1, <1>6, Shape
    <2>2. Top(e).state \in {"findparent", "mkdsub", "cwdsub", "tryfull"}
        BY <1>4, <1>6, <2>1 DEF MkdOp, StatesOf, Sent
    <2>3. wire[e].verb \in {"CWD", "MKD"} /\ (Top(e).state \in {"findparent", "cwdsub"} => wire[e].verb = "CWD")
        BY <1>4, <1>6, <2>2 DEF Sent
    <2> QED BY <1>6, <2>1, <2>2, <2>3 DEF Moving, Moves
<1>7. Top(e).id \notin {"cwd", "mkd"} => UserOp(Top(e))
    BY <1>1, Shape
<1> QED
    BY <1>1, <1>2, <1>3, <1>4, <1>5, <1>6, <1>7

(* A change of directory for an operation that is meant to be somewhere    *)
(* goes somewhere.                                                         *)
LEMMA DetourPath ==
    ASSUME Scope, Types, NEW f \in Engines, Control(f), Len(ops[f]) = 2, ops[f][1].meant # None
    PROVE  ops[f][2].path # None
<1>1. ops[f] # << >>
    OBVIOUS
<1>2. Top(f).id = "cwd"
    BY <1>1, Shape
<1>3. /\ Top(f) = ops[f][2] /\ UserOp(ops[f][1]) /\ ops[f][1].state = "waitcwd" /\ CwdOp(ops[f][1], ops[f][2])
    BY <1>1, <1>2, CwdFacts
<1>4. ops[f][1].path # None
    BY <1>3 DEF UserOp, StatesOf, Ids
<1> QED
    BY <1>3, <1>4 DEF CwdOp

(* Nothing but new directories: who has found something still finds it. *)
LEMMA GrowLocal ==
    ASSUME Scope, Inv, NEW e \in Engines, NEW w, Answered(e, w), UNCHANGED disturbed, dirs \subseteq dirs',
           NEW f \in Engines \ {e}, at'[f] = at[f], Local(f)
    PROVE  Local(f)'
<1>1. Types /\ Control(f)
    BY DEF Inv
<1>2. wire'[f] = wire[f] /\ Top(f)' = Top(f) /\ (Live(f)' <=> Live(f)) /\ turn # f /\ turn' # f
    BY <1>1, AnsweredWire
<1>3. UNCHANGED <<link, pwdWorks, cache, currentPath, invalidate, ops, pending, turn, mkdOK, disturbed>>
    BY DEF Answered
<1>4. Belief(f) /\ CwdWhere(f) /\ MkdWhere(f) /\ Detour(f) /\ Unknown(f) /\ UserWhere(f) /\ Made(f)
    BY DEF Local
<1>5. \A p : AtPath(f, p) => AtPath(f, p)'
    BY <1>3, LeadsGrows DEF AtPath
<1>6. \A p, n : AtEntry(f, p, n) => AtEntry(f, p, n)'
    BY <1>3, LeadsGrows DEF AtEntry
<1>7. Belief(f)' /\ Unknown(f)' /\ Made(f)'
    BY <1>3, <1>4 DEF Belief, Stale, Unknown, Made
<1>8. CwdWhere(f)'
    <2>1. Waited(f)' <=> Waited(f)
        BY <1>2, <1>3 DEF Waited
    <2>2. ops[f] # << >> /\ Top(f).id = "cwd" /\ Live(f) /\ Top(f).state = "cwd" /\ Top(f).target # None =>
              Reach(dirs', link, Top(f).path) = Top(f).target \/ Waited(f)
        BY <1>4 DEF CwdWhere, Reach
    <2> QED
        BY <1>2, <1>3, <1>4, <1>5, <1>6, <2>1, <2>2 DEF CwdWhere
<1>9. MkdWhere(f)'
    BY <1>2, <1>3, <1>4 DEF MkdWhere
<1>10. Detour(f)'
    <2> SUFFICES ASSUME Len(ops[f]) = 2, ~disturbed[f], ops[f][1].meant # None,
                        <<ops[f][2].path, ops[f][2].subDir>> # ops[f][1].meant
                 PROVE  Leads(dirs', link, ops[f][1].meant[1], ops[f][1].meant[2]) = ops[f][2].path
        BY <1>3 DEF Detour
    <2>1. Leads(dirs, link, ops[f][1].meant[1], ops[f][1].meant[2]) = ops[f][2].path
        BY <1>4 DEF Detour
    <2>2. ops[f][2].path # None
        BY <1>1, DetourPath
    <2> QED BY <2>1, <2>2, LeadsGrows
<1>11. UserWhere(f)'
    BY <1>2, <1>3, <1>4, <1>6 DEF UserWhere, Stale
<1> QED
    BY <1>7, <1>8, <1>9, <1>10, <1>11 DEF Local

(* Who has been told of a destruction, or need not be told *)
LEMMA GrowAnnounced ==
    ASSUME Scope, Inv, NEW e \in Engines, NEW w, Answered(e, w), UNCHANGED disturbed,
           \A f \in Engines \ {e} : at'[f] = at[f], Announced
    PROVE  Announced'
<1>1. Types
    BY DEF Inv
<1>2. ASSUME NEW f \in Engines, Destroying(f)', Victim(f)' # None
      PROVE  Destroying(f) /\ Victim(f)' = Victim(f)
    <2>1. f # e /\ Destroying(f) /\ wire'[f] = wire[f] /\ at'[f] = at[f]
        BY <1>1, <1>2, AnsweredWire
    <2> QED BY <2>1 DEF Victim
<1>3. UNCHANGED <<cache, currentPath, invalidate, pending, disturbed>>
    BY DEF Answered
<1> QED
    BY <1>2, <1>3 DEF Announced, Spared, Told, Stale

(* The server has answered, and perhaps there are new directories, or the  *)
(* connection is elsewhere.                                                *)
LEMMA GrowInv ==
    ASSUME Scope, Inv, NEW e \in Engines, NEW w, Answered(e, w), UNCHANGED disturbed,
           dirs \subseteq dirs', dirs' \subseteq Dirs, Closed(dirs'), at' \in [Engines -> dirs' \cup {None}],
           \A f \in Engines \ {e} : at'[f] = at[f],
           at'[e] = at[e] \/ w.verb \in {"CWD", "CDUP", "RAW"},
           ~raced /\ ops[e] # << >> /\ ~w.skip => CwdWhere(e)' /\ MkdWhere(e)' /\ UserWhere(e)'
    PROVE  Inv'
<1>1. Types /\ Control(e)
    BY DEF Inv
<1>2. /\ wire'[e] = w /\ wire' \in [Engines -> WireType] /\ Top(e)' = Top(e) /\ turn # e /\ turn' # e
      /\ (Busy(e)' <=> Busy(e)) /\ (Live(e)' <=> Live(e))
      /\ \A f \in Engines : (Moving(f)' <=> Moving(f)) /\ (Destroying(f)' => Destroying(f))
    BY <1>1, AnsweredWire
<1>3. UNCHANGED <<link, pwdWorks, cache, currentPath, invalidate, ops, pending, turn, raced, mkdOK, disturbed,
          commands, faults>>
    BY DEF Answered
<1>4. Types'
    BY <1>1, <1>2, <1>3 DEF Types
<1>5. \A f \in Engines : Control(f)'
    BY AnsweredControl
<1>6. ASSUME ~raced PROVE CacheTrue' /\ Apart' /\ Announced' /\ \A f \in Engines : Local(f)'
    <2>1. CacheTrue /\ Apart /\ Announced /\ \A f \in Engines : Local(f)
        BY <1>6 DEF Inv, Truth
    <2>2. CacheTrue'
        <3>1. \A x \in cache : x.target # None
            BY <1>1, PathsAre DEF Types, Entries, Scope
        <3> QED BY <3>1, <2>1, <1>3, LeadsGrows DEF CacheTrue
    <2>3. Apart'
        BY <2>1, <1>2 DEF Apart
    <2>4. Announced'
        BY <2>1, GrowAnnounced
    <2>5. ASSUME NEW f \in Engines \ {e} PROVE Local(f)'
        BY <2>1, GrowLocal
    <2>6. Local(e)'
        <3>1. Belief(e) /\ Detour(e) /\ Unknown(e) /\ Made(e)
            BY <2>1 DEF Local
        <3>2. Belief(e)'
            <4>1. CASE at'[e] = at[e]
                BY <4>1, <3>1, <1>3 DEF Belief, Stale
            <4>2. CASE w.verb \in {"CWD", "CDUP", "RAW"}
                <5>1. currentPath[e] = None
                    BY <4>2, <1>1 DEF Answered, Control, Moves
                <5> QED BY <5>1, <1>3 DEF Belief
            <4> QED BY <4>1, <4>2
        <3>3. Unknown(e)' /\ Made(e)'
            BY <3>1, <1>3 DEF Unknown, Made
        <3>4. Detour(e)'
            <4> SUFFICES ASSUME Len(ops[e]) = 2, ~disturbed[e], ops[e][1].meant # None,
                                <<ops[e][2].path, ops[e][2].subDir>> # ops[e][1].meant
                         PROVE  Leads(dirs', link, ops[e][1].meant[1], ops[e][1].meant[2]) = ops[e][2].path
                BY <1>3 DEF Detour
            <4>1. Leads(dirs, link, ops[e][1].meant[1], ops[e][1].meant[2]) = ops[e][2].path
                BY <3>1 DEF Detour
            <4>2. ops[e][2].path # None
                BY <1>1, DetourPath
            <4> QED BY <4>1, <4>2, LeadsGrows
        <3>5. CASE ops[e] # << >> /\ ~w.skip
            BY <3>2, <3>3, <3>4, <3>5, <1>6 DEF Local
        <3>6. CASE ops[e] = << >>
            BY <3>2, <3>3, <3>4, <3>6, <1>3 DEF Local, CwdWhere, MkdWhere, UserWhere
        <3>7. CASE ops[e] # << >> /\ w.skip
            <4>1. ~Live(e)' /\ Top(e).state = "init"
                BY <3>7, <1>1, <1>2 DEF Live, Control, Answered
            <4> QED BY <3>2, <3>3, <3>4, <4>1, <1>2 DEF Local, CwdWhere, MkdWhere, UserWhere
        <3> QED BY <3>5, <3>6, <3>7
    <2> QED BY <2>2, <2>3, <2>4, <2>5, <2>6
<1> QED
    BY <1>3, <1>4, <1>5, <1>6 DEF Inv, Truth

(* Resolve and Enter are Reach and Step. *)
LEMMA ServerIs ==
    /\ \A p : Resolve(p) = Reach(dirs, link, p)
    /\ \A d, n : Enter(d, n) = Step(dirs, link, d, n)
<1>1. \A p : Resolve(p) = Reach(dirs, link, p)
    BY DEF Resolve, Reach, RealPath
<1> QED
    BY <1>1 DEF Enter, Step

(* Where a command is carried out *)
LEMMA BaseIs ==
    ASSUME Types, NEW e \in Engines
    PROVE  /\ Base(e) \in dirs \cup {None}
           /\ wire[e].path = None => Base(e) = at[e]
           /\ wire[e].path # None => Base(e) = Reach(dirs, link, wire[e].path)
BY ServerIs, ReachIn DEF Base, Types

(* The answer to the command of e *)
Reply(e, reply, tells) == [wire[e] EXCEPT !.done = TRUE, !.reply = reply, !.tells = tells]

(* Answer answers. *)
LEMMA AnswerIs ==
    ASSUME Inv, NEW e \in Engines, turn = None, Busy(e), ~wire[e].done,
           NEW reply \in {"ok", "fail", "exists", "file", "unsupported"}, NEW tells \in MaybePaths, Answer(e, reply, tells),
           wire[e].verb \in {"PWD", "RNFR"} /\ reply = "ok" => tells \in Dirs /\ (wire[e].verb = "RNFR" => tells # << >>),
           UNCHANGED <<link, pwdWorks, cache, currentPath, invalidate, ops, pending, turn, raced, mkdOK, commands, faults>>
    PROVE  /\ Answered(e, Reply(e, reply, tells))
           /\ Reply(e, reply, tells).reply = reply /\ Reply(e, reply, tells).tells = tells
<1> DEFINE w == Reply(e, reply, tells)
<1>1. wire[e] \in WireType /\ WireOp(wire[e]) /\ wire \in [Engines -> WireType]
    BY DEF Inv, Types, Control
<1>2. w \in WireType
    BY <1>1 DEF WireType, Reply
<1>3. /\ w.verb = wire[e].verb /\ w.path = wire[e].path /\ w.name = wire[e].name /\ w.meant = wire[e].meant
      /\ w.move = wire[e].move /\ w.skip = wire[e].skip /\ w.done /\ w.reply = reply /\ w.tells = tells
    BY <1>1 DEF WireType, Reply
<1>4. WireOp(w)
    <2> HIDE DEF w
    <2>1. w.verb # "none"
        BY <1>3 DEF Busy
    <2>2. w.verb \in {"PWD", "RNFR"} /\ w.done /\ w.reply = "ok" => w.tells \in Dirs /\ (w.verb = "RNFR" => w.tells # << >>)
        BY <1>3
    <2> QED BY <1>1, <1>3, <2>1, <2>2 DEF WireOp
<1>5. wire' = [wire EXCEPT ![e] = w]
    BY <1>1 DEF Answer, Reply
<1> HIDE DEF w
<1>6. Answered(e, w)
    BY <1>2, <1>3, <1>4, <1>5 DEF Answered
<1> QED
    BY <1>3, <1>6 DEF w

(* What is known of the operation whose command is answered *)
LEMMA AnsweredTop ==
    ASSUME Scope, Inv, NEW e \in Engines, NEW w, Answered(e, w), ~raced, ops[e] # << >>, ~w.skip
    PROVE  /\ Types /\ Control(e) /\ Local(e) /\ Top(e) \in OpType
           /\ wire'[e] = w /\ Top(e)' = Top(e) /\ turn # e /\ turn' # e /\ Live(e) /\ Live(e)'
           /\ ~wire[e].done /\ w.done /\ w.verb = wire[e].verb /\ w.path = wire[e].path
               /\ w.name = wire[e].name /\ w.meant = wire[e].meant
           /\ Sent(Top(e), wire[e])
           /\ Top(e).id = "cwd" => CwdOp(ops[e][1], Top(e)) /\ Top(e).state \notin {"init", "waitlock"}
           /\ Top(e).id = "mkd" => MkdOp(Top(e)) /\ Top(e).state \in {"findparent", "mkdsub", "cwdsub", "tryfull"}
           /\ Top(e).id \notin {"cwd", "mkd"} => UserOp(Top(e))
           /\ ops' = ops /\ link' = link /\ currentPath' = currentPath /\ invalidate' = invalidate /\ pwdWorks' = pwdWorks
           /\ w.path = None => Base(e) = at[e]
           /\ w.path # None => Base(e) = Reach(dirs, link, w.path)
           /\ Base(e) \in dirs \cup {None} /\ None \notin dirs /\ at[e] \in dirs \cup {None}
<1>1. /\ turn = None /\ Busy(e) /\ ~wire[e].done /\ w.verb = wire[e].verb /\ w.path = wire[e].path /\ w.name = wire[e].name
      /\ w.meant = wire[e].meant /\ w.skip = wire[e].skip /\ w.done
      /\ ops' = ops /\ link' = link /\ currentPath' = currentPath /\ invalidate' = invalidate /\ pwdWorks' = pwdWorks
    BY DEF Answered
<1>2. Types /\ Control(e) /\ Local(e)
    BY DEF Inv, Truth
<1>3. wire'[e] = w /\ Top(e)' = Top(e) /\ turn # e /\ turn' # e /\ (Live(e)' <=> Live(e))
    BY <1>2, AnsweredWire
<1>4. Live(e)
    BY <1>1 DEF Live
<1>5. /\ Top(e) \in OpType /\ Sent(Top(e), wire[e])
      /\ Top(e).id = "cwd" => CwdOp(ops[e][1], Top(e)) /\ Top(e).state \notin {"init", "waitlock"}
      /\ Top(e).id = "mkd" => MkdOp(Top(e)) /\ Top(e).state \in {"findparent", "mkdsub", "cwdsub", "tryfull"}
      /\ Top(e).id \notin {"cwd", "mkd"} => UserOp(Top(e))
    BY <1>1, SentIs
<1>6. /\ Base(e) \in dirs \cup {None} /\ (w.path = None => Base(e) = at[e])
      /\ (w.path # None => Base(e) = Reach(dirs, link, w.path))
    BY <1>1, <1>2, BaseIs
<1>7. None \notin dirs /\ at[e] \in dirs \cup {None}
    BY <1>2, PathsAre DEF Types, Scope
<1> QED
    BY <1>1, <1>2, <1>3, <1>4, <1>5, <1>6, <1>7

(* What an answer means for a change of directory *)
LEMMA CwdAnswered ==
    ASSUME Scope, Inv, NEW e \in Engines, NEW w, Answered(e, w), ~raced, ops[e] # << >>, ~w.skip,
           Top(e).id = "cwd", UNCHANGED dirs,
           w.verb = "PWD" => at' = at /\ IF w.reply = "ok" THEN w.tells = at[e] ELSE at[e] = None \/ ~pwdWorks,
           w.verb \in {"CWD", "CDUP"} =>
               IF w.reply = "ok" THEN at'[e] # None /\ at'[e] = Step(dirs, link, Base(e), w.name)
               ELSE at' = at /\ (w.verb = "CDUP" \/ Step(dirs, link, Base(e), w.name) = None)
    PROVE  CwdWhere(e)' /\ MkdWhere(e)' /\ UserWhere(e)'
<1> DEFINE t == Top(e)
<1>1. /\ Types /\ CwdWhere(e) /\ t \in OpType /\ wire'[e] = w /\ Top(e)' = t /\ turn # e /\ turn' # e /\ Live(e) /\ Live(e)'
      /\ ~wire[e].done /\ w.done /\ w.verb = wire[e].verb /\ w.path = wire[e].path /\ w.name = wire[e].name
          /\ w.meant = wire[e].meant
      /\ Sent(t, wire[e]) /\ CwdOp(ops[e][1], t) /\ t.state \notin {"init", "waitlock"}
      /\ ops' = ops /\ link' = link /\ pwdWorks' = pwdWorks
      /\ w.path = None => Base(e) = at[e]
      /\ w.path # None => Base(e) = Reach(dirs, link, w.path)
    BY AnsweredTop DEF Local
<1>2. t.state \in {"pwd", "cwd", "pwd_cwd", "cwd_subdir", "pwd_subdir"} /\ (t.state # "pwd" => t.path # None)
    BY <1>1 DEF CwdOp
<1> HIDE DEF t
<1>3. t.id = "cwd"
    BY DEF t
<1>4. CASE t.state = "cwd"
    <2>1. w.verb = "CWD" /\ w.path = t.path /\ w.name = None
        BY <1>1, <1>3, <1>4 DEF Sent
    <2>2. Step(dirs, link, Base(e), w.name) = Reach(dirs, link, t.path)
        BY <2>1, <1>1, <1>2, <1>4 DEF Step
    <2>3. t.target # None => Reach(dirs, link, t.path) = t.target \/ Waited(e)
        BY <1>1, <1>3, <1>4 DEF CwdWhere, t
    <2>4. w.reply = "ok" => at'[e] # None /\ at'[e] = Reach(dirs', link', t.path)
        BY <2>1, <2>2, <1>1 DEF AtPath
    <2>5. w.reply # "ok" => t.target = None \/ Waited(e)
        BY <2>1, <2>2, <2>3
    <2>6. Waited(e)' <=> Waited(e)
        BY <1>1 DEF Waited, t
    <2>7. CwdWhere(e)'
        BY <1>1, <1>4, <2>1, <2>3, <2>4, <2>5, <2>6 DEF CwdWhere, AtPath, AtEntry
    <2> QED BY <2>7, <1>1, <1>3, <1>4 DEF MkdWhere, UserWhere
<1>5. CASE t.state = "cwd_subdir"
    <2>1. w.verb \in {"CWD", "CDUP"} /\ w.path = None /\ w.name = t.subDir
        BY <1>1, <1>3, <1>5 DEF Sent
    <2>2. at[e] # None /\ at[e] = Reach(dirs, link, t.path)
        BY <1>1, <1>3, <1>5 DEF CwdWhere, AtPath, t
    <2>3. Step(dirs, link, Base(e), w.name) = Leads(dirs, link, t.path, t.subDir)
        BY <2>1, <2>2, <1>1 DEF Leads
    <2>4. w.reply = "ok" => at'[e] # None /\ at'[e] = Leads(dirs', link', t.path, t.subDir)
        BY <2>1, <2>3, <1>1 DEF AtEntry
    <2>5. w.reply # "ok" => at'[e] # None /\ at'[e] = Reach(dirs', link', t.path)
        BY <2>1, <2>2, <1>1 DEF AtPath
    <2>6. CwdWhere(e)'
        BY <1>1, <1>5, <2>1, <2>4, <2>5 DEF CwdWhere, AtPath, AtEntry
    <2> QED BY <2>6, <1>1, <1>3, <1>5 DEF MkdWhere, UserWhere
<1>6. CASE t.state \in {"pwd", "pwd_cwd", "pwd_subdir"}
    <2>1. w.verb = "PWD" /\ at' = at
        BY <1>1, <1>3, <1>6 DEF Sent
    <2>2. t.state = "pwd_cwd" => AtPath(e, t.path) /\ at'[e] # None /\ at'[e] = Reach(dirs', link', t.path) /\ at[e] # None
        BY <1>1, <1>3, <1>6, <2>1 DEF CwdWhere, AtPath, t
    <2>3. t.state = "pwd_subdir" => AtEntry(e, t.path, t.subDir) /\ at'[e] # None
              /\ at'[e] = Leads(dirs', link', t.path, t.subDir) /\ at[e] # None
        BY <1>1, <1>3, <1>6, <2>1 DEF CwdWhere, AtEntry, t
    <2>4. CwdWhere(e)'
        BY <1>1, <1>6, <2>1, <2>2, <2>3 DEF CwdWhere, AtPath, AtEntry
    <2> QED BY <2>4, <1>1, <1>3, <1>6 DEF MkdWhere, UserWhere
<1> QED
    BY <1>2, <1>4, <1>5, <1>6

(* What an answer means for a creation of directories *)
LEMMA MkdAnswered ==
    ASSUME Scope, Inv, NEW e \in Engines, NEW w, Answered(e, w), ~raced, ops[e] # << >>, ~w.skip, UNCHANGED disturbed,
           Top(e).id = "mkd", dirs' \subseteq Dirs,
           w.verb = "CWD" /\ w.reply = "ok" => at'[e] # None /\ at'[e] = Step(dirs, link, Base(e), w.name),
           w.verb = "MKD" /\ w.reply \notin {"fail", "file"} => Entry(Base(e), w.name) \in dirs'
    PROVE  CwdWhere(e)' /\ MkdWhere(e)' /\ UserWhere(e)'
<1> DEFINE t == Top(e)
<1>1. /\ Types /\ MkdWhere(e) /\ Belief(e) /\ t \in OpType /\ wire'[e] = w /\ Top(e)' = t /\ turn # e /\ turn' # e
      /\ Live(e) /\ Live(e)'
      /\ w.done /\ w.verb = wire[e].verb /\ w.path = wire[e].path /\ w.name = wire[e].name
      /\ Sent(t, wire[e]) /\ MkdOp(t) /\ t.state \in {"findparent", "mkdsub", "cwdsub", "tryfull"}
      /\ ops' = ops /\ link' = link /\ currentPath' = currentPath /\ at[e] \in dirs \cup {None}
      /\ w.path = None => Base(e) = at[e]
      /\ w.path # None => Base(e) = Reach(dirs, link, w.path)
    BY AnsweredTop DEF Local
<1>2. Outside /\ None \notin dirs' /\ None \notin Canonical
    BY PathsAre DEF Scope
<1> HIDE DEF t
<1>3. t.id = "mkd"
    BY DEF t
<1>4. CASE t.state \in {"findparent", "cwdsub"}
    <2>1. w.verb = "CWD" /\ w.path = t.mkdPath /\ w.name = None
        BY <1>1, <1>3, <1>4 DEF Sent
    <2>2. t.mkdPath \in Canonical
        BY <1>1, <1>4 DEF MkdOp
    <2>3. Step(dirs, link, Base(e), w.name) \in {t.mkdPath, None}
        BY <2>1, <2>2, <1>1, <1>2, ReachCanonical DEF Step
    <2>4. w.reply = "ok" => at'[e] = t.mkdPath
        BY <2>1, <2>3
    <2> QED BY <2>1, <2>4, <1>1, <1>3, <1>4 DEF CwdWhere, MkdWhere, UserWhere
<1>5. CASE t.state = "mkdsub"
    <2>1. w.verb = "MKD" /\ w.path = None /\ w.name = Last(t.segments)
        BY <1>1, <1>3, <1>5 DEF Sent
    <2>2. currentPath[e] = t.mkdPath /\ t.mkdPath \in Canonical
        BY <1>1, <1>3, <1>5 DEF MkdWhere, MkdOp, t
    <2>3. at[e] = t.mkdPath \/ disturbed[e]
        BY <2>2, <1>1, <1>2 DEF Belief, Stale
    <2>4. ASSUME w.reply \notin {"fail", "file"}, ~disturbed[e] PROVE AddSegment(t.mkdPath, Last(t.segments)) \in dirs'
        <3>1. Entry(t.mkdPath, Last(t.segments)) \in dirs'
            BY <2>1, <2>3, <2>4, <1>1
        <3> QED BY <3>1, <1>2 DEF Entry
    <2> QED BY <2>2, <2>4, <1>1, <1>3, <1>5 DEF CwdWhere, MkdWhere, UserWhere
<1>6. CASE t.state = "tryfull"
    <2>1. /\ w.verb = "MKD" /\ t.path \in Canonical
          /\ IF HasParent(t.path)
             THEN w.path = GetParent(t.path) /\ w.name = Last(t.path)
             ELSE w.path = t.path /\ w.name = None
        BY <1>1, <1>3, <1>6 DEF Sent, MkdOp
    <2>2. ASSUME w.reply = "ok" PROVE t.path \in dirs'
        <3>1. Entry(Base(e), w.name) \in dirs' /\ Entry(Base(e), w.name) # None
            BY <2>1, <2>2, <1>2
        <3>2. Base(e) # None /\ w.name # None /\ Entry(Base(e), w.name) = AddSegment(Base(e), w.name)
            BY <3>1 DEF Entry
        <3>3. HasParent(t.path) /\ w.path = GetParent(t.path) /\ w.name = Last(t.path)
            BY <2>1, <3>2
        <3>4. GetParent(t.path) \in Canonical /\ t.path = AddSegment(GetParent(t.path), Last(t.path))
            BY <2>1, <3>3, ParentIs DEF Canonical
        <3>5. Base(e) = GetParent(t.path)
            BY <3>2, <3>3, <3>4, <1>1, <1>2, ReachCanonical
        <3> QED BY <3>1, <3>2, <3>3, <3>4, <3>5
    <2> QED BY <2>2, <1>1, <1>3, <1>6 DEF CwdWhere, MkdWhere, UserWhere
<1> QED
    BY <1>1, <1>4, <1>5, <1>6

(* What an answer means for the other operations *)
LEMMA UserAnswered ==
    ASSUME Scope, Inv, NEW e \in Engines, NEW w, Answered(e, w), ~raced, ops[e] # << >>, ~w.skip,
        UNCHANGED <<dirs, disturbed>>,
           Top(e).id \notin {"cwd", "mkd"},
           at' = at \/ w.verb = "RAW",
           w.verb = "RNFR" /\ w.reply = "ok" => w.tells = Entry(Base(e), w.name) /\ w.tells \in dirs
    PROVE  CwdWhere(e)' /\ MkdWhere(e)' /\ UserWhere(e)'
<1> DEFINE t == Top(e)
<1>1. /\ Types /\ UserWhere(e) /\ Belief(e) /\ t \in OpType /\ wire'[e] = w /\ Top(e)' = t
      /\ w.done /\ w.verb = wire[e].verb /\ w.path = wire[e].path /\ w.name = wire[e].name
      /\ Sent(t, wire[e]) /\ UserOp(t)
      /\ ops' = ops /\ link' = link /\ currentPath' = currentPath /\ invalidate' = invalidate
      /\ w.path = None => Base(e) = at[e]
      /\ w.path # None => Base(e) = Reach(dirs, link, w.path)
      /\ None \notin dirs
    BY AnsweredTop DEF Local
<1>2. Outside /\ None \notin Canonical
    BY PathsAre DEF Scope
<1> HIDE DEF t
<1>3. t.id \notin {"cwd", "mkd"}
    BY DEF t
<1>4. CASE w.verb = "RAW"
    <2>1. t.id = "raw"
        BY <1>1, <1>3, <1>4 DEF Sent, UserOp, Ids
    <2>2. t.state = "init"
        BY <2>1, <1>1 DEF UserOp, StatesOf
    <2> QED BY <2>1, <2>2, <1>1 DEF CwdWhere, MkdWhere, UserWhere
<1>5. CASE w.verb # "RAW"
    <2>1. at' = at
        BY <1>5
    <2>2. ASSUME w.verb = "RNFR", w.reply = "ok" PROVE w.tells = AddSegment(t.path, t.subDir) \/ Stale(e)
        <3>1. t.id = "rename" /\ t.state = "send" /\ w.path = PathOf(t) /\ w.name = t.subDir
            BY <2>2, <1>1, <1>3 DEF Sent, UserOp, Ids
        <3>2. w.tells = AddSegment(Base(e), t.subDir) /\ Base(e) # None
            BY <2>2, <3>1, <1>1 DEF Entry
        <3>3. t.path \in Canonical
            BY <1>1, <3>1 DEF UserOp
        <3>4. CASE t.flag
            <4>1. Base(e) = t.path
                BY <3>1, <3>2, <3>3, <3>4, <1>1, <1>2, ReachCanonical DEF PathOf
            <4> QED BY <4>1, <3>2
        <3>5. CASE ~t.flag
            <4>1. Base(e) = at[e] /\ currentPath[e] = t.path
                BY <3>1, <3>5, <1>1 DEF PathOf, UserWhere, t
            <4> QED BY <4>1, <3>2, <3>3, <1>1, <1>2 DEF Belief
        <3> QED BY <3>4, <3>5
    <2>3. UserWhere(e)'
        <3>1. (Stale(e)' <=> Stale(e)) /\ \A p, n : AtEntry(e, p, n) => at'[e] # None /\ at'[e] = Leads(dirs', link', p, n)
            BY <2>1, <1>1 DEF Stale, AtEntry
        <3> QED BY <2>2, <3>1, <1>1 DEF UserWhere, AtEntry, t
    <2> QED BY <2>3, <1>1, <1>3 DEF CwdWhere, MkdWhere
<1> QED
    BY <1>4, <1>5

(* The answer is true, whatever is asked. *)
Truthful(e, w) ==
    /\ at' = at \/ w.verb \in {"CWD", "CDUP", "RAW"}
    /\ w.verb # "MKD" => dirs' = dirs
    /\ w.verb = "PWD" /\ ~w.skip => IF w.reply = "ok" THEN w.tells = at[e] ELSE at[e] = None \/ ~pwdWorks
    /\ w.verb \in {"CWD", "CDUP"} /\ ~w.skip =>
          IF w.reply = "ok" THEN at'[e] # None /\ at'[e] = Step(dirs, link, Base(e), w.name)
          ELSE at' = at /\ (w.verb = "CDUP" \/ Step(dirs, link, Base(e), w.name) = None)
    /\ w.verb = "MKD" /\ w.reply \notin {"fail", "file"} => Entry(Base(e), w.name) \in dirs'
    /\ w.verb = "RNFR" /\ w.reply = "ok" => w.tells = Entry(Base(e), w.name) /\ w.tells \in dirs

(* An answer that is true and destroys nothing keeps the invariant. *)
LEMMA AnswerInv ==
    ASSUME Scope, Inv, NEW e \in Engines, NEW w, Answered(e, w), UNCHANGED disturbed,
           dirs \subseteq dirs', dirs' \subseteq Dirs, Closed(dirs'), at' \in [Engines -> dirs' \cup {None}],
           \A f \in Engines \ {e} : at'[f] = at[f], Truthful(e, w)
    PROVE  Inv'
<1>1. at'[e] = at[e] \/ w.verb \in {"CWD", "CDUP", "RAW"}
    BY DEF Truthful
<1>2. ASSUME ~raced, ops[e] # << >>, ~w.skip
      PROVE  CwdWhere(e)' /\ MkdWhere(e)' /\ UserWhere(e)'
    <2>1. turn = None /\ Busy(e) /\ ~wire[e].skip /\ w.verb = wire[e].verb
        BY <1>2 DEF Answered
    <2>2. /\ Top(e).id = "cwd" => w.verb \in Moves
          /\ Sent(Top(e), wire[e]) /\ Top(e) \in OpType
          /\ Top(e).id \notin {"cwd", "mkd"} => UserOp(Top(e))
        BY <1>2, <2>1, SentIs
    <2>3. CASE Top(e).id = "cwd"
        <3>1. w.verb \in {"PWD", "CWD", "CDUP"}
            BY <2>2, <2>3 DEF Moves
        <3> QED BY <1>2, <2>3, <3>1, CwdAnswered DEF Truthful
    <2>4. CASE Top(e).id = "mkd"
        BY <1>2, <2>4, MkdAnswered DEF Truthful
    <2>5. CASE Top(e).id \notin {"cwd", "mkd"}
        <3>1. w.verb \notin {"CWD", "CDUP", "MKD"}
            BY <2>1, <2>2, <2>5 DEF Sent, UserOp, Ids
        <3>2. (at' = at \/ w.verb = "RAW") /\ dirs' = dirs
            BY <3>1 DEF Truthful
        <3> QED BY <1>2, <2>5, <3>2, UserAnswered DEF Truthful
    <2> QED BY <2>3, <2>4, <2>5
<1> QED
    BY <1>1, <1>2, GrowInv

(* What is known of the server *)
LEMMA SameServer ==
    ASSUME Inv
    PROVE  /\ dirs \subseteq Dirs /\ Closed(dirs) /\ at \in [Engines -> dirs \cup {None}]
           /\ \A e \in Engines : wire[e].verb \in Verbs
BY DEF Inv, Types, WireType

(* A refusal keeps the invariant if there was nothing to be found. *)
LEMMA RefuseInv ==
    ASSUME Scope, Inv, NEW e \in Engines, turn = None, Busy(e), ~wire[e].done, Refuse(e),
           UNCHANGED <<cache, currentPath, invalidate, ops, pending, turn, raced, mkdOK, commands, faults>>,
           wire[e].verb = "PWD" /\ ~wire[e].skip => at[e] = None \/ ~pwdWorks,
           wire[e].verb = "CWD" => Step(dirs, link, Base(e), wire[e].name) = None
    PROVE  Inv'
<1> DEFINE w == Reply(e, "fail", None)
<1>1. /\ Answer(e, "fail", None) /\ UNCHANGED <<dirs, link, pwdWorks, at, disturbed>>
    BY DEF Refuse, server
<1>2. Answered(e, w) /\ w.reply = "fail"
    BY <1>1, AnswerIs DEF MaybePaths
<1> HIDE DEF w
<1>3. w.verb = wire[e].verb /\ w.name = wire[e].name /\ w.skip = wire[e].skip
    BY <1>2 DEF Answered
<1>4. Truthful(e, w)
    BY <1>1, <1>2, <1>3 DEF Truthful
<1>5. dirs \subseteq dirs' /\ dirs' \subseteq Dirs /\ Closed(dirs') /\ at' \in [Engines -> dirs' \cup {None}]
      /\ \A f \in Engines \ {e} : at'[f] = at[f]
    BY <1>1, SameServer
<1> QED
    BY <1>1, <1>2, <1>4, <1>5, AnswerInv

(* The context of a command that the server carries out *)
Frame(e) ==
    /\ turn = None /\ Busy(e) /\ ~wire[e].done
    /\ UNCHANGED <<cache, currentPath, invalidate, ops, pending, turn, raced, mkdOK, commands, faults>>

(* A successful change of directory keeps the invariant. *)
LEMMA MoveInv ==
    ASSUME Scope, Inv, NEW e \in Engines, Frame(e), Answer(e, "ok", None),
           wire[e].verb \in {"CWD", "CDUP", "RAW"}, NEW d \in dirs \cup {None}, at' = [at EXCEPT ![e] = d],
           wire[e].verb # "RAW" /\ ~wire[e].skip => d # None /\ d = Step(dirs, link, Base(e), wire[e].name),
           UNCHANGED <<dirs, link, pwdWorks, disturbed>>
    PROVE  Inv'
<1> DEFINE w == Reply(e, "ok", None)
<1>1. Answered(e, w) /\ w.reply = "ok"
    BY AnswerIs DEF MaybePaths, Frame
<1> HIDE DEF w
<1>2. w.verb = wire[e].verb /\ w.name = wire[e].name /\ w.skip = wire[e].skip
    BY <1>1 DEF Answered
<1>3. dirs \subseteq dirs' /\ dirs' \subseteq Dirs /\ Closed(dirs') /\ at' \in [Engines -> dirs' \cup {None}]
      /\ (\A f \in Engines \ {e} : at'[f] = at[f]) /\ at'[e] = d
    BY SameServer
<1>4. Truthful(e, w)
    BY <1>1, <1>2, <1>3 DEF Truthful
<1> QED
    BY <1>1, <1>3, <1>4, AnswerInv

(* A reply without an effect keeps the invariant. *)
LEMMA TellInv ==
    ASSUME Scope, Inv, NEW e \in Engines, Frame(e),
           NEW reply \in {"ok", "fail", "exists", "file", "unsupported"}, NEW tells \in MaybePaths, Answer(e, reply, tells),
           UNCHANGED <<dirs, link, pwdWorks, at, disturbed>>,
           wire[e].verb \notin {"CWD", "RAW"}, wire[e].verb = "CDUP" => reply # "ok",
           wire[e].verb = "PWD" => reply = "ok" /\ tells \in Dirs /\ (~wire[e].skip => tells = at[e]),
           wire[e].verb = "MKD" /\ reply \notin {"fail", "file"} => Entry(Base(e), wire[e].name) \in dirs,
           wire[e].verb = "RNFR" /\ reply = "ok" => tells = Entry(Base(e), wire[e].name) /\ tells \in dirs /\ tells # << >>
    PROVE  Inv'
<1> DEFINE w == Reply(e, reply, tells)
<1>1. Answered(e, w) /\ w.reply = reply /\ w.tells = tells
    BY SameServer, AnswerIs DEF Frame
<1> HIDE DEF w
<1>2. w.verb = wire[e].verb /\ w.name = wire[e].name /\ w.skip = wire[e].skip
    BY <1>1 DEF Answered
<1>3. dirs \subseteq dirs' /\ dirs' \subseteq Dirs /\ Closed(dirs') /\ at' \in [Engines -> dirs' \cup {None}]
      /\ (\A f \in Engines \ {e} : at'[f] = at[f])
    BY SameServer
<1>4. Truthful(e, w)
    BY <1>1, <1>2, <1>3 DEF Truthful
<1> QED
    BY <1>1, <1>3, <1>4, AnswerInv

(* A new entry of a directory that is there *)
LEMMA ClosedGrows ==
    ASSUME NEW D, D \subseteq Dirs, Closed(D), NEW d \in D, NEW n \in Names, AddSegment(d, n) \in Dirs
    PROVE  Closed(D \cup {AddSegment(d, n)})
<1> DEFINE a == AddSegment(d, n)
<1>1. d \in Canonical /\ Len(d) \in Nat
    BY DirsAre, LenProperties DEF Canonical
<1>2. a \in Canonical /\ Len(a) = Len(d) + 1 /\ \A i \in 1..Len(d) : a[i] = d[i]
    BY <1>1, CoversSegment, AppendProperties DEF Canonical, AddSegment
<1> HIDE DEF a
<1>3. ASSUME NEW p \in Dirs, Covers(p, a) PROVE p \in D \cup {a}
    <2>1. p \in Canonical /\ Len(p) \in Nat
        BY DirsAre, LenProperties DEF Canonical
    <2>2. Len(p) <= Len(a) /\ \A i \in 1..Len(p) : a[i] = p[i]
        BY <2>1, <1>2, <1>3, CoversIs DEF Canonical
    <2>3. CASE Len(p) = Len(a)
        <3>1. p = a
            BY <2>1, <2>2, <2>3, <1>2, SeqEqual DEF Canonical
        <3> QED BY <3>1
    <2>4. CASE Len(p) # Len(a)
        <3>1. Len(p) <= Len(d)
            BY <2>1, <2>2, <2>4, <1>1, <1>2
        <3>2. \A i \in 1..Len(p) : d[i] = p[i]
            BY <3>1, <2>1, <2>2, <1>1, <1>2
        <3>3. Covers(p, d)
            BY <3>1, <3>2, <2>1, <1>1, CoversIs DEF Canonical
        <3> QED BY <3>3 DEF Closed
    <2> QED BY <2>3, <2>4
<1> QED
    BY <1>3 DEF Closed, a

(* A successful MKD keeps the invariant. *)
LEMMA MakeInv ==
    ASSUME Scope, Inv, NEW e \in Engines, Frame(e), Answer(e, "ok", None), wire[e].verb = "MKD",
           Entry(Base(e), wire[e].name) \in Dirs, dirs' = dirs \cup {Entry(Base(e), wire[e].name)},
           UNCHANGED <<link, pwdWorks, at, disturbed>>
    PROVE  Inv'
<1> DEFINE w == Reply(e, "ok", None)
           d == Base(e)
           n == wire[e].name
<1>1. Answered(e, w) /\ w.reply = "ok"
    BY AnswerIs DEF MaybePaths, Frame
<1> HIDE DEF w
<1>2. w.verb = wire[e].verb /\ w.name = wire[e].name /\ w.skip = wire[e].skip
    BY <1>1 DEF Answered
<1>3. d \in dirs /\ n # None /\ Entry(d, n) = AddSegment(d, n) /\ AddSegment(d, n) \in Dirs
    BY PathsAre, BaseIs DEF Entry, Scope, Inv
<1>4. n \in Names
    <2>1. d \in Canonical /\ Len(d) \in Nat
        BY <1>3, SameServer, DirsAre, LenProperties DEF Canonical
    <2>2. AddSegment(d, n) \in Seq(Names)
        BY <1>3, DirsAre DEF Canonical
    <2> HIDE DEF d, n
    <2>3. d \in Seq(Names \cup {n}) /\ n \in Names \cup {n}
        BY <2>1, SeqMonotonic DEF Canonical
    <2>4. Len(AddSegment(d, n)) = Len(d) + 1 /\ AddSegment(d, n)[Len(d) + 1] = n
        BY <2>1, <2>3, AppendProperties DEF AddSegment
    <2>5. Len(d) + 1 \in 1..Len(AddSegment(d, n))
        BY <2>1, <2>4
    <2> QED BY <2>2, <2>4, <2>5, ElementOfSeq
<1>5. dirs \subseteq dirs' /\ dirs' \subseteq Dirs /\ Closed(dirs') /\ at' \in [Engines -> dirs' \cup {None}]
      /\ (\A f \in Engines \ {e} : at'[f] = at[f])
    BY <1>3, <1>4, SameServer, ClosedGrows
<1>6. Truthful(e, w)
    BY <1>1, <1>2, <1>5 DEF Truthful
<1> QED
    BY <1>1, <1>5, <1>6, AnswerInv

(* The server has removed the directory v, or moved it to the place to. *)
Destroyed(e, v, to) ==
    /\ v \in Canonical /\ v # << >> /\ v = Victim(e) /\ Destroying(e)
    /\ dirs' \subseteq Dirs /\ << >> \in dirs' /\ Closed(dirs')
    /\ \A d \in dirs : ~Covers(v, d) => d \in dirs'
    /\ at' \in [Engines -> dirs' \cup {None}]
    /\ \A f \in Engines : at[f] # None /\ ~Covers(v, at[f]) => at'[f] = at[f]
    /\ \A f \in Engines : at'[f] = at[f] \/ at'[f] = None \/ (to \in Dirs \ dirs /\ to # << >> /\ Covers(to, at'[f]))
    /\ disturbed' = [f \in Engines |-> f # e \/ disturbed[f]]
    /\ pending = [f \in Engines |-> {}]

(* What a true entry of the path cache leads to is there. *)
LEMMA CacheIs ==
    ASSUME Scope, Types, CacheTrue, NEW x \in cache
    PROVE  /\ x.target \in dirs /\ x.target # None /\ x.target = Leads(dirs, link, x.source, x.subdir)
           /\ x.subdir \in Segments /\ x.source \in Paths
           /\ Reach(dirs, link, x.source) \in dirs
<1>1. x.target # None /\ x.subdir \in Segments /\ x.source \in Paths
    BY PathsAre DEF Types, Entries, Scope
<1>2. x.target = Leads(dirs, link, x.source, x.subdir)
    BY DEF CacheTrue
<1>3. x.target \in dirs
    BY <1>1, <1>2, LeadsIn DEF Types
<1>4. Reach(dirs, link, x.source) # None
    BY <1>1, <1>2 DEF Leads, Step
<1> QED
    BY <1>1, <1>2, <1>3, <1>4, ReachIn

(* The path cache is true after a destruction: what it has left is spared. *)
LEMMA DestroyedCache ==
    ASSUME Scope, Inv, NEW e \in Engines, NEW w, Answered(e, w), NEW v, NEW to, Destroyed(e, v, to), ~raced
    PROVE  CacheTrue'
<1>1. CacheTrue /\ Announced /\ Types
    BY DEF Inv, Truth
<1>2. Spared(e) /\ v = Victim(e) /\ v # None
    BY <1>1, PathsAre DEF Announced, Destroyed, Scope
<1>3. ASSUME NEW x \in cache PROVE Leads(dirs', link, x.source, x.subdir) = x.target
          /\ (x.subdir = Up => x.source \in Canonical)
    <2>1. /\ x.target \in dirs /\ x.target # None /\ x.target = Leads(dirs, link, x.source, x.subdir)
          /\ x.subdir \in Segments
        BY <1>1, CacheIs
    <2>2. ~Covers(v, x.target) /\ ~Covers(v, x.source)
        BY <1>2 DEF Spared
    <2>3. x.subdir = Up => x.source \in Canonical
        BY <1>1 DEF CacheTrue
    <2>4. Outside /\ dirs \subseteq Dirs
        BY <1>1 DEF Scope, Types
    <2>5. v \in Canonical /\ v # << >> /\ \A d \in dirs : ~Covers(v, d) => d \in dirs'
        BY DEF Destroyed
    <2>6. Leads(dirs', link, x.source, x.subdir) = Leads(dirs, link, x.source, x.subdir)
        BY <2>1, <2>2, <2>3, <2>4, <2>5, LeadsStays
    <2> QED BY <2>1, <2>3, <2>6
<1>4. cache' = cache /\ link' = link
    BY DEF Answered
<1> QED
    BY <1>3, <1>4 DEF CacheTrue

(* What was found before is not below the new place. *)
LEMMA NotBelow ==
    ASSUME Scope, Types, NEW to \in Dirs \ dirs, to # << >>, NEW p \in Paths, Reach(dirs, link, p) \in dirs
    PROVE  ~Covers(to, p)
<1> SUFFICES ASSUME Covers(to, p) PROVE FALSE
    OBVIOUS
<1>1. to \in Paths /\ to \in Canonical /\ Outside
    BY PathsAre DEF Scope
<1>2. Len(to) \in Nat \ {0} /\ Len(p) \in Nat /\ Len(to) <= Len(p) /\ \A i \in 1..Len(to) : p[i] = to[i]
    BY <1>1, CoversIs, EmptySeq, LenProperties DEF Paths
<1>3. p # << >> /\ Head(p) = p[1]
    BY <1>2, HeadTailProperties, EmptySeq DEF Paths
<1>4. p[1] = to[1] /\ to[1] \in Names
    <2>1. 1 \in 1..Len(to)
        BY <1>2
    <2> QED BY <2>1, <1>1, <1>2, ElementOfSeq DEF Canonical
<1>5. RealPath(link, p) = p
    BY <1>1, <1>3, <1>4, PathsAre DEF RealPath
<1>6. p \in dirs
    BY <1>5, <1>1, PathsAre DEF Reach, Types
<1> QED
    BY <1>6 DEF Types, Closed

(* Who was told of another destruction, or need not be told, still has     *)
(* been, although the other directory may have moved.                      *)
LEMMA DestroyedAnnounced ==
    ASSUME Scope, Inv, NEW e \in Engines, NEW w, Answered(e, w), NEW v, NEW to, Destroyed(e, v, to), ~raced
    PROVE  Announced'
<1>1. CacheTrue /\ Announced /\ Types /\ Outside
    BY DEF Inv, Truth, Scope
<1>2. UNCHANGED <<cache, currentPath, invalidate, pending, link>>
    BY DEF Answered
<1>3. \A g \in Engines : Stale(g) => Stale(g)'
    BY <1>2 DEF Stale, Destroyed
<1>4. ASSUME NEW f \in Engines, Destroying(f)', Victim(f)' # None
      PROVE  Spared(f)' /\ \A g \in Engines : Told(f, g)'
    <2>1. f # e /\ Destroying(f) /\ wire'[f] = wire[f]
        BY <1>1, <1>4, AnsweredWire
    <2>2. CASE Victim(f)' = Victim(f)
        <3>1. Spared(f) /\ \A g \in Engines : Told(f, g)
            BY <1>1, <1>4, <2>1, <2>2 DEF Announced
        <3> QED BY <1>2, <1>3, <2>2, <3>1 DEF Spared, Told
    <2>3. CASE Victim(f)' # Victim(f)
        <3>1. /\ wire[f].verb = "RMD" /\ wire[f].path = None /\ at'[f] # at[f] /\ at'[f] # None
              /\ Victim(f)' = AddSegment(at'[f], wire[f].name)
            BY <1>4, <2>1, <2>3 DEF Victim, Destroying, Destroys
        <3>2. to \in Dirs \ dirs /\ to # << >> /\ Covers(to, at'[f]) /\ at'[f] \in Dirs
            BY <3>1 DEF Destroyed
        <3>3. wire[f].name \in Names
            BY <3>1 DEF Inv, Control, WireOp, Destroys
        <3> DEFINE u == Victim(f)'
        <3>4. u \in Canonical /\ Covers(to, u)
            <4>1. to \in Seq(Names) /\ at'[f] \in Seq(Names)
                BY <1>1, <3>2, PathsAre DEF Canonical
            <4>2. u \in Seq(Names) /\ Covers(at'[f], u)
                <5>1. /\ AddSegment(at'[f], wire[f].name) \in Seq(Names)
                      /\ Covers(at'[f], AddSegment(at'[f], wire[f].name))
                    BY <3>3, <4>1, CoversSegment
                <5> QED BY <3>1, <5>1
            <4> HIDE DEF u
            <4> QED BY <3>2, <4>1, <4>2, CoversTransitive DEF Canonical
        <3> HIDE DEF u
        <3>5. ASSUME NEW p \in Paths, Reach(dirs, link, p) \in dirs PROVE ~Covers(u, p)
            <4>1. ~Covers(to, p)
                BY <1>1, <3>2, <3>5, NotBelow
            <4>2. to \in Paths /\ u \in Paths
                BY <1>1, <3>2, <3>4, PathsAre
            <4> QED BY <3>4, <4>1, <4>2, CoversTransitive DEF Paths
        <3>6. ASSUME NEW d \in dirs PROVE ~Covers(u, d)
            <4>1. d \in Canonical /\ d \in Paths
                BY <1>1, PathsAre DEF Types
            <4>2. Reach(dirs, link, d) = d
                BY <4>1, <1>1, ReachCanonical
            <4> QED BY <4>1, <4>2, <3>5
        <3>7. \A x \in cache : ~Covers(u, x.target) /\ ~Covers(u, x.source)
            BY <1>1, <3>5, <3>6, CacheIs
        <3>8. ASSUME NEW g \in Engines PROVE currentPath[g] = None \/ ~Covers(u, currentPath[g]) \/ Stale(g)
            <4>1. Belief(g)
                BY DEF Inv, Truth, Local
            <4>2. at[g] \in dirs \cup {None}
                BY <1>1 DEF Types
            <4> QED BY <4>1, <4>2, <3>6 DEF Belief
        <3>9. Spared(f)'
            BY <3>7, <1>2 DEF Spared, u
        <3>10. ASSUME NEW g \in Engines PROVE Told(f, g)'
            BY <3>8, <1>2, <1>3 DEF Told, u
        <3> QED BY <3>9, <3>10
    <2> QED BY <2>2, <2>3
<1> QED
    BY <1>4 DEF Announced

(* Another engine believes what is true after a destruction, or knows that *)
(* it has to forget it.                                                    *)
LEMMA DestroyedOther ==
    ASSUME Scope, Inv, NEW e \in Engines, NEW w, Answered(e, w), NEW v, NEW to, Destroyed(e, v, to), ~raced,
           NEW f \in Engines \ {e}
    PROVE  Local(f)'
<1>1. Types /\ Control(f) /\ Apart /\ Announced /\ Local(f) /\ turn = None
    BY DEF Inv, Truth, Answered
<1>2. wire'[f] = wire[f] /\ Top(f)' = Top(f) /\ (Live(f)' <=> Live(f)) /\ turn # f /\ turn' # f
    BY <1>1, AnsweredWire
<1>3. UNCHANGED <<currentPath, invalidate, ops, pending, turn, mkdOK>>
    BY DEF Answered
<1>4. disturbed'[f] = TRUE /\ pending[f] = {} /\ ~Moving(f)
    BY <1>1 DEF Destroyed, Apart
<1>5. Stale(f) => Stale(f)'
    BY <1>3, <1>4 DEF Stale
<1>6. Belief(f)'
    <2> SUFFICES ASSUME currentPath[f] # None, ~Stale(f), ~invalidate[f] PROVE at'[f] = currentPath[f]
        BY <1>3, <1>4, <1>5 DEF Belief, Stale
    <2>1. at[f] = currentPath[f]
        BY <1>1 DEF Local, Belief
    <2>2. v = Victim(e) /\ v # None /\ Destroying(e)
        BY PathsAre DEF Destroyed, Scope
    <2>3. Told(e, f)
        BY <1>1, <2>2 DEF Announced
    <2>4. ~Covers(v, currentPath[f])
        BY <2>2, <2>3, <1>4 DEF Told
    <2> QED BY <2>1, <2>4 DEF Destroyed
<1>7. ops[f] # << >> /\ Live(f) => Top(f).id # "cwd" /\ (Top(f).id = "mkd" => Top(f).state \notin {"findparent", "cwdsub"})
    BY <1>1, <1>2, <1>4, SentIs DEF Live
<1>8. CwdWhere(f)'
    BY <1>2, <1>3, <1>7 DEF CwdWhere
<1>9. MkdWhere(f)'
    <2>1. ops[f] # << >> /\ Top(f).id = "mkd" /\ Live(f) /\ Top(f).state = "mkdsub" => currentPath[f] = Top(f).mkdPath
        BY <1>1 DEF Local, MkdWhere
    <2> QED BY <1>2, <1>3, <1>4, <1>7, <2>1 DEF MkdWhere
<1>10. Detour(f)' /\ Made(f)'
    BY <1>4 DEF Detour, Made
<1>11. Unknown(f)'
    BY <1>1, <1>3 DEF Unknown, Local
<1>12. UserWhere(f)'
    <2>1. UserWhere(f)
        BY <1>1 DEF Local
    <2> QED BY <2>1, <1>2, <1>3, <1>4, <1>5 DEF UserWhere
<1> QED
    BY <1>6, <1>8, <1>9, <1>10, <1>11, <1>12 DEF Local

(* So does the engine that has destroyed the directory; it is not below    *)
(* it.                                                                     *)
LEMMA DestroyedOwn ==
    ASSUME Scope, Inv, NEW e \in Engines, NEW w, Answered(e, w), NEW v, NEW to, Destroyed(e, v, to), ~raced
    PROVE  Local(e)'
<1>1. Types /\ Control(e) /\ Announced /\ Local(e) /\ turn = None /\ Busy(e)
    BY DEF Inv, Truth, Answered
<1>2. /\ wire'[e] = w /\ w.verb = wire[e].verb /\ w.skip = wire[e].skip /\ Top(e)' = Top(e) /\ (Live(e)' <=> Live(e))
      /\ turn # e /\ turn' # e
    BY <1>1, AnsweredWire DEF Answered
<1>3. UNCHANGED <<currentPath, invalidate, ops, pending, turn, mkdOK, link>>
    BY DEF Answered
<1>4. disturbed'[e] = disturbed[e] /\ w.verb \in Destroys /\ mkdOK[e] = None
    BY <1>1, <1>2 DEF Destroyed, Destroying, Types, Control
<1>5. Stale(e)' <=> Stale(e)
    BY <1>3, <1>4 DEF Stale
<1>6. currentPath[e] # None /\ ~Stale(e) => at[e] = currentPath[e] /\ ~Covers(v, at[e]) /\ at'[e] = at[e] /\ at[e] # None
    <2> SUFFICES ASSUME currentPath[e] # None, ~Stale(e)
                 PROVE  at[e] = currentPath[e] /\ ~Covers(v, at[e]) /\ at'[e] = at[e]
        OBVIOUS
    <2>1. at[e] = currentPath[e]
        BY <1>1 DEF Local, Belief
    <2>2. v = Victim(e) /\ v # None /\ Destroying(e)
        BY PathsAre DEF Destroyed, Scope
    <2>3. Told(e, e)
        BY <1>1, <2>2 DEF Announced
    <2>4. ~Covers(v, currentPath[e])
        BY <2>2, <2>3 DEF Told
    <2> QED BY <2>1, <2>4 DEF Destroyed
<1>7. Belief(e)'
    BY <1>3, <1>5, <1>6 DEF Belief
<1>8. ops[e] # << >> /\ ~wire[e].skip => Top(e).id \in {"rmd", "rename"} /\ Len(ops[e]) # 2
    <2> SUFFICES ASSUME ops[e] # << >>, ~wire[e].skip PROVE Top(e).id \in {"rmd", "rename"} /\ Len(ops[e]) # 2
        OBVIOUS
    <2>1. wire[e].verb \in {"RMD", "RNTO"}
        BY <1>2, <1>4 DEF Destroys
    <2>2. Top(e).id \notin {"cwd", "mkd"} /\ UserOp(Top(e)) /\ Sent(Top(e), wire[e]) /\ Len(ops[e]) # 2
        BY <1>1, <2>1, SentIs DEF Moves
    <2> QED BY <2>1, <2>2 DEF Sent, UserOp, Ids
<1>9. CwdWhere(e)' /\ MkdWhere(e)'
    BY <1>2, <1>3, <1>8 DEF CwdWhere, MkdWhere, Live
<1>10. Detour(e)'
    <2>1. Len(ops[e]) # 2
        BY <1>1, <1>8, SentIs
    <2> QED BY <2>1, <1>3 DEF Detour
<1>11. Unknown(e)' /\ Made(e)'
    BY <1>1, <1>3, <1>4 DEF Unknown, Made, Local
<1>12. UserWhere(e)'
    <2>1. UserWhere(e)
        BY <1>1 DEF Local
    <2>2. CASE ops[e] = << >> \/ wire[e].skip
        <3>1. ops[e] # << >> => Top(e).state = "init"
            BY <2>2, <1>1 DEF Control
        <3> QED BY <3>1, <1>2, <1>3 DEF UserWhere
    <2>3. CASE ops[e] # << >> /\ ~wire[e].skip
        <3> DEFINE t == Top(e)
        <3>1. t.id \in {"rmd", "rename"} /\ UserOp(t) /\ w.verb # "RNFR"
            BY <1>1, <1>4, <1>8, <2>3, SentIs DEF Destroys
        <3>2. t.meant # None /\ t.meant[2] = None
            BY <3>1 DEF UserOp
        <3>3. ASSUME t.state \in {"list", "send", "rnto"}, ~t.flag, ~disturbed[e]
              PROVE  at'[e] # None /\ at'[e] = Leads(dirs', link', t.meant[1], t.meant[2])
            <4>1. t.path = t.meant[1] /\ currentPath[e] = t.path /\ AtEntry(e, t.meant[1], t.meant[2])
                BY <2>1, <2>3, <3>1, <3>2, <3>3 DEF UserWhere
            <4>2. at[e] # None /\ at[e] = Reach(dirs, link, t.meant[1])
                BY <3>2, <4>1 DEF AtEntry, Leads, Step
            <4>3. ~Stale(e) /\ currentPath[e] # None
                BY <3>1, <3>3, <4>1, PathsAre DEF UserOp, Stale, Scope
            <4>4. at'[e] = at[e] /\ ~Covers(v, at[e])
                BY <1>6, <4>3
            <4>5. at[e] \in dirs'
                BY <1>1, <4>2, <4>4 DEF Types, Destroyed
            <4>6. Reach(dirs', link, t.meant[1]) = at[e]
                BY <4>2, <4>5, ReachStays
            <4> QED BY <3>2, <4>2, <4>4, <4>6, <1>3 DEF Leads, Step
        <3> QED BY <2>1, <3>1, <3>3, <1>2, <1>3, <1>4, <1>5 DEF UserWhere, AtEntry
    <2> QED BY <2>2, <2>3
<1> QED
    BY <1>7, <1>9, <1>10, <1>11, <1>12 DEF Local

(* A successful removal or rename keeps the invariant. *)
LEMMA DestroyedInv ==
    ASSUME Scope, Inv, NEW e \in Engines, NEW w, Answered(e, w), NEW v, NEW to, Destroyed(e, v, to)
    PROVE  Inv'
<1>1. Types
    BY DEF Inv
<1>2. wire' \in [Engines -> WireType] /\ \A f \in Engines : (Moving(f)' <=> Moving(f)) /\ (Destroying(f)' => Destroying(f))
    BY <1>1, AnsweredWire
<1>3. UNCHANGED <<link, pwdWorks, cache, currentPath, invalidate, ops, pending, turn, raced, mkdOK, commands, faults>>
    BY DEF Answered
<1>4. disturbed' \in [Engines -> BOOLEAN]
    BY <1>1 DEF Types, Destroyed
<1>5. Types'
    BY <1>1, <1>2, <1>3, <1>4 DEF Types, Destroyed
<1>6. \A f \in Engines : Control(f)'
    BY AnsweredControl
<1>7. ASSUME ~raced PROVE Apart'
    BY <1>2, <1>7 DEF Inv, Truth, Apart
<1>8. ASSUME ~raced PROVE CacheTrue' /\ Announced' /\ \A f \in Engines : Local(f)'
    BY <1>8, DestroyedCache, DestroyedAnnounced, DestroyedOther, DestroyedOwn
<1> QED
    BY <1>3, <1>5, <1>6, <1>7, <1>8 DEF Inv, Truth

(* What is moved lies below the new place as it did below the old one. *)
LEMMA RelocatedIs ==
    ASSUME NEW S, NEW v \in Seq(S), NEW d \in Seq(S), NEW to \in Seq(S), Covers(v, d), None \notin Seq(S)
    PROVE  LET r == Relocated(d, v, to)
           IN  /\ r \in Seq(S) /\ Len(r) = Len(to) + (Len(d) - Len(v)) /\ Covers(to, r)
               /\ \A i \in 1..Len(to) : r[i] = to[i]
               /\ \A j \in 1..(Len(d) - Len(v)) : r[Len(to) + j] = d[Len(v) + j]
<1> DEFINE a == Len(v)
           b == Len(d)
           s == SubSeq(d, Len(v) + 1, Len(d))
           r == Relocated(d, v, to)
<1>1. a \in Nat /\ b \in Nat /\ a <= b /\ Len(to) \in Nat
    BY CoversIs, LenProperties
<1>2. \A i \in (a + 1)..b : d[i] \in S
    <2> SUFFICES ASSUME NEW i \in (a + 1)..b PROVE d[i] \in S
        OBVIOUS
    <2>1. i \in 1..Len(d)
        BY <1>1
    <2> QED BY <2>1, ElementOfSeq
<1>3. /\ s \in Seq(S) /\ Len(s) = b - a
      /\ \A j \in 1..(b - a) : s[j] = d[a + j]
    <2>1. /\ SubSeq(d, a + 1, b) \in Seq(S)
          /\ Len(SubSeq(d, a + 1, b)) = (IF a + 1 <= b THEN b - (a + 1) + 1 ELSE 0)
          /\ \A i \in 1..(b - (a + 1) + 1) : SubSeq(d, a + 1, b)[i] = d[(a + 1) + i - 1]
        <3> HIDE DEF a, b
        <3>1. PICK m : m = a + 1
            OBVIOUS
        <3>2. m \in Int /\ b \in Int /\ \A i \in m..b : d[i] \in S
            BY <3>1, <1>1, <1>2
        <3>3. /\ SubSeq(d, m, b) \in Seq(S)
              /\ Len(SubSeq(d, m, b)) = (IF m <= b THEN b - m + 1 ELSE 0)
              /\ \A i \in 1..(b - m + 1) : SubSeq(d, m, b)[i] = d[m + i - 1]
            BY <3>2, SubSeqProperties
        <3> QED BY <3>1, <3>3, Zenon
    <2>2. s = SubSeq(d, a + 1, b)
        OBVIOUS
    <2> HIDE DEF s, a, b
    <2>3. /\ s \in Seq(S) /\ Len(s) = (IF a + 1 <= b THEN b - (a + 1) + 1 ELSE 0)
          /\ \A i \in 1..(b - (a + 1) + 1) : s[i] = d[(a + 1) + i - 1]
        BY <2>1, <2>2, Zenon
    <2>4. Len(s) = b - a
        BY <2>3, <1>1
    <2>5. b - (a + 1) + 1 = b - a /\ \A j \in 1..(b - a) : (a + 1) + j - 1 = a + j
        BY <1>1
    <2> QED BY <2>3, <2>4, <2>5, Zenon
<1>4. r = to \o s
    BY DEF Relocated
<1> HIDE DEF s, r, a, b
<1>5. /\ r \in Seq(S) /\ Len(r) = Len(to) + Len(s)
      /\ \A i \in 1..(Len(to) + Len(s)) : r[i] = IF i <= Len(to) THEN to[i] ELSE s[i - Len(to)]
    <2>1. /\ to \o s \in Seq(S) /\ Len(to \o s) = Len(to) + Len(s)
          /\ \A i \in 1..(Len(to) + Len(s)) : (to \o s)[i] = IF i <= Len(to) THEN to[i] ELSE s[i - Len(to)]
        BY <1>3, ConcatProperties
    <2> QED BY <2>1, <1>4, Zenon
<1> DEFINE c == Len(to)
           l == Len(r)
<1>6. c \in Nat /\ l = c + (b - a) /\ l \in Nat
    BY <1>1, <1>3, <1>5
<1>7. \A i \in 1..l : r[i] = IF i <= c THEN to[i] ELSE s[i - c]
    BY <1>5, Zenon
<1> HIDE DEF c, l
<1>8. \A i \in 1..c : r[i] = to[i]
    BY <1>1, <1>6, <1>7
<1>9. \A j \in 1..(b - a) : r[c + j] = d[a + j]
    <2> SUFFICES ASSUME NEW j \in 1..(b - a) PROVE r[c + j] = d[a + j]
        OBVIOUS
    <2>1. c + j \in 1..l /\ ~(c + j <= c) /\ (c + j) - c = j
        BY <1>1, <1>6
    <2> QED BY <2>1, <1>3, <1>7
<1>10. c <= l
    BY <1>1, <1>6
<1>11. Covers(to, r)
    BY <1>5, <1>8, <1>10, CoversIs DEF c, l
<1> QED
    BY <1>5, <1>6, <1>8, <1>9, <1>11 DEF a, b, c, l, r

(* The first l elements *)
LEMMA PrefixIs ==
    ASSUME NEW S, NEW d \in Seq(S), NEW l \in 0..Len(d)
    PROVE  LET q == SubSeq(d, 1, l)
           IN  q \in Seq(S) /\ Len(q) = l /\ Covers(q, d) /\ \A i \in 1..l : q[i] = d[i]
<1>1. Len(d) \in Nat
    BY LenProperties
<1>2. \A i \in 1..l : d[i] \in S
    <2> SUFFICES ASSUME NEW i \in 1..l PROVE d[i] \in S
        OBVIOUS
    <2>1. i \in 1..Len(d)
        BY <1>1
    <2> QED BY <2>1, ElementOfSeq
<1> DEFINE q == SubSeq(d, 1, l)
<1>3. /\ SubSeq(d, 1, l) \in Seq(S)
      /\ Len(SubSeq(d, 1, l)) = (IF 1 <= l THEN l - 1 + 1 ELSE 0)
      /\ \A i \in 1..(l - 1 + 1) : SubSeq(d, 1, l)[i] = d[1 + i - 1]
    BY <1>1, <1>2, SubSeqProperties
<1>4. q \in Seq(S) /\ Len(q) = l /\ \A i \in 1..l : q[i] = d[i]
    <2>1. q = SubSeq(d, 1, l)
        OBVIOUS
    <2> HIDE DEF q
    <2> QED BY <1>1, <1>3, <2>1
<1> HIDE DEF q
<1>5. Covers(q, d)
    BY <1>1, <1>4, CoversIs
<1> QED
    BY <1>4, <1>5 DEF q

(* What a removal or rename is about *)
LEMMA EntryIs ==
    ASSUME Scope, Inv, NEW e \in Engines, wire[e].verb \in Destroys, Entry(Base(e), wire[e].name) # None
    PROVE  /\ Base(e) \in dirs /\ Base(e) \in Canonical /\ wire[e].name \in Names
           /\ Entry(Base(e), wire[e].name) = AddSegment(Base(e), wire[e].name)
           /\ wire[e].verb = "RMD" => Victim(e) = Entry(Base(e), wire[e].name)
<1>1. Types /\ WireOp(wire[e]) /\ Outside
    BY DEF Inv, Control, Scope
<1>2. Base(e) # None /\ Entry(Base(e), wire[e].name) = AddSegment(Base(e), wire[e].name)
    BY DEF Entry
<1>3. Base(e) \in dirs /\ Base(e) \in Canonical
    BY <1>1, <1>2, BaseIs, PathsAre DEF Types
<1>4. wire[e].name \in Names /\ wire[e].path \in Canonical \cup {None}
    BY <1>1 DEF WireOp
<1>5. CASE wire[e].path = None
    <2>1. Base(e) = at[e]
        BY <1>1, <1>5, BaseIs
    <2> QED BY <1>2, <1>3, <1>4, <1>5, <2>1 DEF Victim
<1>6. CASE wire[e].path # None
    <2>1. Base(e) = wire[e].path
        BY <1>1, <1>2, <1>4, <1>6, BaseIs, ReachCanonical
    <2> QED BY <1>2, <1>3, <1>4, <1>6, <2>1 DEF Victim
<1> QED
    BY <1>5, <1>6

(* A successful RMD keeps the invariant. *)
LEMMA RmdInv ==
    ASSUME Scope, Inv, NEW e \in Engines, Frame(e), pending = [f \in Engines |-> {}], Answer(e, "ok", None),
        wire[e].verb = "RMD",
           NEW v \in dirs, v = Entry(Base(e), wire[e].name), ~\E d \in dirs : IsParentOf(v, d),
           dirs' = dirs \ {v}, at' = [f \in Engines |-> Relocated(at[f], v, None)], Disturb(e), UNCHANGED <<link, pwdWorks>>
    PROVE  Inv'
<1> DEFINE w == Reply(e, "ok", None)
<1>1. Answered(e, w)
    BY AnswerIs DEF MaybePaths, Frame
<1>2. Types /\ Outside /\ None \notin dirs /\ dirs \subseteq Canonical
    BY PathsAre DEF Inv, Scope, Types
<1>3. v = Victim(e) /\ v = AddSegment(Base(e), wire[e].name) /\ Base(e) \in Canonical /\ wire[e].name \in Names
    BY <1>2, EntryIs DEF Destroys
<1>4. v # << >> /\ v \in Canonical
    BY <1>2, <1>3, CoversSegment DEF Canonical
<1>5. Destroying(e)
    BY DEF Destroying, Destroys, Frame
<1>6. \A d \in dirs : Covers(v, d) <=> d = v
    BY DEF Covers
<1>7. dirs' \subseteq Dirs /\ << >> \in dirs' /\ \A d \in dirs : ~Covers(v, d) => d \in dirs'
    BY <1>2, <1>4, <1>6 DEF Types
<1>8. Closed(dirs')
    BY <1>2, <1>6 DEF Types, Closed
<1>9. ASSUME NEW f \in Engines
      PROVE  /\ at'[f] = at[f] \/ at'[f] = None
             /\ at'[f] \in dirs' \cup {None}
             /\ at[f] # None /\ ~Covers(v, at[f]) => at'[f] = at[f]
    <2>1. at'[f] = Relocated(at[f], v, None) /\ at[f] \in dirs \cup {None}
        BY <1>2 DEF Types
    <2>2. CASE at[f] = None \/ ~Covers(v, at[f])
        BY <2>1, <2>2, <1>6 DEF Relocated
    <2>3. CASE at[f] # None /\ Covers(v, at[f])
        BY <2>1, <2>3 DEF Relocated
    <2> QED BY <2>2, <2>3
<1>10. at' \in [Engines -> dirs' \cup {None}]
    BY <1>9
<1>11. Destroyed(e, v, None)
    BY <1>3, <1>4, <1>5, <1>7, <1>8, <1>9, <1>10 DEF Destroyed, Disturb
<1> QED
    BY <1>1, <1>11, DestroyedInv

(* After a directory is moved, the directories above one are still there. *)
LEMMA ClosedMoved ==
    ASSUME Scope, NEW D, D \subseteq Dirs, Closed(D), NEW v \in D, NEW b \in D, NEW n \in Names,
           AddSegment(b, n) \in Dirs, ~Covers(v, AddSegment(b, n)),
           NEW E, E = {Relocated(d, v, AddSegment(b, n)) : d \in D}
    PROVE  Closed(E)
<1> DEFINE to == AddSegment(b, n)
<1>1. \A d \in D : d \in Seq(Names) /\ d # None /\ Len(d) \in Nat /\ Len(d) <= MaxDepth
    BY DirsAre, PathsAre, LenProperties DEF Canonical, Scope
<1>2. /\ to \in Seq(Names) /\ Len(to) \in Nat /\ Len(to) = Len(b) + 1 /\ \A i \in 1..Len(b) : to[i] = b[i]
    BY <1>1, CoversSegment, AppendProperties, LenProperties DEF AddSegment
<1>3. None \notin Seq(Names)
    BY PathsAre DEF Canonical, Scope
<1> SUFFICES ASSUME NEW d \in D, NEW p \in Dirs, Covers(p, Relocated(d, v, to))
             PROVE  \E q \in D : p = Relocated(q, v, to)
    BY DEF Closed
<1> HIDE DEF to
<1>4. p \in Seq(Names) /\ Len(p) \in Nat /\ Len(p) <= MaxDepth
    BY DirsAre, LenProperties DEF Canonical
<1>5. ASSUME p \in D, ~Covers(v, p) PROVE \E q \in D : p = Relocated(q, v, to)
    BY <1>5 DEF Relocated
<1>6. CASE ~Covers(v, d)
    <2>1. Covers(p, d)
        BY <1>6 DEF Relocated
    <2>2. p \in D
        BY <2>1 DEF Closed
    <2>3. ~Covers(v, p)
        BY <2>1, <1>1, <1>4, <1>6, CoversTransitive
    <2> QED BY <1>5, <2>2, <2>3
<1>7. CASE Covers(v, d)
    <2> DEFINE r == Relocated(d, v, to)
    <2>1. /\ r \in Seq(Names) /\ Len(r) = Len(to) + (Len(d) - Len(v)) /\ Covers(to, r)
          /\ \A i \in 1..Len(to) : r[i] = to[i]
          /\ \A j \in 1..(Len(d) - Len(v)) : r[Len(to) + j] = d[Len(v) + j]
        BY <1>1, <1>2, <1>3, <1>7, RelocatedIs, ZenonT(30)
    <2> HIDE DEF r
    <2>2. Covers(p, r)
        BY DEF r
    <2>3. Len(p) <= Len(r) /\ \A i \in 1..Len(p) : r[i] = p[i]
        BY <2>1, <2>2, <1>4, CoversIs
    <2>4. Len(v) \in Nat /\ Len(d) \in Nat /\ Len(v) <= Len(d) /\ \A i \in 1..Len(v) : d[i] = v[i]
        BY <1>1, <1>7, CoversIs
    <2> DEFINE a == Len(v)
               ld == Len(d)
               c == Len(to)
               lp == Len(p)
    <2>5. a \in Nat /\ ld \in Nat /\ c \in Nat /\ lp \in Nat /\ a <= ld /\ lp <= c + (ld - a) /\ Len(r) = c + (ld - a)
        BY <2>1, <2>3, <2>4, <1>2, <1>4
    <2>6. CASE lp < c
        <3>1. lp <= Len(b) /\ Len(b) \in Nat
            BY <2>6, <1>1, <1>2, <1>4
        <3>2. \A i \in 1..lp : b[i] = p[i]
            <4> SUFFICES ASSUME NEW i \in 1..lp PROVE b[i] = p[i]
                OBVIOUS
            <4>1. i \in 1..Len(b) /\ i \in 1..Len(to) /\ i \in 1..Len(p)
                BY <3>1, <1>2, <2>5
            <4> QED BY <4>1, <1>2, <2>1, <2>3
        <3>3. Covers(p, b)
            BY <3>1, <3>2, <1>1, <1>4, CoversIs
        <3>4. p \in D
            BY <3>3 DEF Closed
        <3>5. Covers(b, to)
            BY <1>1, CoversSegment DEF to
        <3>6. ~Covers(v, p)
            BY <3>3, <3>5, <1>1, <1>2, <1>4, CoversTransitive DEF to
        <3> QED BY <1>5, <3>4, <3>6
    <2>7. CASE lp >= c
        <3> DEFINE k == a + (lp - c)
                   q == SubSeq(d, 1, k)
                   m == Relocated(q, v, to)
        <3>1. k \in 0..ld /\ k - a = lp - c /\ a <= k /\ k \in Nat
            <4> HIDE DEF a, ld, c, lp
            <4> QED BY <2>5, <2>7
        <3>2. q \in Seq(Names) /\ Len(q) = k /\ Covers(q, d) /\ \A i \in 1..k : q[i] = d[i]
            <4> HIDE DEF k
            <4> QED BY <3>1, <1>1, PrefixIs
        <3> HIDE DEF q, k
        <3>3. q \in D
            <4>1. Len(q) <= MaxDepth /\ q \in Canonical
                BY <3>1, <3>2, <1>1, WorkingDirAssumption DEF Canonical
            <4>2. q \in Dirs
                BY <4>1, DirsAre
            <4> QED BY <3>2, <4>2 DEF Closed
        <3>4. Covers(v, q)
            <4>1. \A i \in 1..a : q[i] = v[i]
                <5> SUFFICES ASSUME NEW i \in 1..a PROVE q[i] = v[i]
                    OBVIOUS
                <5>1. i \in 1..k /\ i \in 1..Len(v)
                    BY <3>1, <2>5
                <5> QED BY <5>1, <3>2, <2>4
            <4> QED BY <4>1, <3>1, <3>2, <1>1, CoversIs
        <3>5. /\ m \in Seq(Names) /\ Len(m) = c + (k - a)
              /\ \A i \in 1..c : m[i] = to[i]
              /\ \A j \in 1..(k - a) : m[c + j] = q[a + j]
            <4>1. /\ m \in Seq(Names) /\ Len(m) = Len(to) + (Len(q) - Len(v))
                  /\ \A i \in 1..Len(to) : m[i] = to[i]
                  /\ \A j \in 1..(Len(q) - Len(v)) : m[Len(to) + j] = q[Len(v) + j]
                <5>1. q \in Seq(Names) /\ v \in Seq(Names) /\ to \in Seq(Names) /\ Covers(v, q) /\ None \notin Seq(Names)
                    BY <3>2, <3>4, <1>1, <1>2, <1>3
                <5> HIDE DEF to
                <5> QED BY <5>1, RelocatedIs, ZenonT(30)
            <4>2. Len(q) = k
                BY <3>2
            <4> HIDE DEF m
            <4> QED BY <4>1, <4>2, Zenon
        <3> HIDE DEF m
        <3>6. Len(m) = Len(p)
            <4>1. c + (k - a) = lp
                <5> HIDE DEF c, a, lp
                <5> QED BY <3>1, <2>5
            <4> QED BY <3>5, <4>1
        <3>7. ASSUME NEW i \in 1..Len(p) PROVE m[i] = p[i]
            <4>1. r[i] = p[i] /\ i \in Nat /\ i >= 1 /\ i <= lp
                BY <2>3, <2>5, <3>7
            <4>2. CASE i <= c
                <5>1. i \in 1..Len(to)
                    BY <4>1, <4>2, <2>5
                <5> QED BY <5>1, <4>1, <3>5, <2>1
            <4>3. CASE i > c
                <5> DEFINE j == i - c
                <5>1. j \in 1..(k - a) /\ j \in 1..(ld - a) /\ i = c + j /\ a + j \in 1..k
                    <6> HIDE DEF c, a, lp, ld
                    <6> QED BY <4>1, <4>3, <2>5, <3>1
                <5> HIDE DEF j
                <5>2. m[c + j] = q[a + j]
                    BY <5>1, <3>5
                <5>3. q[a + j] = d[a + j]
                    BY <5>1, <3>2
                <5>4. r[c + j] = d[a + j]
                    BY <5>1, <2>1
                <5> QED BY <5>1, <5>2, <5>3, <5>4, <4>1
            <4> QED BY <4>1, <4>2, <4>3, <2>5
        <3>8. m = p
            BY <3>5, <3>6, <3>7, <1>4, SeqEqual
        <3> QED BY <3>3, <3>8 DEF m
    <2> QED BY <2>5, <2>6, <2>7
<1> QED
    BY <1>6, <1>7

(* A successful RNTO keeps the invariant. *)
LEMMA RntoInv ==
    ASSUME Scope, Inv, NEW e \in Engines, Frame(e), pending = [f \in Engines |-> {}], Answer(e, "ok", None),
        wire[e].verb = "RNTO",
           NEW v \in dirs, v = wire[e].move, NEW to \in Dirs \ dirs, to = Entry(Base(e), wire[e].name), ~Covers(v, to),
           \A d \in dirs : Covers(v, d) => Relocated(d, v, to) \in Dirs,
           dirs' = {Relocated(d, v, to) : d \in dirs}, at' = [f \in Engines |-> Relocated(at[f], v, to)],
           Disturb(e), UNCHANGED <<link, pwdWorks>>
    PROVE  Inv'
<1> DEFINE w == Reply(e, "ok", None)
<1>1. Answered(e, w)
    BY AnswerIs DEF MaybePaths, Frame
<1>2. Types /\ Outside /\ None \notin dirs /\ dirs \subseteq Canonical /\ to # None /\ to \in Canonical
          /\ None \notin Canonical
    BY PathsAre DEF Inv, Scope, Types
<1>3. to = AddSegment(Base(e), wire[e].name) /\ Base(e) \in dirs /\ Base(e) \in Canonical /\ wire[e].name \in Names
    BY <1>2, EntryIs DEF Destroys
<1>4. v \in Canonical /\ v # << >>
    BY DEF Inv, Control, WireOp
<1>5. v = Victim(e) /\ Destroying(e)
    BY DEF Victim, Destroying, Destroys, Frame
<1>6. to # << >>
    BY <1>3, CoversSegment DEF Canonical
<1>7. \A d \in dirs : ~Covers(v, d) => Relocated(d, v, to) = d
    BY DEF Relocated
<1>8. dirs' \subseteq Dirs
    BY <1>2, <1>7 DEF Types
<1>9. \A d \in dirs : ~Covers(v, d) => d \in dirs'
    BY <1>7
<1>10. << >> \in dirs'
    <2>1. ~Covers(v, << >>)
        <3>1. Len(v) > 0 /\ << >> \in Seq(Names) /\ Len(<< >>) = 0
            BY <1>4, EmptySeq, LenProperties DEF Canonical
        <3>2. ~(Len(v) <= Len(<< >>))
            BY <3>1, <1>4, LenProperties DEF Canonical
        <3> QED BY <3>1, <3>2, <1>4, CoversIs DEF Canonical
    <2> QED BY <2>1, <1>2, <1>9 DEF Types
<1>11. Closed(dirs')
    <2> DEFINE b == Base(e)
               n == wire[e].name
    <2>1. dirs \subseteq Dirs /\ Closed(dirs) /\ b \in dirs /\ n \in Names /\ to = AddSegment(b, n)
        BY <1>2, <1>3 DEF Types
    <2> HIDE DEF b, n
    <2> QED BY <2>1, ClosedMoved
<1>12. ASSUME NEW f \in Engines
      PROVE  /\ at'[f] = at[f] \/ at'[f] = None \/ Covers(to, at'[f])
             /\ at'[f] \in dirs' \cup {None}
             /\ at[f] # None /\ ~Covers(v, at[f]) => at'[f] = at[f]
    <2>1. at'[f] = Relocated(at[f], v, to) /\ at[f] \in dirs \cup {None}
        BY <1>2 DEF Types
    <2>2. CASE at[f] = None \/ ~Covers(v, at[f])
        <3>1. at'[f] = at[f]
            BY <2>1, <2>2 DEF Relocated
        <3> QED BY <3>1, <2>1, <2>2, <1>9
    <2>3. CASE at[f] \in dirs /\ Covers(v, at[f])
        <3>1. Covers(to, Relocated(at[f], v, to))
            BY <2>3, <1>2, <1>4, RelocatedIs DEF Canonical
        <3> QED BY <3>1, <2>1, <2>3
    <2> QED BY <2>1, <2>2, <2>3
<1>13. at' \in [Engines -> dirs' \cup {None}]
    BY <1>12
<1>14. Destroyed(e, v, to)
    BY <1>4, <1>5, <1>6, <1>8, <1>9, <1>10, <1>11, <1>12, <1>13 DEF Destroyed, Disturb
<1> QED
    BY <1>1, <1>14, DestroyedInv

(* Whatever the server does with a command keeps the invariant. *)
LEMMA ServeInv ==
    ASSUME Scope, Inv, NEW e \in Engines, Frame(e), pending = [f \in Engines |-> {}], Serve(e)
    PROVE  Inv'
<1> DEFINE verb == wire[e].verb
           d == Base(e)
           entry == Entry(d, wire[e].name)
<1>1. /\ turn = None /\ Busy(e) /\ ~wire[e].done
      /\ UNCHANGED <<cache, currentPath, invalidate, ops, pending, turn, raced, mkdOK, commands, faults>>
    BY DEF Frame
<1>2. Types /\ WireOp(wire[e]) /\ Control(e) /\ Outside /\ None \notin dirs /\ dirs \subseteq Dirs /\ dirs \subseteq Paths
    BY PathsAre DEF Inv, Control, Types, Scope
<1>3. d \in dirs \cup {None}
    BY <1>2, BaseIs
<1>4. verb \in Verbs /\ verb # "none"
    BY SameServer, <1>1 DEF Busy
<1>14. ~wire[e].skip => (verb = "CDUP" => wire[e].name = Up) /\ (verb = "PWD" => wire[e].path = None)
    <2> SUFFICES ASSUME ~wire[e].skip
                 PROVE  (verb = "CDUP" => wire[e].name = Up) /\ (verb = "PWD" => wire[e].path = None)
        OBVIOUS
    <2>1. ops[e] # << >>
        BY <1>1, <1>2 DEF Control
    <2>2. /\ Sent(Top(e), wire[e])
          /\ Top(e).id = "cwd" => CwdOp(ops[e][1], Top(e)) /\ Top(e).state \notin {"init", "waitlock"}
          /\ Top(e).id = "mkd" => wire[e].verb \in {"CWD", "MKD"}
          /\ Top(e).id \notin {"cwd", "mkd"} => UserOp(Top(e))
        BY <1>1, <2>1, SentIs
    <2>3. CASE Top(e).id = "cwd"
        BY <2>2, <2>3 DEF Sent, CwdOp
    <2>4. CASE Top(e).id = "mkd"
        BY <2>2, <2>4
    <2>5. CASE Top(e).id \notin {"cwd", "mkd"}
        BY <2>2, <2>5 DEF Sent, UserOp, Ids
    <2> QED BY <2>3, <2>4, <2>5
<1>5. CASE verb = "CWD"
    <2>1. Enter(d, wire[e].name) = Step(dirs, link, d, wire[e].name)
        BY ServerIs
    <2>2. Step(dirs, link, d, wire[e].name) \in dirs \cup {None}
        BY <1>2, <1>3, StepIn DEF Types
    <2>3. CASE Enter(d, wire[e].name) = None
        <3>1. Refuse(e)
            BY <1>5, <2>3 DEF Serve
        <3> QED BY <3>1, <1>1, <1>5, <2>1, <2>3, RefuseInv
    <2>4. CASE Enter(d, wire[e].name) # None
        <3>1. /\ Answer(e, "ok", None) /\ at' = [at EXCEPT ![e] = Enter(d, wire[e].name)]
              /\ UNCHANGED <<dirs, link, pwdWorks, disturbed>>
            BY <1>5, <2>4 DEF Serve
        <3> QED BY <3>1, <1>5, <2>1, <2>2, <2>4, MoveInv
    <2> QED BY <2>3, <2>4
<1>6. CASE verb = "CDUP"
    <2>1. \/ Answer(e, "unsupported", None) /\ UNCHANGED <<dirs, link, pwdWorks, at, disturbed>>
          \/ /\ d # None /\ Answer(e, "ok", None) /\ at' = [at EXCEPT ![e] = Enter(d, Up)]
             /\ UNCHANGED <<dirs, link, pwdWorks, disturbed>>
        BY <1>6 DEF Serve, server
    <2>2. CASE Answer(e, "unsupported", None) /\ UNCHANGED <<dirs, link, pwdWorks, at, disturbed>>
        BY <2>2, <1>6, TellInv DEF MaybePaths
    <2>3. CASE /\ d # None /\ Answer(e, "ok", None) /\ at' = [at EXCEPT ![e] = Enter(d, Up)]
               /\ UNCHANGED <<dirs, link, pwdWorks, disturbed>>
        <3>1. ~wire[e].skip => wire[e].name = Up
            BY <1>14, <1>6
        <3>2. Enter(d, Up) = Step(dirs, link, d, Up) /\ Step(dirs, link, d, Up) \in dirs \cup {None}
            BY <1>2, <1>3, ServerIs, StepIn DEF Types
        <3>3. Step(dirs, link, d, Up) # None
            BY <1>2, <1>3, <2>3, PathsAre, ParentIn, ZenonT(30) DEF Step, Types
        <3> QED BY <3>1, <3>2, <3>3, <2>3, <1>6, MoveInv
    <2> QED BY <2>1, <2>2, <2>3
<1>7. CASE verb = "PWD"
    <2>1. ~wire[e].skip => d = at[e]
        BY <1>14, <1>2, <1>7, BaseIs
    <2>2. CASE ~pwdWorks \/ d = None
        <3>1. Refuse(e)
            BY <1>7, <2>2 DEF Serve
        <3> QED BY <3>1, <1>1, <1>7, <2>1, <2>2, RefuseInv
    <2>3. CASE pwdWorks /\ d # None
        <3>1. Answer(e, "ok", d) /\ UNCHANGED <<dirs, link, pwdWorks, at, disturbed>>
            BY <1>7, <2>3 DEF Serve, server
        <3> QED BY <3>1, <1>2, <1>3, <1>7, <2>1, <2>3, TellInv DEF MaybePaths
    <2> QED BY <2>2, <2>3
<1>8. CASE verb = "MKD"
    <2>1. CASE Refuse(e)
        BY <2>1, <1>1, <1>8, RefuseInv
    <2>2. CASE Answer(e, "file", None) /\ UNCHANGED <<dirs, link, pwdWorks, at, disturbed>>
        BY <2>2, <1>8, TellInv DEF MaybePaths
    <2>3. CASE entry \in Dirs \ dirs /\ ~Refuse(e) /\ ~(Answer(e, "file", None) /\ UNCHANGED <<server, disturbed>>)
        <3>1. Answer(e, "ok", None) /\ dirs' = dirs \cup {entry} /\ UNCHANGED <<link, pwdWorks, at, disturbed>>
            BY <1>8, <2>3 DEF Serve
        <3> QED BY <3>1, <1>8, <2>3, MakeInv
    <2>4. CASE entry \notin Dirs \ dirs /\ ~Refuse(e)
        <3>1. entry \in dirs /\ Answer(e, "exists", None) /\ UNCHANGED <<dirs, link, pwdWorks, at, disturbed>>
            BY <1>8, <2>4 DEF Serve, server, Refuse
        <3> QED BY <3>1, <1>8, TellInv DEF MaybePaths
    <2> QED BY <2>1, <2>3, <2>4, <2>2 DEF server
<1>9. CASE verb = "RMD"
    <2>1. CASE entry \in dirs /\ ~\E x \in dirs : IsParentOf(entry, x)
        <3>1. /\ Answer(e, "ok", None) /\ dirs' = dirs \ {entry} /\ at' = [f \in Engines |-> Relocated(at[f], entry, None)]
              /\ Disturb(e) /\ UNCHANGED <<link, pwdWorks>>
            BY <1>9, <2>1 DEF Serve
        <3> QED BY <3>1, <1>9, <2>1, RmdInv
    <2>2. CASE ~(entry \in dirs /\ ~\E x \in dirs : IsParentOf(entry, x))
        <3>1. Refuse(e)
            BY <1>9, <2>2 DEF Serve
        <3> QED BY <3>1, <1>1, <1>9, RefuseInv
    <2> QED BY <2>1, <2>2
<1>10. CASE verb = "RNFR"
    <2>1. CASE entry \in dirs
        <3>1. Answer(e, "ok", entry) /\ UNCHANGED <<dirs, link, pwdWorks, at, disturbed>>
            BY <1>10, <2>1 DEF Serve, server
        <3>2. entry # << >>
            <4>1. entry = AddSegment(d, wire[e].name) /\ d \in dirs
                BY <1>2, <1>3, <2>1 DEF Entry
            <4>2. d \in Seq(Names \cup {wire[e].name})
                BY <4>1, <1>2, PathsAre, SeqMonotonic DEF Canonical
            <4> HIDE DEF d
            <4> QED BY <4>1, <4>2, AppendProperties DEF AddSegment
        <3> QED BY <3>1, <3>2, <1>2, <1>10, <2>1, TellInv DEF MaybePaths
    <2>2. CASE entry \notin dirs
        <3>1. Refuse(e)
            BY <1>10, <2>2 DEF Serve
        <3> QED BY <3>1, <1>1, <1>10, RefuseInv
    <2> QED BY <2>1, <2>2
<1>11. CASE verb = "RNTO"
    <2> DEFINE v == wire[e].move
               Possible == /\ v \in dirs /\ entry \in Dirs \ dirs /\ ~Covers(v, entry)
                           /\ \A x \in dirs : Covers(v, x) => Relocated(x, v, entry) \in Dirs
    <2>1. CASE Possible
        <3>1. /\ Answer(e, "ok", None) /\ dirs' = {Relocated(x, v, entry) : x \in dirs}
              /\ at' = [f \in Engines |-> Relocated(at[f], v, entry)] /\ Disturb(e) /\ UNCHANGED <<link, pwdWorks>>
            BY <1>11, <2>1 DEF Serve
        <3> QED BY <3>1, <1>11, <2>1, RntoInv
    <2>2. CASE ~Possible
        <3>1. Refuse(e)
            BY <1>11, <2>2 DEF Serve
        <3> QED BY <3>1, <1>1, <1>11, RefuseInv
    <2> QED BY <2>1, <2>2
<1>12. CASE verb = "RAW"
    <2>1. /\ Answer(e, "ok", None) /\ at' = [at EXCEPT ![e] = IF d = None THEN at[e] ELSE d]
          /\ UNCHANGED <<dirs, link, pwdWorks, disturbed>>
        BY <1>12 DEF Serve
    <2>2. (IF d = None THEN at[e] ELSE d) \in dirs \cup {None}
        BY <1>2, <1>3 DEF Types
    <2> QED BY <2>1, <2>2, <1>12, MoveInv
<1>13. CASE verb \in {"LIST", "STOR", "DELE"}
    <2>1. verb = "DELE" => wire[e].name # Link
        BY <1>2 DEF WireOp
    <2>2. Answer(e, IF d = None THEN "fail" ELSE "ok", None) /\ UNCHANGED <<dirs, link, pwdWorks, at, disturbed>>
        BY <1>13, <2>1 DEF Serve, server
    <2>3. (IF d = None THEN "fail" ELSE "ok") \in {"ok", "fail", "exists", "file", "unsupported"}
        OBVIOUS
    <2> QED BY <2>2, <2>3, <1>13, TellInv DEF MaybePaths
<1> QED
    BY <1>4, <1>5, <1>6, <1>7, <1>8, <1>9, <1>10, <1>11, <1>12, <1>13 DEF Verbs

(* So does Execute. *)
LEMMA ExecuteInv ==
    ASSUME Scope, Inv, NEW e \in Engines, Execute(e)
    PROVE  Inv'
<1>1. Frame(e) /\ pending = [f \in Engines |-> {}] /\ Serve(e)
    BY DEF Execute, Frame
<1> QED
    BY <1>1, ServeInv

(* At the start nobody believes anything. *)
LEMMA InitInv ==
    ASSUME Scope, Init
    PROVE  Inv
<1>1. PICK s \in Servers : dirs = s[1] /\ pwdWorks = s[2] /\ link = s[2]
    BY DEF Init
<1>2. dirs \subseteq Dirs /\ << >> \in dirs /\ Closed(dirs) /\ pwdWorks \in BOOLEAN /\ link = pwdWorks
    BY <1>1 DEF Scope
<1>3. /\ at = [e \in Engines |-> << >>] /\ cache = {} /\ currentPath = [e \in Engines |-> None]
      /\ invalidate = [e \in Engines |-> FALSE] /\ ops = [e \in Engines |-> << >>]
      /\ wire = [e \in Engines |-> NoWire] /\ pending = [e \in Engines |-> {}] /\ turn = None /\ raced = FALSE
      /\ disturbed = [e \in Engines |-> FALSE] /\ mkdOK = [e \in Engines |-> None] /\ commands = 0 /\ faults = 0
    BY DEF Init
<1>4. << >> \in Seq(OpType) /\ NoWire \in WireType /\ None \in MaybePaths /\ Len(<< >>) = 0
    BY NoWireType, EmptySeq DEF MaybePaths
<1>5. commands \in 0..MaxCommands /\ faults \in 0..MaxFaults
    BY <1>3, WorkingDirAssumption
<1>6. Types
    BY <1>2, <1>3, <1>4, <1>5 DEF Types
<1>7. /\ NoWire.verb = "none" /\ ~NoWire.done /\ ~NoWire.skip /\ NoWire.reply = "none"
    BY DEF NoWire
<1>8. ASSUME NEW e \in Engines PROVE Control(e)
    <2>1. /\ ops[e] = << >> /\ wire[e] = NoWire /\ ~invalidate[e] /\ mkdOK[e] = None /\ turn # e
        BY <1>3, WorkingDirAssumption
    <2>2. Stack(<< >>)
        BY <1>4 DEF Stack
    <2>3. WireOp(NoWire)
        BY <1>7 DEF WireOp, Destroys
    <2>4. ~Busy(e)
        BY <2>1, <1>7 DEF Busy
    <2> QED BY <2>1, <2>2, <2>3, <2>4, <1>7 DEF Control, Moves
<1>9. ASSUME NEW e \in Engines PROVE Local(e) /\ ~Destroying(e)
    <2>1. ops[e] = << >> /\ wire[e] = NoWire /\ mkdOK[e] = None /\ currentPath[e] = None
        BY <1>3
    <2> QED BY <2>1, <1>4, <1>7
            DEF Local, Belief, CwdWhere, MkdWhere, Detour, Unknown, UserWhere, Made, Destroying, Destroys
<1>10. CacheTrue /\ Apart /\ Announced
    BY <1>3, <1>9 DEF CacheTrue, Apart, Announced
<1> QED
    BY <1>6, <1>8, <1>9, <1>10 DEF Inv, Truth

(* A step that changes nothing keeps the invariant. *)
LEMMA SameInv ==
    ASSUME Inv, UNCHANGED vars
    PROVE  Inv'
<1>1. UNCHANGED <<dirs, link, pwdWorks, at, cache, currentPath, invalidate, ops, wire, pending, turn, raced,
          disturbed, mkdOK, commands, faults>>
    BY DEF vars, server, observers
<1>2. Types'
    BY <1>1 DEF Inv, Types
<1>3. \A e \in Engines : Control(e)'
    BY <1>1 DEF Inv, Control, Busy, Top
<1>4. \A f : Victim(f)' = Victim(f)
    BY <1>1 DEF Victim
<1>5. \A e : (Local(e)' <=> Local(e)) /\ (Moving(e)' <=> Moving(e)) /\ (Destroying(e)' <=> Destroying(e))
    BY <1>1 DEF Local, Belief, Stale, CwdWhere, MkdWhere, Detour, Unknown, UserWhere, Made, Moving, Destroying,
                AtPath, AtEntry, Top, Live, Busy, Waited
<1>6. CacheTrue' <=> CacheTrue
    BY <1>1 DEF CacheTrue
<1>7. Apart' <=> Apart
    BY <1>5 DEF Apart
<1>8. Announced' <=> Announced
    BY <1>1, <1>4, <1>5 DEF Announced, Spared, Told, Stale
<1>9. Truth'
    BY <1>1, <1>5, <1>6, <1>7, <1>8 DEF Inv, Truth
<1> QED
    BY <1>2, <1>3, <1>9 DEF Inv

(* Every step keeps the invariant. *)
LEMMA NextInv ==
    ASSUME Scope, Inv, [Next]_vars
    PROVE  Inv'
<1>1. CASE UNCHANGED vars
    BY <1>1, SameInv
<1>2. ASSUME NEW e \in Engines, Handler(e) PROVE Inv'
    BY <1>2, CwdInitInv, CwdSendInv, MkdInitInv, MkdSendInv, GoToDirectoryInv, SendPlainInv, SendRawInv, SendRmdInv,
       SendRenameInv, AwaitLockInv DEF Handler
<1>3. ASSUME NEW e \in Engines, ParseResponse(e) PROVE Inv'
    BY <1>3, ParseResponseInv
<1>4. ASSUME NEW e \in Engines, OnInvalidateCurrentWorkingDir(e) PROVE Inv'
    BY <1>4, OnInvalidateInv
<1>5. ASSUME NEW e \in Engines, NEW q \in Requests, Start(e, q) PROVE Inv'
    BY <1>5, StartInv
<1>6. ASSUME NEW e \in Engines, Cancel(e) PROVE Inv'
    BY <1>6, CancelInv
<1>7. ASSUME NEW e \in Engines, Disconnect(e) PROVE Inv'
    BY <1>7, DisconnectInv
<1>8. ASSUME NEW e \in Engines, Execute(e) PROVE Inv'
    BY <1>8, ExecuteInv
<1>9. ASSUME NEW e \in Engines, OnObtainLock(e) PROVE Inv'
    BY <1>9, ObtainLockInv
<1> QED
    BY <1>1, <1>2, <1>3, <1>4, <1>5, <1>6, <1>7, <1>8, <1>9 DEF Next

(* The invariant implies that beliefs and path cache are true. *)
LEMMA InvBeliefs ==
    ASSUME Scope, Inv
    PROVE  BeliefsAreTrue
<1>1. Types /\ Outside
    BY DEF Inv, Scope
<1>2. TypeOK
    <2>1. \A e \in Engines : Len(ops[e]) <= 3 /\ pending[e] \subseteq Paths
        BY <1>1 DEF Inv, Control, Stack, Types
    <2>2. at \in [Engines -> Dirs \cup {None}]
        BY <1>1 DEF Types
    <2>3. \A x \in cache : {x.source, x.target} \subseteq Paths /\ x.subdir \in Segments
        BY <1>1 DEF Types, Entries
    <2>4. {link, pwdWorks, raced} \subseteq BOOLEAN
        BY <1>1 DEF Types
    <2>5. {invalidate, disturbed} \subseteq [Engines -> BOOLEAN]
        BY <1>1 DEF Types
    <2> QED BY <1>1, <2>1, <2>2, <2>3, <2>4, <2>5 DEF TypeOK, Types, MaybePaths
<1>3. ASSUME ~raced, NEW x \in cache PROVE Meaning(<<x.source, x.subdir>>) = x.target
    <2>1. Leads(dirs, link, x.source, x.subdir) = x.target
        BY <1>3 DEF Inv, Truth, CacheTrue
    <2> QED BY <2>1, ServerIs DEF Meaning, Leads
<1>4. ASSUME ~raced, NEW e \in Engines
      PROVE  currentPath[e] = None \/ invalidate[e] \/ pending[e] # {} \/ at[e] = Resolve(currentPath[e])
    <2>1. Belief(e)
        BY <1>4 DEF Inv, Truth, Local
    <2>2. ASSUME at[e] = currentPath[e], currentPath[e] # None PROVE at[e] = Resolve(currentPath[e])
        <3>1. currentPath[e] \in dirs /\ currentPath[e] \in Canonical
            BY <2>2, <1>1, PathsAre DEF Types
        <3>2. Reach(dirs, link, currentPath[e]) = currentPath[e]
            BY <3>1, <1>1, ReachCanonical
        <3> QED BY <2>2, <3>2, ServerIs
    <2> QED BY <2>1, <2>2 DEF Belief, Stale
<1> QED
    BY <1>2, <1>3, <1>4 DEF BeliefsAreTrue

(* The invariant implies that what is reported as made exists. *)
LEMMA InvMade ==
    ASSUME Scope, Inv
    PROVE  MadeExists
<1> SUFFICES ASSUME NEW e \in Engines, mkdOK[e] # None, ~raced, ~disturbed[e]
             PROVE  Resolve(mkdOK[e]) # None
    BY DEF MadeExists
<1>1. mkdOK[e] \in dirs
    BY DEF Inv, Truth, Local, Made
<1>2. mkdOK[e] \in Canonical /\ Outside
    BY <1>1, PathsAre DEF Inv, Types, Scope
<1> QED
    BY <1>1, <1>2, ReachCanonical, ServerIs

(* The invariant implies that a command is carried out where it is meant. *)
LEMMA InvActs ==
    ASSUME Scope, Inv
    PROVE  ActsWhereMeant
<1> SUFFICES ASSUME NEW e \in Engines, Busy(e), ~wire[e].done, ~wire[e].skip, wire[e].meant # None, ~raced, ~disturbed[e]
             PROVE  Base(e) = Meaning(wire[e].meant)
    BY DEF ActsWhereMeant
<1> DEFINE t == Top(e)
           w == wire[e]
<1>1. Types /\ Control(e) /\ Local(e) /\ Outside
    BY DEF Inv, Truth, Scope
<1>2. turn # e /\ ops[e] # << >> /\ Sent(t, w)
    BY <1>1 DEF Control, Busy, NoWire
<1>3. Live(e) /\ t \in OpType
    BY <1>1, <1>2, Shape DEF Live
<1>4. Meaning(w.meant) = Leads(dirs, link, w.meant[1], w.meant[2])
    BY ServerIs DEF Meaning, Leads
<1>5. (w.path = None => Base(e) = at[e]) /\ (w.path # None => Base(e) = Reach(dirs, link, w.path))
    BY <1>1, BaseIs
<1>6. currentPath[e] = None \/ at[e] = currentPath[e]
    BY <1>1 DEF Local, Belief, Stale
<1>7. ASSUME NEW p \in Canonical, at[e] = p PROVE Leads(dirs, link, p, None) = at[e]
    <2>1. p \in dirs
        BY <1>1, <1>7, PathsAre DEF Types
    <2> QED BY <2>1, <1>1, <1>7, ReachCanonical DEF Leads, Step
<1>8. CASE t.id = "cwd"
    <2>1. CwdOp(ops[e][1], t)
        BY <1>1, <1>2, <1>8, CwdFacts
    <2> QED BY <2>1, <1>2, <1>8 DEF Sent, CwdOp
<1>9. CASE t.id = "mkd"
    <2>1. MkdOp(t)
        BY <1>1, <1>2, <1>9, Shape
    <2>2. t.state = "mkdsub" /\ w.path = None /\ w.meant = <<t.mkdPath, None>>
        BY <2>1, <1>2, <1>9 DEF Sent, MkdOp, StatesOf
    <2>3. currentPath[e] = t.mkdPath /\ t.mkdPath \in Canonical
        BY <2>1, <2>2, <1>1, <1>2, <1>3, <1>9 DEF Local, MkdWhere, MkdOp
    <2>4. at[e] = t.mkdPath
        BY <2>3, <1>1, <1>6, PathsAre
    <2> HIDE DEF w, t
    <2>5. w.meant[1] = t.mkdPath /\ w.meant[2] = None
        BY <2>2
    <2> QED BY <2>2, <2>3, <2>4, <2>5, <1>4, <1>5, <1>7 DEF w
<1>10. CASE t.id \notin {"cwd", "mkd"}
    <2>1. UserOp(t) /\ UserWhere(e)
        BY <1>1, <1>2, <1>10, Shape DEF Local
    <2>2. CASE t.id = "list"
        <3>1. t.state = "list" /\ w.path = None /\ w.meant = t.meant
            BY <1>2, <2>2 DEF Sent
        <3>2. AtEntry(e, t.meant[1], t.meant[2])
            BY <2>1, <2>2, <3>1, <1>2 DEF UserWhere
        <3> QED BY <3>1, <3>2, <1>4, <1>5 DEF AtEntry
    <2>3. CASE t.id = "rename" /\ t.state = "rnto"
        <3>1. /\ w.path = (IF ~t.flag /\ t.path = t.toPath THEN None ELSE t.toPath)
              /\ w.meant = <<t.toPath, None>> /\ t.toPath \in Canonical
            BY <1>2, <2>1, <2>3 DEF Sent, UserOp
        <3>2. w.meant[1] = t.toPath /\ w.meant[2] = None /\ t.toPath # None
            BY <3>1, <1>1, PathsAre
        <3>3. CASE ~t.flag /\ t.path = t.toPath
            <4>1. currentPath[e] = t.toPath
                BY <2>1, <2>3, <3>3, <1>2 DEF UserWhere
            <4>2. at[e] = t.toPath
                BY <4>1, <3>2, <1>6
            <4> HIDE DEF w, t
            <4> QED BY <4>2, <3>1, <3>2, <3>3, <1>4, <1>5, <1>7 DEF w
        <3>4. CASE ~(~t.flag /\ t.path = t.toPath)
            BY <3>1, <3>2, <3>4, <1>4, <1>5 DEF Leads, Step
        <3> QED BY <3>3, <3>4
    <2>4. CASE t.id # "list" /\ ~(t.id = "rename" /\ t.state = "rnto")
        <3>1. t.id \in {"rmd", "rename", "dele", "stor"} /\ t.state = "send" /\ w.path = PathOf(t) /\ w.meant = t.meant
            BY <1>2, <2>1, <2>4, <1>10 DEF Sent, UserOp, Ids
        <3>2. t.meant # None /\ t.meant[2] = None
            BY <2>1, <3>1 DEF UserOp
        <3>3. CASE t.flag
            <4>1. t.path = t.meant[1] /\ t.path # None
                BY <2>1, <3>1, <3>3 DEF UserOp
            <4> QED BY <4>1, <3>1, <3>2, <3>3, <1>4, <1>5 DEF PathOf, Leads, Step
        <3>4. CASE ~t.flag
            <4>1. AtEntry(e, t.meant[1], t.meant[2])
                BY <2>1, <3>1, <3>2, <3>4, <1>2 DEF UserWhere
            <4> QED BY <4>1, <3>1, <3>4, <1>4, <1>5 DEF PathOf, AtEntry
        <3> QED BY <3>3, <3>4
    <2> QED BY <2>2, <2>3, <2>4
<1> QED
    BY <1>8, <1>9, <1>10

-------------------------------------------------------------------------------
(***************************************************************************)
(* The theorems                                                            *)
(***************************************************************************)

(* The invariant holds in every state. *)
THEOREM DirInvariance == ASSUME Scope PROVE Spec => []Inv
<1>1. Init => Inv
    BY InitInv
<1>2. Inv /\ [Next]_vars => Inv'
    BY NextInv
<1> QED
    BY <1>1, <1>2, PTL DEF Spec

(* A control socket that believes to be in a directory (currentPath_) is   *)
(* in it, or will forget it when its operation ends or an event has        *)
(* reached it, and the path cache says what the server would say, whatever *)
(* other engines rename, remove and create, as long as no engine changes   *)
(* its directory while another one destroys one.                           *)
THEOREM BeliefsAreAlwaysTrue == ASSUME Scope PROVE Spec => []BeliefsAreTrue
<1>1. Inv => BeliefsAreTrue
    BY InvBeliefs
<1> QED
    BY <1>1, DirInvariance, PTL

(* A command without a path (LIST, DELE, STOR, RMD, RNFR, RNTO, MKD) that  *)
(* the server is about to carry out is carried out in the directory the    *)
(* user has named, by whatever way ChangeDir has gone there: CWD, CDUP,    *)
(* the path cache, a link, or a directory created for an upload.           *)
THEOREM CommandsActWhereMeant == ASSUME Scope PROVE Spec => []ActsWhereMeant
<1>1. Inv => ActsWhereMeant
    BY InvActs
<1> QED
    BY <1>1, DirInvariance, PTL

(* A directory that Mkdir has reported as created exists (ftp/mkd.cpp),    *)
(* also if nothing was sent because the connection was already below it.   *)
THEOREM MadeAlwaysExists == ASSUME Scope PROVE Spec => []MadeExists
<1>1. Inv => MadeExists
    BY InvMade
<1> QED
    BY <1>1, DirInvariance, PTL

===============================================================================
