---------------------------- MODULE DirectoryCache ----------------------------
(***************************************************************************)
(* The directory cache all engines share, src/engine/directorycache.cpp,   *)
(* and the FTP operations that read and write it: list.cpp, delete.cpp,    *)
(* rmd.cpp, mkd.cpp, rename.cpp, chmod.cpp and uploads.                    *)
(*                                                                         *)
(* An operation marks what it is about to change before it sends its       *)
(* command, and corrects the cache when the reply comes.  In between the   *)
(* user may cancel: the server carries out the command, and nobody reads   *)
(* the reply.  The question is what the cache may be trusted with.         *)
(*                                                                         *)
(* There is one server, with files in its root and in directories of the   *)
(* root.  Each public function of the cache holds its mutex and is one     *)
(* step; the private state is one record, and the functions map records    *)
(* to records.                                                             *)
(***************************************************************************)
EXTENDS Naturals, Sequences, FiniteSets, SequencesExt, FiniteSetsExt

CONSTANTS
    Names,          \* names of files and directories
    Fold,           \* Fold[n]: the name n, without regard to case
    CaseSensitive,  \* BOOLEAN: GetCaseSensitivity() == yes
    Conns,          \* the connections to the server
    Trees,          \* what the server may have at first
    Ops,            \* the operations looked at
    Abandon,        \* bound: the operations that may be cancelled under way
    MkdFullPath,    \* BOOLEAN: the server may refuse a CWD to the parent, so that
                    \* MKD is sent with the full path
    MaxLru,         \* 50000 listings, scaled
    Limits,         \* pairs <<1000000 files, 1000 listings>>, <<5000000, 100>>, scaled
    MaxCommands     \* bound: commands sent

AllOps == {"list", "dele", "rmd", "mkd", "rename", "stor", "chmod", "raw"}

ASSUME CacheAssumption ==
    /\ IsFiniteSet(Names) /\ IsFiniteSet(Conns) /\ Fold \in [Names -> Names]
    /\ {CaseSensitive, MkdFullPath} \subseteq BOOLEAN
    /\ Ops \subseteq AllOps /\ Abandon \subseteq Ops
    /\ {MaxLru, MaxCommands} \subseteq Nat \ {0} /\ Limits \subseteq Nat \X (Nat \ {0})

VARIABLES
    files,          \* what the server has: files[d][n] for a directory d and a name n
    dc,             \* the cache: listings, m_leastRecentlyUsedList, m_totalFileCount
    cmd,            \* cmd[c]: the command under way on connection c
    commands,       \* number of commands so far
    mistaken        \* observer: a directory was renamed that the cache takes for a file

cacheVars == <<files, dc, cmd, commands, mistaken>>

Root == << >>
Dirs == {Root} \cup {<<n>> : n \in Names}
SamePath(d, e) == Len(d) = Len(e) /\ \A i \in DOMAIN d : Fold[d[i]] = Fold[e[i]]
SameName(m, n) == Fold[m] = Fold[n]

(* A file is small or large; "unsized" is a file whose size the cache does *)
(* not know.                                                               *)
FileKinds == {"small", "large", "unsized"}
Empty == [n \in Names |-> "none"]

(* A listing: the entries, the names of those with flag_unsure, and        *)
(* whether the listing itself has an unsure flag                           *)
Listing(entries) == [entries |-> entries, unsureNames |-> {}, unsure |-> FALSE]
NoListing == [Listing(Empty) EXCEPT !.unsure = TRUE, !.unsureNames = Names]
Size(l) == IF l = NoListing THEN 0 ELSE Cardinality({n \in Names : l.entries[n] # "none"})
Cached(c) == {d \in Dirs : c.listings[d] # NoListing}

NoCommand == [op |-> "none", dir |-> Root, name |-> CHOOSE n \in Names : TRUE, toDir |-> Root,
              toName |-> CHOOSE n \in Names : TRUE, kind |-> "none", state |-> "sent", ok |-> FALSE,
              seen |-> Empty, abandoned |-> FALSE]

Listings == [entries : [Names -> {"none", "dir"} \cup FileKinds], unsureNames : SUBSET Names, unsure : BOOLEAN]

CacheTypeOK ==
    /\ files \in [Dirs -> [Names -> {"none", "dir", "small", "large"}]]
    /\ dc.listings \in [Dirs -> Listings]
    /\ dc.lru \in Seq(Dirs) /\ dc.total \in Nat
    /\ \A c \in Conns :
          /\ cmd[c].op \in AllOps \cup {"none", "mkdfull"}
          /\ cmd[c].dir \in Dirs /\ cmd[c].toDir \in Dirs
          /\ {cmd[c].name, cmd[c].toName} \subseteq Names
          /\ cmd[c].kind \in {"none", "small", "large"} /\ cmd[c].state \in {"sent", "done"}
          /\ {cmd[c].ok, cmd[c].abandoned} \subseteq BOOLEAN
          /\ cmd[c].seen \in [Names -> {"none", "dir", "small", "large"}]
    /\ commands \in 0..MaxCommands /\ mistaken \in BOOLEAN

-------------------------------------------------------------------------------
(***************************************************************************)
(* The functions of CDirectoryCache                                        *)
(***************************************************************************)

(* A list of directories without those of S, and the number of entries in  *)
(* the listings of S                                                       *)
Without(lru, S) == SelectSeq(lru, LAMBDA d : d \notin S)
FileCount(listings, S) == MapThenSumSet(LAMBDA d : Size(listings[d]), S)

(* UpdateLru of the listings of S *)
UpdateLru(c, S) ==
    LET used == S \cap Cached(c)
    IN  [c EXCEPT !.lru = Without(c.lru, used) \o SetToSeq(used)]

(* Lookup: a listing that is used moves to the end. *)
Lookup(c, d) == UpdateLru(c, {d})

(* The listings of d, however it is spelled *)
Spellings(c, d) == {e \in Cached(c) : SamePath(d, e)}

(* The listings of the directories in the domain of new are replaced, and  *)
(* the total of the entries is what the caller has counted.                *)
Change(c, new, total) ==
    [UpdateLru(c, DOMAIN new) EXCEPT
        !.listings = [d \in Dirs |-> IF d \in DOMAIN new THEN new[d] ELSE c.listings[d]],
        !.total = total]

Marked(l, S) == [l EXCEPT !.unsureNames = @ \cup {n \in S : l.entries[n] # "none"}]
Unsure(l) == [l EXCEPT !.unsure = TRUE]

(* Erasing listings is not a use of them. *)
Erase(c, S) ==
    [listings |-> [d \in Dirs |-> IF d \in S THEN NoListing ELSE c.listings[d]],
     lru |-> Without(c.lru, S),
     total |-> c.total - FileCount(c.listings, S)]

(* Prune: the listings used least recently go while there are too many. *)
Prune(c) ==
    LET After(k) == Erase(c, {c.lru[i] : i \in 1..k})
        TooBig(e) == Len(e.lru) > MaxLru \/ \E l \in Limits : e.total > l[1] /\ Len(e.lru) > l[2]
    IN  After(CHOOSE k \in 0..Len(c.lru) :
                 /\ ~TooBig(After(k))
                 /\ \A j \in 0..(k - 1) : TooBig(After(j)))

Store(c, d, entries) ==
    LET new == [c EXCEPT !.listings[d] = Listing(entries),
                         !.total = (@ + Size(Listing(entries))) - Size(c.listings[d])]
    IN  IF d \in Cached(c) THEN UpdateLru(new, {d}) ELSE Prune(UpdateLru(new, {d}))

(* InvalidateFile: all entries of that name are marked.  If one is a       *)
(* directory, so are all listings below the parent.                        *)
InvalidateFile(c, d, n) ==
    LET S == IF CaseSensitive THEN {d} \cap Cached(c) ELSE Spellings(c, d)
        same == {m \in Names : IF CaseSensitive THEN m = n ELSE SameName(m, n)}
        marked == Change(c, [e \in S |-> Unsure(Marked(c.listings[e], same))], c.total)
        below == IF d = Root /\ \E e \in S, m \in same : c.listings[e].entries[m] = "dir"
                 THEN Cached(c) \ {Root} ELSE {}
    IN  [marked EXCEPT !.listings =
            [e \in Dirs |-> IF e \in below THEN Unsure(marked.listings[e]) ELSE marked.listings[e]]]

(* Variant: nothing is added. *)
UpdateExisting(c, d, n, mayCreate, type, kind) ==
    Change(c, [e \in Spellings(c, d) |->
                 Unsure(Marked(c.listings[e], {m \in Names : SameName(m, n)}))], c.total)

(* UpdateFile: the entry is marked, or added as an unsure one, which       *)
(* counts.  (Entries of a similar name that are listed before it are       *)
(* marked too; it is taken to be listed first.)                            *)
UpdateFile(c, d, n, mayCreate, type, kind) ==
    LET Adds(l) == l.entries[n] = "none" /\ type # "unknown" /\ mayCreate
        S == Spellings(c, d)
    IN  Change(c, [e \in S |->
                LET l == c.listings[e]
                    same == IF l.entries[n] # "none" THEN {n} ELSE {m \in Names : SameName(m, n)}
                    marked == Unsure(Marked(l, same))
                IN  IF Adds(l)
                    THEN [marked EXCEPT !.entries[n] = kind, !.unsureNames = @ \cup {n}]
                    ELSE marked],
               c.total + Cardinality({e \in S : Adds(c.listings[e])}))

(* Variant: the total is counted down whether or not an entry goes. *)
RemoveMiscounted(c, d, n) ==
    LET S == Spellings(c, d)
    IN  Change(c, [e \in S |->
                LET l == c.listings[e]
                IN  IF l.entries[n] # "none"
                    THEN [Unsure(l) EXCEPT !.entries[n] = "none", !.unsureNames = @ \ {n}]
                    ELSE Unsure(Marked(l, {m \in Names : SameName(m, n)}))],
               c.total - Cardinality(S))

(* RemoveFile: the entry of exactly that name goes, or all that look like  *)
(* it are marked.                                                          *)
RemoveFile(c, d, n) ==
    LET S == Spellings(c, d)
    IN  Change(c, [e \in S |->
                LET l == c.listings[e]
                IN  IF l.entries[n] # "none"
                    THEN [Unsure(l) EXCEPT !.entries[n] = "none", !.unsureNames = @ \ {n}]
                    ELSE Unsure(Marked(l, {m \in Names : SameName(m, n)}))],
               c.total - Cardinality({e \in S : c.listings[e].entries[n] # "none"}))

InvalidateServer(c) == Erase(c, Cached(c))

(* Variant: the listing of the directory itself stays. *)
RemoveEntry(c, d, n) == RemoveFile(c, d, n)

RemoveDir(c, d, n) == RemoveFile(Erase(c, IF d = Root THEN Cached(c) \cap {<<n>>} ELSE {}), d, n)

(* A listing in which a file has got another name *)
Renamed(l, n, toName, kind) ==
    [Unsure(l) EXCEPT !.entries = [@ EXCEPT ![n] = "none", ![toName] = kind],
                      !.unsureNames = (@ \ {n}) \cup {toName}]

(* Rename *)
Rename(c, d, n, toDir, toName) ==
    LET used == Lookup(c, d)
        kind == c.listings[d].entries[n]
        Added(e) == UpdateFile(e, toDir, toName, TRUE, IF kind = "dir" THEN "dir" ELSE "file",
                               IF kind = "dir" THEN "dir" ELSE "unsized")
        over == RemoveFile(used, d, toName)         \* what it replaces, in the same directory
    IN  IF d \notin Cached(c) THEN InvalidateServer(c)
        ELSE IF d = toDir
        THEN CASE over.listings[d].entries[n] = "none" -> over
               [] over.listings[d].entries[n] = "dir" ->
                    Added(RemoveDir(RemoveDir(over, d, n), d, toName))
               [] OTHER -> [over EXCEPT !.listings[d] = Renamed(@, n, toName, kind)]
        ELSE CASE kind = "none" -> used
               [] kind = "dir" -> Added(RemoveDir(used, d, n))
               [] OTHER -> Added(RemoveFile(used, d, n))

-------------------------------------------------------------------------------
(***************************************************************************)
(* The operations                                                          *)
(***************************************************************************)

(* What an operation does to the cache before it sends its command *)
SendList(k) == Lookup(dc, k.dir)
SendDelete(k) == InvalidateFile(dc, k.dir, k.name)
SendRemoveDir(k) == InvalidateFile(dc, k.dir, k.name)
SendRename(k) == InvalidateFile(InvalidateFile(dc, k.dir, k.name), k.toDir, k.toName)
SendRawCommand(k) == InvalidateServer(dc)

Before(k) ==
    CASE k.op = "list" -> SendList(k)
      [] k.op = "dele" -> SendDelete(k)
      [] k.op = "rmd" -> SendRemoveDir(k)
      [] k.op = "rename" -> SendRename(k)
      [] k.op = "raw" -> SendRawCommand(k)
      [] OTHER -> dc

(* What it does when the reply comes.  MKD also updates the cache if the   *)
(* server says that there is something already, file or directory; any     *)
(* other refusal ends it.  MKD with the full path never updates it.        *)
ListResult(k) == IF k.ok THEN Store(dc, k.dir, k.seen) ELSE dc
ParseDelete(k) == IF k.ok THEN RemoveFile(dc, k.dir, k.name) ELSE dc
ParseRemoveDir(k) == IF k.ok THEN RemoveDir(dc, k.dir, k.name) ELSE dc
ParseRename(k) == IF k.ok THEN Rename(dc, k.dir, k.name, k.toDir, k.toName) ELSE dc
ParseMkdir(k) ==
    (IF k.ok \/ files[k.dir][k.name] # "none" THEN {UpdateFile(dc, k.dir, k.name, TRUE, "dir", "dir")} ELSE {})
        \cup (IF k.ok THEN {} ELSE {dc})
ParseChmod(k) == IF k.ok THEN UpdateFile(dc, k.dir, k.name, FALSE, "unknown", "none") ELSE dc

(* UpdateCache after an upload that may have changed the file *)
Uploaded(k) == UpdateFile(dc, k.dir, k.name, TRUE, "file", IF k.ok THEN k.kind ELSE "unsized")

(* An upload that the server refuses may not have been initiated. *)
After(k) ==
    CASE k.op = "list" -> {ListResult(k)}
      [] k.op = "dele" -> {ParseDelete(k)}
      [] k.op = "rmd" -> {ParseRemoveDir(k)}
      [] k.op = "rename" -> {ParseRename(k)}
      [] k.op = "mkd" -> ParseMkdir(k)
      [] k.op = "chmod" -> {ParseChmod(k)}
      [] k.op = "stor" -> {Uploaded(k)} \cup (IF k.kind = "none" THEN {dc} ELSE {})
      [] OTHER -> {dc}

(* The user's commands: which make sense for the server is up to it. *)
SentOps == Ops \cup (IF MkdFullPath /\ "mkd" \in Ops THEN {"mkdfull"} ELSE {})
Requests ==
    {k \in [op : SentOps, dir : Dirs, name : Names, toDir : Dirs, toName : Names, kind : {"none", "small", "large"},
            state : {"sent"}, ok : {FALSE}, seen : {Empty}, abandoned : {FALSE}] :
        /\ k.op = "rename" => <<k.dir, k.name>> # <<k.toDir, k.toName>>
        /\ k.op # "rename" => k.toDir = Root /\ k.toName = NoCommand.toName
        /\ k.op \in {"list", "raw"} => k.name = NoCommand.name
        /\ k.op = "raw" => k.dir = Root
        /\ k.op \in {"rmd", "mkd", "mkdfull"} => k.dir = Root
        /\ (k.op = "stor") = (k.kind # "none")}

Send(c) ==
    /\ cmd[c] = NoCommand /\ commands < MaxCommands /\ commands' = commands + 1
    /\ \E k \in Requests : cmd' = [cmd EXCEPT ![c] = k] /\ dc' = Before(k)
    /\ UNCHANGED <<files, mistaken>>

(* LookupFile and LookupFiles of the transfers and of CLookupOpData, and   *)
(* List of a listing that is in the cache                                  *)
Look(d) ==
    /\ d \in Cached(dc) /\ dc' = Lookup(dc, d) /\ dc' # dc
    /\ UNCHANGED <<files, cmd, commands, mistaken>>

(* The user cancels; an upload updates the cache at once. *)
Cancel(c) ==
    /\ cmd[c].op \in Abandon /\ ~cmd[c].abandoned
    /\ cmd' = [cmd EXCEPT ![c].abandoned = TRUE]
    /\ dc' = IF cmd[c].op = "stor" THEN Uploaded([cmd[c] EXCEPT !.ok = FALSE]) ELSE dc
    /\ UNCHANGED <<files, commands, mistaken>>

(* A reply *)
Reply(c) ==
    /\ cmd[c].state = "done"
    /\ cmd' = [cmd EXCEPT ![c] = NoCommand]
    /\ dc' \in IF cmd[c].abandoned THEN {dc} ELSE After(cmd[c])
    /\ UNCHANGED <<files, commands, mistaken>>

-------------------------------------------------------------------------------
(***************************************************************************)
(* The server                                                              *)
(***************************************************************************)
Put(f, d, n, kind) == [f EXCEPT ![d][n] = kind]
Has(d) == d = Root \/ files[Root][Head(d)] = "dir"
IsFile(d, n) == files[d][n] \in {"small", "large"}

(* A directory moves with its files. *)
Moved(k) ==
    LET moved == Put(Put(files, k.dir, k.name, "none"), k.toDir, k.toName, files[k.dir][k.name])
    IN  IF files[k.dir][k.name] = "dir"
        THEN [moved EXCEPT ![<<k.toName>>] = files[<<k.name>>], ![<<k.name>>] = Empty]
        ELSE moved

(* What the server has after the command, if it can carry it out *)
Result(k) ==
    CASE k.op = "list" /\ Has(k.dir) -> {files}
      [] k.op = "dele" /\ IsFile(k.dir, k.name) -> {Put(files, k.dir, k.name, "none")}
      [] k.op = "rmd" /\ files[Root][k.name] = "dir" /\ files[<<k.name>>] = Empty ->
           {Put(files, Root, k.name, "none")}
      [] k.op \in {"mkd", "mkdfull"} /\ files[Root][k.name] = "none" -> {Put(files, Root, k.name, "dir")}
      [] k.op = "rename" /\ Has(k.toDir) /\ files[k.dir][k.name] # "none"
           /\ (files[k.dir][k.name] = "dir" => k.toDir = Root /\ files[k.toDir][k.toName] = "none")
           /\ (files[k.toDir][k.toName] # "dir") -> {Moved(k)}
      [] k.op = "stor" /\ Has(k.dir) /\ files[k.dir][k.name] # "dir" -> {Put(files, k.dir, k.name, k.kind)}
      [] k.op = "chmod" -> {files}
      [] k.op = "raw" -> {files} \cup {Put(files, Root, n, "none") : n \in {m \in Names : IsFile(Root, m)}}
      [] OTHER -> {}

(* UpdateFile leaves the type of an entry as it is.  If a file is gone     *)
(* whose entry is still there, marked, a directory made in its place is a  *)
(* file to the cache; renaming it does not remove its listing.             *)
Mistakes(k) ==
    /\ k.op = "rename" /\ files[k.dir][k.name] = "dir"
    /\ k.dir \in Cached(dc) /\ dc.listings[k.dir].entries[k.name] # "dir"

(* The server carries out a command or refuses it; an upload may fail      *)
(* half-way.                                                               *)
Execute(c) ==
    LET k == cmd[c] IN
    /\ k.op # "none" /\ k.state = "sent"
    /\ \/ /\ \E f \in Result(k) : files' = f
          /\ mistaken' = (mistaken \/ Mistakes(k))
          /\ cmd' = [cmd EXCEPT ![c].state = "done", ![c].ok = TRUE,
                                ![c].seen = IF k.op = "list" THEN files[k.dir] ELSE Empty]
       \/ /\ cmd' = [cmd EXCEPT ![c].state = "done", ![c].kind = "none"]
          /\ UNCHANGED <<files, mistaken>>
       \/ /\ k.op = "stor" /\ Result(k) # {}
          /\ cmd' = [cmd EXCEPT ![c].state = "done"]
          /\ files' \in {Put(files, k.dir, k.name, "small"), Put(files, k.dir, k.name, "none")}
          /\ UNCHANGED mistaken
    /\ UNCHANGED <<dc, commands>>

-------------------------------------------------------------------------------
CacheInit ==
    /\ files \in Trees
    /\ dc = [listings |-> [d \in Dirs |-> NoListing], lru |-> << >>, total |-> 0]
    /\ cmd = [c \in Conns |-> NoCommand]
    /\ commands = 0 /\ mistaken = FALSE

CacheNext ==
    \/ \E c \in Conns : Send(c) \/ Cancel(c) \/ Execute(c) \/ Reply(c)
    \/ \E d \in Dirs : Look(d)

CacheSpec == CacheInit /\ [][CacheNext]_cacheVars

-------------------------------------------------------------------------------
(***************************************************************************)
(* Properties                                                              *)
(***************************************************************************)

(* m_leastRecentlyUsedList has each listing once, and m_totalFileCount is  *)
(* the number of entries of all listings (the destructor asserts it).      *)
(* There are never too many listings.                                      *)
BooksAgree ==
    /\ CacheTypeOK
    /\ ToSet(dc.lru) = Cached(dc) /\ Len(dc.lru) = Cardinality(Cached(dc))
    /\ dc.total = FileCount(dc.listings, Dirs)
    /\ Len(dc.lru) <= MaxLru

(* No command has been carried out whose reply is still to come. *)
Quiet == \A c \in Conns : cmd[c].op = "none" \/ cmd[c].state = "sent"

(* "On other operations, the directory is marked as unsure": a listing     *)
(* that is not marked, and that List therefore shows without asking the    *)
(* server, is what the server has.  So is an entry that is not marked,     *)
(* size included, even in a listing that is marked: a transfer takes the   *)
(* size from it, to decide about resuming and overwriting.  Not claimed    *)
(* once the cache was mistaken about a directory (README, Findings).       *)
SureIsTrue ==
    Quiet /\ ~mistaken => \A d \in Cached(dc) :
        /\ ~dc.listings[d].unsure => Has(d) /\ dc.listings[d].entries = files[d]
        /\ \A n \in Names \ dc.listings[d].unsureNames :
              LET kind == dc.listings[d].entries[n]
              IN  kind # "none" => Has(d) /\ kind = files[d][n]

(* What a listing does not have the server does not have: "does not appear *)
(* to exist", says CLookupOpData of a name that is missing even in a       *)
(* listing that is marked, and an upload does not ask before overwriting.  *)
AbsentIsAbsent ==
    Quiet /\ ~mistaken => \A d \in Cached(dc) : \A n \in Names :
        dc.listings[d].entries[n] = "none" => files[d][n] = "none"

===============================================================================
