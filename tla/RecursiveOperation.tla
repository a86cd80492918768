-------------------------- MODULE RecursiveOperation --------------------------
(***************************************************************************)
(* A recursive operation on the server, the command queue of the interface *)
(* that carries its commands, and the engine that executes them:           *)
(*   src/commonui/remote_recursive_operation.cpp,                          *)
(*   src/interface/remote_recursive_operation.cpp,                         *)
(*   src/interface/commandqueue.cpp.                                       *)
(*                                                                         *)
(* The operation never holds a tree: it holds the directories still to be  *)
(* listed, sends LIST for the first one, and takes the next listing that   *)
(* arrives to be the listing of that first one.  Everything else it sends  *)
(* goes through the same queue, in which the user puts commands as well.   *)
(* The engine answers a LIST in two notifications, the listing and the end *)
(* of the operation, which the interface handles one by one.               *)
(*                                                                         *)
(* The server holds a tree of files, directories, symbolic links that it   *)
(* lists as links, and mounts: links it lists as plain directories.  After *)
(* CWD it reports the directory reached, not the way to it.  A handler is  *)
(* an operator on the record Now of what handlers change.                  *)
(***************************************************************************)
EXTENDS ServerPath, FiniteSets, SequencesExt

CONSTANTS
    Names,          \* the names of entries, in the order in which servers list them
    Tree,           \* the tree at the start: path -> [kind, target]
    Start,          \* the directory the file list shows
    Selections,     \* what the user may select for an operation: sets of names
    Opened,         \* directories and links the user may open meanwhile
    Filtered,       \* the names the active filters hide
    NoPath,         \* a CServerPath that is empty()
    MaxStarts,      \* bound: recursive operations started
    MaxLists,       \* bound: directories the user opens
    MaxFaults       \* bound: failed commands, lost connections, cache misses

ASSUME RecursiveOperationAssumption ==
    /\ Start \in DOMAIN Tree
    /\ Selections \subseteq SUBSET Range(Names)
    /\ Opened \subseteq DOMAIN Tree /\ <<>> \notin Opened
    /\ Filtered \subseteq Range(Names)
    /\ NoPath \notin DOMAIN Tree
    /\ {MaxStarts, MaxLists, MaxFaults} \subseteq Nat
    /\ \A p \in DOMAIN Tree : HasParent(p) => GetParent(p) \in DOMAIN Tree

VARIABLES
    mode,           \* m_operationMode
    roots,          \* recursion_roots_
    filters,        \* m_filters: the names hidden from this operation
    cmds,           \* m_CommandList
    busy,           \* the engine executes the front of cmds
    cancelled,      \* the engine has been told to cancel it
    notes,          \* the engine's notifications not yet handled
    connected,      \* the connection of the engine works
    gone,           \* entries no longer on the server
    queued,         \* what the operation put into the transfer queue
    asked,          \* observer: the mode the user asked for, and what becomes of selected links
    selected,       \* observer: what the user selected for the operation
    finished,       \* observer: the operation came to its end by itself
    spoiled,        \* observer: a failure, or the user, kept it from being complete
    crossed,        \* observer: it was told of a link that it had not asked about
    starts, lists, faults

operation == <<mode, roots, queued, finished, spoiled, crossed>>
vars == <<mode, roots, filters, cmds, busy, cancelled, notes, connected, gone, queued,
          asked, selected, finished, spoiled, crossed, starts, lists, faults>>

-------------------------------------------------------------------------------
(* The server. *)

Child(parent, name) == IF name = "" THEN parent ELSE AddSegment(parent, name)

Exists(path) == path \in DOMAIN Tree \ gone

(* A link is listed as a directory that is a link; a mount as a directory. *)
IsLink(path) == Tree[path].kind = "link"

IsDir(path) == Tree[path].kind # "file"

(* Where CWD leads. *)
Real(path) == IF Tree[path].kind \in {"link", "mount"} THEN Tree[path].target ELSE path

CanEnter(path) == Exists(path) /\ Exists(Real(path)) /\ Tree[Real(path)].kind = "dir"

Listing(path) == SelectSeq(Names, LAMBDA n : Exists(AddSegment(path, n)))

(* DELE removes files and links, RMD empty directories. *)
Removed(c) ==
    IF c.id = "del"
    THEN {p \in {AddSegment(c.parent, n) : n \in c.names} : Exists(p) /\ Tree[p].kind \in {"file", "link"}}
    ELSE {p \in {Child(c.parent, n) : n \in c.names} : Exists(p) /\ Tree[p].kind = "dir" /\ Listing(p) = <<>>}

-------------------------------------------------------------------------------
(* Commands and directories to visit. *)

Command(id, origin, parent, names, link) ==
    [id |-> id, origin |-> origin, parent |-> parent, names |-> names, link |-> link, didReconnect |-> FALSE]

ListCommand(origin, parent, subdir, link) == Command("list", origin, parent, {subdir}, link)

(* recursion_root::new_dir as add_dir_to_visit makes it. *)
NewDir(parent, subdir, localDir, link) ==
    [parent |-> parent, subdir |-> subdir, localDir |-> localDir, restricted |-> "", startDir |-> NoPath,
     link |-> link, doVisit |-> TRUE, recurse |-> TRUE, secondTry |-> FALSE]

(* recursion_root *)
Root(startDir, allowParent, dirs) ==
    [startDir |-> startDir, allowParent |-> allowParent, visited |-> {}, dirs |-> dirs]

(* What a handler of the interface may change. *)
Now == [mode |-> mode, roots |-> roots, cmds |-> cmds, queued |-> queued, finished |-> finished,
        spoiled |-> spoiled, crossed |-> crossed]

Become(new) ==
    \E s \in {new} :
        /\ mode' = s.mode /\ roots' = s.roots /\ cmds' = s.cmds
        /\ queued' = s.queued /\ finished' = s.finished /\ spoiled' = s.spoiled /\ crossed' = s.crossed

(* F(s), where s is computed only once. *)
Of(F(_), s) == CHOOSE t \in {F(x) : x \in {s}} : TRUE

(* CCommandQueue::ProcessCommand *)
Send(s, commands) == [s EXCEPT !.cmds = @ \o commands]

SetDirs(s, dirs) == [s EXCEPT !.roots[1].dirs = dirs]

Idle(s, origins) == \A i \in DOMAIN s.cmds : s.cmds[i].origin \notin origins

(* CState::RefreshRemote *)
RefreshRemote(s) ==
    IF Idle(s, {"normal"}) THEN Send(s, <<ListCommand("normal", Start, "", FALSE)>>) ELSE s

-------------------------------------------------------------------------------
(* remote_recursive_operation *)

StopRecursiveOperation(s) == [s EXCEPT !.mode = "none", !.roots = <<>>]

(* A directory that has been listed and only remains to be removed. *)
OnlyRemove(s, dir) == s.mode = "delete" /\ ~dir.doVisit

RemoveDirs(dirs) == [i \in DOMAIN dirs |-> Command("rmd", "rec", dirs[i].parent, {dirs[i].subdir}, FALSE)]

NextOperationOf(s) ==
    LET open == {i \in DOMAIN s.roots : \E j \in DOMAIN s.roots[i].dirs : ~OnlyRemove(s, s.roots[i].dirs[j])}
        i == Min(open)
        dirs == s.roots[i].dirs
        j == Min({n \in DOMAIN dirs : ~OnlyRemove(s, dirs[n])})
        all == FlattenSeq([n \in DOMAIN s.roots |-> s.roots[n].dirs])
        before == FlattenSeq([n \in 1..(i - 1) |-> s.roots[n].dirs]) \o SubSeq(dirs, 1, j - 1)
    IN CASE s.mode = "none" -> s
         [] s.mode # "none" /\ open = {} ->
              RefreshRemote([StopRecursiveOperation(Send(s, RemoveDirs(all))) EXCEPT !.finished = TRUE])
         [] OTHER ->
              Send([s EXCEPT !.roots = <<[s.roots[i] EXCEPT !.dirs = SubSeq(dirs, j, Len(dirs))]>>
                                       \o SubSeq(s.roots, i + 1, Len(s.roots))],
                   RemoveDirs(before) \o <<ListCommand("rec", dirs[j].parent, dirs[j].subdir, dirs[j].link > 0)>>)

NextOperation(s) == Of(NextOperationOf, s)

InRoot(path, root) ==
    IsSubdirOf(path, root.startDir) \/ (path = root.startDir /\ root.allowParent)

(* Variant of BelowRecursionRoot: the root is not moved to where a link leads. *)
BelowFirstRoot(path, dir, root) == InRoot(path, root) \/ dir.link = 2

BelowRecursionRoot(path, dir, root) ==
    IF dir.startDir # NoPath
    THEN IsSubdirOf(path, dir.startDir)
    ELSE InRoot(path, root) \/ dir.link = 2

(* The user asked for a link that leads elsewhere: BelowRecursionRoot moves the root of its directories there. *)
StartDir(path, dir, root) ==
    IF dir.startDir = NoPath /\ ~InRoot(path, root) THEN path ELSE dir.startDir

(* Variant of ThenRemove: not a directory that was listed at the second try. *)
ThenRemoveUntried(s, dir, rest) ==
    IF s.mode = "delete" /\ dir.doVisit /\ dir.subdir # "" /\ ~dir.secondTry
    THEN <<[dir EXCEPT !.doVisit = FALSE]>> \o rest
    ELSE rest

(* A directory whose contents have been dealt with comes back to be removed itself. *)
ThenRemove(s, dir, rest) ==
    IF s.mode = "delete" /\ dir.doVisit /\ dir.subdir # ""
    THEN <<[dir EXCEPT !.doVisit = FALSE]>> \o rest
    ELSE rest

(* Variant of Visited: it is not recorded where the operation has been. *)
NeverVisited(path, root) == FALSE

Visited(path, root) == path \in root.visited

Item(dir, file, localDir) == [dir |-> dir, file |-> file, localDir |-> localDir]

ProcessEntries(s, dir, path, names) ==
    LET shown == SelectSeq(names, LAMBDA n : IF dir.restricted # "" THEN n = dir.restricted ELSE n \notin filters)
        Recurses(n) ==
            /\ IsDir(AddSegment(path, n))
            /\ IsLink(AddSegment(path, n)) => mode # "delete"
        subdirs == IF dir.recurse THEN SelectSeq(shown, Recurses) ELSE <<>>
        files == SelectSeq(shown, LAMBDA n : ~Recurses(n))
        Visit(n) ==
            [NewDir(path, n, IF mode = "transfer" THEN Append(dir.localDir, n) ELSE dir.localDir,
                    IF IsLink(AddSegment(path, n)) THEN 1 ELSE 0)
               EXCEPT !.startDir = dir.startDir, !.recurse = ~IsLink(AddSegment(path, n))]
        backwards == Reverse(IF mode = "chmod" THEN shown ELSE files)
        visits == [i \in DOMAIN subdirs |-> Visit(subdirs[i])]
        items == [i \in DOMAIN backwards |-> Item(path, backwards[i], dir.localDir)]
        chmods == [i \in DOMAIN backwards |-> Command("chmod", "rec", path, {backwards[i]}, FALSE)]
        t == SetDirs(s, visits \o s.roots[1].dirs)
    IN CASE mode \in {"transfer", "flatten"} -> [t EXCEPT !.queued = @ \o items]
         [] mode = "delete" /\ files # <<>> -> Send(t, <<Command("del", "rec", path, Range(files), FALSE)>>)
         [] mode = "delete" /\ files = <<>> -> t
         [] mode = "chmod" -> Send(t, chmods)

ProcessDirectoryListing(s, path, names, failed) ==
    LET root == s.roots[1]
        front == Head(root.dirs)
        dir == [front EXCEPT !.startDir = StartDir(path, front, root)]
        rest == Tail(root.dirs)
        kept == SetDirs(s, ThenRemove(s, dir, rest))
        t == [kept EXCEPT !.roots[1].visited = @ \union {path}]
    IN CASE s.roots = <<>> \/ failed -> s
         [] s.roots # <<>> /\ ~failed /\ root.dirs = <<>> -> StopRecursiveOperation(s)
         [] OTHER -> NextOperation(
              CASE ~BelowRecursionRoot(path, front, root) -> SetDirs(s, rest)
                [] BelowRecursionRoot(path, front, root)
                     /\ ((dir.link > 0 /\ ~dir.recurse) \/ Visited(path, root)) -> kept
                [] OTHER -> IF names = <<>> /\ s.mode = "transfer"
                            THEN [t EXCEPT !.queued = Append(@, Item(path, "", dir.localDir))]
                            ELSE ProcessEntries(t, dir, path, names))

(* With the observer spoiled: a directory is given up. *)
ListingFailed(s, code) ==
    LET dir == Head(s.roots[1].dirs)
        rest == Tail(s.roots[1].dirs)
    IN CASE s.roots = <<>> -> s
         [] s.roots # <<>> /\ (code = "cancelled" \/ s.roots[1].dirs = <<>>) -> StopRecursiveOperation(s)
         [] OTHER -> NextOperation(
              IF code # "critical" /\ ~dir.secondTry
              THEN SetDirs(s, <<[dir EXCEPT !.secondTry = TRUE]>> \o rest)
              ELSE [SetDirs(s, ThenRemove(s, dir, rest)) EXCEPT !.spoiled = TRUE])

(* handle_invalid_dir_link queues the link as a file. *)
LinkIsNotDir(s) ==
    LET dir == Head(s.roots[1].dirs)
        t == SetDirs(s, Tail(s.roots[1].dirs))
        localDir == IF s.mode = "flatten" \/ dir.localDir = <<>> THEN dir.localDir ELSE Front(dir.localDir)
    IN CASE s.roots = <<>> -> s
         [] s.roots # <<>> /\ s.roots[1].dirs = <<>> -> StopRecursiveOperation(s)
         [] OTHER -> NextOperation(
              CASE s.mode = "delete" /\ dir.subdir # "" -> Send(t, <<Command("del", "rec", dir.parent, {dir.subdir}, FALSE)>>)
                [] s.mode = "delete" /\ dir.subdir = "" -> t
                [] OTHER -> [t EXCEPT !.queued = Append(@, Item(dir.parent, dir.subdir, localDir))])

-------------------------------------------------------------------------------
(* The engine.  A LIST that succeeds is told in two notifications. *)

Reply(code, id) == [kind |-> "reply", code |-> code, id |-> id, path |-> NoPath, names |-> <<>>, failed |-> FALSE]

ListingNote(path, names, failed) ==
    [kind |-> "listing", code |-> "ok", id |-> "list", path |-> path, names |-> names, failed |-> failed]

Ends(newNotes) ==
    /\ busy /\ busy' = FALSE /\ cancelled' = FALSE
    /\ notes' = notes \o newNotes
    /\ UNCHANGED <<mode, roots, filters, cmds, queued, asked, selected, finished, crossed, starts, lists>>

Target(c) == Child(c.parent, CHOOSE n \in c.names : TRUE)

EngineLists ==
    LET c == Head(cmds)
        path == Real(Target(c))
    IN /\ busy /\ connected /\ c.id = "list" /\ CanEnter(Target(c))
       /\ Ends(<<ListingNote(path, Listing(path), FALSE), Reply("ok", "list")>>)
       /\ UNCHANGED <<connected, gone, spoiled, faults>>

(* CWD is refused.  For a link that is how the engine finds that it leads to no directory. *)
EngineListRefused ==
    LET c == Head(cmds)
    IN /\ busy /\ connected /\ c.id = "list" /\ ~CanEnter(Target(c))
       /\ Ends(<<Reply(IF c.link THEN "linknotdir" ELSE "error", "list")>>)
       /\ UNCHANGED <<connected, gone, spoiled, faults>>

EngineRemoves ==
    LET c == Head(cmds)
    IN /\ busy /\ connected /\ c.id \in {"del", "rmd"}
       /\ gone' = gone \union Removed(c)
       /\ Ends(<<Reply(IF Cardinality(Removed(c)) = Cardinality(c.names) THEN "ok" ELSE "error", c.id)>>)
       /\ UNCHANGED <<connected, spoiled, faults>>

EngineChmods ==
    /\ busy /\ connected /\ Head(cmds).id = "chmod"
    /\ Ends(<<Reply("ok", "chmod")>>)
    /\ UNCHANGED <<connected, gone, spoiled, faults>>

EngineDisconnects ==
    /\ busy /\ Head(cmds).id = "disconnect"
    /\ connected' = FALSE
    /\ Ends(<<Reply("ok", "disconnect")>>)
    /\ UNCHANGED <<gone, spoiled, faults>>

EngineConnects ==
    /\ busy /\ Head(cmds).id = "connect"
    /\ connected' = TRUE
    /\ Ends(<<Reply("ok", "connect")>>)
    /\ UNCHANGED <<gone, spoiled, faults>>

(* Without a connection nothing can be sent: an error, but not one that says the connection is lost. *)
EngineNotConnected ==
    LET c == Head(cmds)
    IN /\ busy /\ ~connected /\ c.id \notin {"connect", "disconnect"}
       /\ Ends(<<Reply("error", c.id)>>)
       /\ spoiled' = (spoiled \/ c.id # "list")
       /\ UNCHANGED <<connected, gone, faults>>

(* A cancelled command may have been carried out in part. *)
EngineCancels ==
    LET c == Head(cmds)
    IN /\ busy /\ cancelled
       /\ \E part \in SUBSET (IF c.id \in {"del", "rmd"} THEN Removed(c) ELSE {}) : gone' = gone \union part
       /\ Ends(<<Reply("cancelled", c.id)>>)
       /\ connected' = (connected /\ c.id \notin {"connect", "disconnect"})
       /\ UNCHANGED <<spoiled, faults>>

(***************************************************************************)
(* A command fails: for good, for now (perhaps with a failed listing), or  *)
(* because the connection breaks under it, when it may have been carried   *)
(* out in part.                                                            *)
(***************************************************************************)
EngineFails ==
    LET c == Head(cmds)
    IN /\ busy /\ faults < MaxFaults /\ faults' = faults + 1
       /\ \/ /\ connected /\ c.id \in {"list", "del", "rmd", "chmod"}
             /\ \E code \in {"error", "critical"}, told \in BOOLEAN :
                   /\ told => c.id = "list" /\ code = "error"
                   /\ Ends((IF told THEN <<ListingNote(Target(c), <<>>, TRUE)>> ELSE <<>>) \o <<Reply(code, c.id)>>)
             /\ spoiled' = (spoiled \/ c.id # "list")
             /\ UNCHANGED <<connected, gone>>
          \/ /\ connected /\ c.id \in {"list", "del", "rmd", "chmod"}
             /\ \E part \in SUBSET (IF c.id \in {"del", "rmd"} THEN Removed(c) ELSE {}) : gone' = gone \union part
             /\ connected' = FALSE
             /\ Ends(<<Reply("disconnected", c.id)>>)
             /\ spoiled' = (spoiled \/ (c.id # "list" /\ c.didReconnect))
          \/ /\ c.id = "connect"
             /\ Ends(<<Reply("error", "connect")>>)
             /\ connected' = FALSE /\ spoiled' = TRUE
             /\ UNCHANGED gone

(* The server closes the connection between two commands. *)
ConnectionLost ==
    /\ ~busy /\ connected /\ faults < MaxFaults
    /\ connected' = FALSE /\ faults' = faults + 1
    /\ UNCHANGED <<mode, roots, filters, cmds, busy, cancelled, notes, gone, queued, asked, selected, finished, spoiled, crossed, starts, lists>>

-------------------------------------------------------------------------------
(* The command queue. *)

(* CCommandQueue::ProcessDirectoryListing; the listing is looked up in the cache and may be no longer there. *)
HandleListing ==
    LET n == Head(notes)
        first == SelectInSeq(cmds, LAMBDA c : c.id = "list")
    IN /\ notes # <<>> /\ n.kind = "listing"
       /\ \E missed \in BOOLEAN :
             /\ missed => faults < MaxFaults /\ ~n.failed
             /\ IF first # 0 /\ cmds[first].origin = "rec" /\ mode # "none"
                THEN Become(ProcessDirectoryListing(Now, n.path, n.names, n.failed \/ missed))
                ELSE UNCHANGED <<operation, cmds>>
             /\ faults' = faults + (IF missed THEN 1 ELSE 0)
       /\ notes' = Tail(notes)
       /\ UNCHANGED <<filters, busy, cancelled, connected, gone, asked, selected, starts, lists>>

(* The command list after an automatic reconnect has been put before it; the old control socket goes first. *)
Reconnect(s) ==
    [s EXCEPT !.cmds = <<Command("disconnect", "normal", NoPath, {}, FALSE), Command("connect", "normal", NoPath, {}, FALSE),
                         [Head(@) EXCEPT !.didReconnect = TRUE]>> \o Tail(@)]

PopFront(s) == [s EXCEPT !.cmds = Tail(@)]

(* CCommandQueue::ProcessReply up to its call of ProcessNextCommand. *)
ProcessReply(s, r) ==
    LET c == Head(s.cmds)
    IN CASE r.code = "disconnected" /\ ~c.didReconnect -> Reconnect(s)
         [] c.id = "list" /\ r.code = "linknotdir" ->
              PopFront(LinkIsNotDir([s EXCEPT !.crossed = @ \/ (c.origin = "normal" /\ s.mode # "none")]))
         [] c.id = "list" /\ c.origin = "rec" /\ r.code \notin {"ok", "linknotdir"}
              /\ (r.code = "disconnected" => c.didReconnect) -> PopFront(ListingFailed(s, r.code))
         [] c.id = "connect" /\ r.code # "ok" -> StopRecursiveOperation([s EXCEPT !.cmds = <<>>])
         [] OTHER -> PopFront(s)

(* Variant of KeepGoing: it does not. *)
StandStill(s) == s

(* CCommandQueue::ProcessNextCommand keeps the operation going when no command is left. *)
KeepGoing(s) == IF s.cmds = <<>> THEN NextOperation(s) ELSE s

ProcessNextCommand(s) == Become(Of(KeepGoing, s)) /\ busy' = (cmds' # <<>>)

(* CCommandQueue::Finish *)
HandleReply ==
    LET r == Head(notes)
    IN /\ notes # <<>> /\ r.kind = "reply"
       /\ IF cmds = <<>>
          THEN UNCHANGED <<operation, cmds, busy>>
          ELSE ProcessNextCommand(ProcessReply(Now, r))
       /\ notes' = Tail(notes)
       /\ UNCHANGED <<filters, cancelled, connected, gone, asked, selected, starts, lists, faults>>

-------------------------------------------------------------------------------
(* The user. *)

IsRemoteIdle == mode = "none" /\ Idle(Now, {"normal", "rec"})

Selectable == {n \in Range(Listing(Start)) : IsDir(AddSegment(Start, n))}

(* The engine executes the first command at once, as the queue was empty. *)
Begin(m, links, hidden, names, recursions, commands) ==
    /\ IsRemoteIdle /\ notes = <<>> /\ starts < MaxStarts
    /\ Become(NextOperation(Send([Now EXCEPT !.mode = m, !.roots = recursions, !.queued = <<>>, !.finished = FALSE,
                                             !.spoiled = FALSE, !.crossed = FALSE], commands)))
    /\ filters' = hidden /\ asked' = [mode |-> m, links |-> links]
    /\ selected' = {AddSegment(Start, n) : n \in names}
    /\ busy' = TRUE /\ starts' = starts + 1
    /\ UNCHANGED <<cancelled, notes, connected, gone, lists, faults>>

InOrder(names) == SelectSeq(Names, LAMBDA n : n \in names)

(* CRemoteListView::TransferSelectedFiles *)
TransferSelectedFiles(names) ==
    LET dirs == [i \in DOMAIN InOrder(names) |->
                   NewDir(Start, InOrder(names)[i], <<InOrder(names)[i]>>,
                          IF IsLink(AddSegment(Start, InOrder(names)[i])) THEN 2 ELSE 0)]
    IN Begin("transfer", "follow", Filtered, names, <<Root(Start, FALSE, dirs)>>, <<>>)

(* CRemoteListView::OnMenuDelete; the user says whether to follow links, or to delete them. *)
OnMenuDelete(names, follow) ==
    LET visit == InOrder({n \in names : follow \/ ~IsLink(AddSegment(Start, n))})
        links == names \ Range(visit)
        dirs == [i \in DOMAIN visit |-> NewDir(Start, visit[i], <<>>, 2)]
    IN /\ visit # <<>>
       /\ Begin("delete", IF follow THEN "follow" ELSE "delete", Filtered, names, <<Root(Start, FALSE, dirs)>>,
                IF links = {} THEN <<>> ELSE <<Command("del", "normal", Start, links, FALSE)>>)

(* CRemoteListView::OnMenuChmod, recursively and for all entries. *)
OnMenuChmod(names) ==
    LET dirs == [i \in DOMAIN InOrder(names) |-> NewDir(Start, InOrder(names)[i], <<>>, 0)]
        chmods == [i \in DOMAIN InOrder(names) |-> Command("chmod", "normal", Start, {InOrder(names)[i]}, FALSE)]
    IN Begin("chmod", "ignore", Filtered, names, <<Root(Start, FALSE, dirs)>>, chmods)

(* CRemoteTreeView::OnMenuChmod when the parent of the directory is not in the cache. *)
OnTreeChmod(name, recurse) ==
    Begin("chmod", "ignore", Filtered, {name},
          <<Root(Start, TRUE, <<[NewDir(Start, "", <<>>, 0) EXCEPT !.restricted = name, !.recurse = recurse]>>)>>, <<>>)

(* CSearchDialog::OnDownload and OnDelete: a root for each directory, and no filters. *)
OnSearchDownload(names, flatten) ==
    Begin(IF flatten THEN "flatten" ELSE "transfer", "ignore", {}, names,
          [i \in DOMAIN InOrder(names) |->
             LET path == AddSegment(Start, InOrder(names)[i])
             IN Root(path, TRUE, <<NewDir(path, "", IF flatten THEN <<>> ELSE <<InOrder(names)[i]>>, 0)>>)], <<>>)

OnSearchDelete(names) ==
    Begin("delete", "ignore", {}, names,
          [i \in DOMAIN InOrder(names) |->
             Root(Start, ~HasParent(Start), <<NewDir(Start, InOrder(names)[i], <<>>, 0)>>)], <<>>)

StartRecursiveOperation ==
    \E names \in {names \in Selections : names \subseteq Selectable /\ names # {}} :
        \/ TransferSelectedFiles(names)
        \/ \E follow \in BOOLEAN : OnMenuDelete(names, follow)
        \/ OnMenuChmod(names)
        \/ \E name \in names, recurse \in BOOLEAN : names = {name} /\ OnTreeChmod(name, recurse)
        \/ \E flatten \in BOOLEAN : OnSearchDownload(names, flatten)
        \/ OnSearchDelete(names)

(* CRemoteListView::OnMenuEnter: the user opens a directory; recursive commands do not keep him from it. *)
OpenDirectory ==
    /\ lists < MaxLists /\ lists' = lists + 1
    /\ Idle(Now, {"normal"}) /\ (cmds = <<>> => notes = <<>>)
    /\ \E path \in Opened :
          cmds' = Append(cmds, ListCommand("normal", GetParent(path), Last(path), IsLink(path)))
    /\ busy' = (busy \/ cmds = <<>>)
    /\ UNCHANGED <<operation, filters, cancelled, notes, connected, gone, asked, selected, starts, faults>>

(* CRecursiveOperationStatus::OnCancel stops the operation, not what it has sent. *)
StopOperation ==
    /\ mode # "none"
    /\ Become(RefreshRemote([StopRecursiveOperation(Now) EXCEPT !.spoiled = TRUE]))
    /\ UNCHANGED <<filters, busy, cancelled, notes, connected, gone, asked, selected, starts, lists, faults>>

(* CMainFrame::OnCancel: CCommandQueue::Cancel, then StopRecursiveOperation. *)
OnCancel ==
    /\ cmds # <<>>
    /\ Become(StopRecursiveOperation([Now EXCEPT !.cmds = IF busy THEN <<Head(cmds)>> ELSE <<>>, !.spoiled = TRUE]))
    /\ cancelled' = busy
    /\ UNCHANGED <<filters, busy, notes, connected, gone, asked, selected, starts, lists, faults>>

-------------------------------------------------------------------------------
Init ==
    /\ mode = "none" /\ roots = <<>> /\ filters = {} /\ cmds = <<>>
    /\ busy = FALSE /\ cancelled = FALSE /\ notes = <<>> /\ connected = TRUE
    /\ gone = {} /\ queued = <<>> /\ asked = [mode |-> "none", links |-> "ignore"] /\ selected = {}
    /\ finished = FALSE /\ spoiled = FALSE /\ crossed = FALSE
    /\ starts = 0 /\ lists = 0 /\ faults = 0

EngineStep ==
    \/ EngineLists \/ EngineListRefused \/ EngineRemoves \/ EngineChmods
    \/ EngineDisconnects \/ EngineConnects \/ EngineNotConnected

Next ==
    \/ EngineStep \/ EngineCancels \/ EngineFails \/ ConnectionLost
    \/ HandleListing \/ HandleReply
    \/ StartRecursiveOperation \/ OpenDirectory \/ StopOperation \/ OnCancel

(***************************************************************************)
(* The engine works on its command and the interface on the notifications; *)
(* never do both have something to do, so one condition serves both.       *)
(* Nobody else has to do anything.                                         *)
(***************************************************************************)
Fairness == WF_vars(EngineStep \/ HandleListing \/ HandleReply)

Spec == Init /\ [][Next]_vars /\ Fairness

-------------------------------------------------------------------------------
TypeOK ==
    /\ mode \in {"none", "transfer", "flatten", "delete", "chmod"}
    /\ (mode = "none") <=> (roots = <<>>)
    /\ busy \in BOOLEAN /\ cancelled \in BOOLEAN /\ connected \in BOOLEAN
    /\ busy => cmds # <<>> /\ notes = <<>>
    /\ gone \subseteq DOMAIN Tree
    /\ starts \in 0..MaxStarts /\ lists \in 0..MaxLists /\ faults \in 0..MaxFaults

(* What lies in a directory, following no link. *)
Below(path) == {p \in DOMAIN Tree : IsSubdirOf(p, path)}

Mounts == {p \in DOMAIN Tree : Tree[p].kind = "mount"}

(* The directories to which a selected entry leads, with what corresponds  *)
(* to them in the local tree: its own, and those to which a mount in one   *)
(* of them leads, as long as that is below root.                           *)
Ways ==
    LET Further(root, ways) ==
            {[dir |-> Real(m), local |-> w.local \o SubSeq(m, Len(w.dir) + 1, Len(m))] :
               <<w, m>> \in {x \in ways \X Mounts : IsSubdirOf(x[2], x[1].dir) /\ IsSubdirOf(Real(x[2]), root)}}
    IN [r \in {p \in DOMAIN Tree : p # <<>> /\ IsDir(p)}, root \in DOMAIN Tree |->
          FoldSet(LAMBDA m, ways : ways \union Further(root, ways), {[dir |-> Real(r), local |-> <<Last(r)>>]}, Mounts)]

(* The root of a recursion: what is shown, but what is selected if it is a *)
(* link to somewhere else, and in a download of what was searched for.     *)
RootOf(r) ==
    IF IsSubdirOf(Real(r), Start) /\ ~(asked.mode \in {"transfer", "flatten"} /\ asked.links = "ignore")
    THEN Start
    ELSE Real(r)

WaysOf(r) == Ways[r, RootOf(r)]

(* The entry is selected, or lies in a directory to which what is selected leads. *)
IsReached(path) == path \in selected \/ \E r \in selected : \E w \in WaysOf(r) : IsSubdirOf(path, w.dir)

(***************************************************************************)
(* Nothing is deleted or given other permissions but what the user         *)
(* selected and what is found below, whatever listings arrive, in whatever *)
(* order the user, the operation and the engine act: links in a selected   *)
(* directory are not followed, mounts only as long as they lead to below   *)
(* the root of the recursion, and no listing of an operation that was      *)
(* stopped is taken for one of the operation that runs.  Not claimed once  *)
(* the user has opened a link that leads to no directory meanwhile: then a *)
(* listing is taken for that of the directory after the one it shows.      *)
(***************************************************************************)
ActsInReach ==
    /\ TypeOK
    /\ \A i \in DOMAIN cmds :
          cmds[i].id \in {"del", "rmd", "chmod"} /\ ~crossed =>
              \A n \in cmds[i].names : IsReached(Child(cmds[i].parent, n))

(* The local directories that correspond to a directory. *)
LocalDirs(path) ==
    {IF asked.mode = "flatten" THEN <<>> ELSE w.local \o SubSeq(path, Len(w.dir) + 1, Len(path)) :
       w \in {w \in UNION {WaysOf(r) : r \in selected} : path = w.dir \/ IsSubdirOf(path, w.dir)}}

(* A link in Start that leads to no directory is queued where it is. *)
IsSelectedLink(item) == Child(item.dir, item.file) \in selected /\ item.localDir = <<>>

(***************************************************************************)
(* A transfer mirrors the tree: each file is put into a local directory    *)
(* that corresponds to the one it is in, and none is queued twice, however *)
(* often directories are listed again after failures, lost connections and *)
(* cache misses, and even if the server shows a directory inside itself or *)
(* in two places.  Not claimed once the user has opened a link that leads  *)
(* to no directory during the operation, which takes that for news of its  *)
(* own.                                                                    *)
(***************************************************************************)
QueuedWhereMeant ==
    asked.mode \in {"transfer", "flatten"} /\ ~crossed =>
        /\ \A i, j \in DOMAIN queued :
              queued[i].dir = queued[j].dir /\ queued[i].file = queued[j].file => i = j
        /\ \A i \in DOMAIN queued : queued[i].localDir \in LocalDirs(queued[i].dir) \/ IsSelectedLink(queued[i])

(* The names that lead from path to p, below it. *)
Between(path, p) == {p[i] : i \in (Len(path) + 1)..Len(p)}

(* A directory that will be empty once all that can be seen in it is deleted. *)
CanBeEmptied(path) ==
    \A p \in Below(path) : Tree[p].kind # "mount" /\ Between(path, p) \intersect filters = {}

(* What the operation is to transfer or delete. *)
Wanted ==
    LET found == UNION {{p \in Below(w.dir) : (Between(w.dir, p) \union Range(Tail(w.local))) \intersect filters = {}} :
                          w \in UNION {WaysOf(r) : r \in {r \in selected : IsLink(r) => asked.links = "follow"}}}
    IN IF asked.mode = "delete"
       THEN {p \in found \union selected :
               \/ Tree[p].kind = "file"
               \/ Tree[p].kind = "link" /\ (p \in selected => asked.links = "delete")
               \/ Tree[p].kind = "dir" /\ CanBeEmptied(p)}
       ELSE {p \in found \ gone : Tree[p].kind = "file" \/ (Tree[p].kind = "link" /\ Tree[Real(p)].kind # "dir")}

(***************************************************************************)
(* An operation that says it is finished is: each file in the selected     *)
(* directories has been queued, or each file, link and directory deleted,  *)
(* even if listings failed once, the connection was lost during a command  *)
(* and restored, or a listing had left the cache before it was handled.    *)
(***************************************************************************)
CompleteWhenFinished ==
    finished /\ ~spoiled /\ ~crossed /\ Idle(Now, {"rec"}) =>
        CASE asked.mode \in {"transfer", "flatten"} ->
               \A p \in Wanted : \E i \in DOMAIN queued : Child(queued[i].dir, queued[i].file) = p
          [] asked.mode = "delete" -> Wanted \subseteq gone
          [] OTHER -> TRUE

(***************************************************************************)
(* Every recursive operation comes to an end: no failure, cache miss,      *)
(* command of the user or cycle in the tree leaves it waiting for a        *)
(* listing nobody has asked for, or going round for ever.                  *)
(***************************************************************************)
RecursionEnds == mode # "none" ~> mode = "none"

===============================================================================
