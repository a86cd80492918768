------------------------------ MODULE WorkingDir ------------------------------
(***************************************************************************)
(* Where an FTP connection is: the working directory each control socket   *)
(* believes to have (currentPath_), the path cache all engines share       *)
(* (src/engine/pathcache.cpp), and the operations that move about and      *)
(* rely on both: ftp/cwd.cpp, mkd.cpp, rmd.cpp, rename.cpp, delete.cpp,    *)
(* rawcommand.cpp and the way list.cpp and filetransfer.cpp use cwd.cpp.   *)
(*                                                                         *)
(* A command with a relative name is carried out wherever the server has   *)
(* the connection.  If the belief is wrong, the wrong file is deleted.  It *)
(* can become wrong through what another connection does: a directory is   *)
(* renamed or removed under this one.                                      *)
(*                                                                         *)
(* All engines run on one event loop: a handler is never interrupted, and  *)
(* turn names the engine whose handler goes on while it sends its next     *)
(* command.  The server is external: directories, perhaps one symbolic     *)
(* link to a directory, and the directory each connection is in, which     *)
(* stays the same one when it is renamed.                                  *)
(***************************************************************************)
EXTENDS ServerPath, FiniteSets, SequencesExt, FiniteSetsExt

CONSTANTS
    None,           \* an empty CServerPath, and whatever is not there
    Names,          \* names of directories
    Link,           \* the name of the symbolic link, which is in the root
    LinkTarget,     \* the directory it leads to
    Engines,        \* the engines connected to the server
    Requests,       \* the commands looked at
    Servers,        \* pairs <<directories, TRUE iff PWD works>>; the link is
                    \* there if PWD works
    MaxDepth,       \* bound: depth of the server's directories
    MaxCommands,    \* bound: commands of the user
    MaxFaults       \* bound: commands cancelled and connections lost

Up == ".."
Dirs == SeqOf(Names, MaxDepth)
LinkNames == Names \cup {Link}

ASSUME WorkingDirAssumption ==
    /\ IsFiniteSet(Names) /\ IsFiniteSet(Engines)
    /\ {Link, Up} \cap Names = {} /\ Up # Link /\ None \notin Engines
    /\ LinkTarget \in Dirs
    /\ {MaxDepth, MaxCommands} \subseteq Nat \ {0} /\ MaxFaults \in Nat

VARIABLES
    dirs,           \* the server: its directories
    link,           \*   whether the link is there
    pwdWorks,       \*   whether PWD works
    at,             \*   at[e]: the directory the connection of e is in, None if it was removed
    cache,          \* the path cache: records of source, subdir and target
    currentPath,    \* currentPath[e]: currentPath_
    invalidate,     \* invalidate[e]: m_invalidateCurrentPath
    ops,            \* ops[e]: operations_, the last one is on top
    wire,           \* wire[e]: the command sent and its reply
    pending,        \* pending[e]: paths of CInvalidateCurrentWorkingDirEvents on their way to e
    turn,           \* the engine whose handler goes on, or None
    raced,          \* observer: a connection moved while another one's RMD or RNTO was on its
                    \*   way, or moved, removed or renamed out of a directory it had been
                    \*   told to forget and that may be another one by now
    disturbed,      \* disturbed[e]: observer: another one changed the server during the operation of e
    mkdOK,          \* mkdOK[e]: observer: the directory Mkdir has just vouched for, unless it took
                    \*   "file exists" for the answer that the directory does
    commands,       \* number of commands so far
    faults          \* number of faults so far

server == <<dirs, link, pwdWorks, at>>
observers == <<raced, disturbed>>
vars == <<server, cache, currentPath, invalidate, ops, wire, pending, turn, observers, mkdOK, commands, faults>>

-------------------------------------------------------------------------------
(***************************************************************************)
(* The server                                                              *)
(***************************************************************************)

(* IsParentOf with allowEqual = true *)
Covers(p, q) == p = q \/ IsParentOf(p, q)

(* The directory a path leads to, the link resolved; None if there is none *)
Resolve(p) ==
    LET real == IF link /\ p # << >> /\ Head(p) = Link THEN LinkTarget \o Tail(p) ELSE p
    IN  IF real \in dirs THEN real ELSE None

(* The directory called n in a directory d *)
Enter(d, n) ==
    IF d = None \/ n = None THEN d
    ELSE IF n # Up THEN Resolve(AddSegment(d, n))
    ELSE IF HasParent(d) THEN GetParent(d)
    ELSE d

(* What a pair of a path and a name stands for *)
Meaning(m) == Enter(Resolve(m[1]), m[2])

(* A command: its verb, the absolute path in it or None, the name in it or *)
(* None; where it is meant to be carried out and, for RNTO, what to move;  *)
(* and whether it was carried out, the reply and the path PWD tells.       *)
NoWire == [verb |-> "none", path |-> None, name |-> None, meant |-> None, move |-> None,
           done |-> FALSE, reply |-> "none", tells |-> None, skip |-> FALSE]
Command(verb, path, name, meant, move) ==
    [NoWire EXCEPT !.verb = verb, !.path = path, !.name = name, !.meant = meant, !.move = move]
Base(e) == IF wire[e].path = None THEN at[e] ELSE Resolve(wire[e].path)

Busy(e) == wire[e].verb # "none"
Moves == {"CWD", "CDUP", "PWD"}
Destroys == {"RMD", "RNTO"}
Moving(e) == wire[e].verb \in Moves /\ ~wire[e].skip
Destroying(e) == wire[e].verb \in Destroys /\ ~wire[e].done

-------------------------------------------------------------------------------
(***************************************************************************)
(* The path cache                                                          *)
(***************************************************************************)
Store(c, target, source, subdir) ==
    {x \in c : x.source # source \/ x.subdir # subdir}
        \cup {[source |-> source, subdir |-> subdir, target |-> target]}

Lookup(source, subdir) ==
    LET found == {x \in cache : x.source = source /\ x.subdir = subdir}
    IN  IF found = {} THEN None ELSE (CHOOSE x \in found : TRUE).target

(* Variant: only the directories that lead below the path are forgotten. *)
InvalidateTargets(c, path, subdir) ==
    LET target == AddSegment(path, subdir)
    IN  {x \in c : ~Covers(target, x.target)}

(* InvalidatePath: what leads to the path, or below it, is forgotten, and  *)
(* what is known of the directories below it.                              *)
InvalidatePath(c, path, subdir) ==
    LET entry == {x \in c : x.source = path /\ x.subdir = subdir}
        target == IF entry # {} THEN (CHOOSE x \in entry : TRUE).target
                  ELSE IF subdir # None THEN AddSegment(path, subdir)
                  ELSE None
    IN  IF target = None THEN c
        ELSE {x \in c \ entry : ~Covers(target, x.target) /\ ~Covers(target, x.source)}

-------------------------------------------------------------------------------
(***************************************************************************)
(* The stack of operations                                                 *)
(***************************************************************************)

(* An operation of any kind; each uses some of the fields. *)
Operation(id, path, subdir) ==
    [id |-> id, state |-> "init", path |-> path, subDir |-> subdir, meant |-> None,
     target |-> None,           \* cwd: target_
     flag |-> FALSE,            \* cwd: tryMkdOnFail_; list: fallback_to_current_; else: not omitPath_, useAbsolute_, tryAbsolutePath_
     tried |-> FALSE,           \* cwd: tried_cdup_
     toPath |-> None, toName |-> None,
     parent |-> None,           \* mkd: commonParent_
     mkdPath |-> None,          \* mkd: currentMkdPath_
     segments |-> << >>]

ChangeDir(path, subdir, upload) == [Operation("cwd", path, subdir) EXCEPT !.flag = upload]

Top(e) == Last(ops[e])
Is(e, id, state) == turn = e /\ ops[e] # << >> /\ Top(e).id = id /\ Top(e).state = state

SetTop(e, op) == ops' = [ops EXCEPT ![e] = Append(Front(@), op)]
Push(e, op, sub) == ops' = [ops EXCEPT ![e] = Append(Append(Front(@), op), sub)]

(* SubcommandResult of the operation p below one that ended with ok; cp is *)
(* currentPath_.  Only a listing ends if it cannot go to its directory.    *)
SubcommandResult(p, ok, cp) ==
    CASE p.id = "cwd" -> p
      [] p.id = "list" ->
           IF ok THEN [p EXCEPT !.state = "list", !.path = cp, !.subDir = None]
           ELSE IF p.flag
           THEN [p EXCEPT !.state = "fallback", !.flag = FALSE, !.path = None, !.subDir = None, !.meant = None]
           ELSE [p EXCEPT !.state = "end"]
      [] p.id = "rmd" -> [p EXCEPT !.state = "send", !.flag = ~ok, !.path = IF ok THEN cp ELSE @]
      [] OTHER -> [p EXCEPT !.state = "send", !.flag = ~ok]

(* The command of the user is done, with all its operations.  A working    *)
(* directory that was invalidated meanwhile is forgotten.                  *)
EndCommand(e, made, cp) ==
    /\ ops' = [ops EXCEPT ![e] = << >>]
    /\ currentPath' = [currentPath EXCEPT ![e] = IF invalidate[e] THEN None ELSE cp]
    /\ invalidate' = [invalidate EXCEPT ![e] = FALSE]
    /\ turn' = None
    /\ mkdOK' = [mkdOK EXCEPT ![e] = made]

(* ResetOperation: the operation on top ends.  The one below goes on, or   *)
(* the command of the user is done.                                        *)
ResetOperation(e, op, ok, cp) ==
    LET rest == Front(ops[e])
        p == SubcommandResult(Last(rest), ok, cp)
    IN  IF rest = << >> \/ p.state = "end"
        THEN EndCommand(e, IF ok /\ op.id = "mkd" /\ wire[e].reply # "file" THEN op.path ELSE None, cp)
        ELSE /\ ops' = [ops EXCEPT ![e] = Append(Front(rest), p)]
             /\ currentPath' = [currentPath EXCEPT ![e] = cp]
             /\ turn' = e
             /\ UNCHANGED <<invalidate, mkdOK>>

(* SendCommand *)
SendCommand(e, verb, path, name, meant, move) ==
    /\ wire' = [wire EXCEPT ![e] = Command(verb, path, name, meant, move)]
    /\ turn' = None
    /\ raced' = \/ raced
                \/ verb \in Moves \cup Destroys /\ invalidate[e] /\ disturbed[e]
                \/ verb \in Moves /\ \E f \in Engines \ {e} : Destroying(f)
                \/ verb \in Destroys /\ \E f \in Engines \ {e} : Moving(f)
    /\ UNCHANGED <<server, disturbed, mkdOK, invalidate, commands, faults>>

(* InvalidateCurrentWorkingDirs: an event for every other engine *)
InvalidateCurrentWorkingDirs(e, path) ==
    pending' = [f \in Engines |-> IF f = e THEN pending[f] ELSE pending[f] \cup {path}]

(* Variant: only who is in the very directory forgets it. *)
InvalidateOnlyEqual(e, p) ==
    IF p # currentPath[e] THEN UNCHANGED <<currentPath, invalidate>>
    ELSE IF ops[e] # << >>
    THEN /\ invalidate' = [invalidate EXCEPT ![e] = TRUE]
         /\ UNCHANGED currentPath
    ELSE /\ currentPath' = [currentPath EXCEPT ![e] = None]
         /\ UNCHANGED invalidate

(* CControlSocket::InvalidateCurrentWorkingDir *)
InvalidateCurrentWorkingDir(e, p) ==
    IF currentPath[e] = None \/ ~Covers(p, currentPath[e]) THEN UNCHANGED <<currentPath, invalidate>>
    ELSE IF ops[e] # << >>
    THEN /\ invalidate' = [invalidate EXCEPT ![e] = TRUE]
         /\ UNCHANGED currentPath
    ELSE /\ currentPath' = [currentPath EXCEPT ![e] = None]
         /\ UNCHANGED invalidate

OnInvalidateCurrentWorkingDir(e) ==
    /\ turn = None
    /\ \E p \in pending[e] :
          /\ pending' = [pending EXCEPT ![e] = @ \ {p}]
          /\ InvalidateCurrentWorkingDir(e, p)
    /\ UNCHANGED <<server, cache, ops, wire, turn, observers, mkdOK, commands, faults>>

-------------------------------------------------------------------------------
(***************************************************************************)
(* Send of the operations, in the states that send or decide something     *)
(***************************************************************************)
Unsent == UNCHANGED <<server, wire, pending, observers, commands, faults>>

(* Going on without sending anything *)
Continue(e) == Unsent /\ UNCHANGED <<cache, currentPath, invalidate, turn, mkdOK>>

(* The lock that the creation of a directory takes, and a change of        *)
(* directory that may lead to it, is held by another engine.               *)
Locked(e, path) ==
    \E f \in Engines \ {e} : \E i \in DOMAIN ops[f] :
        LET op == ops[f][i] IN
        /\ op.path = path /\ op.state \notin {"init", "waitlock"}
        /\ op.id = "mkd" \/ (op.id = "cwd" /\ ops[f][1].id = "stor")

LocksFirst(op) == (op.id = "mkd" /\ op.state = "init") \/ (op.id = "cwd" /\ op.state = "cwd" /\ op.flag)

(* Send while the lock is held: the operation waits.  A change of          *)
(* directory will not create it any more, since the other engine does.     *)
AwaitLock(e) ==
    LET op == Top(e) IN
    /\ turn = e /\ ops[e] # << >> /\ LocksFirst(op) /\ Locked(e, op.path)
    /\ SetTop(e, [op EXCEPT !.state = "waitlock", !.flag = FALSE])
    /\ turn' = None
    /\ Unsent /\ UNCHANGED <<cache, currentPath, invalidate, mkdOK>>

(* CControlSocket::OnObtainLock *)
OnObtainLock(e) ==
    LET op == Top(e) IN
    /\ turn = None /\ ops[e] # << >> /\ op.state = "waitlock" /\ ~Locked(e, op.path)
    /\ SetTop(e, [op EXCEPT !.state = IF op.id = "cwd" THEN "cwd" ELSE "init"])
    /\ turn' = e
    /\ Unsent /\ UNCHANGED <<cache, currentPath, invalidate, mkdOK>>

(* CFtpChangeDirOpData::Send in cwd_init: there is nothing to do if the    *)
(* connection is where it should be; a directory the path cache knows is   *)
(* gone to in one step.                                                    *)
CwdInit(e) ==
    LET op == Top(e)
        target == Lookup(op.path, op.subDir)
        parent == Lookup(op.path, None)
        there == currentPath[e] = op.path \/ (parent # None /\ parent = currentPath[e])
        Done == ResetOperation(e, op, TRUE, currentPath[e]) /\ Unsent /\ UNCHANGED cache
        Go(new) == SetTop(e, new) /\ Continue(e)
    IN  /\ Is(e, "cwd", "init")
        /\ CASE op.path = None /\ currentPath[e] = None -> Go([op EXCEPT !.state = "pwd"])
             [] op.path = None /\ currentPath[e] # None -> Done
             [] op.path # None /\ op.subDir # None ->
                  IF target # None
                  THEN IF currentPath[e] = target THEN Done
                       ELSE Go([op EXCEPT !.path = target, !.target = target, !.subDir = None, !.state = "cwd"])
                  ELSE IF there THEN Go([op EXCEPT !.state = "cwd_subdir"])
                  ELSE Go([op EXCEPT !.target = parent, !.state = "cwd"])
             [] OTHER -> IF there THEN Done ELSE Go([op EXCEPT !.target = parent, !.state = "cwd"])

(* PWD, CWD and CDUP.  What the directory is will only be known again when *)
(* the reply comes.                                                        *)
CwdSend(e) ==
    LET op == Top(e) IN
    /\ turn = e /\ ops[e] # << >> /\ op.id = "cwd" /\ op.state # "init"
    /\ LocksFirst(op) => ~Locked(e, op.path)
    /\ CASE op.state \in {"pwd", "pwd_cwd", "pwd_subdir"} ->
              SendCommand(e, "PWD", None, None, None, None) /\ UNCHANGED currentPath
         [] op.state = "cwd" ->
              /\ SendCommand(e, "CWD", op.path, None, None, None)
              /\ currentPath' = [currentPath EXCEPT ![e] = None]
         [] op.state = "cwd_subdir" ->
              /\ IF op.subDir = Up /\ ~op.tried
                 THEN SendCommand(e, "CDUP", None, Up, None, None)
                 ELSE SendCommand(e, "CWD", None, op.subDir, None, None)
              /\ currentPath' = [currentPath EXCEPT ![e] = None]
    /\ UNCHANGED <<cache, ops, pending>>

(* CServerPath::GetCommonParent *)
GetCommonParent(p, q) == LongestCommonPrefix({p, q})

(* CFtpMkdirOpData::Send in mkd_init *)
MkdInit(e) ==
    LET op == Top(e)
        cp == currentPath[e]
        parent == IF cp = None THEN None ELSE IF IsParentOf(cp, op.path) THEN cp ELSE GetCommonParent(op.path, cp)
        from == GetParent(op.path)
    IN  /\ Is(e, "mkd", "init") /\ ~Locked(e, op.path)
        /\ IF cp # None /\ Covers(op.path, cp)
           THEN ResetOperation(e, op, TRUE, cp) /\ Unsent /\ UNCHANGED cache
           ELSE /\ SetTop(e, IF ~HasParent(op.path) THEN [op EXCEPT !.parent = parent, !.state = "tryfull"]
                             ELSE [op EXCEPT !.parent = parent, !.mkdPath = from, !.segments = <<Last(op.path)>>,
                                             !.state = IF from = cp THEN "mkdsub" ELSE "findparent"])
                /\ Continue(e)

(* CFtpMkdirOpData::Send in the other states *)
MkdSend(e) ==
    LET op == Top(e) IN
    /\ turn = e /\ ops[e] # << >> /\ op.id = "mkd" /\ op.state # "init"
    /\ CASE op.state \in {"findparent", "cwdsub"} ->
              /\ SendCommand(e, "CWD", op.mkdPath, None, None, None)
              /\ currentPath' = [currentPath EXCEPT ![e] = None]
         [] op.state = "mkdsub" ->
              /\ SendCommand(e, "MKD", None, Last(op.segments), <<op.mkdPath, None>>, None)
              /\ UNCHANGED currentPath
         [] op.state = "tryfull" ->
              /\ SendCommand(e, "MKD", IF HasParent(op.path) THEN GetParent(op.path) ELSE op.path,
                             IF HasParent(op.path) THEN Last(op.path) ELSE None,
                             None, None)
              /\ UNCHANGED currentPath
    /\ UNCHANGED <<cache, ops, pending>>

(* Send of the other operations in their first state: they go to their     *)
(* directory.  For an upload, it may have to be created.                   *)
GoToDirectory(e) ==
    LET op == Top(e) IN
    /\ turn = e /\ ops[e] # << >> /\ op.id \in {"list", "rmd", "rename", "dele", "stor"}
    /\ op.state \in {"init", "fallback"}
    /\ Push(e, [op EXCEPT !.state = "waitcwd"],
            ChangeDir(op.path, IF op.id = "list" THEN op.subDir ELSE None, op.id = "stor"))
    /\ Continue(e)

(* The path in a command: none, if the name alone will do *)
PathOf(op) == IF op.flag THEN op.path ELSE None

(* LIST, DELE and STOR *)
SendPlain(e) ==
    LET op == Top(e) IN
    /\ \/ Is(e, "list", "list")
          /\ SendCommand(e, "LIST", None, None, op.meant, None)
       \/ (Is(e, "dele", "send") \/ Is(e, "stor", "send"))
          /\ SendCommand(e, IF op.id = "dele" THEN "DELE" ELSE "STOR", PathOf(op), op.subDir, op.meant, None)
    /\ UNCHANGED <<cache, currentPath, ops, pending>>

(* CFtpRawCommandOpData::Send: the user may have gone anywhere. *)
SendRaw(e) ==
    /\ Is(e, "raw", "init")
    /\ cache' = {}
    /\ currentPath' = [currentPath EXCEPT ![e] = None]
    /\ SendCommand(e, "RAW", Top(e).path, None, None, None)
    /\ UNCHANGED <<ops, pending>>

(* CFtpRemoveDirOpData::Send in rmd_rmd *)
SendRmd(e) ==
    LET op == Top(e)
        known == Lookup(op.path, op.subDir)
    IN  /\ Is(e, "rmd", "send")
        /\ cache' = InvalidatePath(cache, op.path, op.subDir)
        /\ InvalidateCurrentWorkingDirs(e, IF known # None THEN known ELSE AddSegment(op.path, op.subDir))
        /\ SendCommand(e, "RMD", PathOf(op), op.subDir, op.meant, None)
        /\ UNCHANGED <<currentPath, ops>>

(* CFtpRenameOpData::Send in rename_rnfrom and rename_rnto.  A rename to   *)
(* another directory has its full path.                                    *)
SendRename(e) ==
    LET op == Top(e)
        known == Lookup(op.path, op.subDir)
    IN  \/ /\ Is(e, "rename", "send")
           /\ SendCommand(e, "RNFR", PathOf(op), op.subDir, op.meant, None)
           /\ UNCHANGED <<cache, currentPath, ops, pending>>
        \/ /\ Is(e, "rename", "rnto")
           /\ InvalidateCurrentWorkingDirs(e, IF known # None THEN known ELSE AddSegment(op.path, op.subDir))
           /\ cache' = InvalidatePath(InvalidatePath(cache, op.path, op.subDir), op.toPath, op.toName)
           /\ SendCommand(e, "RNTO", IF ~op.flag /\ op.path = op.toPath THEN None ELSE op.toPath, op.toName,
                          <<op.toPath, None>>, op.target)
           /\ UNCHANGED <<currentPath, ops>>

-------------------------------------------------------------------------------
(***************************************************************************)
(* ParseResponse of the operations.  r is the reply, "ok" or not.          *)
(***************************************************************************)
GoOn(e, op, cp) ==
    /\ SetTop(e, op)
    /\ currentPath' = [currentPath EXCEPT ![e] = cp]
    /\ turn' = e
    /\ UNCHANGED <<invalidate, mkdOK>>

(* The path after PWD: the one the server tells (ParsePwdReply), or the    *)
(* one assumed *)
PathAfterPwd(r, assumed) == IF r.reply = "ok" THEN r.tells ELSE assumed

(* CFtpChangeDirOpData::ParseResponse in cwd_pwd_cwd and cwd_pwd_subdir *)
ParsePwd(e, r) ==
    LET op == Top(e)
        assumed == IF op.state = "pwd_cwd" THEN op.path
                   ELSE IF op.subDir # Up THEN AddSegment(op.path, op.subDir)
                   ELSE IF HasParent(op.path) THEN GetParent(op.path)
                   ELSE None
        path == PathAfterPwd(r, assumed)
        subdir == IF op.state = "pwd_cwd" THEN None ELSE op.subDir
    IN  IF path = None THEN ResetOperation(e, op, FALSE, currentPath[e]) /\ UNCHANGED cache
        ELSE /\ cache' = IF op.target = None THEN Store(cache, path, op.path, subdir) ELSE cache
             /\ IF op.state = "pwd_cwd" /\ op.subDir # None
                THEN GoOn(e, [op EXCEPT !.state = "cwd_subdir"], path)
                ELSE ResetOperation(e, op, TRUE, path)

(* CFtpChangeDirOpData::ParseResponse in the other states.  On an upload,  *)
(* a directory that is not there is created, and gone to again.            *)
ParseCwd(e, r) ==
    LET op == Top(e)
        ok == r.reply = "ok"
    IN  CASE op.state = "pwd" ->
               /\ ResetOperation(e, op, ok, PathAfterPwd(r, None))
               /\ UNCHANGED cache
          [] op.state = "cwd" /\ ok ->
               /\ IF op.target = None THEN GoOn(e, [op EXCEPT !.state = "pwd_cwd"], None)
                  ELSE IF op.subDir = None THEN ResetOperation(e, op, TRUE, op.target)
                  ELSE GoOn(e, [op EXCEPT !.target = None, !.state = "cwd_subdir"], op.target)
               /\ UNCHANGED cache
          [] op.state = "cwd" /\ ~ok ->
               /\ IF op.flag
                  THEN /\ Push(e, [op EXCEPT !.flag = FALSE], Operation("mkd", op.path, None))
                       /\ turn' = e
                       /\ UNCHANGED <<currentPath, invalidate, mkdOK>>
                  ELSE ResetOperation(e, op, FALSE, None)
               /\ UNCHANGED cache
          [] op.state = "cwd_subdir" ->
               /\ CASE ok -> GoOn(e, [op EXCEPT !.state = "pwd_subdir"], None)
                    [] r.reply = "unsupported" /\ op.subDir = Up /\ ~op.tried ->
                         GoOn(e, [op EXCEPT !.tried = TRUE], None)
                    [] OTHER -> ResetOperation(e, op, FALSE, None)
               /\ UNCHANGED cache
          [] OTHER -> ParsePwd(e, r)

(* Variant: in the last directory the reply is not looked at. *)
ParseMkdEarly(e, r) ==
    LET op == Top(e)
        ok == r.reply = "ok"
        full == [op EXCEPT !.state = "tryfull"]
        made == AddSegment(op.mkdPath, Last(op.segments))
    IN  CASE op.state = "findparent" /\ ok -> GoOn(e, [op EXCEPT !.state = "mkdsub"], op.mkdPath)
          [] op.state = "findparent" /\ ~ok -> GoOn(e, full, None)
          [] op.state = "mkdsub" -> ResetOperation(e, op, TRUE, currentPath[e])
          [] op.state = "tryfull" -> ResetOperation(e, op, ok, currentPath[e])

(* CFtpMkdirOpData::ParseResponse.  A refused MKD in mkd_mkdsub is an      *)
(* internal error, which ends all operations.  If the entry exists, the    *)
(* directory cache may know it as a file.                                  *)
ParseMkd(e, r) ==
    LET op == Top(e)
        ok == r.reply = "ok"
        full == [op EXCEPT !.state = "tryfull"]
        more == Len(op.segments) > 1
        made == AddSegment(op.mkdPath, Last(op.segments))
    IN  CASE op.state = "findparent" ->
               CASE ok -> GoOn(e, [op EXCEPT !.state = "mkdsub"], op.mkdPath)
                 [] ~ok /\ op.mkdPath # op.parent /\ HasParent(op.mkdPath) ->
                      GoOn(e, [op EXCEPT !.segments = Append(@, Last(op.mkdPath)),
                                         !.mkdPath = GetParent(op.mkdPath)], None)
                 [] OTHER -> GoOn(e, full, None)
          [] op.state = "mkdsub" ->
               \/ r.reply = "fail" /\ EndCommand(e, None, currentPath[e])
               \/ r.reply \in {"exists", "file"} /\ ResetOperation(e, op, FALSE, currentPath[e])
               \/ /\ r.reply # "fail" /\ more
                  /\ GoOn(e, [op EXCEPT !.mkdPath = made, !.segments = Front(@), !.state = "cwdsub"], currentPath[e])
               \/ r.reply # "fail" /\ ~more /\ ResetOperation(e, op, TRUE, currentPath[e])
          [] op.state = "cwdsub" ->
               IF ok THEN GoOn(e, [op EXCEPT !.state = "mkdsub"], op.mkdPath) ELSE GoOn(e, full, None)
          [] op.state = "tryfull" -> ResetOperation(e, op, ok, currentPath[e])

(* ParseResponse of the rest: RNFR is followed by RNTO. *)
ParseOther(e, r) ==
    LET op == Top(e) IN
    IF op.id = "rename" /\ op.state = "send" /\ r.reply = "ok"
    THEN GoOn(e, [op EXCEPT !.state = "rnto", !.target = r.tells], currentPath[e])
    ELSE ResetOperation(e, op, r.reply = "ok", currentPath[e])

(* A reply comes.  One to a command of a cancelled operation is skipped,   *)
(* and the next operation may start.                                       *)
ParseResponse(e) ==
    LET r == wire[e] IN
    /\ turn = None /\ r.done
    /\ wire' = [wire EXCEPT ![e] = NoWire]
    /\ \/ /\ ~r.skip /\ Top(e).id = "cwd"
          /\ ParseCwd(e, r)
       \/ /\ ~r.skip /\ Top(e).id = "mkd"
          /\ ParseMkd(e, r) /\ UNCHANGED cache
       \/ /\ ~r.skip /\ Top(e).id \notin {"cwd", "mkd"}
          /\ ParseOther(e, r) /\ UNCHANGED cache
       \/ /\ r.skip
          /\ turn' = IF ops[e] = << >> THEN None ELSE e
          /\ UNCHANGED <<cache, currentPath, invalidate, ops, mkdOK>>
    /\ UNCHANGED <<server, pending, observers, commands, faults>>

-------------------------------------------------------------------------------
(***************************************************************************)
(* The user                                                                *)
(***************************************************************************)

(* A command of the user.  A listing may clear the caches first. *)
Start(e, q) ==
    /\ turn = None /\ ops[e] = << >> /\ commands < MaxCommands
    /\ ops' = [ops EXCEPT ![e] = <<[Operation(q.id, q.path, q.name) EXCEPT
            !.meant = IF q.path = None THEN None ELSE <<q.path, IF q.id = "list" THEN q.name ELSE None>>,
            !.flag = q.flag, !.toPath = q.toPath, !.toName = q.toName]>>]
    /\ cache' \in {cache} \cup (IF q.id = "list" /\ q.clear THEN {{}} ELSE {})
    /\ turn' = IF Busy(e) THEN None ELSE e
    /\ disturbed' = [disturbed EXCEPT ![e] = FALSE]
    /\ mkdOK' = [mkdOK EXCEPT ![e] = None]
    /\ commands' = commands + 1
    /\ UNCHANGED <<server, currentPath, invalidate, wire, pending, raced, faults>>

(* The user cancels: the operations end, and a reply to come is skipped. *)
Cancel(e) ==
    /\ turn = None /\ ops[e] # << >> /\ ~wire[e].skip
    /\ faults < MaxFaults /\ faults' = faults + 1
    /\ ops' = [ops EXCEPT ![e] = << >>]
    /\ wire' = [wire EXCEPT ![e].skip = Busy(e)]
    /\ currentPath' = [currentPath EXCEPT ![e] = IF invalidate[e] THEN None ELSE @]
    /\ invalidate' = [invalidate EXCEPT ![e] = FALSE]
    /\ UNCHANGED <<server, cache, pending, turn, observers, mkdOK, commands>>

(* The connection is lost (DoClose), and a new one starts in the root.  A  *)
(* command on its way was carried out before, or never will be.            *)
Disconnect(e) ==
    /\ turn = None /\ (Busy(e) \/ ops[e] # << >>)
    /\ faults < MaxFaults /\ faults' = faults + 1
    /\ ops' = [ops EXCEPT ![e] = << >>]
    /\ wire' = [wire EXCEPT ![e] = NoWire]
    /\ currentPath' = [currentPath EXCEPT ![e] = None]
    /\ invalidate' = [invalidate EXCEPT ![e] = FALSE]
    /\ at' = [at EXCEPT ![e] = << >>]
    /\ UNCHANGED <<dirs, link, pwdWorks, cache, pending, turn, observers, mkdOK, commands>>

-------------------------------------------------------------------------------
(***************************************************************************)
(* The server carries out commands.  (Events that are on their way are     *)
(* handled before replies that come later, so that it can wait for them.)  *)
(***************************************************************************)
Answer(e, reply, tells) ==
    wire' = [wire EXCEPT ![e].done = TRUE, ![e].reply = reply, ![e].tells = tells]
Disturb(e) == disturbed' = [f \in Engines |-> f # e \/ disturbed[f]]

(* What becomes of a directory p when from is moved to the place to, or    *)
(* removed *)
Relocated(p, from, to) ==
    IF p = None \/ ~Covers(from, p) THEN p
    ELSE IF to = None THEN None
    ELSE to \o SubSeq(p, Len(from) + 1, Len(p))

(* Directories a rename or removal is possible for: of the name n in d *)
Entry(d, n) == IF d = None \/ n = None THEN None ELSE AddSegment(d, n)

Refuse(e) ==
    /\ Answer(e, "fail", None)
    /\ UNCHANGED <<server, disturbed>>

Serve(e) ==
    LET w == wire[e]
        dir == Base(e)
        entry == Entry(dir, w.name)
    IN  CASE w.verb = "CWD" ->
               IF Enter(dir, w.name) = None THEN Refuse(e)
               ELSE /\ Answer(e, "ok", None)
                    /\ at' = [at EXCEPT ![e] = Enter(dir, w.name)]
                    /\ UNCHANGED <<dirs, link, pwdWorks, disturbed>>
          [] w.verb = "CDUP" ->
               \/ /\ Answer(e, "unsupported", None)
                  /\ UNCHANGED <<server, disturbed>>
               \/ /\ dir # None
                  /\ Answer(e, "ok", None)
                  /\ at' = [at EXCEPT ![e] = Enter(dir, Up)]
                  /\ UNCHANGED <<dirs, link, pwdWorks, disturbed>>
          [] w.verb = "PWD" ->
               IF ~pwdWorks \/ dir = None THEN Refuse(e)
               ELSE Answer(e, "ok", dir) /\ UNCHANGED <<server, disturbed>>
          [] w.verb = "MKD" ->
               IF entry \in Dirs \ dirs
               THEN \/ Refuse(e)
                    \/ Answer(e, "file", None) /\ UNCHANGED <<server, disturbed>>
                    \/ /\ Answer(e, "ok", None)
                       /\ dirs' = dirs \cup {entry}
                       /\ UNCHANGED <<link, pwdWorks, at, disturbed>>
               ELSE /\ \/ Answer(e, "fail", None)
                       \/ entry \in dirs /\ Answer(e, "exists", None)
                    /\ UNCHANGED <<server, disturbed>>
          [] w.verb = "RMD" ->
               IF entry \in dirs /\ ~\E d \in dirs : IsParentOf(entry, d)
               THEN /\ Answer(e, "ok", None)
                    /\ dirs' = dirs \ {entry}
                    /\ at' = [f \in Engines |-> Relocated(at[f], entry, None)]
                    /\ Disturb(e)
                    /\ UNCHANGED <<link, pwdWorks>>
               ELSE Refuse(e)
          [] w.verb = "RNFR" ->
               IF entry \in dirs THEN Answer(e, "ok", entry) /\ UNCHANGED <<server, disturbed>>
               ELSE Refuse(e)
          [] w.verb = "RNTO" ->
               IF /\ w.move \in dirs /\ entry \in Dirs \ dirs /\ ~Covers(w.move, entry)
                  /\ \A d \in dirs : Covers(w.move, d) => Relocated(d, w.move, entry) \in Dirs
               THEN /\ Answer(e, "ok", None)
                    /\ dirs' = {Relocated(d, w.move, entry) : d \in dirs}
                    /\ at' = [f \in Engines |-> Relocated(at[f], w.move, entry)]
                    /\ Disturb(e)
                    /\ UNCHANGED <<link, pwdWorks>>
               ELSE Refuse(e)
          [] w.verb = "DELE" /\ dir = << >> /\ w.name = Link /\ link ->
               /\ Answer(e, "ok", None)
               /\ link' = FALSE
               /\ Disturb(e)
               /\ UNCHANGED <<dirs, pwdWorks, at>>
          [] w.verb = "RAW" ->
               /\ Answer(e, "ok", None)
               /\ at' = [at EXCEPT ![e] = IF dir = None THEN @ ELSE dir]
               /\ UNCHANGED <<dirs, link, pwdWorks, disturbed>>
          [] OTHER ->
               /\ Answer(e, IF dir = None THEN "fail" ELSE "ok", None)
               /\ UNCHANGED <<server, disturbed>>

Execute(e) ==
    /\ turn = None /\ Busy(e) /\ ~wire[e].done /\ pending = [f \in Engines |-> {}]
    /\ Serve(e)
    /\ UNCHANGED <<cache, currentPath, invalidate, ops, pending, turn, raced, mkdOK, commands, faults>>

-------------------------------------------------------------------------------
Init ==
    /\ \E s \in Servers : dirs = s[1] /\ pwdWorks = s[2] /\ link = s[2]
    /\ at = [e \in Engines |-> << >>]
    /\ cache = {}
    /\ currentPath = [e \in Engines |-> None]
    /\ invalidate = [e \in Engines |-> FALSE]
    /\ ops = [e \in Engines |-> << >>]
    /\ wire = [e \in Engines |-> NoWire]
    /\ pending = [e \in Engines |-> {}]
    /\ turn = None
    /\ raced = FALSE
    /\ disturbed = [e \in Engines |-> FALSE]
    /\ mkdOK = [e \in Engines |-> None]
    /\ commands = 0 /\ faults = 0

Handler(e) ==
    \/ CwdInit(e) \/ CwdSend(e) \/ AwaitLock(e)
    \/ MkdInit(e) \/ MkdSend(e)
    \/ GoToDirectory(e) \/ SendPlain(e) \/ SendRaw(e) \/ SendRmd(e) \/ SendRename(e)

Next ==
    \E e \in Engines :
        \/ Handler(e)
        \/ ParseResponse(e)
        \/ OnObtainLock(e)
        \/ OnInvalidateCurrentWorkingDir(e)
        \/ \E q \in Requests : Start(e, q)
        \/ Cancel(e)
        \/ Disconnect(e)
        \/ Execute(e)

Spec == Init /\ [][Next]_vars

-------------------------------------------------------------------------------
(***************************************************************************)
(* Properties                                                              *)
(***************************************************************************)
Paths == Seq(LinkNames)
Segments == LinkNames \cup {Up, None}
Canonical == Seq(Names)
MaybePaths == Paths \cup {None}

(* Together with a directory, those above it are there. *)
Closed(S) == \A d \in S, p \in Dirs : Covers(p, d) => p \in S

(* A command of the user, of which it can be expected that it is carried   *)
(* out where it is meant.  What is to change is named by its own path and  *)
(* not by one through the link; and so is a directory whose parent is to   *)
(* be listed.                                                              *)
Asked(q) ==
    /\ q.id \in {"list", "rmd", "rename", "dele", "stor", "mkd", "raw"} /\ q.flag \in BOOLEAN
    /\ q.path \in MaybePaths /\ q.name \in Segments /\ q.toPath \in MaybePaths /\ q.toName \in Segments
    /\ q.id \notin {"list", "raw"} => q.path # None
    /\ q.id \in {"rmd", "rename", "stor", "mkd"} => q.path \in Canonical
    /\ q.id \in {"rmd", "rename"} => q.name \in Names
    /\ q.id = "rename" => q.toPath \in Canonical /\ q.toName \in Names
    /\ q.id \in {"dele", "stor"} => q.name \in Names \cup {None}
    /\ q.id = "list" /\ q.name = Up => q.path \in Canonical

(* None is nothing else. *)
Outside == None \notin Paths /\ None \notin LinkNames \cup {Up} /\ None \notin Paths \X Segments

(* The commands and servers for which the properties hold.  The README     *)
(* (Findings) says what the code does with other commands.                 *)
Scope ==
    /\ Outside
    /\ \A q \in Requests : Asked(q)
    /\ \A s \in Servers : s[1] \subseteq Dirs /\ << >> \in s[1] /\ Closed(s[1]) /\ s[2] \in BOOLEAN

TypeOK ==
    /\ dirs \subseteq Dirs /\ << >> \in dirs /\ {link, pwdWorks, raced} \subseteq BOOLEAN
    /\ at \in [Engines -> Dirs \cup {None}]
    /\ \A x \in cache : {x.source, x.target} \subseteq Paths /\ x.subdir \in Segments
    /\ currentPath \in [Engines -> MaybePaths]
    /\ {invalidate, disturbed} \subseteq [Engines -> BOOLEAN]
    /\ \A e \in Engines : Len(ops[e]) <= 3 /\ pending[e] \subseteq Paths
    /\ turn \in Engines \cup {None}
    /\ mkdOK \in [Engines -> MaybePaths]
    /\ commands \in 0..MaxCommands /\ faults \in 0..MaxFaults

(* After a race all bets are off, and there is nothing more to look at. *)
Unraced == ~raced

(* A control socket that believes to be in a directory is in it, whatever  *)
(* other connections rename and remove, unless it is to forget it when its *)
(* operation ends, or has yet to be told; and what the path cache says of  *)
(* a directory, which ChangeDir takes without asking PWD, is what the      *)
(* server would say.                                                       *)
BeliefsAreTrue ==
    /\ TypeOK
    /\ ~raced => \A x \in cache : Meaning(<<x.source, x.subdir>>) = x.target
    /\ ~raced => \A e \in Engines :
          \/ currentPath[e] = None \/ invalidate[e] \/ pending[e] # {}
          \/ at[e] = Resolve(currentPath[e])

(* A listing, removal, rename, deletion or upload is carried out in the    *)
(* directory the user named, if nobody else moved directories meanwhile.   *)
ActsWhereMeant ==
    \A e \in Engines :
        (/\ Busy(e) /\ ~wire[e].done /\ ~wire[e].skip /\ wire[e].meant # None
         /\ ~raced /\ ~disturbed[e])
            => Base(e) = Meaning(wire[e].meant)

(* "Unless the server is broken, a directory already exists if current     *)
(* directory is a subdir of it": Mkdir succeeds only if it exists, whether *)
(* it was there, is made part by part, or by another engine for which this *)
(* one waits.  (An answer that a file exists is taken for good news if the *)
(* directory cache does not know the file: see the README.)                *)
MadeExists ==
    \A e \in Engines :
        mkdOK[e] # None /\ ~raced /\ ~disturbed[e] => Resolve(mkdOK[e]) # None

===============================================================================
