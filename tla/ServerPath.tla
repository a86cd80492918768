------------------------------ MODULE ServerPath ------------------------------
(***************************************************************************)
(* CServerPath (src/engine/serverpath.cpp), for the path types that have   *)
(* a root and no prefix (UNIX and its relatives): an absolute path is the  *)
(* sequence of its segments and <<>> is the root.  A CServerPath that is   *)
(* empty() is no path at all; where the code tests for one, a module uses  *)
(* a value of its own outside the set of paths.  Parsing and formatting    *)
(* are abstracted: a segment is an opaque value.                           *)
(***************************************************************************)
EXTENDS Integers, Sequences

(***************************************************************************)
(* CServerPath::HasParent, GetParent and AddSegment.                       *)
(***************************************************************************)
HasParent(path) == Len(path) > 0

GetParent(path) == SubSeq(path, 1, Len(path) - 1)

AddSegment(path, segment) == Append(path, segment)

(***************************************************************************)
(* CServerPath::IsSubdirOf with cmpNoCase = false, allowEqual = false: the *)
(* segments of the other path are a proper prefix of this path's.          *)
(***************************************************************************)
IsSubdirOf(path, parent) ==
    /\ HasParent(path)
    /\ Len(parent) < Len(path)
    /\ \A i \in 1..Len(parent) : path[i] = parent[i]

(* CServerPath::IsParentOf with allowEqual = false. *)
IsParentOf(path, child) == IsSubdirOf(child, path)

===============================================================================
