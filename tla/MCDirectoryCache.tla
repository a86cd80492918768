--------------------------- MODULE MCDirectoryCache ---------------------------
(***************************************************************************)
(* Instances of DirectoryCache for TLC: two names, which differ or differ  *)
(* only in case, and a server that starts with a directory a, with or      *)
(* without a file, and nothing, a file or a directory b; or with a file b  *)
(* alone, in whose place a directory can be made and renamed to a.         *)
(***************************************************************************)
EXTENDS DirectoryCache

Differ == [n \in Names |-> n]
OnlyInCase == [n \in Names |-> "a"]

Tree(a, kind, inA) ==
    [d \in Dirs |-> [n \in Names |->
        CASE d = Root /\ n = "a" -> a
          [] d = Root -> kind
          [] d = <<"a">> /\ n = "b" -> inA
          [] OTHER -> "none"]]
AllTrees ==
    {Tree("dir", kind, inA) : kind \in {"none", "small", "dir"}, inA \in {"none", "small"}}
        \cup {Tree("none", "small", "none")}
TwoLimits == {<<2, 2>>, <<3, 1>>}
===============================================================================
