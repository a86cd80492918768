----------------------------- MODULE MCWorkingDir -----------------------------
(***************************************************************************)
(* Instances of WorkingDir for TLC: two engines; a server with the         *)
(* directories a and a/b, and a link l to a if its PWD works.              *)
(***************************************************************************)
EXTENDS WorkingDir

Ask(id, path, name) ==
    [id |-> id, path |-> path, name |-> name, flag |-> FALSE, clear |-> FALSE, toPath |-> None, toName |-> None]
Move(from, name, to, toName) == [Ask("rename", from, name) EXCEPT !.toPath = to, !.toName = toName]

(* What the user asks for: listings by every kind of path, removals and    *)
(* renames by canonical ones                                               *)
AllRequests ==
    {Ask("list", None, None), Ask("list", << >>, "l"), Ask("list", <<"l">>, "b"),
     Ask("list", <<"a", "b">>, Up), [Ask("list", <<"a">>, None) EXCEPT !.clear = TRUE],
     Ask("rmd", <<"a">>, "b"), Ask("dele", <<"a">>, None), Ask("raw", <<"a">>, None),
     Ask("mkd", <<"a", "b">>, None), Ask("stor", <<"b", "b">>, None),
     Move(<< >>, "a", << >>, "b"), Move(<<"a">>, "b", << >>, "b")}
TheTarget == <<"a">>
TwoServers == {<<{<< >>, <<"a">>, <<"a", "b">>}, works>> : works \in BOOLEAN}
Alike == Permutations(Engines)

(* The proofs are about these commands and servers, too. *)
ASSUME InScope == Scope
===============================================================================
