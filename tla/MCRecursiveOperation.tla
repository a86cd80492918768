------------------------ MODULE MCRecursiveOperation ------------------------
(***************************************************************************)
(* The user looks at w, which holds the directories d and x and a link k   *)
(* to the directory o elsewhere.  In d are a link to the file in o and, as *)
(* if they were plain directories, d itself once more and x.  The          *)
(* directory o shows d as well, and x holds a file.                        *)
(***************************************************************************)
EXTENDS RecursiveOperation

File == [kind |-> "file", target |-> <<>>]
Dir == [kind |-> "dir", target |-> <<>>]
Link(path) == [kind |-> "link", target |-> path]
Mount(path) == [kind |-> "mount", target |-> path]

MCNames == <<"d", "f", "k", "m", "n", "p", "x">>
MCTree == <<>> :> Dir
       @@ <<"w">> :> Dir
       @@ <<"w", "d">> :> Dir
       @@ <<"w", "d", "m">> :> Mount(<<"w", "d">>)
       @@ <<"w", "d", "n">> :> Link(<<"o", "f">>)
       @@ <<"w", "d", "p">> :> Mount(<<"w", "x">>)
       @@ <<"w", "x">> :> Dir
       @@ <<"w", "x", "f">> :> File
       @@ <<"w", "k">> :> Link(<<"o">>)
       @@ <<"o">> :> Dir
       @@ <<"o", "f">> :> File
       @@ <<"o", "p">> :> Mount(<<"w", "d">>)
MCStart == <<"w">>
MCSelections == {{"d"}, {"d", "x"}, {"k"}}
MCOpened == {<<"w", "d">>, <<"w", "d", "n">>}

=============================================================================
