------------------------------ MODULE WriteStream ------------------------------
(***************************************************************************)
(* What a writer_base promises to the operation that writes through it     *)
(* (src/include/writer.h): the blocks handed over arrive at their target   *)
(* in order, each one once; finalize() reports success only when all of    *)
(* them have arrived; after an error nothing is reported as a success; and *)
(* what is left behind after close() is a beginning of what was handed     *)
(* over.                                                                   *)
(*                                                                         *)
(* A block is represented by its number in the order of writing.           *)
(***************************************************************************)
EXTENDS Integers, Sequences

VARIABLES
    accepted,   \* number of blocks handed over
    stored,     \* blocks that have arrived, in order
    status      \* "open", "finalized", "error" or "closed"

Init == accepted = 0 /\ stored = << >> /\ status = "open"

(* A buffer is handed over.  The call may find the writer in error.        *)
Accept ==
    /\ status = "open"
    /\ accepted' > accepted
    /\ status' \in {"open", "error"}
    /\ UNCHANGED stored

(* The next blocks arrive.  They may still do so after the user was told   *)
(* of an error or while it closes the writer.                              *)
Store ==
    /\ status # "closed"
    /\ Len(stored) < Len(stored') /\ Len(stored') <= accepted
    /\ stored' = [i \in 1..Len(stored') |-> i]
    /\ UNCHANGED <<accepted, status>>

Finalize ==
    /\ status = "open"
    /\ Len(stored) = accepted
    /\ status' = "finalized"
    /\ UNCHANGED <<accepted, stored>>

Fail ==
    /\ status = "open"
    /\ status' = "error"
    /\ UNCHANGED <<accepted, stored>>

(* A writer that is closed before it was finalized may drop everything.    *)
Close ==
    /\ status # "closed"
    /\ status' = "closed"
    /\ stored' = stored \/ (status # "finalized" /\ stored' = << >>)
    /\ UNCHANGED accepted

Next == Accept \/ Store \/ Finalize \/ Fail \/ Close

vars == <<accepted, stored, status>>

Spec == Init /\ [][Next]_vars
================================================================================
