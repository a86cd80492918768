------------------------------ MODULE ReadStream ------------------------------
(***************************************************************************)
(* What a reader_base promises to the operation that reads from it         *)
(* (src/include/reader.h): the bytes of the file from the offset asked     *)
(* for, in order, each one once, never past the size that was announced,   *)
(* until an empty buffer says end of file or an error ends the stream for  *)
(* good.  A rewind or a seek starts over.                                  *)
(*                                                                         *)
(* A byte is represented by its position in the file.                      *)
(***************************************************************************)
EXTENDS Integers, Sequences

VARIABLES
    start,      \* offset the stream starts at
    size,       \* bytes announced by reader_base::size()
    delivered,  \* positions handed out since the start
    status      \* "open", "eof", "error" or "closed"

Bytes(from, n) == [i \in 1..n |-> from + i - 1]

Init ==
    /\ start \in Nat /\ size \in Nat
    /\ delivered = << >>
    /\ status = "open"

(* read() returns a buffer with the next bytes. *)
Deliver ==
    /\ status = "open"
    /\ \E n \in 1..(size - Len(delivered)) :
           delivered' = delivered \o Bytes(start + Len(delivered), n)
    /\ UNCHANGED <<start, size, status>>

(* read() returns an empty buffer: the end of the announced bytes, or of a *)
(* file that has become shorter meanwhile.                                 *)
EndOfFile ==
    /\ status = "open"
    /\ status' = "eof"
    /\ UNCHANGED <<start, size, delivered>>

(* read() or seek() reports an error. *)
Fail ==
    /\ status \in {"open", "eof"}
    /\ status' = "error"
    /\ start' \in Nat
    /\ UNCHANGED <<size, delivered>>

(* seek() *)
Restart ==
    /\ status \in {"open", "eof"}
    /\ status' = "open"
    /\ delivered' = << >>
    /\ start' \in Nat /\ size' \in Nat

Close ==
    /\ status # "closed"
    /\ status' = "closed"
    /\ UNCHANGED <<start, size, delivered>>

Next == Deliver \/ EndOfFile \/ Fail \/ Restart \/ Close

vars == <<start, size, delivered, status>>

Spec == Init /\ [][Next]_vars
===============================================================================
