----------------------------- MODULE MCFileWriter -----------------------------
(***************************************************************************)
(* Instance of FileWriter for TLC: a ring of two buffers of two blocks,    *)
(* and enough blocks to fill the ring and go around it.                    *)
(***************************************************************************)
EXTENDS FileWriter, TLC
===============================================================================
