----------------------------- MODULE MCFileReader -----------------------------
(***************************************************************************)
(* Instance of FileReader for TLC: a ring of two buffers of two blocks, a  *)
(* file of four blocks read whole or in part.                              *)
(***************************************************************************)
EXTENDS FileReader, TLC

MCMaxSizes == {nosize, 2}
===============================================================================
