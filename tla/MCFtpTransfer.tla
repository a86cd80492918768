---------------------------- MODULE MCFtpTransfer ----------------------------
(***************************************************************************)
(* Instances of FtpTransfer for TLC.                                       *)
(***************************************************************************)
EXTENDS FtpTransfer, TLC

(* No more than three events wait to be handled at a time. *)
Small == Len(queue) <= 3

===============================================================================
