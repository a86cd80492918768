------------------------- MODULE MCFtpControlSocket -------------------------
(***************************************************************************)
(* Instances of FtpControlSocket for TLC.                                  *)
(***************************************************************************)
EXTENDS FtpControlSocket, TLC
===============================================================================
