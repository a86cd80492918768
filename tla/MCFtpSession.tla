---- MODULE MCFtpSession ----
(* FtpSession with sizes on both sides of both limits: TwoGB = 2,          *)
(* FourGB = 4, and files of up to 5 units.                                 *)
EXTENDS FtpSession
AllBugs == {"none", "2GB", "4GB"}
NoBugs == {"none"}
====
