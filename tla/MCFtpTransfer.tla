--------------------------- MODULE MCFtpTransfer ---------------------------
(* Model-checking instances of FtpTransfer.                                *)
EXTENDS FtpTransfer
=============================================================================
