-------------------------- MODULE MCUpdateInstall --------------------------
(* Model-checking instances of UpdateInstall; the .cfg files give its      *)
(* constants their values.                                                 *)
EXTENDS UpdateInstall
=============================================================================
