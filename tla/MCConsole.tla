----------------------------- MODULE MCConsole -----------------------------
(* Model-checking instances of Console.                                    *)
EXTENDS Console
=============================================================================
