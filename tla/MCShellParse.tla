----------------------------- MODULE MCShellParse ------------------------------
(* Every line of up to six characters, with room for two arguments.           *)
EXTENDS ShellParse

MCOrdinary == {"a"}
=============================================================================
