----------------------------- MODULE MCRunProcess -----------------------------
(* RunProcess for TLC: the constants get their values in the cfg files.    *)
EXTENDS RunProcess
=============================================================================
