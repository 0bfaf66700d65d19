------------------------------ MODULE MCAnalyzer ------------------------------
(* Analyzer for TLC: the constants get their values in the cfg files.      *)
EXTENDS Analyzer
=============================================================================
