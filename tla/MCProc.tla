------------------------------- MODULE MCProc -------------------------------
(* Small instances of Proc for TLC.                                        *)
EXTENDS Proc, TLC

Sym == Permutations(Cpus)
=============================================================================
