---------------------------- MODULE MCFuncLatency ----------------------------
(* Two threads, of which none, one or both are traced, and two functions   *)
(* that call each other. Threads and functions are interchangeable.        *)
EXTENDS FuncLatency, TLC
MCSymmetry == Permutations(Threads) \cup Permutations(Funcs)
=============================================================================
