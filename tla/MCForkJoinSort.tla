-------------------------- MODULE MCForkJoinSort --------------------------
(* Instances of ForkJoinSort for TLC.                                      *)
EXTENDS ForkJoinSort

Inputs(S, n) == UNION {[1 .. k -> S] : k \in 0 .. n}

(* Differences of -4, 0 and 3 overflow integers of three bits.             *)
MC_Sorts ==
    [program : {"selection", "merge", "quick"}, input : Inputs(1 .. 3, 4) \ {<<>>}]
    \cup [program : {"merge", "quick"}, input : [1 .. 5 -> {1, 2}]]
    \cup [program : {"merge", "quick"}, input : {<<3, 5, 1, 4, 2>>, <<2, 1, 3, 3, 2, 1>>}]
    \cup [program : {"threads"}, input : Inputs({-4, 0, 3}, 5)]
=============================================================================
