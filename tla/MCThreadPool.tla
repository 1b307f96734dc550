---------------------------- MODULE MCThreadPool ----------------------------
(* Instances of ThreadPool for TLC: small rings, so that they fill up and  *)
(* wrap around, more than one bee and more than one submitting thread.     *)
EXTENDS ThreadPool

CONSTANTS s1, s2

MC_Submitters == {s1, s2}
=============================================================================
