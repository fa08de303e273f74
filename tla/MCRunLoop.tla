------------------------------ MODULE MCRunLoop ------------------------------
(* Instances of RunLoop for TLC.  The threads and the calls are symmetric where only    *)
(* invariants are checked.                                                              *)
EXTENDS RunLoop, TLC

Symmetry == Permutations(Hosts) \union Permutations(Calls)
=============================================================================
