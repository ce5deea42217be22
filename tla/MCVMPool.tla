------------------------------ MODULE MCVMPool ------------------------------
(* An instance of VMPool for TLC: a channel for one state, so that a second  *)
(* one has to be closed.  The states that are open are in the channel or in  *)
(* use by a worker, and one in the channel is taken before one is made: no   *)
(* more are open than there are workers.                                     *)
EXTENDS VMPool, TLC

\* Who serves a request, and which state, makes no difference.
Symmetry == Permutations(Workers) \cup Permutations(VMs)
=============================================================================
