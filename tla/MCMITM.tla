------------------------------- MODULE MCMITM -------------------------------
(* Instances of MITM for TLC: the cfg files name the connections and the      *)
(* callers of Stop.                                                           *)
EXTENDS MITM
=============================================================================
