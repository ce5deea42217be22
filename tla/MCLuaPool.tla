------------------------------ MODULE MCLuaPool ------------------------------
(* Instances of LuaPool for TLC.  MaxStates suffices for what two workers and  *)
(* the backing array of a pool of one can refer to.                            *)
EXTENDS LuaPool
=============================================================================
