------------------------------- MODULE MCWarp -------------------------------
(* An instance of Warp for TLC: two threads of the worker, two tasks, every  *)
(* bounded call once and at most two of them in a behaviour.                 *)
EXTENDS Warp

MCMaxCalls == [parallel |-> 1, suspend |-> 1, interrupt |-> 1, delay |-> 1, all |-> 2]
=============================================================================
