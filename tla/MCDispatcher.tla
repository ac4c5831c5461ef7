------------------------------- MODULE MCDispatcher -------------------------------
(* Small instances of Dispatcher for TLC: three routines.                         *)
EXTENDS Dispatcher
=============================================================================
