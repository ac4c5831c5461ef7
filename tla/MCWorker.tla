------------------------------- MODULE MCWorker -------------------------------
(* Small instances of Worker for TLC: two threads, the heads of one or two    *)
(* priorities, two or three tasks.                                            *)
EXTENDS Worker
=============================================================================
