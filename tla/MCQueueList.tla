------------------------------- MODULE MCQueueList -------------------------------
(* Small instances of QueueList for TLC: blocks of two elements.                 *)
EXTENDS QueueList
=============================================================================
