---------------------------- MODULE MCSharedRing ----------------------------
(* Small instances of SharedRing for TLC: a ring of two slots whose index    *)
(* wraps inside the behaviour, two writers.                                  *)
EXTENDS SharedRing, TLC

CONSTANTS w1, w2
TwoWriters == {w1, w2}
=============================================================================
