----------------------------- MODULE MCCoroutines -----------------------------
(* Small instances of Coroutines for TLC.                                      *)
EXTENDS Coroutines, TLC

CONSTANTS w1, w2
MCWarps == {w1, w2}
\* A warp twice, once in parallel; two warps; the pool and a warp.
MCPrograms == {<<<<w1, TRUE>>, <<w1, FALSE>>>>, <<<<w1, FALSE>>, <<w2, TRUE>>>>,
               <<<<Pool, FALSE>>, <<w2, FALSE>>>>}
MCMaxAwaits == [k \in Kinds |-> 2]
\* Two coroutines await once each, or one of them twice.
MCShares == {<<1, 1>>, <<2, 0>>}
=============================================================================
