--------------------------------- MODULE MCTree ---------------------------------
(* Small instances of Tree for TLC.                                              *)
EXTENDS Tree, TLC

\* Five nodes: equal boxes, boxes that touch, one inside another, disjoint ones.
MCKeys == {<<<<0, 0>>, <<0, 1>>, <<0, 2>>, <<1, 1>>, <<2, 2>>>>,
           <<<<0, 1>>, <<0, 1>>, <<0, 2>>, <<1, 2>>, <<1, 2>>>>}
=============================================================================
