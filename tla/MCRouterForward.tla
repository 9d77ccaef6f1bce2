--------------------------- MODULE MCRouterForward ---------------------------
EXTENDS RouterForward

(* Networks within one another, one without, and two of the same size.     *)
MCNetwork == <<<<8, 3>>, <<9, 2>>, <<10, 3>>, <<>>>>
MCGarbage == {<<0, 0>>, <<0, 15>>, <<15, 0>>}
=============================================================================
