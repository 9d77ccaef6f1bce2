----------------------------- MODULE MCRouterDV -----------------------------
(* Small networks for RouterDV.                                            *)
EXTENDS RouterDV

OneCable == <<{1, 2}>>
OneLen == <<1>>
LineEnds == <<{1, 2}, {2, 3}>>
LineLen == <<1, 1>>
TriangleEnds == <<{1, 2}, {2, 3}, {1, 3}>>
TriangleOnes == <<1, 1, 1>>
=============================================================================
