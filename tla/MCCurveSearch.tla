--------------------------- MODULE MCCurveSearch ---------------------------
(* Instances of CurveSearch for TLC. *)
EXTENDS CurveSearch

MCPrime == 101
MCTraces == {-20, -18, -15, -11, -7, -6, -3, -2, 0, 1, 3, 5, 8, 10, 14, 17, 20}
MCWeberLevels == <<7, 11>>
MCSchoofLevels == <<3, 7>>

=============================================================================
