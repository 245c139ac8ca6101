------------------------- MODULE MCOrderSubmission -------------------------
(***************************************************************************)
(* OrderSubmission with two calls on one Alpaca intent and two request     *)
(* contents.                                                               *)
(***************************************************************************)
EXTENDS OrderSubmission, TLC

CONSTANTS c1, c2, alpaca, k1, k2

MCPlacings == {c1, c2}
MCIntents == {alpaca}
MCContents == {k1, k2}
MCSymmetry == Permutations(MCPlacings) \cup Permutations(MCContents)
============================================================================
