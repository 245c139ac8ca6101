------------------------------ MODULE MCFeeds ------------------------------
(***************************************************************************)
(* Feeds: an order of quantity two that may be replaced, positions of one  *)
(* identity, and two calls for bars of different symbols.                  *)
(***************************************************************************)
EXTENDS Feeds, TLC

CONSTANTS o1, k1, c1, c2, s1, s2

MCOrderCalls == {o1}
MCQtys == {1, 2}
MCKeys == {k1}
\* An event that fails is never applied: one that opens and one that closes are enough.
MCProduced == {e \in Event : e.of = 0 /\ (e.flaw # "none" => e.kind # "snap")}
MCCalls == {c1, c2}
MCSymbols == {s1, s2}
MCWants == (c1 :> {s1}) @@ (c2 :> {s2})
=============================================================================
