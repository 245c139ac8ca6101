--------------------------- MODULE MCIdempotence ---------------------------
(***************************************************************************)
(* Two calls on one Alpaca intent and two request contents; three appends  *)
(* of one key (an append and its retries) and one without a key.           *)
(***************************************************************************)
EXTENDS Idempotence, TLC

CONSTANTS c1, c2, alpaca, k1, k2, a1, a2, a3, p, k

MCPlacings == {c1, c2}
MCIntents == {alpaca}
MCContents == {k1, k2}

MCCalls == {a1, a2, a3, p}
MCKeys == {k}
MCKeyOf == (a1 :> k) @@ (a2 :> k) @@ (a3 :> k) @@ (p :> NoKey)
============================================================================
