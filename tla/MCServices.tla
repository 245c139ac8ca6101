---------------------------- MODULE MCServices ----------------------------
(***************************************************************************)
(* Services: three calls of one browser, an OAuth client and               *)
(* administrators; two alerts; three updates of two users; two chunks.     *)
(***************************************************************************)
EXTENDS Services

CONSTANTS k1, tab1, a1, a2, s1, p1, ann, bob, g1, g2, g3, b1, b2, x1

MCCodes == {k1}
MCTabs == {tab1}
MCAlerts == {a1, a2}
MCStreams == {s1}
MCEndpoints == {p1}
MCUsers == {ann, bob}
MCUpdates == {g1, g2, g3}
MCChunks == {b1, b2}
MCCancels == {x1}
=============================================================================
