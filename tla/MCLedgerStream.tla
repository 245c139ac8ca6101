--------------------------- MODULE MCLedgerStream ---------------------------
(***************************************************************************)
(* LedgerStream with two or three plain appends, one of them trimmed.       *)
(***************************************************************************)
EXTENDS LedgerStream, TLC

CONSTANTS e1, e2, e3, c1, c2

MCCalls == {e1, e2, e3}
MCPair == {e2, e3}
MCKeyOf == [e \in MCCalls |-> NoKey]
MCPairKeyOf == [e \in MCPair |-> NoKey]
MCBig == {e2}
MCOne == {c1}
MCTwo == {c1, c2}
MCWants == [c \in MCOne |-> MCCalls]
MCPairWants == [c \in MCOne |-> MCPair]
MCTwoWants == [c \in MCTwo |-> IF c = c1 THEN MCPair ELSE {e3}]
=============================================================================
