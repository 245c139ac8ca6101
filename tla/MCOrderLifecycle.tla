-------------------------- MODULE MCOrderLifecycle --------------------------
(***************************************************************************)
(* OrderLifecycle with two calls, quantities one and two.                  *)
(***************************************************************************)
EXTENDS OrderLifecycle, TLC

CONSTANTS c1, c2

MCCalls == {c1, c2}
MCCalls1 == {c1}
MCQtys == {1, 2}
MCCancel == {Cancel}
MCReplaces == {1, 2}
MCMixed == {Cancel, 1}
MCSymmetry == Permutations(MCCalls)
============================================================================
