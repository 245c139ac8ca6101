------------------------------- MODULE Feeds -------------------------------
(***************************************************************************)
(* Three followers of a feed that share no state: the poller of trading,   *)
(* which follows an order at its broker; the pattern consumer of analysis, *)
(* which must lose nothing of the ledger; and the live bars of marketdata, *)
(* which may lose bars but has one connection to give.  A behaviour is one *)
(* of theirs; `subject' says whose.                                        *)
(***************************************************************************)
EXTENDS OrderLifecycle, PatternConsumer, BarStreams

VARIABLE subject

feedsVars == <<subject, vars, consumerVars, streamsVars>>

FeedsInit == subject \in {"order", "patterns", "bars"} /\ Init /\ ConsumerInit /\ StreamsInit

FeedsNext ==
  /\ \/ subject = "order" /\ Next /\ UNCHANGED <<consumerVars, streamsVars>>
     \/ subject = "patterns" /\ ConsumerNext /\ UNCHANGED <<vars, streamsVars>>
     \/ subject = "bars" /\ StreamsNext /\ UNCHANGED <<vars, consumerVars>>
  /\ UNCHANGED subject

(* The fairness of each; that of the order and of the bars asks nothing     *)
(* while no call has come.                                                 *)
FeedsSpec ==
  /\ FeedsInit /\ [][FeedsNext]_feedsVars
  /\ Fairness
  /\ WF_consumerVars(subject = "patterns" /\ Step)
  /\ StreamsFairness
=============================================================================
