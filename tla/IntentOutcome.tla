--------------------------- MODULE IntentOutcome ---------------------------
(***************************************************************************)
(* What the order-intent machinery of xstockstrat-trading promises for     *)
(* each client_order_id, without handlers, rows, sweeps or crashes: one    *)
(* submission at most, never after a verdict; a verdict is final; an       *)
(* intent whose outcome was lost is settled only if it was submitted.      *)
(***************************************************************************)
CONSTANT Intents

VARIABLES
  outcome,    \* what the platform knows about the intent
  submitted   \* intents that have been sent to a broker

vars == <<outcome, submitted>>

Init ==
  /\ outcome = [i \in Intents |-> "ABSENT"]
  /\ submitted = {}

Become(i, s) == outcome' = [outcome EXCEPT ![i] = s]

\* The intent is claimed by its first call.
Open(i) ==
  /\ outcome[i] = "ABSENT"
  /\ Become(i, "PENDING")
  /\ UNCHANGED submitted

\* The one submission; it may come late, after the outcome was given up on.
Submit(i) ==
  /\ outcome[i] \in {"PENDING", "UNKNOWN"}
  /\ i \notin submitted
  /\ submitted' = submitted \cup {i}
  /\ UNCHANGED outcome

\* The owner learns the outcome.  Only a submitted intent can complete.
Settle(i) ==
  /\ outcome[i] = "PENDING"
  /\ Become(i, "REJECTED") \/ (i \in submitted /\ Become(i, "COMPLETED"))
  /\ UNCHANGED submitted

\* Nobody reported the outcome in time.
Lose(i) ==
  /\ outcome[i] = "PENDING"
  /\ Become(i, "UNKNOWN")
  /\ UNCHANGED submitted

\* The broker's own record settles a lost outcome.
Resolve(i) ==
  /\ outcome[i] = "UNKNOWN"
  /\ i \in submitted
  /\ \E s \in {"COMPLETED", "REJECTED"} : Become(i, s)
  /\ UNCHANGED submitted

Next == \E i \in Intents : Open(i) \/ Submit(i) \/ Settle(i) \/ Lose(i) \/ Resolve(i)

Spec == Init /\ [][Next]_vars
============================================================================
