----------------------------- MODULE Idempotence -----------------------------
(***************************************************************************)
(* The two tables of keys that make a repeated call harmless, which share  *)
(* no state: order_intents of trading and idempotency_keys of the ledger.  *)
(* A behaviour is about one of them; `subject' says which.                 *)
(***************************************************************************)
EXTENDS OrderSubmission, LedgerAppend

VARIABLE subject

keyVars == <<subject, vars, appendVars>>

KeysInit == subject \in {"intents", "appends"} /\ Init /\ AppendInit

KeysNext ==
  /\ \/ subject = "intents" /\ Next /\ UNCHANGED appendVars
     \/ subject = "appends" /\ (AppendNext \/ CrashCalls) /\ UNCHANGED vars
  /\ UNCHANGED subject

(* The fairness of each asks nothing as long as no call has come.          *)
KeysSpec ==
  /\ KeysInit /\ [][KeysNext]_keyVars
  /\ Fairness
  /\ AppendFairness
=============================================================================
