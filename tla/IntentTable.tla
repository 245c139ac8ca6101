---------------------------- MODULE IntentTable ----------------------------
(***************************************************************************)
(* The rows of trading.order_intents and the conditional writes of         *)
(* internal/repository/order_intent_repo.go.  PlaceOrder, ReplaceOrder and *)
(* CancelOrder all deduplicate their broker calls through this table, so   *)
(* the modules that model those handlers share these operators.            *)
(*                                                                         *)
(* A row is a record; state "ABSENT" stands for an intent id with no row.  *)
(* updated_at is kept as the one bit the code reads of it: `stale' is true *)
(* once the row is older than staleThreshold().  Every write sets          *)
(* updated_at = now(), so every write resets it.                           *)
(***************************************************************************)

\* IntentState*: the state column.  COMPLETED and REJECTED are verdicts.
Verdicts == {"COMPLETED", "REJECTED"}
IntentStates == {"ABSENT", "PENDING", "UNKNOWN"} \cup Verdicts

\* OrderIntentRecord over request contents C and stored responses R.
OrderIntentRecord(C, R) ==
  [state : IntentStates, content : C, stored : R, stale : BOOLEAN]

\* The value of a row that does not exist.
Absent(c, r) == [state |-> "ABSENT", content |-> c, stored |-> r, stale |-> FALSE]

\* Time passes: the row of a still PENDING intent reaches staleThreshold().
Aged(rec) == [state |-> rec.state, content |-> rec.content, stored |-> rec.stored,
              stale |-> TRUE]

\* Every write ends with updated_at = now(): the row is young again.
Written(s, c, response) ==
  [state |-> s, content |-> c, stored |-> response, stale |-> FALSE]

\* insertIntentSQL: ON CONFLICT DO NOTHING, so only an absent row is written.
InsertIntent(rec, c) ==
  IF rec.state = "ABSENT" THEN Written("PENDING", c, rec.stored) ELSE rec

\* reclaimOrphanIntentSQL: compare-and-set PENDING and old -> UNKNOWN.
Reclaimable(rec) == rec.state = "PENDING" /\ rec.stale

ReclaimOrphanIntent(rec) ==
  IF Reclaimable(rec) THEN Written("UNKNOWN", rec.content, rec.stored) ELSE rec

\* finalizeIntentSQL: compare-and-set PENDING -> s; a row that is no longer
\* PENDING is left alone and the caller is not told.
FinalizeIntent(rec, s, response) ==
  IF rec.state = "PENDING" THEN Written(s, rec.content, response) ELSE rec

\* resolveUnknownIntentSQL: compare-and-set UNKNOWN -> s.
ResolveUnknownIntent(rec, s, response) ==
  IF rec.state = "UNKNOWN" THEN Written(s, rec.content, response) ELSE rec

\* Mutant: the stored hash is not compared.
MutClassifySkipsHash(rec, c) ==
  CASE rec.state \in Verdicts  -> "ReturnStored"
    [] rec.state = "UNKNOWN"   -> "RejectUnknown"
    [] OTHER                   -> "RejectPending"

\* classifyIntentLookup: what a handler does with a row it did not insert.
classifyIntentLookup(rec, c) ==
  IF rec.content # c             THEN "RejectHashMismatch"
  ELSE IF rec.state \in Verdicts THEN "ReturnStored"
  ELSE IF rec.state = "UNKNOWN"  THEN "RejectUnknown"
  ELSE "RejectPending"
============================================================================
