-------------------------- MODULE OrderSubmission --------------------------
(***************************************************************************)
(* PlaceOrder / submitOrder of xstockstrat-trading: how concurrent and     *)
(* retried requests carrying the same client_order_id share one row of     *)
(* trading.order_intents, while the sweeper, the reconciliation poller,    *)
(* broker timeouts and process crashes work on the same row.               *)
(*                                                                         *)
(* A call is one execution of the handler.  Its order id is a fresh UUID,  *)
(* so the call itself names the order it records and submits.              *)
(***************************************************************************)
EXTENDS IntentTable, FiniteSets, Naturals

CONSTANTS
  Placings,       \* executions of PlaceOrder (or of flattenAndHalt's submitOrder)
  Intents,        \* client_order_id values
  Contents,       \* request contents, told apart by placeOrderRequestHash
  AlpacaIntents,  \* intents placed on an Alpaca account; the others are IBKR's
  Nil,            \* no content, no order, nil response
  ColumnTakesBytes \* does order_intents accept a marshaled Order as response?

ASSUME NilAssumption == Nil \notin Contents /\ Nil \notin Placings
ASSUME AlpacaAssumption == AlpacaIntents \subseteq Intents
ASSUME ColumnAssumption == ColumnTakesBytes \in BOOLEAN

VARIABLES
  row,           \* trading.order_intents
  orderRow,      \* trading.orders.status of the order a call records
  pc,            \* where a call is in the handler
  req,           \* the request a call carries
  told,          \* what a finished call told its caller
  sent,          \* calls whose order left the process for the broker
  broker,        \* the broker's own state of the order a call sent
  sweepList,     \* intents the running sweep tick selected
  listing,       \* ListOrders result of the running reconciliation tick
  reclaimEvents  \* order_intent.reclaimed_unknown events emitted per intent

vars == <<row, orderRow, pc, req, told, sent, broker, sweepList, listing,
          reclaimEvents>>

PCs == {"idle", "park", "insert", "lookup", "reclaim", "record", "submit",
        "await", "accept", "finalizeAccept", "reject", "finalizeReject",
        "done", "crashed"}

Answers == {"none", "refused", "parked", "accepted", "rejected", "uncertain",
            "stored", "mismatch", "unknown", "pending", "internal"}

\* "refused" is an error status, after which the broker holds no order;
\* "transient" is a status alpacaStatusToProto maps to UNSPECIFIED.
Listed == {"working", "transient", "rejected"}
BrokerStates == {"none", "refused"} \cup Listed

OrderStatuses == {"none", "NEW", "PENDING_APPROVAL", "REJECTED", "SUBMITTED"}

Requests == [intent : Intents, content : Contents]

TypeOK ==
  /\ row \in [Intents -> OrderIntentRecord(Contents \cup {Nil}, Placings \cup {Nil})]
  /\ orderRow \in [Placings -> OrderStatuses]
  /\ pc \in [Placings -> PCs]
  /\ req \in [Placings -> Requests \cup {Nil}]
  /\ told \in [Placings -> [kind : Answers, order : Placings \cup {Nil}]]
  /\ sent \subseteq Placings
  /\ broker \in [Placings -> BrokerStates]
  /\ sweepList \subseteq Intents
  /\ listing \in [Placings -> Listed \cup {"none"}]
  /\ reclaimEvents \in [Intents -> Nat]

Init ==
  /\ row = [i \in Intents |-> Absent(Nil, Nil)]
  /\ orderRow = [c \in Placings |-> "none"]
  /\ pc = [c \in Placings |-> "idle"]
  /\ req = [c \in Placings |-> Nil]
  /\ told = [c \in Placings |-> [kind |-> "none", order |-> Nil]]
  /\ sent = {}
  /\ broker = [c \in Placings |-> "none"]
  /\ sweepList = {}
  /\ listing = [c \in Placings |-> "none"]
  /\ reclaimEvents = [i \in Intents |-> 0]

(***************************************************************************)
(* Helpers.                                                                *)
(***************************************************************************)
MoveTo(c, label) == pc' = [pc EXCEPT ![c] = label]

Reply(c, k, o) ==
  /\ MoveTo(c, "done")
  /\ told' = [told EXCEPT ![c] = [kind |-> k, order |-> o]]

\* UpsertOrder and persistOrderBestEffort: a failed write is only logged.
Persist(c, status) ==
  \/ orderRow' = [orderRow EXCEPT ![c] = status]
  \/ UNCHANGED orderRow

\* Mutant: the audit event is emitted whether or not the row was changed.
MutReclaimAlwaysEmits(i) ==
  /\ row' = [row EXCEPT ![i] = ReclaimOrphanIntent(row[i])]
  /\ reclaimEvents' = [reclaimEvents EXCEPT ![i] = @ + 1]

\* reclaimStaleIntent and the sweeper share one compare-and-set; whoever
\* changes the row emits the audit event.
Reclaim(i) ==
  /\ row' = [row EXCEPT ![i] = ReclaimOrphanIntent(row[i])]
  /\ reclaimEvents' = [reclaimEvents EXCEPT ![i] =
                          IF Reclaimable(row[i]) THEN @ + 1 ELSE @]

tick == <<sweepList, listing>>
world == <<sent, broker>>

(***************************************************************************)
(* PlaceOrder: the gates, then submitOrder up to the broker call.          *)
(***************************************************************************)

\* A gate (maintenance, ownership, halt, trading_state, time in force,
\* sizing) refuses the request before any order or intent is recorded.
PlaceOrderRefused(c) ==
  /\ pc[c] = "idle"
  /\ Reply(c, "refused", Nil)
  /\ UNCHANGED <<row, orderRow, req, world, tick, reclaimEvents>>

\* The request passes the gates.  Auto-sizing reads live equity, so whether
\* the quantity needs approval is not a function of the request content.
PlaceOrder(c, i, k) ==
  /\ pc[c] = "idle"
  /\ req' = [req EXCEPT ![c] = [intent |-> i, content |-> k]]
  /\ \E requiresApproval \in BOOLEAN :
        MoveTo(c, IF requiresApproval THEN "park" ELSE "insert")
  /\ UNCHANGED <<row, orderRow, told, world, tick, reclaimEvents>>

\* An order awaiting approval is recorded but owns no intent row.
ParkForApproval(c) ==
  /\ pc[c] = "park"
  /\ Persist(c, "PENDING_APPROVAL")
  /\ Reply(c, "parked", c)
  /\ UNCHANGED <<row, req, world, tick, reclaimEvents>>

\* Mutant: a conflicting INSERT is taken for ownership of the intent.
MutInsertIgnoresConflict(c) ==
  LET i == req[c].intent IN
  /\ pc[c] = "insert"
  /\ row' = [row EXCEPT ![i] = InsertIntent(row[i], req[c].content)]
  /\ MoveTo(c, "record")
  /\ UNCHANGED <<orderRow, req, told, world, tick, reclaimEvents>>

\* InsertIntent decides which call owns the intent.
InsertOrFindIntent(c) ==
  LET i == req[c].intent IN
  /\ pc[c] = "insert"
  /\ row' = [row EXCEPT ![i] = InsertIntent(row[i], req[c].content)]
  /\ MoveTo(c, IF row[i].state = "ABSENT" THEN "record" ELSE "lookup")
  /\ UNCHANGED <<orderRow, req, told, world, tick, reclaimEvents>>

\* The INSERT reports an error; it may have been committed all the same.
InsertIntentFails(c) ==
  LET i == req[c].intent IN
  /\ pc[c] = "insert"
  /\ \/ row' = [row EXCEPT ![i] = InsertIntent(row[i], req[c].content)]
     \/ UNCHANGED row
  /\ Reply(c, "internal", Nil)
  /\ UNCHANGED <<orderRow, req, world, tick, reclaimEvents>>

\* GetIntentByID and classifyIntentLookup on the row some other call owns.
LookupIntent(c) ==
  LET r == row[req[c].intent]
      a == classifyIntentLookup(r, req[c].content) IN
  /\ pc[c] = "lookup"
  /\ \/ a = "RejectHashMismatch" /\ Reply(c, "mismatch", Nil)
     \/ a = "ReturnStored" /\ Reply(c, "stored", r.stored)
     \/ a = "RejectUnknown" /\ Reply(c, "unknown", Nil)
     \/ a = "RejectPending" /\ ~r.stale /\ Reply(c, "pending", Nil)
     \/ a = "RejectPending" /\ r.stale /\ MoveTo(c, "reclaim") /\ UNCHANGED told
  /\ UNCHANGED <<row, orderRow, req, world, tick, reclaimEvents>>

LookupIntentFails(c) ==
  /\ pc[c] = "lookup"
  /\ Reply(c, "internal", Nil)
  /\ UNCHANGED <<row, orderRow, req, world, tick, reclaimEvents>>

\* reclaimStaleIntent after a stale lookup; a failed write is only logged.
ReclaimOnRetry(c) ==
  /\ pc[c] = "reclaim"
  /\ Reclaim(req[c].intent) \/ UNCHANGED <<row, reclaimEvents>>
  /\ Reply(c, "pending", Nil)
  /\ UNCHANGED <<orderRow, req, world, tick>>

\* The owner of the intent records the order before it calls the broker.
RecordOrder(c) ==
  /\ pc[c] = "record"
  /\ Persist(c, "NEW")
  /\ MoveTo(c, "submit")
  /\ UNCHANGED <<row, req, told, world, tick, reclaimEvents>>

\* client.SubmitOrder puts the request on the wire.
SubmitOrder(c) ==
  /\ pc[c] = "submit"
  /\ sent' = sent \cup {c}
  /\ MoveTo(c, "await")
  /\ UNCHANGED <<row, orderRow, req, told, broker, tick, reclaimEvents>>

\* client.SubmitOrder fails before anything is sent: an error that is not a
\* timeout takes the rejection path, a dial timeout the uncertain one.
SubmitOrderNotSent(c) ==
  /\ pc[c] = "submit"
  /\ \/ MoveTo(c, "reject") /\ UNCHANGED told
     \/ Reply(c, "uncertain", c)
  /\ UNCHANGED <<row, orderRow, req, world, tick, reclaimEvents>>

(***************************************************************************)
(* The broker (external) and the ways its answer reaches the handler.      *)
(***************************************************************************)

\* The broker decides on a request that reached it; it may do so long after
\* the caller gave up, and nothing obliges it to decide at all.
BrokerDecides(c) ==
  /\ c \in sent /\ broker[c] = "none"
  /\ \E s \in BrokerStates \ {"none"} : broker' = [broker EXCEPT ![c] = s]
  /\ UNCHANGED <<row, orderRow, pc, req, told, sent, tick, reclaimEvents>>

BrokerSettles(c) ==
  /\ broker[c] = "transient"
  /\ \E s \in {"working", "rejected"} : broker' = [broker EXCEPT ![c] = s]
  /\ UNCHANGED <<row, orderRow, pc, req, told, sent, tick, reclaimEvents>>

\* SubmitOrder returns the broker's answer: an order, or an error status.
SubmitOrderReturns(c) ==
  /\ pc[c] = "await" /\ broker[c] # "none"
  /\ MoveTo(c, IF broker[c] = "refused" THEN "reject" ELSE "accept")
  /\ UNCHANGED <<row, orderRow, req, told, world, tick, reclaimEvents>>

\* Mutant: a timeout is taken for acceptance.
MutTimeoutAccepts(c) ==
  /\ pc[c] = "await"
  /\ MoveTo(c, "accept")
  /\ UNCHANGED <<row, orderRow, req, told, world, tick, reclaimEvents>>

\* isUncertainBrokerOutcome: the intent stays PENDING and the order keeps
\* its pre-call status.
SubmitOrderTimesOut(c) ==
  /\ pc[c] = "await"
  /\ Persist(c, "NEW")
  /\ Reply(c, "uncertain", c)
  /\ UNCHANGED <<row, req, world, tick, reclaimEvents>>

\* Any other error after the request was sent - the RPC caller cancels, the
\* connection is reset, a gateway answers 5xx, the body does not decode -
\* is neither a timeout nor ErrOutcomeUncertain and is taken for a rejection.
SubmitOrderBreaks(c) ==
  /\ pc[c] = "await"
  /\ MoveTo(c, "reject")
  /\ UNCHANGED <<row, orderRow, req, told, world, tick, reclaimEvents>>

(***************************************************************************)
(* The end of submitOrder: the order row first, then FinalizeIntent.       *)
(***************************************************************************)
RecordRejection(c) ==
  /\ pc[c] = "reject"
  /\ Persist(c, "REJECTED")
  /\ MoveTo(c, "finalizeReject")
  /\ UNCHANGED <<row, req, told, world, tick, reclaimEvents>>

RecordAcceptance(c) ==
  /\ pc[c] = "accept"
  /\ Persist(c, "SUBMITTED")
  /\ MoveTo(c, "finalizeAccept")
  /\ UNCHANGED <<row, req, told, world, tick, reclaimEvents>>

\* FinalizeIntent stores the response; a failed write is only logged.  The
\* response columns are JSONB (migrations/006) and the response is the
\* protobuf encoding of the order: where the column refuses bytes that are
\* not JSON, every such write fails.
Finalize(c, s) ==
  LET i == req[c].intent IN
  \/ ColumnTakesBytes /\ row' = [row EXCEPT ![i] = FinalizeIntent(row[i], s, c)]
  \/ UNCHANGED row

FinalizeRejection(c) ==
  /\ pc[c] = "finalizeReject"
  /\ Finalize(c, "REJECTED")
  /\ Reply(c, "rejected", Nil)
  /\ UNCHANGED <<orderRow, req, world, tick, reclaimEvents>>

FinalizeAcceptance(c) ==
  /\ pc[c] = "finalizeAccept"
  /\ Finalize(c, "COMPLETED")
  /\ Reply(c, "accepted", c)
  /\ UNCHANGED <<orderRow, req, world, tick, reclaimEvents>>

(***************************************************************************)
(* Background loops.                                                       *)
(***************************************************************************)

\* A PENDING row outlives staleThreshold().
GrowStale(i) ==
  /\ row[i].state = "PENDING" /\ ~row[i].stale
  /\ row' = [row EXCEPT ![i] = Aged(row[i])]
  /\ UNCHANGED <<orderRow, pc, req, told, world, tick, reclaimEvents>>

\* Mutant: the sweep selects the young rows (updated_at > staleBefore).
MutSweepFreshOnly ==
  /\ sweepList = {}
  /\ sweepList' = {i \in Intents : row[i].state = "PENDING" /\ ~row[i].stale}
  /\ sweepList' # {}
  /\ UNCHANGED <<row, orderRow, pc, req, told, world, listing, reclaimEvents>>

\* sweepOrderIntents: SweepStalePending, then one compare-and-set per row.
SweepSelect ==
  /\ sweepList = {}
  /\ sweepList' = {i \in Intents : Reclaimable(row[i])}
  /\ sweepList' # {}
  /\ UNCHANGED <<row, orderRow, pc, req, told, world, listing, reclaimEvents>>

SweepReclaim(i) ==
  /\ i \in sweepList
  /\ sweepList' = sweepList \ {i}
  /\ Reclaim(i)
  /\ UNCHANGED <<orderRow, pc, req, told, world, listing>>

SweepReclaimFails(i) ==
  /\ i \in sweepList
  /\ sweepList' = sweepList \ {i}
  /\ UNCHANGED <<row, orderRow, pc, req, told, world, listing, reclaimEvents>>

\* reconcileTick: ListOrders once per tick, read later by
\* resolveUnknownIntents.
ListBrokerOrders ==
  /\ listing' = [c \in Placings |-> IF broker[c] \in Listed THEN broker[c] ELSE "none"]
  /\ listing' # listing
  /\ UNCHANGED <<row, orderRow, pc, req, told, world, sweepList, reclaimEvents>>

\* The verdict a listed order supports; a transient status supports none.
VerdictOf(status) == IF status = "rejected" THEN "REJECTED" ELSE "COMPLETED"

\* Mutants: an order missing from the list settles the intent as well; only
\* rejected orders settle it.
MutResolveUnlisted(i, c) ==
  /\ i \in AlpacaIntents
  /\ req[c] # Nil /\ req[c].intent = i
  /\ row[i].state = "UNKNOWN"
  /\ listing[c] # "transient"
  /\ row' = [row EXCEPT ![i] = ResolveUnknownIntent(row[i], "REJECTED", Nil)]
  /\ UNCHANGED <<orderRow, pc, req, told, world, tick, reclaimEvents>>

MutResolveRejectedOnly(i, c) ==
  /\ i \in AlpacaIntents
  /\ req[c] # Nil /\ req[c].intent = i
  /\ row[i].state = "UNKNOWN"
  /\ listing[c] = "rejected"
  /\ row' = [row EXCEPT ![i] = ResolveUnknownIntent(row[i], "REJECTED", Nil)]
  /\ UNCHANGED <<orderRow, pc, req, told, world, tick, reclaimEvents>>

\* resolveUnknownIntents: the listed order whose client order id derives
\* from the intent decides it.  The stored response is set to nil.
ResolveUnknown(i, c) ==
  /\ i \in AlpacaIntents
  /\ req[c] # Nil /\ req[c].intent = i
  /\ row[i].state = "UNKNOWN"
  /\ listing[c] \in Listed \ {"transient"}
  /\ row' = [row EXCEPT ![i] = ResolveUnknownIntent(row[i], VerdictOf(listing[c]), Nil)]
  /\ UNCHANGED <<orderRow, pc, req, told, world, tick, reclaimEvents>>

(***************************************************************************)
(* A process stops while it serves the calls in S.  Deployments overlap,   *)
(* so the calls of another process may go on; the tick in progress and its *)
(* memory are lost.                                                        *)
(***************************************************************************)
InProgress == {c \in Placings : pc[c] \notin {"idle", "done", "crashed"}}

Crash(S) ==
  /\ S # {}
  /\ pc' = [c \in Placings |-> IF c \in S THEN "crashed" ELSE pc[c]]
  /\ sweepList' = {}
  /\ listing' = [c \in Placings |-> "none"]
  /\ UNCHANGED <<row, orderRow, req, told, world, reclaimEvents>>

Handler(c) ==
  \/ PlaceOrderRefused(c)
  \/ \E i \in Intents, k \in Contents : PlaceOrder(c, i, k)
  \/ ParkForApproval(c)
  \/ InsertOrFindIntent(c) \/ InsertIntentFails(c)
  \/ LookupIntent(c) \/ LookupIntentFails(c) \/ ReclaimOnRetry(c)
  \/ RecordOrder(c) \/ SubmitOrder(c) \/ SubmitOrderNotSent(c)
  \/ SubmitOrderReturns(c) \/ SubmitOrderTimesOut(c) \/ SubmitOrderBreaks(c)
  \/ RecordRejection(c) \/ FinalizeRejection(c)
  \/ RecordAcceptance(c) \/ FinalizeAcceptance(c)

Loops ==
  \/ \E i \in Intents : GrowStale(i) \/ SweepReclaim(i) \/ SweepReclaimFails(i)
  \/ SweepSelect
  \/ ListBrokerOrders
  \/ \E i \in Intents, c \in Placings : ResolveUnknown(i, c)

Next ==
  \/ \E c \in Placings : Handler(c) \/ BrokerDecides(c) \/ BrokerSettles(c)
  \/ Loops
  \/ \E S \in SUBSET InProgress : Crash(S)

Spec == Init /\ [][Next]_vars

(***************************************************************************)
(* Fairness.  Time passes; the sweeper and the reconciliation poller run   *)
(* on tickers for as long as the service is up, and a database error on    *)
(* one tick is not repeated on every tick.  Nothing is assumed of the      *)
(* handlers, of their callers or of the broker.                            *)
(***************************************************************************)
Fairness ==
  /\ WF_vars(SweepSelect)
  /\ WF_vars(ListBrokerOrders)
  /\ \A i \in Intents :
       /\ WF_vars(GrowStale(i))
       /\ SF_vars(SweepReclaim(i))
       /\ SF_vars(\E c \in Placings : ResolveUnknown(i, c))

FairSpec == Spec /\ Fairness

(***************************************************************************)
(* Properties.                                                             *)
(***************************************************************************)

\* At most one call ever submits a given intent to a broker, whatever the
\* interleaving of retries, timeouts, sweeps, resolutions and crashes.
\* IBKR has no deduplication of its own: InsertIntent is the only guard.
OneSubmissionPerIntent ==
  \A c, d \in sent : req[c].intent = req[d].intent => c = d

\* A COMPLETED intent has an order the broker really took on: neither the
\* late answer of a reclaimed call nor the resolver completes anything else.
CompletedIntentReachedBroker ==
  \A i \in Intents : row[i].state = "COMPLETED" =>
     \E c \in sent : req[c].intent = i /\ broker[c] \in Listed

\* A retry that is answered from the table gets the order of a request with
\* the same client_order_id and the same content, and it never causes an
\* order of its own.
StoredAnswerIsSameRequest ==
  \A c \in Placings : told[c].kind = "stored" =>
     /\ c \notin sent
     /\ told[c].order # Nil => req[told[c].order] = req[c]

\* However many retries and sweep ticks find the same stale row, the ledger
\* gets at most one order_intent.reclaimed_unknown for it, and an intent
\* whose owner's own answer was recorded gets none.
ReclaimAuditedOnce ==
  \A i \in Intents :
    /\ reclaimEvents[i] <= 1
    /\ row[i].stored # Nil => reclaimEvents[i] = 0

\* A verdict and its stored response never change; an UNKNOWN intent never
\* goes back to PENDING, and leaves UNKNOWN only on the evidence of an order
\* the broker holds.
VerdictStep(i) ==
  /\ row[i].state \in Verdicts => row'[i] = row[i]
  /\ row[i].state = "UNKNOWN" =>
       \/ row'[i] = row[i]
       \/ /\ row'[i].state \in Verdicts
          /\ \E c \in sent : req[c].intent = i /\ broker[c] \in Listed
VerdictsAreFinal == [][\A i \in Intents : VerdictStep(i)]_vars

\* No intent stays PENDING for ever: a crashed or timed-out owner's row is
\* reclaimed by the sweeper even if nobody retries.
PendingIsTemporary ==
  \A i \in Intents : row[i].state = "PENDING" ~> row[i].state # "PENDING"

\* On an Alpaca account an UNKNOWN intent whose order works at the broker is
\* eventually completed by the reconciliation poller.
WorkingAtBroker(i) == \E c \in sent : req[c].intent = i /\ broker[c] = "working"
UnknownIsResolved ==
  \A i \in AlpacaIntents :
    row[i].state = "UNKNOWN" /\ WorkingAtBroker(i) ~> row[i].state = "COMPLETED"

\* What isUncertainBrokerOutcome promises: a call the broker may have
\* processed is not marked REJECTED.  SubmitOrderBreaks breaks the promise.
RejectedIntentNotWorking ==
  \A i \in Intents : row[i].state = "REJECTED" => ~WorkingAtBroker(i)

\* OrderSubmission implements IntentOutcome: the row's state is the outcome,
\* and an intent is submitted once some call has sent it.
Submitted == {i \in Intents : \E c \in sent : req[c].intent = i}
Outcome == INSTANCE IntentOutcome WITH
             outcome <- [i \in Intents |-> row[i].state], submitted <- Submitted
ImplementsIntentOutcome == Outcome!Spec
============================================================================
