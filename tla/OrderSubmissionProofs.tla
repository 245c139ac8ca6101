----------------------- MODULE OrderSubmissionProofs -----------------------
(***************************************************************************)
(* Proofs about OrderSubmission for every set of calls, intents and        *)
(* contents.  The inductive invariant names, for each intent, the one call *)
(* that owns it: the call whose INSERT created the row.                    *)
(***************************************************************************)
EXTENDS OrderSubmission, TLAPS

\* Steps of submitOrder that only the call whose InsertIntent created the row
\* can reach.
OwnerPCs == {"record", "submit", "await", "accept", "finalizeAccept",
             "reject", "finalizeReject"}

Owner(c) == pc[c] \in OwnerPCs \/ c \in sent

\* Calls that have a request: all but the idle ones and those a gate refused.
RequestPCs == PCs \ {"idle", "done", "crashed"}

\* Where a call can be once its order has left the process.
SentPCs == {"await", "accept", "finalizeAccept", "reject", "finalizeReject",
            "done", "crashed"}

RequestInv ==
  /\ \A c \in Placings : pc[c] \in RequestPCs \/ c \in sent => req[c] \in Requests
  /\ \A c \in sent : pc[c] \in SentPCs

OwnerInv ==
  /\ \A c \in Placings : Owner(c) => row[req[c].intent].state # "ABSENT"
  /\ \A c, d \in Placings : Owner(c) /\ Owner(d) /\ req[c].intent = req[d].intent => c = d

\* A call that has not been submitted yet owns a row without a verdict.
UnsentInv ==
  \A c \in Placings : pc[c] \in {"record", "submit"} =>
     row[req[c].intent].state \notin Verdicts

BrokerInv ==
  /\ \A c \in Placings : broker[c] # "none" => c \in sent
  /\ \A c \in Placings : listing[c] # "none" => broker[c] \in Listed
  /\ \A c \in Placings : pc[c] \in {"accept", "finalizeAccept"} => broker[c] \in Listed

ReachedInv == CompletedIntentReachedBroker

\* Before a row leaves PENDING nothing is stored and nothing was audited.
AuditInv ==
  /\ \A i \in Intents : row[i].state \in {"ABSENT", "PENDING"} => reclaimEvents[i] = 0
  /\ \A i \in Intents : row[i].state \notin Verdicts => row[i].stored = Nil
  /\ ReclaimAuditedOnce

IInv ==
  /\ TypeOK
  /\ RequestInv
  /\ OwnerInv
  /\ UnsentInv
  /\ BrokerInv
  /\ ReachedInv
  /\ AuditInv

(***************************************************************************)
(* Rows.                                                                   *)
(***************************************************************************)
Row == OrderIntentRecord(Contents \cup {Nil}, Placings \cup {Nil})

\* insertIntentSQL opens an absent row and leaves any other alone.
LEMMA InsertedRow ==
  ASSUME NEW rec \in Row, NEW k \in Contents
  PROVE  /\ InsertIntent(rec, k) \in Row
         /\ rec.state # "ABSENT" => InsertIntent(rec, k) = rec
         /\ rec.state = "ABSENT" => /\ InsertIntent(rec, k).state = "PENDING"
                                    /\ InsertIntent(rec, k).stored = rec.stored
  BY DEF Written, InsertIntent, Row, OrderIntentRecord, IntentStates

\* reclaimOrphanIntentSQL gives up a stale PENDING row and no other.
LEMMA ReclaimedRow ==
  ASSUME NEW rec \in Row
  PROVE  /\ ReclaimOrphanIntent(rec) \in Row
         /\ ~Reclaimable(rec) => ReclaimOrphanIntent(rec) = rec
         /\ Reclaimable(rec) => /\ rec.state = "PENDING"
                                /\ ReclaimOrphanIntent(rec).state = "UNKNOWN"
                                /\ ReclaimOrphanIntent(rec).stored = rec.stored
  BY DEF Written, ReclaimOrphanIntent, Reclaimable, Row, OrderIntentRecord, IntentStates

\* finalizeIntentSQL decides a PENDING row and no other.
LEMMA FinalizedRow ==
  ASSUME NEW rec \in Row, NEW s \in Verdicts, NEW c \in Placings
  PROVE  /\ FinalizeIntent(rec, s, c) \in Row
         /\ rec.state # "PENDING" => FinalizeIntent(rec, s, c) = rec
         /\ rec.state = "PENDING" => FinalizeIntent(rec, s, c).state = s
  BY DEF Written, FinalizeIntent, Row, OrderIntentRecord, IntentStates, Verdicts

\* resolveUnknownIntentSQL decides an UNKNOWN row.
LEMMA ResolvedRow ==
  ASSUME NEW rec \in Row, NEW s \in Verdicts, rec.state = "UNKNOWN"
  PROVE  /\ ResolveUnknownIntent(rec, s, Nil) \in Row
         /\ ResolveUnknownIntent(rec, s, Nil).state = s
         /\ ResolveUnknownIntent(rec, s, Nil).stored = Nil
  BY DEF Written, ResolveUnknownIntent, Row, OrderIntentRecord, IntentStates, Verdicts

\* Growing old changes neither the state nor the response.
LEMMA AgedRow ==
  ASSUME NEW rec \in Row
  PROVE  Aged(rec) \in Row /\ Aged(rec).stored = rec.stored /\ Aged(rec).state = rec.state
  BY DEF Aged, Row, OrderIntentRecord

\* Every row of the table is typed.
LEMMA RowTyped ==
  ASSUME TypeOK
  PROVE  row \in [Intents -> Row] /\ \A i \in Intents : row[i] \in Row
  BY DEF TypeOK, Row

\* A conditional write of one row by a typed value.
LEMMA RowPoint ==
  ASSUME TypeOK, NEW i \in Intents, NEW r \in Row, row' = [row EXCEPT ![i] = r]
  PROVE  /\ row'[i] = r
         /\ \A j \in Intents : j # i => row'[j] = row[j]
         /\ row' \in [Intents -> Row]
  BY DEF TypeOK, Row

\* A call inside submitOrder, or one whose order was sent, has a request.
LEMMA Placed ==
  ASSUME IInv, NEW c \in Placings, pc[c] \in RequestPCs \/ c \in sent
  PROVE  req[c] \in Requests /\ req[c].intent \in Intents /\ req[c].content \in Contents
  BY DEF IInv, RequestInv, Requests

(***************************************************************************)
(* What one step does to the table: at most one row moves, in one of five  *)
(* ways.  Every later proof about rows uses this instead of the actions.   *)
(***************************************************************************)
Kept == row' = row /\ reclaimEvents' = reclaimEvents

Opened(i) ==
  /\ row[i].state = "ABSENT" /\ row'[i].state = "PENDING"
  /\ row'[i].stored = row[i].stored
  /\ reclaimEvents' = reclaimEvents

Older(i) ==
  /\ row[i].state = "PENDING" /\ row'[i].state = "PENDING"
  /\ row'[i].stored = row[i].stored
  /\ reclaimEvents' = reclaimEvents

Lost(i) ==
  /\ row[i].state = "PENDING" /\ row'[i].state = "UNKNOWN"
  /\ row'[i].stored = row[i].stored
  /\ reclaimEvents' = [reclaimEvents EXCEPT ![i] = @ + 1]

Settled(i, c) ==
  /\ row[i].state = "PENDING" /\ req[c].intent = i
  /\ \/ row'[i].state = "REJECTED" /\ pc[c] = "finalizeReject"
     \/ row'[i].state = "COMPLETED" /\ pc[c] = "finalizeAccept"
  /\ reclaimEvents' = reclaimEvents

Resolved(i, c) ==
  /\ row[i].state = "UNKNOWN" /\ req[c].intent = i
  /\ row'[i].state \in Verdicts /\ row'[i].stored = Nil
  /\ c \in sent /\ broker[c] \in Listed
  /\ reclaimEvents' = reclaimEvents

Moved(i) ==
  /\ \/ Opened(i) \/ Older(i) \/ Lost(i)
     \/ \E c \in Placings : Settled(i, c) \/ Resolved(i, c)
  /\ \A j \in Intents : j # i => row'[j] = row[j]

RowStep ==
  /\ row' \in [Intents -> Row]
  /\ Kept \/ \E i \in Intents : Moved(i)

\* The INSERT opens the row or changes nothing.
LEMMA InsertMoves ==
  ASSUME IInv, NEW c \in Placings, pc[c] = "insert", reclaimEvents' = reclaimEvents,
         row' = [row EXCEPT ![req[c].intent] = InsertIntent(row[req[c].intent], req[c].content)]
  PROVE  RowStep
  <1> DEFINE i == req[c].intent
             r == InsertIntent(row[i], req[c].content)
  <1>1. i \in Intents /\ req[c].content \in Contents /\ TypeOK
    BY Placed DEF RequestPCs, PCs, IInv
  <1>2. row[i] \in Row /\ r \in Row /\ row' = [row EXCEPT ![i] = r]
    BY <1>1, RowTyped, InsertedRow
  <1>3. row' \in [Intents -> Row] /\ row'[i] = r /\ \A j \in Intents : j # i => row'[j] = row[j]
    BY ONLY <1>1, <1>2, RowPoint
  <1>4. CASE row[i].state = "ABSENT"
    BY <1>1, <1>2, <1>3, <1>4, InsertedRow DEF RowStep, Moved, Opened
  <1>5. CASE row[i].state # "ABSENT"
    <2>1. r = row[i]
      BY <1>1, <1>2, <1>5, InsertedRow
    <2>2. row' = row
      BY ONLY <2>1, <1>1, <1>2, <1>3, RowTyped
    <2> QED BY <2>2, <1>3 DEF RowStep, Kept
  <1> QED BY <1>4, <1>5

\* A reclaim loses the row and audits it, or changes nothing.
LEMMA ReclaimMoves ==
  ASSUME IInv, NEW i \in Intents, Reclaim(i)
  PROVE  RowStep
  <1> DEFINE r == ReclaimOrphanIntent(row[i])
  <1>1. TypeOK
    BY DEF IInv
  <1>2. row[i] \in Row /\ r \in Row /\ row' = [row EXCEPT ![i] = r]
    BY <1>1, RowTyped, ReclaimedRow DEF Reclaim
  <1>3. row' \in [Intents -> Row] /\ row'[i] = r /\ \A j \in Intents : j # i => row'[j] = row[j]
    BY ONLY <1>1, <1>2, RowPoint
  <1>4. CASE Reclaimable(row[i])
    <2>1. reclaimEvents' = [reclaimEvents EXCEPT ![i] = @ + 1]
      BY <1>4 DEF Reclaim
    <2> QED BY <1>2, <1>3, <1>4, <2>1, ReclaimedRow DEF RowStep, Moved, Lost
  <1>5. CASE ~Reclaimable(row[i])
    <2>1. r = row[i] /\ reclaimEvents' = [reclaimEvents EXCEPT ![i] = @]
      BY <1>2, <1>5, ReclaimedRow DEF Reclaim
    <2>2. row' = row
      BY ONLY <2>1, <1>1, <1>2, <1>3, RowTyped
    <2>3. reclaimEvents' = reclaimEvents
      BY <2>1, <1>1 DEF TypeOK
    <2> QED BY <2>2, <2>3, <1>3 DEF RowStep, Kept
  <1> QED BY <1>4, <1>5

\* The owner's own verdict lands on a PENDING row or on nothing.
LEMMA FinalizeMoves ==
  ASSUME IInv, NEW c \in Placings, NEW s \in Verdicts, Finalize(c, s),
         reclaimEvents' = reclaimEvents,
         \/ s = "REJECTED" /\ pc[c] = "finalizeReject"
         \/ s = "COMPLETED" /\ pc[c] = "finalizeAccept"
  PROVE  RowStep
  <1> DEFINE i == req[c].intent
             r == FinalizeIntent(row[i], s, c)
  <1>1. i \in Intents /\ TypeOK
    BY Placed DEF RequestPCs, PCs, IInv
  <1>2. row[i] \in Row /\ r \in Row
    BY <1>1, RowTyped, FinalizedRow
  <1>3. CASE row' = row
    BY <1>1, <1>3, RowTyped DEF RowStep, Kept
  <1>4. CASE row' = [row EXCEPT ![i] = r]
    <2>1. row' \in [Intents -> Row] /\ row'[i] = r /\ \A j \in Intents : j # i => row'[j] = row[j]
      BY ONLY <1>1, <1>2, <1>4, RowPoint
    <2>2. CASE row[i].state = "PENDING"
      <3>1. r.state = s
        BY <1>2, <2>2, FinalizedRow
      <3>2. Settled(i, c)
        BY <3>1, <2>1, <2>2 DEF Settled
      <3> QED BY <3>2, <2>1, <1>1 DEF RowStep, Moved
    <2>3. CASE row[i].state # "PENDING"
      <3>1. r = row[i]
        BY <1>2, <2>3, FinalizedRow
      <3>2. row' = row
        BY ONLY <3>1, <2>1, <1>1, RowTyped
      <3> QED BY <3>2, <2>1 DEF RowStep, Kept
    <2> QED BY <2>2, <2>3
  <1> QED BY <1>3, <1>4 DEF Finalize

\* Every step is a RowStep.
LEMMA RowMoves ==
  ASSUME IInv, [Next]_vars
  PROVE  RowStep
  <1>1. TypeOK /\ row \in [Intents -> Row]
    BY RowTyped DEF IInv
  <1>2. Kept => RowStep
    BY <1>1 DEF RowStep, Kept
  <1>3. ASSUME NEW c \in Placings, Handler(c) PROVE RowStep
    <2>1. CASE InsertOrFindIntent(c)
      BY <2>1, InsertMoves DEF InsertOrFindIntent
    <2>2. CASE InsertIntentFails(c)
      BY <2>2, <1>2, InsertMoves DEF InsertIntentFails, Kept
    <2>3. CASE ReclaimOnRetry(c)
      <3>1. req[c].intent \in Intents
        BY <2>3, Placed DEF ReclaimOnRetry, RequestPCs, PCs
      <3> QED BY <2>3, <3>1, <1>2, ReclaimMoves DEF ReclaimOnRetry, Kept
    <2>4. CASE FinalizeRejection(c)
      BY <2>4, FinalizeMoves DEF FinalizeRejection, Verdicts
    <2>5. CASE FinalizeAcceptance(c)
      BY <2>5, FinalizeMoves DEF FinalizeAcceptance, Verdicts
    <2>6. CASE \/ PlaceOrderRefused(c) \/ (\E i \in Intents, k \in Contents : PlaceOrder(c, i, k))
               \/ ParkForApproval(c) \/ LookupIntent(c) \/ LookupIntentFails(c)
      BY <2>6, <1>2 DEF Kept, PlaceOrderRefused, PlaceOrder, ParkForApproval, LookupIntent,
                        LookupIntentFails
    <2>7. CASE \/ RecordOrder(c) \/ SubmitOrder(c) \/ SubmitOrderNotSent(c)
               \/ SubmitOrderReturns(c) \/ SubmitOrderTimesOut(c) \/ SubmitOrderBreaks(c)
               \/ RecordRejection(c) \/ RecordAcceptance(c)
      BY <2>7, <1>2 DEF Kept, RecordOrder, SubmitOrder, SubmitOrderNotSent, SubmitOrderReturns,
                        SubmitOrderTimesOut, SubmitOrderBreaks, RecordRejection, RecordAcceptance
    <2> QED BY <1>3, <2>1, <2>2, <2>3, <2>4, <2>5, <2>6, <2>7 DEF Handler
  <1>4. ASSUME NEW i \in Intents, GrowStale(i) PROVE RowStep
    <2>1. row[i] \in Row /\ Aged(row[i]) \in Row /\ row' = [row EXCEPT ![i] = Aged(row[i])]
      BY <1>4, <1>1, AgedRow DEF GrowStale
    <2>2. /\ row' \in [Intents -> Row] /\ row'[i] = Aged(row[i])
          /\ \A j \in Intents : j # i => row'[j] = row[j]
      BY ONLY <1>1, <2>1, RowPoint, <1>4
    <2>3. Older(i)
      BY <1>4, <2>1, <2>2, AgedRow DEF GrowStale, Older
    <2> QED BY <2>2, <2>3 DEF RowStep, Moved
  <1>5. ASSUME NEW i \in Intents, SweepReclaim(i) PROVE RowStep
    BY <1>5, ReclaimMoves DEF SweepReclaim
  <1>6. ASSUME NEW i \in Intents, NEW c \in Placings, ResolveUnknown(i, c) PROVE RowStep
    <2> DEFINE s == VerdictOf(listing[c])
               r == ResolveUnknownIntent(row[i], s, Nil)
    <2>1. s \in Verdicts /\ row[i].state = "UNKNOWN" /\ row[i] \in Row
      BY <1>6, <1>1 DEF ResolveUnknown, VerdictOf, Verdicts
    <2>2. r \in Row /\ r.state = s /\ r.stored = Nil /\ row' = [row EXCEPT ![i] = r]
      BY <1>6, <2>1, ResolvedRow DEF ResolveUnknown
    <2>3. row' \in [Intents -> Row] /\ row'[i] = r /\ \A j \in Intents : j # i => row'[j] = row[j]
      BY ONLY <1>1, <2>2, RowPoint, <1>6
    <2>4. c \in sent /\ broker[c] \in Listed
      BY <1>6 DEF ResolveUnknown, IInv, BrokerInv, Listed
    <2>5. Resolved(i, c)
      BY <1>6, <2>1, <2>2, <2>3, <2>4 DEF ResolveUnknown, Resolved
    <2> QED BY <2>3, <2>5 DEF RowStep, Moved
  <1>7. CASE \/ \E c \in Placings : BrokerDecides(c) \/ BrokerSettles(c)
             \/ \E i \in Intents : SweepReclaimFails(i)
             \/ SweepSelect \/ ListBrokerOrders
             \/ \E S \in SUBSET InProgress : Crash(S)
    BY <1>7, <1>2 DEF Kept, BrokerDecides, BrokerSettles, SweepReclaimFails, SweepSelect,
                      ListBrokerOrders, Crash
  <1>8. CASE UNCHANGED vars
    BY <1>8, <1>2 DEF Kept, vars
  <1> QED BY <1>3, <1>4, <1>5, <1>6, <1>7, <1>8 DEF Next, Loops

(***************************************************************************)
(* What one step does to the calls.                                        *)
(***************************************************************************)
Claimed(c) ==
  /\ pc[c] = "insert" /\ pc'[c] = "record"
  /\ row[req[c].intent].state = "ABSENT" /\ row'[req[c].intent].state = "PENDING"

CallStep ==
  /\ sent \subseteq sent' /\ sent' \subseteq Placings
  /\ \A d \in Placings : d \in sent' => d \in sent \/ pc[d] = "submit"
  /\ \A d \in Placings : pc[d] # "idle" => req'[d] = req[d]
  /\ \A d \in Placings : pc'[d] \in OwnerPCs => pc[d] \in OwnerPCs \/ Claimed(d)
  /\ \A d \in Placings : pc'[d] \in {"record", "submit"} =>
                         pc[d] \in {"record", "submit"} \/ Claimed(d)
  /\ \A c, d \in Placings : Claimed(c) /\ Claimed(d) => c = d
  /\ \A d \in Placings : broker[d] \in Listed => broker'[d] \in Listed

\* A step that moves one call between two steps of submitOrder.
LEMMA CallMovesOne ==
  ASSUME IInv, NEW c \in Placings, NEW l \in PCs, MoveTo(c, l),
         UNCHANGED <<req, sent, broker>>,
         l \in OwnerPCs => pc[c] \in OwnerPCs \/ Claimed(c),
         l \in {"record", "submit"} => pc[c] \in {"record", "submit"} \/ Claimed(c)
  PROVE  CallStep
  BY DEF CallStep, MoveTo, IInv, TypeOK, Claimed

\* A call owns the intent after InsertOrFindIntent only if it wrote the row.
LEMMA InsertClaims ==
  ASSUME IInv, NEW c \in Placings, InsertOrFindIntent(c)
  PROVE  pc'[c] = "record" => Claimed(c)
  <1> DEFINE i == req[c].intent
             r == InsertIntent(row[i], req[c].content)
  <1>1. i \in Intents /\ req[c].content \in Contents /\ TypeOK
    BY Placed DEF InsertOrFindIntent, RequestPCs, PCs, IInv
  <1>2. row[i] \in Row /\ r \in Row /\ row' = [row EXCEPT ![i] = r]
    BY <1>1, RowTyped, InsertedRow DEF InsertOrFindIntent
  <1>3. row'[i] = r
    BY ONLY <1>1, <1>2, RowPoint
  <1>4. pc'[c] = "record" => row[i].state = "ABSENT" /\ pc[c] = "insert"
    BY <1>1 DEF InsertOrFindIntent, MoveTo, TypeOK
  <1> QED BY <1>1, <1>2, <1>3, <1>4, InsertedRow DEF Claimed

\* Every step is a CallStep.
LEMMA CallMoves ==
  ASSUME IInv, [Next]_vars
  PROVE  CallStep
  <1>1. TypeOK
    BY DEF IInv
  <1>2. ASSUME NEW c \in Placings, Handler(c) PROVE CallStep
    <2>1. CASE InsertOrFindIntent(c)
      <3>1. \E l \in PCs : MoveTo(c, l) /\ l \in {"record", "lookup"}
        BY <2>1 DEF InsertOrFindIntent, PCs
      <3>2. PICK l \in PCs : MoveTo(c, l) /\ l \in {"record", "lookup"}
        BY <3>1
      <3>3. pc'[c] = l
        BY <3>2, <1>1 DEF MoveTo, TypeOK
      <3> QED BY <2>1, <3>2, <3>3, InsertClaims, CallMovesOne DEF InsertOrFindIntent, OwnerPCs, world
    <2>2. CASE SubmitOrder(c)
      BY <2>2, <1>1 DEF SubmitOrder, MoveTo, TypeOK, CallStep, OwnerPCs, Claimed
    <2>3. CASE \E i \in Intents, k \in Contents : PlaceOrder(c, i, k)
      BY <2>3, <1>1 DEF PlaceOrder, MoveTo, TypeOK, CallStep, OwnerPCs, Claimed, world
    <2>4. CASE \/ PlaceOrderRefused(c) \/ ParkForApproval(c) \/ InsertIntentFails(c)
               \/ LookupIntentFails(c) \/ ReclaimOnRetry(c) \/ SubmitOrderTimesOut(c)
               \/ FinalizeRejection(c) \/ FinalizeAcceptance(c)
      <3>1. MoveTo(c, "done") /\ UNCHANGED <<req, sent, broker>>
        BY <2>4 DEF PlaceOrderRefused, ParkForApproval, InsertIntentFails, LookupIntentFails,
             ReclaimOnRetry, SubmitOrderTimesOut, FinalizeRejection, FinalizeAcceptance,
             Reply, world
      <3> QED BY <3>1, CallMovesOne DEF PCs, OwnerPCs
    <2>5. CASE LookupIntent(c)
      <3>1. \E l \in {"done", "reclaim"} : MoveTo(c, l) /\ UNCHANGED <<req, sent, broker>>
        BY <2>5 DEF LookupIntent, Reply, world
      <3> QED BY <3>1, CallMovesOne DEF PCs, OwnerPCs
    <2>6. CASE RecordOrder(c)
      BY <2>6, CallMovesOne DEF RecordOrder, PCs, OwnerPCs, world
    <2>7. CASE SubmitOrderNotSent(c)
      <3>1. pc[c] = "submit" /\ \E l \in {"done", "reject"} : MoveTo(c, l) /\ UNCHANGED <<req, sent, broker>>
        BY <2>7 DEF SubmitOrderNotSent, Reply, world
      <3> QED BY <3>1, CallMovesOne DEF PCs, OwnerPCs
    <2>8. CASE SubmitOrderReturns(c)
      <3>1. pc[c] = "await" /\ \E l \in {"accept", "reject"} : MoveTo(c, l) /\ UNCHANGED <<req, sent, broker>>
        BY <2>8 DEF SubmitOrderReturns, world
      <3> QED BY <3>1, CallMovesOne DEF PCs, OwnerPCs
    <2>9. CASE SubmitOrderBreaks(c)
      BY <2>9, CallMovesOne DEF SubmitOrderBreaks, PCs, OwnerPCs, world
    <2>10. CASE RecordRejection(c)
      BY <2>10, CallMovesOne DEF RecordRejection, PCs, OwnerPCs, world
    <2>11. CASE RecordAcceptance(c)
      BY <2>11, CallMovesOne DEF RecordAcceptance, PCs, OwnerPCs, world
    <2> QED BY <1>2, <2>1, <2>2, <2>3, <2>4, <2>5, <2>6, <2>7, <2>8, <2>9, <2>10, <2>11 DEF Handler
  <1>3. ASSUME NEW c \in Placings, BrokerDecides(c) PROVE CallStep
    BY <1>3, <1>1 DEF BrokerDecides, TypeOK, CallStep, Claimed, Listed
  <1>4. ASSUME NEW c \in Placings, BrokerSettles(c) PROVE CallStep
    BY <1>4, <1>1 DEF BrokerSettles, TypeOK, CallStep, Claimed, Listed
  <1>5. CASE Loops \/ UNCHANGED vars
    <2>1. UNCHANGED <<pc, req, sent, broker>>
      BY <1>5 DEF Loops, GrowStale, SweepReclaim, SweepReclaimFails, SweepSelect, ListBrokerOrders,
                  ResolveUnknown, vars, world
    <2> QED BY <2>1, <1>1 DEF CallStep, TypeOK, Claimed
  <1>6. CASE \E S \in SUBSET InProgress : Crash(S)
    BY <1>6, <1>1 DEF Crash, InProgress, TypeOK, CallStep, OwnerPCs, Claimed, world
  <1> QED BY <1>2, <1>3, <1>4, <1>5, <1>6 DEF Next

(***************************************************************************)
(* The conjuncts of the inductive invariant.                               *)
(***************************************************************************)

\* The owner of an intent is unique: ownership begins with the INSERT that
\* creates the row, and a row is never deleted.
LEMMA OwnerInvStep ==
  ASSUME IInv, [Next]_vars
  PROVE  OwnerInv'
  <1>1. RowStep /\ CallStep
    BY RowMoves, CallMoves
  <1>2. \A j \in Intents : row[j].state # "ABSENT" => row'[j].state # "ABSENT"
    BY <1>1 DEF RowStep, Kept, Moved, Opened, Older, Lost, Settled, Resolved, Verdicts
  <1>3. \A d \in Placings : Owner(d) \/ Claimed(d) =>
          /\ req'[d] = req[d] /\ req[d].intent \in Intents
          /\ Claimed(d) => row[req[d].intent].state = "ABSENT" /\ row'[req[d].intent].state # "ABSENT"
    BY <1>1, Placed DEF CallStep, Owner, OwnerPCs, Claimed, RequestPCs, PCs, IInv, RequestInv, SentPCs
  <1>4. \A d \in Placings : Owner(d)' => Owner(d) \/ Claimed(d)
    BY <1>1 DEF CallStep, Owner, OwnerPCs
  <1>5. \A d \in Placings : Owner(d)' => row'[req'[d].intent].state # "ABSENT"
    BY <1>2, <1>3, <1>4 DEF IInv, OwnerInv
  <1>6. ASSUME NEW c \in Placings, NEW d \in Placings, Owner(c)', Owner(d)', req'[c].intent = req'[d].intent
        PROVE  c = d
    BY <1>1, <1>3, <1>4, <1>6 DEF IInv, OwnerInv, CallStep
  <1> QED BY <1>5, <1>6 DEF OwnerInv

\* Only the owner settles a row, and the resolver needs an order that was
\* sent, so a row whose owner has not called the broker has no verdict.
LEMMA UnsentInvStep ==
  ASSUME IInv, [Next]_vars
  PROVE  UnsentInv'
  <1>1. RowStep /\ CallStep
    BY RowMoves, CallMoves
  <1> SUFFICES ASSUME NEW d \in Placings, pc'[d] \in {"record", "submit"}
               PROVE  row'[req'[d].intent].state \notin Verdicts
    BY DEF UnsentInv
  <1>2. pc[d] \in {"record", "submit"} \/ Claimed(d)
    BY <1>1 DEF CallStep
  <1>3. req'[d] = req[d] /\ req[d].intent \in Intents
    BY <1>1, <1>2, Placed DEF CallStep, Claimed, RequestPCs, PCs
  <1>4. CASE Claimed(d)
    BY <1>3, <1>4 DEF Claimed, Verdicts
  <1>5. CASE pc[d] \in {"record", "submit"}
    <2> DEFINE i == req[d].intent
    <2>1. Owner(d) /\ d \notin sent /\ row[i].state \notin Verdicts
      BY <1>5 DEF Owner, OwnerPCs, IInv, RequestInv, SentPCs, UnsentInv
    <2>2. ASSUME NEW c \in Placings, Settled(i, c) \/ Resolved(i, c) PROVE FALSE
      <3>1. Owner(c) /\ req[c].intent = i /\ (c \in sent \/ pc[c] \in {"finalizeReject", "finalizeAccept"})
        BY <2>2 DEF Settled, Resolved, Owner, OwnerPCs
      <3>2. c = d
        BY <3>1, <2>1 DEF IInv, OwnerInv
      <3> QED BY <3>1, <3>2, <2>1, <1>5
    <2>3. row'[i].state \notin Verdicts
      BY <1>1, <1>3, <2>1, <2>2 DEF RowStep, Kept, Moved, Opened, Older, Lost, Verdicts
    <2> QED BY <2>3, <1>3
  <1> QED BY <1>2, <1>4, <1>5

\* A row becomes COMPLETED on the broker's answer or on the broker's list.
LEMMA ReachedInvStep ==
  ASSUME IInv, [Next]_vars
  PROVE  ReachedInv'
  <1>1. RowStep /\ CallStep
    BY RowMoves, CallMoves
  <1> SUFFICES ASSUME NEW i \in Intents, row'[i].state = "COMPLETED"
               PROVE  \E c \in sent' : req'[c].intent = i /\ broker'[c] \in Listed
    BY DEF ReachedInv, CompletedIntentReachedBroker
  <1>2. ASSUME NEW c \in Placings, c \in sent, req[c].intent = i, broker[c] \in Listed
        PROVE  \E d \in sent' : req'[d].intent = i /\ broker'[d] \in Listed
    BY <1>1, <1>2 DEF CallStep, IInv, RequestInv, SentPCs
  <1>3. CASE row[i].state = "COMPLETED"
    BY <1>2, <1>3 DEF IInv, TypeOK, ReachedInv, CompletedIntentReachedBroker
  <1>4. CASE row[i].state # "COMPLETED"
    <2>1. PICK c \in Placings : Settled(i, c) \/ Resolved(i, c)
      BY <1>1, <1>4 DEF RowStep, Kept, Moved, Opened, Older, Lost
    <2>2. req[c].intent = i /\ c \in sent /\ broker[c] \in Listed
      BY <2>1 DEF Settled, Resolved, IInv, BrokerInv, Listed
    <2> QED BY <1>2, <2>2
  <1> QED BY <1>3, <1>4

\* A row leaves PENDING once, and only the reclaim of a PENDING row audits it.
LEMMA AuditInvStep ==
  ASSUME IInv, [Next]_vars
  PROVE  AuditInv'
  <1>1. RowStep /\ reclaimEvents \in [Intents -> Nat]
    BY RowMoves DEF IInv, TypeOK
  <1>2. ASSUME NEW i \in Intents
        PROVE  /\ row'[i].state \in {"ABSENT", "PENDING"} => reclaimEvents'[i] = 0
               /\ row'[i].state \notin Verdicts => row'[i].stored = Nil
               /\ reclaimEvents'[i] <= 1
               /\ row'[i].stored # Nil => reclaimEvents'[i] = 0
    <2>1. /\ row[i].state \in {"ABSENT", "PENDING"} => reclaimEvents[i] = 0
          /\ row[i].state \notin Verdicts => row[i].stored = Nil
          /\ reclaimEvents[i] <= 1
          /\ row[i].stored # Nil => reclaimEvents[i] = 0
      BY DEF IInv, AuditInv, ReclaimAuditedOnce
    <2>2. CASE Kept
      BY <2>1, <2>2 DEF Kept
    <2>3. ASSUME NEW j \in Intents, Moved(j), j # i PROVE row'[i] = row[i] /\ reclaimEvents'[i] = reclaimEvents[i]
      BY <1>1, <2>3 DEF Moved, Opened, Older, Lost, Settled, Resolved
    <2>4. CASE Moved(i)
      BY <1>1, <2>1, <2>4 DEF Moved, Opened, Older, Lost, Settled, Resolved, Verdicts
    <2> QED BY <1>1, <2>1, <2>2, <2>3, <2>4 DEF RowStep
  <1> QED BY <1>2 DEF AuditInv, ReclaimAuditedOnce

\* The listing and an accepted answer show orders the broker lists.
LEMMA BrokerInvStep ==
  ASSUME IInv, [Next]_vars
  PROVE  BrokerInv'
  <1> USE DEF IInv, TypeOK, BrokerInv
  <1>1. ASSUME NEW c \in Placings, Handler(c) PROVE BrokerInv'
    <2>1. CASE \/ PlaceOrderRefused(c) \/ ParkForApproval(c) \/ InsertIntentFails(c)
               \/ LookupIntentFails(c) \/ ReclaimOnRetry(c) \/ SubmitOrderTimesOut(c)
               \/ FinalizeRejection(c) \/ FinalizeAcceptance(c)
      BY <2>1 DEF PlaceOrderRefused, ParkForApproval, InsertIntentFails, LookupIntentFails,
           ReclaimOnRetry, SubmitOrderTimesOut, FinalizeRejection, FinalizeAcceptance,
           Reply, MoveTo, world, tick
    <2>2. CASE \/ InsertOrFindIntent(c) \/ LookupIntent(c)
               \/ \E i \in Intents, k \in Contents : PlaceOrder(c, i, k)
      BY <2>2 DEF InsertOrFindIntent, LookupIntent, PlaceOrder, Reply, MoveTo, world, tick
    <2>3. CASE SubmitOrderNotSent(c) \/ RecordOrder(c) \/ SubmitOrderBreaks(c) \/ RecordRejection(c)
      BY <2>3 DEF SubmitOrderNotSent, RecordOrder, SubmitOrderBreaks, RecordRejection,
           Reply, MoveTo, world, tick
    <2>4. CASE SubmitOrderReturns(c)
      BY <2>4 DEF SubmitOrderReturns, MoveTo, world, tick, BrokerStates
    <2>5. CASE RecordAcceptance(c)
      BY <2>5 DEF RecordAcceptance, MoveTo, world, tick
    <2>6. CASE SubmitOrder(c)
      BY <2>6 DEF SubmitOrder, MoveTo, tick
    <2> QED BY <1>1, <2>1, <2>2, <2>3, <2>4, <2>5, <2>6 DEF Handler
  <1>2. ASSUME NEW c \in Placings, BrokerDecides(c) \/ BrokerSettles(c) PROVE BrokerInv'
    BY <1>2 DEF BrokerDecides, BrokerSettles, Listed, tick
  <1>3. CASE ListBrokerOrders
    BY <1>3 DEF ListBrokerOrders, world, Listed
  <1>4. CASE (Loops /\ ~ListBrokerOrders) \/ UNCHANGED vars
    BY <1>4 DEF Loops, GrowStale, SweepReclaim, SweepReclaimFails, SweepSelect, ResolveUnknown,
                vars, world, tick
  <1>5. CASE \E S \in SUBSET InProgress : Crash(S)
    BY <1>5 DEF Crash, world
  <1> QED BY <1>1, <1>2, <1>3, <1>4, <1>5 DEF Next

\* A call gets its request before anything else and keeps it.
LEMMA RequestInvStep ==
  ASSUME IInv, [Next]_vars
  PROVE  RequestInv'
  <1> USE DEF IInv, TypeOK, RequestInv, RequestPCs, SentPCs, PCs
  <1>1. ASSUME NEW c \in Placings, Handler(c) PROVE RequestInv'
    <2>1. CASE \/ PlaceOrderRefused(c) \/ ParkForApproval(c) \/ InsertIntentFails(c)
               \/ LookupIntentFails(c) \/ ReclaimOnRetry(c) \/ SubmitOrderTimesOut(c)
               \/ FinalizeRejection(c) \/ FinalizeAcceptance(c)
      <3>1. MoveTo(c, "done") /\ req' = req /\ sent' = sent /\ pc[c] # "submit" /\ (c \in sent => pc[c] # "idle")
        BY <2>1 DEF PlaceOrderRefused, ParkForApproval, InsertIntentFails, LookupIntentFails,
             ReclaimOnRetry, SubmitOrderTimesOut, FinalizeRejection, FinalizeAcceptance,
             Reply, world
      <3> QED BY <3>1 DEF MoveTo
    <2>2. CASE InsertOrFindIntent(c)
      <3>1. /\ pc[c] = "insert" /\ req' = req /\ sent' = sent
            /\ \E l \in {"record", "lookup"} : MoveTo(c, l)
        BY <2>2 DEF InsertOrFindIntent, world
      <3>2. c \notin sent
        BY <3>1
      <3> QED BY <3>1, <3>2 DEF MoveTo
    <2>3. CASE LookupIntent(c)
      <3>1. pc[c] = "lookup" /\ req' = req /\ sent' = sent /\ \E l \in {"done", "reclaim"} : MoveTo(c, l)
        BY <2>3 DEF LookupIntent, Reply, world
      <3> QED BY <3>1 DEF MoveTo
    <2>4. CASE \E i \in Intents, k \in Contents : PlaceOrder(c, i, k)
      <3>1. /\ pc[c] = "idle" /\ sent' = sent /\ (\E l \in {"park", "insert"} : MoveTo(c, l))
            /\ \E q \in Requests : req' = [req EXCEPT ![c] = q]
        BY <2>4 DEF PlaceOrder, Requests, world
      <3> QED BY <3>1 DEF MoveTo
    <2>5. CASE RecordOrder(c) \/ SubmitOrderNotSent(c)
      BY <2>5 DEF RecordOrder, SubmitOrderNotSent, Reply, MoveTo, world
    <2>6. CASE SubmitOrder(c)
      BY <2>6 DEF SubmitOrder, MoveTo
    <2>7. CASE SubmitOrderReturns(c) \/ SubmitOrderBreaks(c) \/ RecordRejection(c) \/ RecordAcceptance(c)
      BY <2>7 DEF SubmitOrderReturns, SubmitOrderBreaks, RecordRejection, RecordAcceptance, MoveTo, world
    <2> QED BY <1>1, <2>1, <2>2, <2>3, <2>4, <2>5, <2>6, <2>7 DEF Handler
  <1>2. CASE (\E c \in Placings : BrokerDecides(c) \/ BrokerSettles(c)) \/ Loops \/ UNCHANGED vars
    <2>1. UNCHANGED <<pc, req, sent>>
      BY <1>2 DEF BrokerDecides, BrokerSettles, Loops, GrowStale, SweepReclaim, SweepReclaimFails,
                  SweepSelect, ListBrokerOrders, ResolveUnknown, vars, world
    <2> QED BY <2>1
  <1>3. CASE \E S \in SUBSET InProgress : Crash(S)
    <2>1. PICK S \in SUBSET InProgress : Crash(S)
      BY <1>3
    <2> QED BY <2>1 DEF Crash, InProgress, world
  <1> QED BY <1>1, <1>2, <1>3 DEF Next

\* Reply keeps pc and answer in their types.
LEMMA ReplyTyped ==
  ASSUME TypeOK, NEW c \in Placings, NEW k \in Answers, NEW o \in Placings \cup {Nil}, Reply(c, k, o)
  PROVE  /\ pc' \in [Placings -> PCs]
         /\ told' \in [Placings -> [kind : Answers, order : Placings \cup {Nil}]]
  BY DEF TypeOK, Reply, MoveTo, PCs

\* The types of the variables other than the table and its audit events.
RestOK ==
  /\ orderRow \in [Placings -> OrderStatuses]
  /\ pc \in [Placings -> PCs]
  /\ req \in [Placings -> Requests \cup {Nil}]
  /\ told \in [Placings -> [kind : Answers, order : Placings \cup {Nil}]]
  /\ sent \subseteq Placings
  /\ broker \in [Placings -> BrokerStates]
  /\ sweepList \subseteq Intents
  /\ listing \in [Placings -> Listed \cup {"none"}]

\* Every step keeps these variables in their types.
LEMMA RestOKStep ==
  ASSUME IInv, [Next]_vars
  PROVE  RestOK'
  <1>1. TypeOK
    BY DEF IInv
  <1>2. ASSUME NEW c \in Placings, Handler(c) PROVE RestOK'
    <2> USE <1>1 DEF RestOK, world, tick
    <2>1. CASE PlaceOrderRefused(c) \/ InsertIntentFails(c) \/ LookupIntentFails(c) \/ ReclaimOnRetry(c)
      <3>1. \E k \in Answers : Reply(c, k, Nil)
        BY <2>1 DEF PlaceOrderRefused, InsertIntentFails, LookupIntentFails, ReclaimOnRetry, Answers
      <3> QED BY <2>1, <3>1, ReplyTyped
              DEF PlaceOrderRefused, InsertIntentFails, LookupIntentFails, ReclaimOnRetry, TypeOK
    <2>2. CASE \E i \in Intents, k \in Contents : PlaceOrder(c, i, k)
      BY <2>2 DEF PlaceOrder, MoveTo, TypeOK, PCs, Requests
    <2>3. CASE ParkForApproval(c) \/ SubmitOrderTimesOut(c)
      <3>1. \E k \in Answers : Reply(c, k, c)
        BY <2>3 DEF ParkForApproval, SubmitOrderTimesOut, Answers
      <3> QED BY <2>3, <3>1, ReplyTyped
              DEF ParkForApproval, SubmitOrderTimesOut, Persist, OrderStatuses, TypeOK
    <2>4. CASE InsertOrFindIntent(c)
      BY <2>4 DEF InsertOrFindIntent, MoveTo, TypeOK, PCs
    <2>5. CASE LookupIntent(c)
      <3>1. row[req[c].intent].stored \in Placings \cup {Nil}
        BY <2>5, Placed, RowTyped DEF LookupIntent, RequestPCs, PCs, Row, OrderIntentRecord
      <3>2. \/ \E k \in Answers, o \in Placings \cup {Nil} : Reply(c, k, o)
            \/ MoveTo(c, "reclaim") /\ told' = told
        BY <2>5, <3>1 DEF LookupIntent, Answers
      <3>3. /\ pc' \in [Placings -> PCs]
            /\ told' \in [Placings -> [kind : Answers, order : Placings \cup {Nil}]]
        BY <3>2, ReplyTyped DEF MoveTo, TypeOK, PCs
      <3> QED BY <2>5, <3>3 DEF LookupIntent, TypeOK
    <2>6. CASE RecordOrder(c) \/ RecordRejection(c) \/ RecordAcceptance(c)
      BY <2>6 DEF RecordOrder, RecordRejection, RecordAcceptance, Persist, MoveTo, OrderStatuses, TypeOK, PCs
    <2>7. CASE SubmitOrder(c) \/ SubmitOrderReturns(c) \/ SubmitOrderBreaks(c)
      BY <2>7 DEF SubmitOrder, SubmitOrderReturns, SubmitOrderBreaks, MoveTo, TypeOK, PCs
    <2>8. CASE SubmitOrderNotSent(c)
      <3>1. \/ Reply(c, "uncertain", c)
            \/ MoveTo(c, "reject") /\ told' = told
        BY <2>8 DEF SubmitOrderNotSent
      <3>2. /\ pc' \in [Placings -> PCs]
            /\ told' \in [Placings -> [kind : Answers, order : Placings \cup {Nil}]]
        BY <3>1, ReplyTyped DEF MoveTo, TypeOK, PCs, Answers
      <3> QED BY <2>8, <3>2 DEF SubmitOrderNotSent, TypeOK
    <2>9. CASE FinalizeRejection(c) \/ FinalizeAcceptance(c)
      <3>1. \E k \in Answers, o \in Placings \cup {Nil} : Reply(c, k, o)
        BY <2>9 DEF FinalizeRejection, FinalizeAcceptance, Answers
      <3> QED BY <2>9, <3>1, ReplyTyped DEF FinalizeRejection, FinalizeAcceptance, TypeOK
    <2> QED BY <1>2, <2>1, <2>2, <2>3, <2>4, <2>5, <2>6, <2>7, <2>8, <2>9 DEF Handler
  <1>3. ASSUME NEW c \in Placings, BrokerDecides(c) \/ BrokerSettles(c) PROVE RestOK'
    BY <1>1, <1>3 DEF BrokerDecides, BrokerSettles, TypeOK, RestOK, BrokerStates, Listed, tick
  <1>4. CASE Loops
    <2>1. CASE ListBrokerOrders
      BY <1>1, <2>1 DEF ListBrokerOrders, TypeOK, RestOK, world
    <2>2. CASE SweepSelect
      BY <1>1, <2>2 DEF SweepSelect, TypeOK, RestOK, world
    <2>3. ASSUME NEW i \in Intents, GrowStale(i) \/ \E c \in Placings : ResolveUnknown(i, c) PROVE RestOK'
      BY <1>1, <2>3 DEF GrowStale, ResolveUnknown, TypeOK, RestOK, world, tick
    <2>4. ASSUME NEW i \in Intents, SweepReclaim(i) \/ SweepReclaimFails(i) PROVE RestOK'
      BY <1>1, <2>4 DEF SweepReclaim, SweepReclaimFails, TypeOK, RestOK, world
    <2>5. CASE \E i \in Intents : GrowStale(i) \/ SweepReclaim(i) \/ SweepReclaimFails(i)
      BY <2>5, <2>3, <2>4
    <2>6. CASE \E i \in Intents, c \in Placings : ResolveUnknown(i, c)
      BY <2>6, <2>3
    <2> QED BY <1>4, <2>1, <2>2, <2>5, <2>6 DEF Loops
  <1>5. CASE \E S \in SUBSET InProgress : Crash(S)
    <2>1. PICK S \in SUBSET InProgress : Crash(S)
      BY <1>5
    <2> QED BY <1>1, <2>1 DEF Crash, InProgress, TypeOK, RestOK, PCs, world
  <1>6. CASE UNCHANGED vars
    BY <1>1, <1>6 DEF vars, TypeOK, RestOK
  <1>7. ASSUME NEW c \in Placings, BrokerDecides(c) \/ BrokerSettles(c) \/ Handler(c) PROVE RestOK'
    BY <1>2, <1>3, <1>7
  <1> QED BY <1>4, <1>5, <1>6, <1>7 DEF Next

\* Every step keeps every variable in its type.
LEMMA TypeOKStep ==
  ASSUME IInv, [Next]_vars
  PROVE  TypeOK'
  <1>1. TypeOK /\ RowStep /\ RestOK'
    BY RowMoves, RestOKStep DEF IInv
  <1>2. row' \in [Intents -> Row] /\ reclaimEvents' \in [Intents -> Nat]
    BY <1>1 DEF RowStep, Kept, Moved, Opened, Older, Lost, Settled, Resolved, TypeOK
  <1> QED BY <1>1, <1>2 DEF TypeOK, RestOK, Row

\* The initial state satisfies the inductive invariant.
LEMMA IInvInit == ASSUME Init PROVE IInv
  <1>1. TypeOK
    <2>1. row \in [Intents -> Row]
      BY DEF Init, Row, Absent, OrderIntentRecord, IntentStates
    <2> QED BY <2>1 DEF Init, TypeOK, Row, OrderStatuses, PCs, Answers, BrokerStates, Listed
  <1>2. \A i \in Intents : row[i].state = "ABSENT" /\ row[i].stored = Nil /\ reclaimEvents[i] = 0
    BY DEF Init, Absent
  <1>3. \A c \in Placings : pc[c] = "idle" /\ c \notin sent /\ broker[c] = "none" /\ listing[c] = "none"
    BY DEF Init
  <1>4. sent = {}
    BY DEF Init
  <1>5. RequestInv /\ OwnerInv /\ UnsentInv /\ BrokerInv
    BY <1>3, <1>4 DEF RequestInv, RequestPCs, OwnerInv, Owner, OwnerPCs, UnsentInv, BrokerInv
  <1>6. ReachedInv /\ AuditInv
    BY <1>2 DEF ReachedInv, CompletedIntentReachedBroker, AuditInv, ReclaimAuditedOnce
  <1> QED BY <1>1, <1>5, <1>6 DEF IInv

\* IInv is an invariant of the specification.
THEOREM Inductive == Spec => []IInv
  <1>1. IInv /\ [Next]_vars => IInv'
    BY TypeOKStep, RequestInvStep, OwnerInvStep, UnsentInvStep, BrokerInvStep, ReachedInvStep,
       AuditInvStep DEF IInv
  <1> QED BY <1>1, IInvInit, PTL DEF Spec

(***************************************************************************)
(* The results.                                                            *)
(***************************************************************************)

\* Every variable keeps its type, for any number of calls and intents.
THEOREM TypeCorrect == Spec => []TypeOK
  BY Inductive, PTL DEF IInv

\* At most one order per client_order_id ever leaves the process, whatever
\* retries, timeouts, sweeps, resolutions and crashes happen around it.
THEOREM OneSubmission == Spec => []OneSubmissionPerIntent
  <1>1. IInv => OneSubmissionPerIntent
    BY DEF IInv, TypeOK, OwnerInv, Owner, OneSubmissionPerIntent
  <1> QED BY <1>1, Inductive, PTL

\* A COMPLETED intent always has an order the broker took on.
THEOREM CompletedReached == Spec => []CompletedIntentReachedBroker
  BY Inductive, PTL DEF IInv, ReachedInv

\* order_intent.reclaimed_unknown is emitted at most once per intent, and
\* never for an intent its owner settled.
THEOREM AuditedOnce == Spec => []ReclaimAuditedOnce
  BY Inductive, PTL DEF IInv, AuditInv

\* A verdict and its response never change, and UNKNOWN is left only on the
\* evidence of an order the broker holds.
THEOREM Final == Spec => VerdictsAreFinal
  <1>1. ASSUME IInv, [Next]_vars, NEW i \in Intents PROVE VerdictStep(i)
    <2>1. RowStep
      BY <1>1, RowMoves
    <2>2. ASSUME NEW j \in Intents, Moved(j), j # i PROVE row'[i] = row[i]
      BY <2>2 DEF Moved
    <2>3. CASE Moved(i)
      BY <2>3 DEF Moved, Opened, Older, Lost, Settled, Resolved, Verdicts, VerdictStep
    <2> QED BY <2>1, <2>2, <2>3 DEF RowStep, Kept, VerdictStep
  <1>2. IInv /\ [Next]_vars => [\A i \in Intents : VerdictStep(i)]_vars
    BY <1>1
  <1> QED BY <1>2, Inductive, PTL DEF Spec, VerdictsAreFinal

(***************************************************************************)
(* Answers from the table.                                                 *)
(***************************************************************************)

\* The row of an owned intent keeps the owner's request content, and what is
\* stored in a row is the order of a request for that intent and content.
ContentInv ==
  /\ \A c \in Placings : pc[c] \in OwnerPCs => row[req[c].intent].content = req[c].content
  /\ \A i \in Intents : row[i].stored # Nil =>
        LET o == row[i].stored IN
        /\ o \in Placings /\ pc[o] # "idle"
        /\ req[o] \in Requests /\ req[o].intent = i /\ req[o].content = row[i].content

\* A call that was answered from the table has ended without sending an order.
AnsweredInv ==
  \A c \in Placings : told[c].kind = "stored" =>
     /\ pc[c] = "done" /\ c \notin sent
     /\ told[c].order # Nil =>
          LET o == told[c].order IN
          o \in Placings /\ pc[o] # "idle" /\ req[o] = req[c]

\* The writes of the repository, as the steps of the specification make them.
Inserts(c) ==
  /\ pc[c] = "insert"
  /\ row' = [row EXCEPT ![req[c].intent] = InsertIntent(row[req[c].intent], req[c].content)]
  /\ \A d \in Placings \ {c} : pc'[d] = pc[d]

Finalizes(c, s) ==
  /\ pc[c] \in {"finalizeReject", "finalizeAccept"}
  /\ row' = [row EXCEPT ![req[c].intent] = FinalizeIntent(row[req[c].intent], s, c)]

Maintains(i) ==
  \/ row' = [row EXCEPT ![i] = ReclaimOrphanIntent(row[i])]
  \/ row' = [row EXCEPT ![i] = Aged(row[i])]
  \/ /\ row[i].state = "UNKNOWN"
     /\ \E s \in Verdicts : row' = [row EXCEPT ![i] = ResolveUnknownIntent(row[i], s, Nil)]

LEMMA TableWrites ==
  ASSUME IInv, [Next]_vars
  PROVE  \/ row' = row
         \/ \E c \in Placings : Inserts(c) \/ \E s \in Verdicts : Finalizes(c, s)
         \/ \E i \in Intents : Maintains(i)
  <1>1. TypeOK
    BY DEF IInv
  <1>2. ASSUME NEW c \in Placings, Handler(c)
        PROVE  \/ row' = row \/ Inserts(c) \/ (\E s \in Verdicts : Finalizes(c, s))
               \/ \E i \in Intents : Maintains(i)
    <2>1. CASE InsertOrFindIntent(c) \/ InsertIntentFails(c)
      BY <1>1, <2>1 DEF InsertOrFindIntent, InsertIntentFails, Reply, MoveTo, Inserts, TypeOK
    <2>2. CASE ReclaimOnRetry(c)
      <3>1. req[c].intent \in Intents
        BY <2>2, Placed DEF ReclaimOnRetry, RequestPCs, PCs
      <3> QED BY <2>2, <3>1 DEF ReclaimOnRetry, Reclaim, Maintains
    <2>3. CASE FinalizeRejection(c) \/ FinalizeAcceptance(c)
      BY <2>3 DEF FinalizeRejection, FinalizeAcceptance, Finalize, Finalizes, Verdicts
    <2>4. CASE \/ PlaceOrderRefused(c) \/ (\E i \in Intents, k \in Contents : PlaceOrder(c, i, k))
               \/ ParkForApproval(c) \/ LookupIntent(c) \/ LookupIntentFails(c)
               \/ RecordOrder(c) \/ SubmitOrder(c) \/ SubmitOrderNotSent(c)
               \/ SubmitOrderReturns(c) \/ SubmitOrderTimesOut(c) \/ SubmitOrderBreaks(c)
               \/ RecordRejection(c) \/ RecordAcceptance(c)
      BY <2>4 DEF PlaceOrderRefused, PlaceOrder, ParkForApproval, LookupIntent, LookupIntentFails,
                  RecordOrder, SubmitOrder, SubmitOrderNotSent, SubmitOrderReturns,
                  SubmitOrderTimesOut, SubmitOrderBreaks, RecordRejection, RecordAcceptance
    <2> QED BY <1>2, <2>1, <2>2, <2>3, <2>4 DEF Handler
  <1>3. CASE \E c \in Placings : BrokerDecides(c) \/ BrokerSettles(c)
    BY <1>3 DEF BrokerDecides, BrokerSettles
  <1>4. CASE Loops
    BY <1>4 DEF Loops, GrowStale, SweepReclaim, SweepReclaimFails, SweepSelect, ListBrokerOrders,
                ResolveUnknown, Reclaim, VerdictOf, Verdicts, Maintains
  <1>5. CASE (\E S \in SUBSET InProgress : Crash(S)) \/ UNCHANGED vars
    BY <1>5 DEF Crash, vars
  <1> QED BY <1>2, <1>3, <1>4, <1>5 DEF Next

\* No write changes the content of a row, and only the owner stores an order.
LEMMA ContentStays ==
  ASSUME IInv, [Next]_vars, NEW i \in Intents
  PROVE  /\ row[i].state # "ABSENT" => row'[i].content = row[i].content
         /\ \/ row'[i].stored = row[i].stored \/ row'[i].stored = Nil
            \/ \E c \in Placings : /\ row'[i].stored = c /\ row[i].state # "ABSENT"
                                   /\ pc[c] \in OwnerPCs /\ req[c].intent = i
         /\ row[i].state = "ABSENT" =>
              \/ row'[i].state = "ABSENT"
              \/ \E c \in Placings : /\ pc[c] = "insert" /\ req[c].intent = i
                                     /\ row'[i].content = req[c].content
                                     /\ \A d \in Placings \ {c} : pc'[d] = pc[d]
  <1>1. row \in [Intents -> Row] /\ row[i] \in Row
    BY RowTyped DEF IInv
  <1>2. row[i].state = "ABSENT" => row[i].stored = Nil
    BY DEF IInv, AuditInv, Verdicts
  <1>3. CASE row' = row
    BY <1>3
  <1>4. ASSUME NEW c \in Placings, Inserts(c), req[c].intent = i
        PROVE  /\ row[i].state # "ABSENT" => row'[i] = row[i]
               /\ row'[i].stored = row[i].stored
               /\ row[i].state = "ABSENT" => row'[i].content = req[c].content
    BY <1>1, <1>4 DEF Inserts, InsertIntent, Written
  <1>5. ASSUME NEW c \in Placings, NEW s \in Verdicts, Finalizes(c, s), req[c].intent = i
        PROVE  /\ row[i].state = "PENDING" => row'[i].content = row[i].content /\ row'[i].stored = c
               /\ row[i].state # "PENDING" => row'[i] = row[i]
    BY <1>1, <1>5 DEF Finalizes, FinalizeIntent, Written
  <1>6. ASSUME NEW c \in Placings, Inserts(c) \/ (\E s \in Verdicts : Finalizes(c, s)), req[c].intent # i
        PROVE  row'[i] = row[i]
    BY <1>1, <1>6 DEF Inserts, Finalizes
  <1>7. ASSUME NEW j \in Intents, Maintains(j)
        PROVE  /\ row'[i].content = row[i].content
               /\ row'[i].stored = row[i].stored \/ row'[i].stored = Nil
               /\ row[i].state = "ABSENT" => row'[i].state = "ABSENT"
    <2>1. CASE j # i
      BY <1>1, <1>7, <2>1 DEF Maintains
    <2>2. CASE j = i
      BY <1>1, <1>7, <2>2 DEF Maintains, ReclaimOrphanIntent, Reclaimable, Aged,
                              ResolveUnknownIntent, Written
    <2> QED BY <2>1, <2>2
  <1>8. ASSUME NEW c \in Placings, Finalizes(c, "COMPLETED") \/ Finalizes(c, "REJECTED")
        PROVE  pc[c] \in OwnerPCs
    BY <1>8 DEF Finalizes, OwnerPCs
  <1>9. CASE \E c \in Placings : Inserts(c)
    <2>1. PICK c \in Placings : Inserts(c)
      BY <1>9
    <2>2. CASE req[c].intent = i
      BY <1>4, <2>1, <2>2 DEF Inserts
    <2>3. CASE req[c].intent # i
      BY <1>6, <2>1, <2>3
    <2> QED BY <2>2, <2>3
  <1>10. CASE \E c \in Placings, s \in Verdicts : Finalizes(c, s)
    <2>1. PICK c \in Placings, s \in Verdicts : Finalizes(c, s)
      BY <1>10
    <2>2. pc[c] \in OwnerPCs
      BY <1>8, <2>1 DEF Verdicts
    <2>3. CASE req[c].intent = i
      BY <1>5, <2>1, <2>2, <2>3
    <2>4. CASE req[c].intent # i
      BY <1>6, <2>1, <2>4
    <2> QED BY <2>3, <2>4
  <1>11. CASE \E j \in Intents : Maintains(j)
    BY <1>7, <1>11
  <1> QED BY <1>3, <1>9, <1>10, <1>11, TableWrites

\* Calls only move on, and an answer from the table is that of one lookup.
LEMMA AnswerMoves ==
  ASSUME IInv, [Next]_vars
  PROVE  /\ \A d \in Placings : pc[d] # "idle" => pc'[d] # "idle"
         /\ \A d \in Placings : pc[d] = "done" => pc'[d] = "done"
         /\ \A d \in Placings :
              \/ told'[d] = told[d]
              \/ told'[d].kind # "stored"
              \/ LET r == row[req[d].intent] IN
                 /\ pc[d] = "lookup" /\ pc'[d] = "done"
                 /\ r.content = req[d].content /\ told'[d].order = r.stored
  <1>1. TypeOK
    BY DEF IInv
  <1> DEFINE Fine(d) ==
               /\ pc[d] # "idle" => pc'[d] # "idle"
               /\ pc[d] = "done" => pc'[d] = "done"
               /\ \/ told'[d] = told[d]
                  \/ told'[d].kind # "stored"
                  \/ LET r == row[req[d].intent] IN
                     /\ pc[d] = "lookup" /\ pc'[d] = "done"
                     /\ r.content = req[d].content /\ told'[d].order = r.stored
  <1>2. ASSUME NEW c \in Placings, Handler(c), NEW d \in Placings
        PROVE  Fine(d)
    <2>1. ASSUME NEW l \in PCs \ {"idle"}, MoveTo(c, l), pc[c] # "done", UNCHANGED told PROVE Fine(d)
      BY <1>1, <2>1 DEF MoveTo, TypeOK
    <2>2. ASSUME NEW k \in Answers \ {"stored"}, NEW o, Reply(c, k, o) PROVE Fine(d)
      BY <1>1, <2>2 DEF Reply, MoveTo, TypeOK
    <2>3. CASE LookupIntent(c)
      <3>1. CASE Reply(c, "stored", row[req[c].intent].stored)
        <4>1. row[req[c].intent].content = req[c].content
          BY <1>1, <2>3, <3>1 DEF LookupIntent, classifyIntentLookup, Reply, MoveTo, TypeOK
        <4> QED BY <1>1, <2>3, <3>1, <4>1 DEF LookupIntent, Reply, MoveTo, TypeOK
      <3>2. CASE Reply(c, "mismatch", Nil) \/ Reply(c, "unknown", Nil) \/ Reply(c, "pending", Nil)
        BY <2>2, <3>2 DEF Answers
      <3>3. CASE MoveTo(c, "reclaim") /\ UNCHANGED told
        BY <2>1, <2>3, <3>3 DEF LookupIntent, PCs
      <3> QED BY <2>3, <3>1, <3>2, <3>3 DEF LookupIntent
    <2>4. CASE \/ PlaceOrderRefused(c) \/ ParkForApproval(c) \/ InsertIntentFails(c)
               \/ LookupIntentFails(c) \/ ReclaimOnRetry(c) \/ SubmitOrderTimesOut(c)
               \/ FinalizeRejection(c) \/ FinalizeAcceptance(c)
      BY <2>2, <2>4 DEF PlaceOrderRefused, ParkForApproval, InsertIntentFails, LookupIntentFails,
           ReclaimOnRetry, SubmitOrderTimesOut, FinalizeRejection, FinalizeAcceptance, Answers
    <2>5. CASE SubmitOrderNotSent(c)
      BY <2>1, <2>2, <2>5 DEF SubmitOrderNotSent, Answers, PCs
    <2>6. CASE \/ (\E i \in Intents, k \in Contents : PlaceOrder(c, i, k)) \/ InsertOrFindIntent(c)
               \/ RecordOrder(c) \/ SubmitOrder(c) \/ SubmitOrderReturns(c) \/ SubmitOrderBreaks(c)
               \/ RecordRejection(c) \/ RecordAcceptance(c)
      <3>1. pc[c] # "done" /\ UNCHANGED told /\ \E l \in PCs \ {"idle"} : MoveTo(c, l)
        BY <2>6 DEF PlaceOrder, InsertOrFindIntent, RecordOrder, SubmitOrder, SubmitOrderReturns,
                    SubmitOrderBreaks, RecordRejection, RecordAcceptance, PCs
      <3> QED BY <2>1, <3>1
    <2> QED BY <1>2, <2>3, <2>4, <2>5, <2>6 DEF Handler
  <1>3. CASE \/ \E c \in Placings : BrokerDecides(c) \/ BrokerSettles(c)
             \/ Loops \/ UNCHANGED vars
    <2>1. UNCHANGED <<pc, told>>
      BY <1>3 DEF BrokerDecides, BrokerSettles, Loops, GrowStale, SweepReclaim, SweepReclaimFails,
                  SweepSelect, ListBrokerOrders, ResolveUnknown, vars
    <2> QED BY <2>1
  <1>4. CASE \E S \in SUBSET InProgress : Crash(S)
    BY <1>4 DEF Crash, InProgress
  <1>5. \A d \in Placings : Fine(d)
    BY <1>2, <1>3, <1>4 DEF Next
  <1> QED BY <1>5

\* The owner wrote the content of its row, and stores its own order in it.
LEMMA ContentInvStep ==
  ASSUME IInv, ContentInv, [Next]_vars
  PROVE  ContentInv'
  <1>1. CallStep /\ TypeOK
    BY CallMoves DEF IInv
  <1>2. ASSUME NEW c \in Placings, pc'[c] \in OwnerPCs
        PROVE  row'[req'[c].intent].content = req'[c].content
    <2> DEFINE i == req[c].intent
    <2>1. pc[c] \in OwnerPCs \/ Claimed(c)
      BY <1>1, <1>2 DEF CallStep
    <2>2. req'[c] = req[c] /\ i \in Intents
      BY <1>1, <2>1, Placed DEF CallStep, Claimed, OwnerPCs, RequestPCs, PCs
    <2>3. CASE pc[c] \in OwnerPCs
      <3>1. row[i].state # "ABSENT" /\ row[i].content = req[c].content
        BY <2>3 DEF IInv, OwnerInv, Owner, ContentInv
      <3> QED BY <2>2, <3>1, ContentStays
    <2>4. CASE Claimed(c)
      <3>1. row[i].state = "ABSENT" /\ row'[i].state # "ABSENT" /\ pc[c] # pc'[c]
        BY <2>4 DEF Claimed
      <3>2. PICK d \in Placings : /\ req[d].intent = i /\ row'[i].content = req[d].content
                                  /\ \A e \in Placings \ {d} : pc'[e] = pc[e]
        BY <2>2, <3>1, ContentStays
      <3>3. c = d
        BY <3>1, <3>2
      <3> QED BY <2>2, <3>2, <3>3
    <2> QED BY <2>1, <2>3, <2>4
  <1>3. ASSUME NEW i \in Intents, row'[i].stored # Nil
        PROVE  LET o == row'[i].stored IN
               /\ o \in Placings /\ pc'[o] # "idle"
               /\ req'[o] \in Requests /\ req'[o].intent = i /\ req'[o].content = row'[i].content
    <2> DEFINE o == row'[i].stored
    <2>1. /\ o \in Placings /\ pc[o] # "idle" /\ row[i].state # "ABSENT"
          /\ req[o] \in Requests /\ req[o].intent = i /\ req[o].content = row[i].content
      <3>1. CASE o = row[i].stored
        <4>1. row[i].state # "ABSENT"
          BY <1>3, <3>1 DEF IInv, AuditInv, Verdicts
        <4> QED BY <1>3, <3>1, <4>1 DEF ContentInv
      <3>2. ASSUME NEW c \in Placings, o = c, row[i].state # "ABSENT", pc[c] \in OwnerPCs, req[c].intent = i
            PROVE  <2>1
        <4>1. req[c] \in Requests /\ pc[c] # "idle"
          BY <3>2, Placed DEF OwnerPCs, RequestPCs, PCs
        <4> QED BY <3>2, <4>1 DEF ContentInv
      <3> QED BY <1>3, <3>1, <3>2, ContentStays
    <2>2. pc'[o] # "idle" /\ req'[o] = req[o]
      BY <1>1, <2>1, AnswerMoves DEF CallStep
    <2>3. row'[i].content = row[i].content
      BY <2>1, ContentStays
    <2> QED BY <2>1, <2>2, <2>3
  <1> QED BY <1>2, <1>3 DEF ContentInv

LEMMA AnsweredInvStep ==
  ASSUME IInv, ContentInv, AnsweredInv, [Next]_vars
  PROVE  AnsweredInv'
  <1>1. CallStep /\ TypeOK
    BY CallMoves DEF IInv
  <1> SUFFICES ASSUME NEW c \in Placings, told'[c].kind = "stored"
               PROVE  /\ pc'[c] = "done" /\ c \notin sent'
                      /\ told'[c].order # Nil =>
                           LET o == told'[c].order IN
                           o \in Placings /\ pc'[o] # "idle" /\ req'[o] = req'[c]
    BY DEF AnsweredInv
  <1>2. CASE told'[c] = told[c]
    <2>1. /\ pc[c] = "done" /\ c \notin sent
          /\ told[c].order # Nil =>
               told[c].order \in Placings /\ pc[told[c].order] # "idle" /\ req[told[c].order] = req[c]
      BY <1>2 DEF AnsweredInv
    <2> QED BY <1>1, <1>2, <2>1, AnswerMoves DEF CallStep
  <1>3. CASE told'[c] # told[c]
    <2> DEFINE i == req[c].intent
               o == row[i].stored
    <2>1. /\ pc[c] = "lookup" /\ pc'[c] = "done"
          /\ row[i].content = req[c].content /\ told'[c].order = o
      BY <1>3, AnswerMoves
    <2>2. req[c] \in Requests /\ i \in Intents
      BY <2>1, Placed DEF RequestPCs, PCs
    <2>3. c \notin sent'
      BY <1>1, <2>1 DEF CallStep, IInv, RequestInv, SentPCs
    <2>4. ASSUME o # Nil
          PROVE  o \in Placings /\ pc[o] # "idle" /\ req[o] = req[c]
      <3>1. /\ o \in Placings /\ pc[o] # "idle"
            /\ req[o] \in Requests /\ req[o].intent = i /\ req[o].content = req[c].content
        BY <2>1, <2>2, <2>4 DEF ContentInv
      <3> QED BY <2>2, <3>1 DEF Requests
    <2> QED BY <1>1, <2>1, <2>3, <2>4, AnswerMoves DEF CallStep
  <1> QED BY <1>2, <1>3

\* A retry answered from the table gets the order of a request with the same
\* client_order_id and the same content, and sends no order of its own.
THEOREM StoredAnswers == Spec => []StoredAnswerIsSameRequest
  <1>1. Init => ContentInv /\ AnsweredInv
    BY DEF Init, Absent, ContentInv, AnsweredInv, OwnerPCs
  <1>2. IInv /\ ContentInv /\ AnsweredInv /\ [Next]_vars => ContentInv' /\ AnsweredInv'
    BY ContentInvStep, AnsweredInvStep
  <1>3. AnsweredInv => StoredAnswerIsSameRequest
    BY DEF AnsweredInv, StoredAnswerIsSameRequest
  <1> QED BY <1>1, <1>2, <1>3, Inductive, PTL DEF Spec

(***************************************************************************)
(* Refinement: OrderSubmission implements IntentOutcome.                   *)
(***************************************************************************)

\* A submitted intent stays submitted, and only SubmitOrder submits one.
LEMMA SubmittedStep ==
  ASSUME IInv, [Next]_vars
  PROVE  \/ Submitted' = Submitted
         \/ /\ row' = row
            /\ \E c \in Placings : pc[c] = "submit" /\ Submitted' = Submitted \cup {req[c].intent}
  <1>1. TypeOK /\ CallStep /\ \A c \in sent : req'[c] = req[c] /\ pc[c] # "idle"
    BY CallMoves DEF IInv, TypeOK, CallStep, RequestInv, SentPCs
  <1>2. CASE sent' = sent
    BY <1>1, <1>2 DEF Submitted
  <1>3. ASSUME NEW c \in Placings, SubmitOrder(c)
        PROVE  /\ row' = row /\ pc[c] = "submit"
               /\ Submitted' = Submitted \cup {req[c].intent}
    <2>1. req' = req /\ sent' = sent \cup {c} /\ row' = row /\ pc[c] = "submit"
      BY <1>3 DEF SubmitOrder
    <2>2. req[c].intent \in Intents
      BY <2>1, Placed DEF RequestPCs, PCs
    <2> QED BY <2>1, <2>2 DEF Submitted
  <1>4. sent' = sent \/ \E c \in Placings : SubmitOrder(c)
    BY DEF Next, Handler, PlaceOrderRefused, PlaceOrder, ParkForApproval, InsertOrFindIntent,
           InsertIntentFails, LookupIntent, LookupIntentFails, ReclaimOnRetry, RecordOrder,
           SubmitOrderNotSent, SubmitOrderReturns, SubmitOrderTimesOut, SubmitOrderBreaks,
           RecordRejection, RecordAcceptance, FinalizeRejection, FinalizeAcceptance,
           BrokerDecides, BrokerSettles, Loops, GrowStale, SweepReclaim, SweepReclaimFails,
           SweepSelect, ListBrokerOrders, ResolveUnknown, Crash, world, vars
  <1> QED BY <1>2, <1>3, <1>4

\* A move of one row is one abstract step.
LEMMA MoveRefines ==
  ASSUME IInv, NEW i \in Intents, Moved(i), UNCHANGED Submitted
  PROVE  [Outcome!Next]_(Outcome!vars)
  <1> DEFINE abs == [j \in Intents |-> row[j].state]
  <1>1. abs' = [abs EXCEPT ![i] = row'[i].state] /\ abs[i] = row[i].state
    BY DEF Moved
  <1>2. CASE Opened(i)
    <2>1. Outcome!Open(i)
      BY <1>1, <1>2 DEF Opened, Outcome!Open, Outcome!Become
    <2> QED BY <2>1 DEF Outcome!Next
  <1>3. CASE Older(i)
    <2>1. abs' = abs
      BY <1>1, <1>3 DEF Older
    <2> QED BY <2>1 DEF Outcome!vars
  <1>4. CASE Lost(i)
    <2>1. Outcome!Lose(i)
      BY <1>1, <1>4 DEF Lost, Outcome!Lose, Outcome!Become
    <2> QED BY <2>1 DEF Outcome!Next
  <1>5. ASSUME NEW c \in Placings, Settled(i, c) PROVE [Outcome!Next]_(Outcome!vars)
    <2>1. row'[i].state = "COMPLETED" => i \in Submitted
      BY <1>5 DEF Settled, Submitted, IInv, BrokerInv, Listed
    <2>2. Outcome!Settle(i)
      BY <1>1, <1>5, <2>1 DEF Settled, Outcome!Settle, Outcome!Become
    <2> QED BY <2>2 DEF Outcome!Next
  <1>6. ASSUME NEW c \in Placings, Resolved(i, c) PROVE [Outcome!Next]_(Outcome!vars)
    <2>1. i \in Submitted
      BY <1>6 DEF Resolved, Submitted
    <2>2. Outcome!Resolve(i)
      BY <1>1, <1>6, <2>1 DEF Resolved, Verdicts, Outcome!Resolve, Outcome!Become
    <2> QED BY <2>2 DEF Outcome!Next
  <1> QED BY <1>2, <1>3, <1>4, <1>5, <1>6 DEF Moved

\* Sending the order is the abstract submission: the row has no verdict yet
\* and no other call has sent an order for the intent.
LEMMA SubmitRefines ==
  ASSUME IInv, row' = row, NEW c \in Placings, pc[c] = "submit",
         Submitted' = Submitted \cup {req[c].intent}
  PROVE  Outcome!Next
  <1> DEFINE i == req[c].intent
             abs == [j \in Intents |-> row[j].state]
  <1>1. i \in Intents /\ row[i] \in Row
    BY Placed, RowTyped DEF RequestPCs, PCs, IInv
  <1>2. abs' = abs /\ abs[i] = row[i].state
    BY <1>1
  <1>3. row[i].state \in {"PENDING", "UNKNOWN"}
    BY <1>1 DEF IInv, UnsentInv, OwnerInv, Owner, OwnerPCs, Row, OrderIntentRecord,
                IntentStates, Verdicts
  <1>4. i \notin Submitted
    BY DEF IInv, TypeOK, OwnerInv, Owner, OwnerPCs, RequestInv, SentPCs, Submitted
  <1>5. Outcome!Submit(i)
    BY <1>1, <1>2, <1>3, <1>4 DEF Outcome!Submit
  <1> QED BY <1>1, <1>5 DEF Outcome!Next

\* The order-intent machinery keeps the promises of IntentOutcome.
THEOREM Refines == Spec => ImplementsIntentOutcome
  <1>1. Init => Outcome!Init
    BY DEF Init, Absent, Submitted, Outcome!Init
  <1>2. ASSUME IInv, [Next]_vars PROVE [Outcome!Next]_(Outcome!vars)
    <2>1. RowStep
      BY <1>2, RowMoves
    <2>2. CASE Kept /\ Submitted' = Submitted
      BY <2>2 DEF Kept, Outcome!vars
    <2>3. ASSUME NEW c \in Placings, row' = row, pc[c] = "submit",
                 Submitted' = Submitted \cup {req[c].intent}
          PROVE  [Outcome!Next]_(Outcome!vars)
      BY <1>2, <2>3, SubmitRefines
    <2>4. ASSUME NEW i \in Intents, Moved(i), Submitted' = Submitted
          PROVE  [Outcome!Next]_(Outcome!vars)
      BY <1>2, <2>4, MoveRefines
    <2> QED BY <1>2, <2>1, <2>2, <2>3, <2>4, SubmittedStep DEF RowStep
  <1> QED BY <1>1, <1>2, Inductive, PTL DEF Spec, ImplementsIntentOutcome, Outcome!Spec
============================================================================
