--------------------------- MODULE OrderLifecycle ---------------------------
(***************************************************************************)
(* One broker order of xstockstrat-trading from the moment submitOrder     *)
(* records it: the end of submitOrder, CancelOrder, ReplaceOrder, the fill *)
(* poller and a restart all write the same entry of s.orders, the same row *)
(* of trading.orders and, for cancel and replace, trading.order_intents.   *)
(*                                                                         *)
(* s.orders is guarded by s.mu, but a handler keeps the order it last read *)
(* or wrote: updateOrder changes the latest entry, while decisions and     *)
(* database writes use the copy the handler holds.                         *)
(***************************************************************************)
EXTENDS IntentTable, FiniteSets, Naturals

CONSTANTS
  Calls,         \* executions of CancelOrder and ReplaceOrder
  Qtys,          \* order quantities
  Placed,        \* the quantity the order is placed with
  Requests,      \* what calls ask for: Cancel, or a new quantity
  Cancel,        \* the request of CancelOrder
  Nil,           \* no order
  NotCancelable, \* does the adapter report ErrOrderNotCancelable (Alpaca)?
  MaxTurns       \* bound on the calls and restarts of a behaviour

ASSUME QtysAssumption == Qtys \subseteq Nat \ {0} /\ IsFiniteSet(Qtys)
ASSUME PlacedAssumption == Placed \in Qtys
ASSUME RequestsAssumption == Requests \subseteq {Cancel} \cup Qtys
ASSUME AdapterAssumption == NotCancelable \in BOOLEAN
ASSUME TurnsAssumption == MaxTurns \in Nat

VARIABLES
  mem,       \* s.orders[order_id], Nil when the process does not hold it
  db,        \* the row of trading.orders, Nil before the first write
  submit,    \* where submitOrder is, and the order it holds
  inflight,  \* the submission is on its way to the broker
  wire,      \* the broker's own order
  row,       \* trading.order_intents of the cancel and of each replace
  pc, req,   \* where a call is, and what it asks for
  held,      \* the order a call holds
  answer,    \* what a call tells its caller once it is done
  called,    \* calls that reached the broker
  poll,      \* the running iteration of the fill poller
  fills,     \* order.filled events in the ledger
  emitting,  \* goroutines that have one to append
  lost,      \* history: one failed to, or the process died before one could
             \* and left a filled row, which the next start does not load
  restarts,
  blind      \* the last start could not read the in-flight orders

vars == <<mem, db, submit, inflight, wire, row, pc, req, held, answer, called,
          poll, fills, emitting, lost, restarts, blind>>

Amounts == UNION {0 .. q : q \in Qtys}

\* REJECTED stands for EXPIRED too: both end an order without a fill event.
Statuses == {"NEW", "PARTIALLY_FILLED", "FILLED", "CANCELED", "REJECTED"}
Terminal == {"FILLED", "CANCELED", "REJECTED"}
Orders == [status : Statuses, linked : BOOLEAN, qty : Qtys, filled : Amounts]
ASSUME NilAssumption == Nil \notin Orders

\* "transient" stands for done_for_day, pending_replace and every other
\* status that alpacaStatusToProto does not know.
Working == {"new", "partially_filled", "transient"}
Closed == {"filled", "canceled", "rejected"}
Reports == [status : Working \cup Closed, filled : Amounts]

SubmitPCs == {"record", "persistNew", "call", "await", "persist", "done"}
PCs == {"idle", "load", "insert", "lookup", "call", "reread", "settle", "persist",
        "finalize", "done", "crashed"}
Answers == {"none", "refused", "internal", "stored", "unknown", "pending", "canceled",
            "canceledUnknown", "notCanceled", "unavailable", "replaced", "rejected",
            "uncertain"}

TypeOK ==
  /\ mem \in Orders \cup {Nil} /\ db \in Orders \cup {Nil}
  /\ submit \in [pc : SubmitPCs, order : Orders \cup {Nil}]
  /\ inflight \in BOOLEAN
  /\ wire \in [status : {"none"} \cup Working \cup Closed, qty : Qtys, filled : Amounts]
  /\ row \in [Requests -> OrderIntentRecord(Requests, Orders \cup {Nil})]
  /\ pc \in [Calls -> PCs] /\ req \in [Calls -> Requests \cup {Nil}]
  /\ held \in [Calls -> Orders \cup {Nil}]
  /\ answer \in [Calls -> [kind : Answers, order : Orders \cup {Nil}]]
  /\ called \subseteq Calls
  /\ poll \in [pc : {"idle", "read", "apply", "persist"}, order : Orders \cup {Nil},
               report : Reports \cup {Nil}]
  /\ fills \in Nat /\ emitting \in Nat /\ lost \in BOOLEAN
  /\ restarts \in Nat /\ blind \in BOOLEAN

NoAnswer == [kind |-> "none", order |-> Nil]
NoPoll == [pc |-> "idle", order |-> Nil, report |-> Nil]

Init ==
  /\ mem = Nil /\ db = Nil
  /\ submit = [pc |-> "record", order |-> Nil] /\ inflight = FALSE
  /\ wire = [status |-> "none", qty |-> Placed, filled |-> 0]
  /\ row = [i \in Requests |-> Absent(i, Nil)]
  /\ pc = [c \in Calls |-> "idle"] /\ req = [c \in Calls |-> Nil]
  /\ held = [c \in Calls |-> Nil]
  /\ answer = [c \in Calls |-> NoAnswer]
  /\ called = {} /\ poll = NoPoll
  /\ fills = 0 /\ emitting = 0 /\ lost = FALSE
  /\ restarts = 0 /\ blind = FALSE

(***************************************************************************)
(* Helpers.                                                                *)
(***************************************************************************)
orders == <<mem, db>>
world == <<inflight, wire>>
calls == <<row, pc, req, held, answer, called>>
eventVars == <<fills, emitting, lost>>
history == <<restarts, blind>>

Goto(c, label) == pc' = [pc EXCEPT ![c] = label]
Hold(c, order) == held' = [held EXCEPT ![c] = order]
\* The answer a call has settled on; it is given when the call is done.
Decide(c, k, o) == answer' = [answer EXCEPT ![c] = [kind |-> k, order |-> o]]
Reply(c, k, o) == Goto(c, "done") /\ Decide(c, k, o) /\ Hold(c, Nil)

\* Mutant: updateOrder changes the order its caller holds.
MutLatestIsHeld(order) == order

\* updateOrder clones the latest entry, or the caller's order if there is none.
Latest(order) == IF mem = Nil THEN order ELSE mem

\* UpsertOrder: a conflicting row keeps its quantity; a failed write is only
\* logged, and the order written is the copy the caller holds.
Persist(order) ==
  \/ db' = (IF db = Nil THEN order ELSE [order EXCEPT !.qty = db.qty])
  \/ UNCHANGED db

\* Mutants: a transient status is a cancellation, a partial fill is a fill.
MutTransientCancels(s) ==
  CASE s = "new"              -> "NEW"
    [] s = "partially_filled" -> "PARTIALLY_FILLED"
    [] s = "filled"           -> "FILLED"
    [] s = "rejected"         -> "REJECTED"
    [] OTHER                  -> "CANCELED"

MutPartialFills(s) ==
  CASE s = "new"                            -> "NEW"
    [] s \in {"partially_filled", "filled"} -> "FILLED"
    [] s = "canceled"                       -> "CANCELED"
    [] s = "rejected"                       -> "REJECTED"
    [] OTHER                                -> "UNSPECIFIED"

alpacaStatusToProto(s) ==
  CASE s = "new"              -> "NEW"
    [] s = "partially_filled" -> "PARTIALLY_FILLED"
    [] s = "filled"           -> "FILLED"
    [] s = "canceled"         -> "CANCELED"
    [] s = "rejected"         -> "REJECTED"
    [] OTHER                  -> "UNSPECIFIED"

\* A FILLED order is given its own quantity when the broker omits the figure.
FilledQty(status, filled, qty) == IF status = "FILLED" /\ filled = 0 THEN qty ELSE filled

\* What the broker reports of its order; it may omit the quantity of a fill.
BrokerReports ==
  {r \in Reports : /\ r.status = wire.status
                   /\ r.filled = wire.filled \/ (r.filled = 0 /\ r.status = "filled")}

\* applyBrokerOrderStatus acts on a report unless it is transient or repeats
\* the status and quantity of the order the caller holds.
Adopts(order, report) ==
  LET s == alpacaStatusToProto(report.status) IN
  /\ s # "UNSPECIFIED"
  /\ ~(s = order.status /\ report.filled = order.filled)

Adopted(order, report) ==
  LET s == alpacaStatusToProto(report.status) IN
  [Latest(order) EXCEPT !.status = s, !.filled = FilledQty(s, report.filled, Latest(order).qty)]

\* applyBrokerOrderStatus up to its UpsertOrder, which is a step of its own.
Adopt(order, report) == mem' = Adopted(order, report)

\* Its end, after the row is written: the event of a fill, the only one that
\* is counted, is left to a goroutine.
StartEmit(order) ==
  /\ emitting' = IF order.status = "FILLED" THEN emitting + 1 ELSE emitting
  /\ UNCHANGED <<fills, lost>>

(***************************************************************************)
(* submitOrder, from the local record to the broker's answer.              *)
(***************************************************************************)
SubmitAt(label, order) == submit' = [pc |-> label, order |-> order]

SubmitRecords ==
  /\ submit.pc = "record"
  /\ mem' = [status |-> "NEW", linked |-> FALSE, qty |-> wire.qty, filled |-> 0]
  /\ SubmitAt("persistNew", mem')
  /\ UNCHANGED <<db, world, calls, poll, eventVars, history>>

SubmitPersists ==
  /\ submit.pc \in {"persistNew", "persist"}
  /\ Persist(submit.order)
  /\ IF submit.pc = "persistNew" THEN SubmitAt("call", submit.order) ELSE SubmitAt("done", Nil)
  /\ UNCHANGED <<mem, world, calls, poll, eventVars, history>>

SubmitSends ==
  /\ submit.pc = "call"
  /\ inflight' = TRUE
  /\ SubmitAt("await", submit.order)
  /\ UNCHANGED <<orders, wire, calls, poll, eventVars, history>>

\* The broker's order is adopted: it is linked, and a transient status
\* leaves the status alone.  No order.filled is emitted here.
SubmitReturns(report) ==
  LET s == alpacaStatusToProto(report.status)
      old == Latest(submit.order)
      status == IF s = "UNSPECIFIED" THEN old.status ELSE s IN
  /\ submit.pc = "await" /\ wire.status # "none"
  /\ mem' = [old EXCEPT !.linked = TRUE, !.status = status,
                        !.filled = FilledQty(status, report.filled, old.qty)]
  /\ SubmitAt("persist", mem')
  /\ UNCHANGED <<db, world, calls, poll, eventVars, history>>

\* An uncertain outcome: the order the handler holds is written again.
SubmitTimesOut ==
  /\ submit.pc \in {"call", "await"}
  /\ SubmitAt("persist", submit.order)
  /\ UNCHANGED <<orders, world, calls, poll, eventVars, history>>

\* Every other error - refused, not sent, or broken after it was sent.
SubmitFails ==
  /\ submit.pc \in {"call", "await"}
  /\ mem' = [Latest(submit.order) EXCEPT !.status = "REJECTED"]
  /\ SubmitAt("persist", mem')
  /\ UNCHANGED <<db, world, calls, poll, eventVars, history>>

(***************************************************************************)
(* The broker (external): it takes the order on, fills it in parts or at   *)
(* once, shows it under a passing status, or ends it by itself.            *)
(***************************************************************************)
BrokerAccepts ==
  /\ inflight
  /\ inflight' = FALSE
  /\ \/ wire' = [wire EXCEPT !.status = "new"]
     \/ wire' = [wire EXCEPT !.status = "filled", !.filled = wire.qty]
     \/ UNCHANGED wire
  /\ UNCHANGED <<orders, submit, calls, poll, eventVars, history>>

BrokerFills ==
  /\ wire.status \in Working
  /\ \E n \in Amounts :
       /\ wire.filled < n /\ n <= wire.qty
       /\ wire' = [wire EXCEPT !.filled = n,
                     !.status = IF n = wire.qty THEN "filled" ELSE "partially_filled"]
  /\ UNCHANGED <<orders, submit, inflight, calls, poll, eventVars, history>>

BrokerHolds ==
  /\ wire.status \in {"new", "partially_filled"}
  /\ wire' = [wire EXCEPT !.status = "transient"]
  /\ UNCHANGED <<orders, submit, inflight, calls, poll, eventVars, history>>

BrokerEnds ==
  /\ wire.status \in Working
  /\ \E s \in {"canceled", "rejected"} : wire' = [wire EXCEPT !.status = s]
  /\ UNCHANGED <<orders, submit, inflight, calls, poll, eventVars, history>>

(***************************************************************************)
(* CancelOrder and ReplaceOrder: find the order, pass the gates, own the   *)
(* intent, call the broker, change the order, write it, settle the intent. *)
(***************************************************************************)
Replaceable(order) == order.status \in {"NEW", "PARTIALLY_FILLED"} /\ order.linked

\* What a behaviour spends of its bound.
Turns == Cardinality({c \in Calls : pc[c] # "idle"}) + restarts

\* The order is in memory, or GetOrder reads it from the database; either may
\* refuse: not found, not the owner.
FindOrder(c, i) ==
  /\ Turns < MaxTurns
  /\ pc[c] = "idle"
  /\ req' = [req EXCEPT ![c] = i]
  /\ IF mem # Nil THEN Goto(c, "insert") /\ Hold(c, mem)
                  ELSE db # Nil /\ Goto(c, "load") /\ Hold(c, db)
  /\ UNCHANGED <<orders, submit, world, row, answer, called, poll, eventVars, history>>

\* The order read from the database replaces whatever is in s.orders by now.
LoadOrder(c) ==
  /\ pc[c] = "load"
  /\ mem' = held[c]
  /\ Goto(c, "insert")
  /\ UNCHANGED <<db, submit, world, row, req, held, answer, called, poll, eventVars, history>>

\* Ownership; for a replace also fill state, halt, trading_state and the
\* missing broker order id.  A halt may refuse any replace.
Refuse(c) ==
  /\ pc[c] = "insert"
  /\ Reply(c, "refused", Nil)
  /\ UNCHANGED <<orders, submit, world, row, req, called, poll, eventVars, history>>

\* Mutant: a conflicting INSERT is taken for ownership of the intent.
MutInsertOwnsConflict(c) ==
  LET i == req[c] IN
  /\ pc[c] = "insert"
  /\ i # Cancel => Replaceable(held[c])
  /\ row' = [row EXCEPT ![i] = InsertIntent(row[i], i)]
  /\ Goto(c, "call")
  /\ UNCHANGED <<orders, submit, world, req, held, answer, called, poll, eventVars, history>>

InsertOrFind(c) ==
  LET i == req[c] IN
  /\ pc[c] = "insert"
  /\ i # Cancel => Replaceable(held[c])
  /\ row' = [row EXCEPT ![i] = InsertIntent(row[i], i)]
  /\ Goto(c, IF row[i].state = "ABSENT" THEN "call" ELSE "lookup")
  /\ UNCHANGED <<orders, submit, world, req, held, answer, called, poll, eventVars, history>>

\* classifyIntentLookup; the intent id derives from the request, so the
\* content always agrees.  A stale PENDING row is reclaimed by Reclaim.
Lookup(c) ==
  LET r == row[req[c]]
      a == classifyIntentLookup(r, req[c]) IN
  /\ pc[c] = "lookup"
  /\ \/ a = "ReturnStored" /\ Reply(c, "stored", r.stored)
     \/ a = "RejectUnknown" /\ Reply(c, "unknown", Nil)
     \/ a = "RejectPending" /\ Reply(c, "pending", Nil)
  /\ UNCHANGED <<orders, submit, world, row, req, called, poll, eventVars, history>>

\* A database error on the insert or the lookup; the insert may have happened.
IntentStoreFails(c) ==
  LET i == req[c] IN
  /\ pc[c] \in {"insert", "lookup"}
  /\ \/ row' = [row EXCEPT ![i] = InsertIntent(row[i], i)]
     \/ UNCHANGED row
  /\ Reply(c, "internal", Nil)
  /\ UNCHANGED <<orders, submit, world, req, called, poll, eventVars, history>>

\* The broker call of a cancel.  An order without a broker order id is
\* canceled without one.
CancelUnlinked(c) ==
  /\ pc[c] = "call" /\ req[c] = Cancel /\ ~Latest(held[c]).linked
  /\ Hold(c, Latest(held[c]))
  /\ Goto(c, "settle") /\ Decide(c, "canceled", Nil)
  /\ UNCHANGED <<orders, submit, world, row, req, called, poll, eventVars, history>>

CancelAtBroker(c) ==
  /\ pc[c] = "call" /\ req[c] = Cancel /\ Latest(held[c]).linked
  /\ Hold(c, Latest(held[c]))
  /\ called' = called \cup {c}
  /\ \/ /\ wire.status \in Working                \* done
        /\ wire' = [wire EXCEPT !.status = "canceled"]
        /\ Goto(c, "settle") /\ Decide(c, "canceled", Nil)
     \/ /\ \/ UNCHANGED wire                      \* failed, with or without effect
           \/ wire.status \in Working /\ wire' = [wire EXCEPT !.status = "canceled"]
        /\ Goto(c, "settle") /\ Decide(c, "canceledUnknown", Nil)
     \/ /\ NotCancelable /\ wire.status \in Closed
        /\ Goto(c, "reread")
        /\ UNCHANGED <<wire, answer>>
  /\ UNCHANGED <<orders, submit, inflight, row, req, poll, eventVars, history>>

\* The broker account cannot be resolved: nothing is sent.
CancelUnresolved(c) ==
  /\ pc[c] = "call" /\ req[c] = Cancel /\ Latest(held[c]).linked
  /\ Hold(c, Latest(held[c]))
  /\ Goto(c, "settle") /\ Decide(c, "canceledUnknown", Nil)
  /\ UNCHANGED <<orders, submit, world, row, req, called, poll, eventVars, history>>

\* Mutant: "not cancelable" is taken for success.
MutRereadCancels(c, report) ==
  /\ pc[c] = "reread"
  /\ Goto(c, "settle") /\ Decide(c, "canceled", Nil)
  /\ UNCHANGED <<orders, submit, world, row, req, held, called, poll, eventVars, history>>

\* reconcileNotCancelable: the broker's own order decides.
Reread(c, report) ==
  /\ pc[c] = "reread"
  /\ \/ /\ report.status = "canceled"
        /\ Goto(c, "settle") /\ Decide(c, "canceled", Nil)
        /\ UNCHANGED <<mem, held>>
     \/ /\ report.status # "canceled" /\ Adopts(held[c], report)
        /\ Adopt(held[c], report) /\ Hold(c, mem')
        /\ Goto(c, "persist") /\ Decide(c, "notCanceled", Nil)
     \/ /\ report.status # "canceled" /\ ~Adopts(held[c], report)
        /\ Hold(c, Latest(held[c]))
        /\ Goto(c, "finalize") /\ Decide(c, "notCanceled", Nil)
        /\ UNCHANGED mem
  /\ UNCHANGED <<db, submit, world, row, req, called, poll, eventVars, history>>

RereadFails(c) ==
  /\ pc[c] = "reread"
  /\ Hold(c, Latest(held[c]))
  /\ Goto(c, "finalize") /\ Decide(c, "unavailable", Nil)
  /\ UNCHANGED <<orders, submit, world, row, req, called, poll, eventVars, history>>

\* The broker call of a replace.  A refusal and every error that is not a
\* timeout reject the intent; a timeout leaves it PENDING.
ReplaceAtBroker(c) ==
  LET q == req[c]
      Done == /\ wire.status \in Working /\ wire.filled < q
              /\ wire' = [wire EXCEPT !.qty = q]
      Held == Hold(c, Latest(held[c])) IN
  /\ pc[c] = "call" /\ q # Cancel
  /\ called' = called \cup {c}
  /\ \/ Done /\ Goto(c, "settle") /\ Decide(c, "replaced", Nil) /\ Held
     \/ (Done \/ UNCHANGED wire) /\ Goto(c, "finalize") /\ Decide(c, "rejected", Nil) /\ Held
     \/ (Done \/ UNCHANGED wire) /\ Reply(c, "uncertain", Nil)
  /\ UNCHANGED <<orders, submit, inflight, row, req, poll, eventVars, history>>

\* validateTIF refuses after the intent was recorded.
ReplaceInvalid(c) ==
  /\ pc[c] = "call" /\ req[c] # Cancel
  /\ Reply(c, "refused", Nil)
  /\ UNCHANGED <<orders, submit, world, row, req, called, poll, eventVars, history>>

\* Mutant: the response of the intent is marshaled before the order changes.
MutSettleHoldsOld(c) ==
  /\ pc[c] = "settle"
  /\ mem' = IF req[c] = Cancel THEN [Latest(held[c]) EXCEPT !.status = "CANCELED"]
                                 ELSE [Latest(held[c]) EXCEPT !.qty = req[c]]
  /\ Goto(c, "persist")
  /\ UNCHANGED <<db, submit, world, row, req, held, answer, called, poll, eventVars, history>>

\* The order itself: canceled whatever the broker said, or its new quantity.
Settle(c) ==
  /\ pc[c] = "settle"
  /\ mem' = IF req[c] = Cancel THEN [Latest(held[c]) EXCEPT !.status = "CANCELED"]
                                 ELSE [Latest(held[c]) EXCEPT !.qty = req[c]]
  /\ Hold(c, mem')
  /\ Goto(c, "persist")
  /\ UNCHANGED <<db, submit, world, row, req, answer, called, poll, eventVars, history>>

\* The row, and for an order that reconcileNotCancelable adopted the rest of
\* applyBrokerOrderStatus.
PersistOrder(c) ==
  /\ pc[c] = "persist"
  /\ Persist(held[c])
  /\ IF answer[c].kind = "notCanceled"
     THEN StartEmit(held[c]) /\ Hold(c, Latest(held[c]))
     ELSE UNCHANGED <<eventVars, held>>
  /\ Goto(c, "finalize")
  /\ UNCHANGED <<mem, submit, world, row, req, answer, called, poll, history>>

VerdictOf(kind) ==
  CASE kind \in {"canceledUnknown", "unavailable"} -> "UNKNOWN"
    [] kind = "rejected"                           -> "REJECTED"
    [] OTHER                                       -> "COMPLETED"

\* finalizeCancelIntent and its like; a failed write is only logged.
Finalize(c) ==
  LET i == req[c]
      k == answer[c].kind IN
  /\ pc[c] = "finalize"
  /\ \/ row' = [row EXCEPT ![i] = FinalizeIntent(row[i], VerdictOf(k), held[c])]
     \/ UNCHANGED row
  /\ Reply(c, k, held[c])
  /\ UNCHANGED <<orders, submit, world, req, called, poll, eventVars, history>>

(***************************************************************************)
(* The sweep, the fill poller and a restart.                               *)
(***************************************************************************)

\* The row of a PENDING intent grows stale and is reclaimed, by the sweep or
\* by the next retry.
Reclaim(i) ==
  /\ row[i].state = "PENDING"
  /\ row' = [row EXCEPT ![i] = ReclaimOrphanIntent(Aged(row[i]))]
  /\ UNCHANGED <<orders, submit, world, pc, req, held, answer, called, poll, eventVars, history>>

Polled(order) == order # Nil /\ order.linked /\ order.status \notin Terminal

PollSelect ==
  /\ poll.pc = "idle" /\ Polled(mem)
  /\ poll' = [pc |-> "read", order |-> mem, report |-> Nil]
  /\ UNCHANGED <<orders, submit, world, calls, eventVars, history>>

\* GetOrder answers.
PollRead ==
  /\ poll.pc = "read"
  /\ \E r \in BrokerReports : poll' = [poll EXCEPT !.pc = "apply", !.report = r]
  /\ UNCHANGED <<orders, submit, world, calls, eventVars, history>>

PollReadFails ==
  /\ poll.pc = "read"
  /\ poll' = NoPoll
  /\ UNCHANGED <<orders, submit, world, calls, eventVars, history>>

PollApply ==
  /\ poll.pc = "apply"
  /\ IF Adopts(poll.order, poll.report)
     THEN /\ Adopt(poll.order, poll.report)
          /\ poll' = [pc |-> "persist", order |-> mem', report |-> Nil]
     ELSE poll' = NoPoll /\ UNCHANGED mem
  /\ UNCHANGED <<db, submit, world, calls, eventVars, history>>

\* Mutant: the event is left out when the row could not be written.
MutEmitIfWritten ==
  /\ poll.pc = "persist"
  /\ Persist(poll.order)
  /\ IF db' = db THEN UNCHANGED eventVars ELSE StartEmit(poll.order)
  /\ poll' = NoPoll
  /\ UNCHANGED <<mem, submit, world, calls, history>>

PollPersist ==
  /\ poll.pc = "persist"
  /\ Persist(poll.order)
  /\ StartEmit(poll.order)
  /\ poll' = NoPoll
  /\ UNCHANGED <<mem, submit, world, calls, history>>

\* emitLedgerEvent in its goroutine: a failure is only logged.
Emit ==
  /\ emitting > 0
  /\ emitting' = emitting - 1
  /\ \/ fills' = fills + 1 /\ UNCHANGED lost
     \/ lost' = TRUE /\ UNCHANGED fills
  /\ UNCHANGED <<orders, submit, world, calls, poll, history>>

\* ListSubmittedOrders: what a starting process takes from the database.
\* Mutant: only the NEW orders.
MutLoadsNewOnly(order) == order # Nil /\ order.linked /\ order.status = "NEW"

Submitted(order) ==
  order # Nil /\ order.linked /\ order.status \in {"NEW", "PARTIALLY_FILLED"}

\* A fill is adopted in memory and its event not yet appended.
Announcing ==
  \/ emitting > 0
  \/ poll.pc = "persist" /\ poll.order.status = "FILLED"
  \/ \E c \in Calls :
       pc[c] = "persist" /\ answer[c].kind = "notCanceled" /\ held[c].status = "FILLED"

\* The process stops with every handler and goroutine in progress and starts;
\* a failed LoadInflightOrders is only logged.
Restart ==
  /\ Turns < MaxTurns
  /\ restarts' = restarts + 1
  /\ blind' \in BOOLEAN
  /\ mem' = IF Submitted(db) /\ ~blind' THEN db ELSE Nil
  /\ SubmitAt("done", Nil)
  /\ pc' = [c \in Calls |-> IF pc[c] \in {"idle", "done"} THEN pc[c] ELSE "crashed"]
  /\ held' = [c \in Calls |-> Nil]
  /\ answer' = [c \in Calls |-> IF pc[c] = "done" THEN answer[c] ELSE NoAnswer]
  /\ poll' = NoPoll
  /\ emitting' = 0
  /\ lost' = (lost \/ (Announcing /\ db # Nil /\ db.status = "FILLED"))
  /\ UNCHANGED <<db, world, row, req, called, fills>>

SubmitThread ==
  \/ SubmitRecords \/ SubmitPersists \/ SubmitSends
  \/ \E r \in BrokerReports : SubmitReturns(r)
  \/ SubmitTimesOut \/ SubmitFails

Broker == BrokerAccepts \/ BrokerFills \/ BrokerHolds \/ BrokerEnds

Handler(c) ==
  \/ \E i \in Requests : FindOrder(c, i)
  \/ LoadOrder(c) \/ Refuse(c) \/ InsertOrFind(c) \/ Lookup(c) \/ IntentStoreFails(c)
  \/ CancelUnlinked(c) \/ CancelAtBroker(c) \/ CancelUnresolved(c)
  \/ \E r \in BrokerReports : Reread(c, r)
  \/ RereadFails(c)
  \/ ReplaceAtBroker(c) \/ ReplaceInvalid(c)
  \/ Settle(c) \/ PersistOrder(c) \/ Finalize(c)

Poller == PollSelect \/ PollRead \/ PollReadFails \/ PollApply \/ PollPersist

Next ==
  \/ SubmitThread
  \/ Broker
  \/ \E c \in Calls : Handler(c)
  \/ \E i \in Requests : Reclaim(i)
  \/ Poller
  \/ Emit
  \/ Restart

Spec == Init /\ [][Next]_vars

\* The fill poller runs on a ticker, the broker answers its reads again and
\* again, and an append to the ledger returns.  Nothing is assumed of the
\* broker's orders or of the callers.
Fairness ==
  /\ WF_vars(PollSelect)
  /\ SF_vars(PollRead)
  /\ WF_vars(PollApply)
  /\ WF_vars(PollPersist)
  /\ WF_vars(Emit)

FairSpec == Spec /\ Fairness

(***************************************************************************)
(* Properties.                                                             *)
(***************************************************************************)

\* Memory, the database and the ledger never claim a fill the broker does not
\* have, whatever stale reports and orders are applied over each other.
FillIsReal ==
  (\E o \in {mem, db} \ {Nil} : o.status = "FILLED") \/ fills > 0 => wire.status = "filled"

\* A retried or concurrent cancel, or replace to the same quantity, reaches
\* the broker once, across restarts too.
OneBrokerCallPerIntent ==
  \A c, d \in called : req[c] = req[d] => c = d

\* CancelOrder answers success with a COMPLETED intent for an order it did
\* send to the broker only when the broker has canceled it - not when a fill
\* won the race.
ConfirmedCancelIsReal ==
  \A c \in called : pc[c] = "done" /\ answer[c].kind = "canceled" => wire.status = "canceled"

\* A retried cancel answered from the intent tells the same story as the call
\* that settled it: success exactly when that call succeeded.
CancelRetryAgrees ==
  \A c, d \in Calls :
    /\ req[c] = Cancel /\ pc[c] = "done" /\ answer[c].kind \in {"canceled", "notCanceled"}
    /\ req[d] = Cancel /\ pc[d] = "done" /\ answer[d].kind = "stored"
    => (answer[d].order.status = "CANCELED" <=> answer[c].kind = "canceled")

\* The only replace that reached the broker, once acknowledged, is neither
\* lost in memory nor at the broker: no poll, submission answer or cancel that
\* read the order before it writes the old quantity back.
ReplaceSurvives ==
  \A c \in called :
    /\ pc[c] = "done" /\ answer[c].kind = "replaced" /\ restarts = 0
    /\ \A d \in called : req[d] \in Qtys => d = c
    => mem.qty = req[c] /\ wire.qty = req[c]

\* An order that the database shows as working at the broker is in s.orders
\* with its broker order id, so that the fill poller can follow it - after a
\* restart too, if that restart could read the database.
InflightIsTracked ==
  Polled(db) /\ ~blind => mem # Nil /\ mem.linked

\* The fill of such an order is announced: through transient statuses, stale
\* reports, failed writes and restarts the poller comes to order.filled.  It
\* stays out of the ledger only if an append failed, or if the process died
\* between the row that says FILLED, whoever wrote it, and the append.
\* (The run has no cancels: a cancel whose broker call failed is recorded as
\* CANCELED and takes a working order from the poller, in CancelOrder's
\* deliberate fail-open path.)
FillIsAnnounced ==
  Polled(db) /\ wire.status = "filled" ~> fills > 0 \/ lost \/ blind

(***************************************************************************)
(* What comments and documents say and the code does not keep.             *)
(***************************************************************************)

\* The ledger gets "order.filled once".
FilledOnce == fills <= 1
============================================================================
