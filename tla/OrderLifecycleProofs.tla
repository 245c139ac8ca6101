------------------------ MODULE OrderLifecycleProofs ------------------------
(***************************************************************************)
(* Proofs about OrderLifecycle for every number of calls, requests,        *)
(* quantities and restarts.                                                *)
(***************************************************************************)
EXTENDS OrderLifecycle, TLAPS

Rows == OrderIntentRecord(Requests, Orders \cup {Nil})

\* A call that found an order has a request.
LifecycleTypes ==
  /\ TypeOK
  /\ \A c \in Calls : pc[c] # "idle" => req[c] \in Requests

\* A copy of the order claims no fill the broker does not have, and no broker
\* order id that memory lacks.  After a restart, when nothing links an order
\* any more, the copies agree with the row.
Good(o) ==
  /\ o \in Orders
  /\ o.status = "FILLED" => wire.status = "filled"
  /\ restarts = 0 /\ o.linked => mem # Nil /\ mem.linked
  /\ restarts > 0 => db # Nil /\ o.linked = db.linked

CopyInv ==
  /\ mem # Nil => Good(mem)
  /\ db # Nil => Good(db)
  /\ fills > 0 \/ emitting > 0 => wire.status = "filled"

\* The submission runs in the first life only, and sends before the broker has
\* an order.
SubmitInv ==
  /\ submit.pc \in {"persistNew", "call", "await", "persist"} =>
       Good(submit.order) /\ restarts = 0 /\ mem # Nil
  /\ submit.pc = "record" => mem = Nil /\ db = Nil /\ restarts = 0
  /\ restarts = 0 /\ submit.pc # "record" => mem # Nil
  /\ submit.pc \in {"record", "persistNew", "call"} => ~inflight /\ wire.status = "none"
  /\ inflight => wire.status = "none"

Deciding == {"insert", "lookup", "call", "reread", "settle", "persist"}

CallerInv(c) ==
  /\ pc[c] \in Deciding => Good(held[c]) /\ mem # Nil
  /\ pc[c] = "load" => Good(held[c]) /\ restarts > 0

PollInv ==
  /\ poll.pc # "idle" => Good(poll.order) /\ mem # Nil
  /\ poll.pc = "apply" =>
       poll.report \in Reports /\ (poll.report.status = "filled" => wire.status = "filled")

\* What a restart that could read the database left out is not working.
TrackInv ==
  restarts > 0 /\ ~blind /\ mem = Nil /\ db # Nil => ~(db.linked /\ db.status \notin Terminal)

OrderInv ==
  /\ LifecycleTypes
  /\ CopyInv /\ SubmitInv /\ PollInv /\ TrackInv
  /\ \A c \in Calls : CallerInv(c)

\* Where a call is before its broker call.
Early == {"idle", "load", "insert", "lookup", "call"}

\* The call that inserted the intent, until its broker call is behind it.
Owner(c) == c \in called \/ pc[c] = "call"

OwnerInv ==
  /\ \A c \in Calls : Owner(c) => row[req[c]].state # "ABSENT"
  /\ \A c \in called : pc[c] \notin Early
  /\ \A c, d \in Calls : Owner(c) /\ Owner(d) /\ req[c] = req[d] => c = d

(***************************************************************************)
(* The operators on orders and rows.                                       *)
(***************************************************************************)

LEMMA AmountsOfQtys == Qtys \subseteq Amounts /\ 0 \in Amounts /\ Placed \in Qtys
  <1>1. \A q \in Qtys : q \in Nat
    BY QtysAssumption
  <1>2. \A q \in Qtys : q \in 0 .. q /\ 0 \in 0 .. q
    BY <1>1
  <1>3. QED
    BY <1>2, PlacedAssumption DEF Amounts

LEMMA Fills ==
  /\ \A st \in Working \cup Closed :
       /\ alpacaStatusToProto(st) \in Statuses \cup {"UNSPECIFIED"}
       /\ alpacaStatusToProto(st) = "FILLED" <=> st = "filled"
  /\ \A st, f, q : f \in Amounts /\ q \in Qtys => FilledQty(st, f, q) \in Amounts
  /\ BrokerReports \subseteq Reports
  /\ \A r \in BrokerReports : r.status = wire.status
  <1>1. \A st \in Working \cup Closed :
          /\ alpacaStatusToProto(st) \in Statuses \cup {"UNSPECIFIED"}
          /\ alpacaStatusToProto(st) = "FILLED" <=> st = "filled"
    BY DEF Working, Closed, alpacaStatusToProto, Statuses
  <1>2. \A st, f, q : f \in Amounts /\ q \in Qtys => FilledQty(st, f, q) \in Amounts
    BY AmountsOfQtys DEF FilledQty
  <1>3. BrokerReports \subseteq Reports /\ \A r \in BrokerReports : r.status = wire.status
    BY DEF BrokerReports
  <1>4. QED
    BY <1>1, <1>2, <1>3

\* The rows keep their shape and, once written, are never absent again.
LEMMA RowsKeep ==
  ASSUME NEW r \in Rows, NEW i \in Requests
  PROVE  /\ InsertIntent(r, i) \in Rows /\ InsertIntent(r, i).state # "ABSENT"
         /\ ReclaimOrphanIntent(Aged(r)) \in Rows
         /\ r.state # "ABSENT" => ReclaimOrphanIntent(Aged(r)).state # "ABSENT"
  BY DEF Rows, OrderIntentRecord, IntentStates, Verdicts, InsertIntent, Written, Aged,
         ReclaimOrphanIntent, Reclaimable

LEMMA FinalizeKeepsRow ==
  ASSUME NEW r \in Rows, NEW o \in Orders \cup {Nil}, NEW k
  PROVE  /\ FinalizeIntent(r, VerdictOf(k), o) \in Rows
         /\ r.state # "ABSENT" => FinalizeIntent(r, VerdictOf(k), o).state # "ABSENT"
  <1>1. VerdictOf(k) \in {"UNKNOWN", "REJECTED", "COMPLETED"}
    BY DEF VerdictOf
  <1>2. QED
    BY <1>1 DEF Rows, OrderIntentRecord, IntentStates, Verdicts, FinalizeIntent, Written

LEMMA StatusChange ==
  ASSUME NEW o \in Orders, NEW st \in Statuses
  PROVE  /\ [o EXCEPT !.status = st] \in Orders
         /\ [o EXCEPT !.status = st].status = st
         /\ [o EXCEPT !.status = st].linked = o.linked
  BY DEF Orders

LEMMA QtyChange ==
  ASSUME NEW o \in Orders, NEW q \in Qtys
  PROVE  /\ [o EXCEPT !.qty = q] \in Orders
         /\ [o EXCEPT !.qty = q].status = o.status
         /\ [o EXCEPT !.qty = q].linked = o.linked
  BY DEF Orders

LEMMA FillChange ==
  ASSUME NEW o \in Orders, NEW st \in Statuses, NEW f \in Amounts
  PROVE  /\ [o EXCEPT !.status = st, !.filled = f] \in Orders
         /\ [o EXCEPT !.status = st, !.filled = f].status = st
         /\ [o EXCEPT !.status = st, !.filled = f].linked = o.linked
  BY DEF Orders

LEMMA LinkChange ==
  ASSUME NEW o \in Orders, NEW st \in Statuses, NEW f \in Amounts
  PROVE  /\ [o EXCEPT !.linked = TRUE, !.status = st, !.filled = f] \in Orders
         /\ [o EXCEPT !.linked = TRUE, !.status = st, !.filled = f].status = st
         /\ [o EXCEPT !.linked = TRUE, !.status = st, !.filled = f].linked
  BY DEF Orders

\* What a handler or the poller makes of a report.
LEMMA AdoptedGood ==
  ASSUME NEW o \in Orders, NEW r \in Reports, Adopts(o, r), mem \in Orders, mem # Nil
  PROVE  /\ Adopted(o, r) \in Orders
         /\ Adopted(o, r).linked = mem.linked
         /\ Adopted(o, r).status = "FILLED" => r.status = "filled"
  <1>1. r.status \in Working \cup Closed /\ r.filled \in Amounts
    BY DEF Reports
  <1>2. alpacaStatusToProto(r.status) \in Statuses
    BY <1>1, Fills DEF Adopts
  <1>3. Latest(o) = mem /\ mem.qty \in Qtys
    BY DEF Latest, Orders
  <1> DEFINE st == alpacaStatusToProto(r.status)
             f  == FilledQty(st, r.filled, mem.qty)
  <1>4. st \in Statuses /\ f \in Amounts
    BY <1>1, <1>2, <1>3, Fills
  <1>5. Adopted(o, r) = [mem EXCEPT !.status = st, !.filled = f]
    BY <1>3 DEF Adopted
  <1>6. st = "FILLED" => r.status = "filled"
    BY <1>1, Fills
  <1> HIDE DEF st, f
  <1>7. /\ [mem EXCEPT !.status = st, !.filled = f] \in Orders
        /\ [mem EXCEPT !.status = st, !.filled = f].status = st
        /\ [mem EXCEPT !.status = st, !.filled = f].linked = mem.linked
    BY <1>4, FillChange
  <1>8. QED
    BY <1>5, <1>6, <1>7

(***************************************************************************)
(* What a step does to the copies it does not touch.                       *)
(***************************************************************************)

LEMMA WireStep ==
  ASSUME UNCHANGED <<mem, db, restarts>>,
         wire.status = "filled" => wire'.status = "filled"
  PROVE  \A o : Good(o) => Good(o)'
  BY DEF Good

\* The entry of s.orders is changed; it keeps its broker order id.
LEMMA MemStep ==
  ASSUME UNCHANGED <<db, wire, restarts>>,
         mem # Nil => Good(mem),
         mem' # Nil,
         mem' \in Orders,
         mem'.status = "FILLED" => wire.status = "filled",
         mem # Nil /\ mem.linked => mem'.linked,
         restarts > 0 => db # Nil /\ mem'.linked = db.linked
  PROVE  /\ \A o : Good(o) => Good(o)'
         /\ Good(mem)'
  BY DEF Good

LEMMA PersistGood ==
  ASSUME NEW o, Good(o), Persist(o), UNCHANGED <<mem, wire, restarts>>,
         db \in Orders \cup {Nil}, db # Nil => Good(db)
  PROVE  /\ \A p : Good(p) => Good(p)'
         /\ db' # Nil => Good(db)'
         /\ db' \in Orders \cup {Nil}
         /\ db' = Nil => db = Nil
  <1>1. o \in Orders
    BY DEF Good
  <1>2. CASE db' = db
    BY <1>2 DEF Good
  <1>3. CASE db = Nil /\ db' = o
    <2>1. restarts > 0 => FALSE
      BY <1>3 DEF Good
    <2>2. QED
      BY <1>1, <1>3, <2>1 DEF Good
  <1>4. CASE db # Nil /\ db' = [o EXCEPT !.qty = db.qty]
    <2>1. db.qty \in Qtys
      BY <1>4 DEF Orders
    <2>2. db' \in Orders /\ db'.status = o.status /\ db'.linked = o.linked
      BY <1>1, <1>4, <2>1, QtyChange
    <2>3. db' # Nil
      BY <2>2, NilAssumption
    <2>4. QED
      BY <1>4, <2>2, <2>3 DEF Good
  <1>5. QED
    BY <1>2, <1>3, <1>4 DEF Persist

(***************************************************************************)
(* OrderInv, action by action.                                             *)
(***************************************************************************)

LEMMA InitOrder == Init => OrderInv
  <1>1. SUFFICES ASSUME Init PROVE OrderInv
    OBVIOUS
  <1>2. /\ mem = Nil /\ db = Nil /\ submit = [pc |-> "record", order |-> Nil]
        /\ inflight = FALSE /\ wire = [status |-> "none", qty |-> Placed, filled |-> 0]
        /\ poll = [pc |-> "idle", order |-> Nil, report |-> Nil]
        /\ called = {} /\ fills = 0 /\ emitting = 0 /\ lost = FALSE /\ restarts = 0 /\ blind = FALSE
    BY <1>1 DEF Init, NoPoll
  <1>3. /\ pc = [c \in Calls |-> "idle"] /\ req = [c \in Calls |-> Nil]
        /\ held = [c \in Calls |-> Nil]
    BY <1>1 DEF Init
  <1>4. row \in [Requests -> OrderIntentRecord(Requests, Orders \cup {Nil})]
    BY <1>1 DEF Init, Absent, OrderIntentRecord, IntentStates
  <1>5. answer \in [Calls -> [kind : Answers, order : Orders \cup {Nil}]]
    BY <1>1 DEF Init, NoAnswer, Answers
  <1>6. wire \in [status : {"none"} \cup Working \cup Closed, qty : Qtys, filled : Amounts]
    BY <1>2, AmountsOfQtys
  <1>7. TypeOK
    <2>1. submit \in [pc : SubmitPCs, order : Orders \cup {Nil}]
      BY <1>2 DEF SubmitPCs
    <2>2. poll \in [pc : {"idle", "read", "apply", "persist"}, order : Orders \cup {Nil},
                    report : Reports \cup {Nil}]
      BY <1>2
    <2>3. /\ pc \in [Calls -> PCs] /\ req \in [Calls -> Requests \cup {Nil}]
          /\ held \in [Calls -> Orders \cup {Nil}]
      BY <1>3 DEF PCs
    <2>4. restarts \in Nat
      BY <1>2
    <2>5. QED
      BY <1>2, <1>4, <1>5, <1>6, <2>1, <2>2, <2>3, <2>4 DEF TypeOK
  <1>8. LifecycleTypes
    BY <1>3, <1>7 DEF LifecycleTypes
  <1>9. CopyInv /\ SubmitInv /\ PollInv /\ TrackInv
    BY <1>2 DEF CopyInv, SubmitInv, PollInv, TrackInv
  <1>10. \A c \in Calls : CallerInv(c)
    BY <1>3 DEF CallerInv, Deciding
  <1>11. QED
    BY <1>8, <1>9, <1>10 DEF OrderInv

\* Steps of the submission and the broker: calls and the poller stand still.
LEMMA CallsStand ==
  ASSUME OrderInv, \A o : Good(o) => Good(o)',
         UNCHANGED <<pc, held, poll, restarts>>,
         mem # Nil => mem' # Nil,
         wire.status = "filled" => wire'.status = "filled"
  PROVE  PollInv' /\ \A c \in Calls : CallerInv(c)'
  <1>1. PollInv'
    BY DEF OrderInv, PollInv, Good
  <1>2. ASSUME NEW c \in Calls
        PROVE  CallerInv(c)'
    <2>1. CallerInv(c)
      BY DEF OrderInv
    <2>2. QED
      BY <2>1 DEF CallerInv, Good
  <1>3. QED
    BY <1>1, <1>2

LEMMA SubmitRecordsKeeps ==
  ASSUME OrderInv, SubmitRecords
  PROVE  OrderInv'
  <1>1. /\ submit.pc = "record" /\ submit' = [pc |-> "persistNew", order |-> mem']
        /\ mem' = [status |-> "NEW", linked |-> FALSE, qty |-> wire.qty, filled |-> 0]
        /\ UNCHANGED <<db, inflight, wire, row, pc, req, held, answer, called, poll, fills,
                       emitting, lost, restarts, blind>>
    BY DEF SubmitRecords, SubmitAt, world, calls, eventVars, history
  <1>2. /\ mem = Nil /\ db = Nil /\ restarts = 0 /\ ~inflight /\ wire.status = "none"
    BY <1>1 DEF OrderInv, SubmitInv
  <1>3. mem' \in Orders /\ mem' # Nil /\ mem'.status = "NEW"
    <2>1. wire.qty \in Qtys
      BY DEF OrderInv, LifecycleTypes, TypeOK
    <2>2. mem' \in Orders
      BY <1>1, <2>1, AmountsOfQtys DEF Orders, Statuses
    <2>3. QED
      BY <1>1, <2>2, NilAssumption
  <1>4. (\A o : Good(o) => Good(o)') /\ Good(mem)'
    BY <1>1, <1>2, <1>3, MemStep
  <1>5. LifecycleTypes'
    <2>1. submit' \in [pc : SubmitPCs, order : Orders \cup {Nil}]
      BY <1>1, <1>3 DEF SubmitPCs
    <2>2. QED
      BY <1>1, <1>3, <2>1 DEF OrderInv, LifecycleTypes, TypeOK
  <1>6. CopyInv' /\ SubmitInv' /\ TrackInv'
    BY <1>1, <1>2, <1>3, <1>4 DEF OrderInv, CopyInv, SubmitInv, TrackInv, Good
  <1>7. PollInv' /\ \A c \in Calls : CallerInv(c)'
    BY <1>1, <1>2, <1>4, CallsStand
  <1>8. QED
    BY <1>5, <1>6, <1>7 DEF OrderInv

LEMMA SubmitPersistsKeeps ==
  ASSUME OrderInv, SubmitPersists
  PROVE  OrderInv'
  <1>1. /\ submit.pc \in {"persistNew", "persist"} /\ Persist(submit.order)
        /\ \/ submit.pc = "persistNew" /\ submit' = [pc |-> "call", order |-> submit.order]
           \/ submit.pc = "persist" /\ submit' = [pc |-> "done", order |-> Nil]
        /\ UNCHANGED <<mem, inflight, wire, row, pc, req, held, answer, called, poll, fills,
                       emitting, lost, restarts, blind>>
    BY DEF SubmitPersists, SubmitAt, world, calls, eventVars, history
  <1>2. Good(submit.order) /\ restarts = 0 /\ mem # Nil
    BY <1>1 DEF OrderInv, SubmitInv
  <1>3. /\ \A o : Good(o) => Good(o)'
        /\ db' # Nil => Good(db)'
        /\ db' \in Orders \cup {Nil}
    BY <1>1, <1>2, PersistGood DEF OrderInv, CopyInv, LifecycleTypes, TypeOK
  <1>4. LifecycleTypes'
    <2>1. submit' \in [pc : SubmitPCs, order : Orders \cup {Nil}]
      BY <1>1, <1>2 DEF SubmitPCs, Good
    <2>2. QED
      BY <1>1, <1>3, <2>1 DEF OrderInv, LifecycleTypes, TypeOK
  <1>5. CopyInv' /\ TrackInv'
    BY <1>1, <1>2, <1>3 DEF OrderInv, CopyInv, TrackInv, Good
  <1>6. SubmitInv'
    BY <1>1, <1>2, <1>3 DEF OrderInv, SubmitInv, Good
  <1>7. PollInv' /\ \A c \in Calls : CallerInv(c)'
    BY <1>1, <1>3, CallsStand
  <1>8. QED
    BY <1>4, <1>5, <1>6, <1>7 DEF OrderInv

LEMMA SubmitWaits ==
  ASSUME OrderInv, SubmitSends \/ SubmitTimesOut
  PROVE  OrderInv'
  <1>1. /\ submit.pc \in {"call", "await"}
        /\ \/ submit.pc = "call" /\ inflight' = TRUE /\ submit' = [pc |-> "await", order |-> submit.order]
           \/ inflight' = inflight /\ submit' = [pc |-> "persist", order |-> submit.order]
        /\ UNCHANGED <<mem, db, wire, row, pc, req, held, answer, called, poll, fills, emitting,
                       lost, restarts, blind>>
    BY DEF SubmitSends, SubmitTimesOut, SubmitAt, world, orders, calls, eventVars, history
  <1>2. Good(submit.order) /\ restarts = 0 /\ mem # Nil
    BY <1>1 DEF OrderInv, SubmitInv
  <1>3. \A o : Good(o) => Good(o)'
    BY <1>1 DEF Good
  <1>4. LifecycleTypes'
    <2>1. submit' \in [pc : SubmitPCs, order : Orders \cup {Nil}]
      BY <1>1, <1>2 DEF SubmitPCs, Good
    <2>2. inflight' \in BOOLEAN
      BY <1>1 DEF OrderInv, LifecycleTypes, TypeOK
    <2>3. QED
      BY <1>1, <2>1, <2>2 DEF OrderInv, LifecycleTypes, TypeOK
  <1>5. CopyInv' /\ TrackInv'
    BY <1>1 DEF OrderInv, CopyInv, TrackInv, Good
  <1>6. SubmitInv'
    BY <1>1, <1>2, <1>3 DEF OrderInv, SubmitInv, Good
  <1>7. PollInv' /\ \A c \in Calls : CallerInv(c)'
    BY <1>1, <1>3, CallsStand
  <1>8. QED
    BY <1>4, <1>5, <1>6, <1>7 DEF OrderInv

\* The submission's answer, good or bad, changes the order in memory.
LEMMA SubmitAnswered ==
  ASSUME OrderInv, submit.pc \in {"call", "await"},
         mem' \in Orders, mem'.status = "FILLED" => wire.status = "filled",
         mem.linked => mem'.linked,
         submit' = [pc |-> "persist", order |-> mem'],
         UNCHANGED <<db, inflight, wire, row, pc, req, held, answer, called, poll, fills,
                     emitting, lost, restarts, blind>>
  PROVE  OrderInv'
  <1>1. restarts = 0 /\ mem # Nil /\ (mem # Nil => Good(mem))
    BY DEF OrderInv, SubmitInv, CopyInv
  <1>2. mem' # Nil
    BY NilAssumption
  <1>3. (\A o : Good(o) => Good(o)') /\ Good(mem)'
    BY <1>1, <1>2, MemStep
  <1>4. LifecycleTypes'
    <2>1. submit' \in [pc : SubmitPCs, order : Orders \cup {Nil}]
      BY DEF SubmitPCs
    <2>2. QED
      BY <2>1 DEF OrderInv, LifecycleTypes, TypeOK
  <1>5. CopyInv' /\ TrackInv'
    BY <1>1, <1>2, <1>3 DEF OrderInv, CopyInv, TrackInv, Good
  <1>6. SubmitInv'
    BY <1>1, <1>2, <1>3 DEF OrderInv, SubmitInv, Good
  <1>7. PollInv' /\ \A c \in Calls : CallerInv(c)'
    BY <1>2, <1>3, CallsStand
  <1>8. QED
    BY <1>4, <1>5, <1>6, <1>7 DEF OrderInv

LEMMA SubmitReturnsKeeps ==
  ASSUME OrderInv, NEW r \in BrokerReports, SubmitReturns(r)
  PROVE  OrderInv'
  <1> DEFINE s == alpacaStatusToProto(r.status)
             st == IF s = "UNSPECIFIED" THEN mem.status ELSE s
             f == FilledQty(st, r.filled, mem.qty)
  <1>1. submit.pc = "await"
    BY DEF SubmitReturns
  <1>2. /\ Good(submit.order) /\ restarts = 0 /\ mem # Nil /\ Good(mem) /\ mem \in Orders
    BY <1>1 DEF OrderInv, SubmitInv, CopyInv, Good
  <1>3. Latest(submit.order) = mem
    BY <1>2 DEF Latest
  <1>4. /\ mem' = [mem EXCEPT !.linked = TRUE, !.status = st, !.filled = f]
        /\ submit' = [pc |-> "persist", order |-> mem']
        /\ UNCHANGED <<db, inflight, wire, row, pc, req, held, answer, called, poll, fills,
                       emitting, lost, restarts, blind>>
    BY <1>3 DEF SubmitReturns, SubmitAt, world, calls, eventVars, history
  <1>5. /\ r.status \in Working \cup Closed /\ r.filled \in Amounts /\ r.status = wire.status
        /\ mem.status \in Statuses /\ mem.qty \in Qtys
    BY <1>2, Fills DEF Reports, Orders
  <1>6. st \in Statuses /\ f \in Amounts
    <2>1. s \in Statuses \cup {"UNSPECIFIED"}
      BY <1>5, Fills
    <2>2. st \in Statuses
      BY <1>5, <2>1
    <2>3. QED
      BY <1>5, <2>2, Fills
  <1>7. st = "FILLED" => wire.status = "filled"
    <2>1. s = "FILLED" => r.status = "filled"
      BY <1>5, Fills
    <2>2. mem.status = "FILLED" => wire.status = "filled"
      BY <1>2 DEF Good
    <2>3. QED
      BY <1>5, <2>1, <2>2
  <1> HIDE DEF s, st, f
  <1>8. mem' \in Orders /\ mem'.status = st /\ mem'.linked
    <2>1. /\ [mem EXCEPT !.linked = TRUE, !.status = st, !.filled = f] \in Orders
          /\ [mem EXCEPT !.linked = TRUE, !.status = st, !.filled = f].status = st
          /\ [mem EXCEPT !.linked = TRUE, !.status = st, !.filled = f].linked
      BY <1>2, <1>6, LinkChange
    <2>2. QED
      BY <1>4, <2>1
  <1>9. QED
    BY <1>1, <1>4, <1>7, <1>8, SubmitAnswered

LEMMA SubmitFailsKeeps ==
  ASSUME OrderInv, SubmitFails
  PROVE  OrderInv'
  <1>1. submit.pc \in {"call", "await"}
    BY DEF SubmitFails
  <1>2. mem # Nil /\ mem \in Orders
    BY <1>1 DEF OrderInv, SubmitInv, LifecycleTypes, TypeOK
  <1>3. Latest(submit.order) = mem
    BY <1>2 DEF Latest
  <1>4. /\ mem' = [mem EXCEPT !.status = "REJECTED"]
        /\ submit' = [pc |-> "persist", order |-> mem']
        /\ UNCHANGED <<db, inflight, wire, row, pc, req, held, answer, called, poll, fills,
                       emitting, lost, restarts, blind>>
    BY <1>3 DEF SubmitFails, SubmitAt, world, calls, eventVars, history
  <1>5. mem' \in Orders /\ mem'.status = "REJECTED" /\ mem'.linked = mem.linked
    <2>1. "REJECTED" \in Statuses
      BY DEF Statuses
    <2>2. QED
      BY <1>2, <1>4, <2>1, StatusChange
  <1>6. QED
    BY <1>1, <1>4, <1>5, SubmitAnswered

\* What the broker has filled stays filled, and it takes an order on once.
LEMMA BrokerKeeps ==
  ASSUME OrderInv, Broker
  PROVE  OrderInv'
  <1>1. UNCHANGED <<mem, db, submit, row, pc, req, held, answer, called, poll, fills, emitting,
                    lost, restarts, blind>>
    BY DEF Broker, BrokerAccepts, BrokerFills, BrokerHolds, BrokerEnds, orders, calls, eventVars,
           history
  <1>2. wire \in [status : {"none"} \cup Working \cup Closed, qty : Qtys, filled : Amounts]
    BY DEF OrderInv, LifecycleTypes, TypeOK
  <1>3. inflight => wire.status = "none"
    BY DEF OrderInv, SubmitInv
  <1>4. wire.qty \in Qtys /\ wire.qty \in Amounts
    BY <1>2, AmountsOfQtys
  <1>5. /\ wire' \in [status : {"none"} \cup Working \cup Closed, qty : Qtys, filled : Amounts]
        /\ wire.status = "filled" => wire'.status = "filled"
        /\ inflight' \in BOOLEAN /\ (inflight' => inflight /\ wire'.status = "none")
        /\ wire.status = "none" /\ ~inflight => wire'.status = "none"
    <2>1. CASE BrokerAccepts
      <3>1. /\ inflight /\ inflight' = FALSE
            /\ \/ wire' = [wire EXCEPT !.status = "new"]
               \/ wire' = [wire EXCEPT !.status = "filled", !.filled = wire.qty]
               \/ wire' = wire
        BY <2>1 DEF BrokerAccepts
      <3>2. wire' \in [status : {"none"} \cup Working \cup Closed, qty : Qtys, filled : Amounts]
        BY <1>2, <1>4, <3>1 DEF Working, Closed
      <3>3. QED
        BY <1>3, <3>1, <3>2
    <2>2. CASE BrokerFills
      <3>1. PICK n \in Amounts :
              wire' = [wire EXCEPT !.filled = n,
                         !.status = IF n = wire.qty THEN "filled" ELSE "partially_filled"]
        BY <2>2 DEF BrokerFills
      <3>2. /\ wire' \in [status : {"none"} \cup Working \cup Closed, qty : Qtys, filled : Amounts]
        BY <1>2, <3>1 DEF Working, Closed
      <3>3. wire.status \in Working /\ inflight' = inflight
        BY <2>2 DEF BrokerFills
      <3>4. QED
        BY <1>3, <3>2, <3>3 DEF Working, OrderInv, LifecycleTypes, TypeOK
    <2>3. CASE BrokerHolds \/ BrokerEnds
      <3>1. /\ wire.status \in Working /\ inflight' = inflight
            /\ \E st \in {"transient", "canceled", "rejected"} : wire' = [wire EXCEPT !.status = st]
        BY <2>3 DEF BrokerHolds, BrokerEnds, Working
      <3>2. wire' \in [status : {"none"} \cup Working \cup Closed, qty : Qtys, filled : Amounts]
        BY <1>2, <3>1 DEF Working, Closed
      <3>3. QED
        BY <1>3, <3>1, <3>2 DEF Working, OrderInv, LifecycleTypes, TypeOK
    <2>4. QED
      BY <2>1, <2>2, <2>3 DEF Broker
  <1>6. \A o : Good(o) => Good(o)'
    BY <1>1, <1>5, WireStep
  <1>7. LifecycleTypes'
    BY <1>1, <1>5 DEF OrderInv, LifecycleTypes, TypeOK
  <1>8. CopyInv' /\ TrackInv'
    BY <1>1, <1>5, <1>6 DEF OrderInv, CopyInv, TrackInv, Good
  <1>9. SubmitInv'
    BY <1>1, <1>5, <1>6 DEF OrderInv, SubmitInv, Good
  <1>10. PollInv' /\ \A c \in Calls : CallerInv(c)'
    BY <1>1, <1>5, <1>6, CallsStand
  <1>11. QED
    BY <1>7, <1>8, <1>9, <1>10 DEF OrderInv

\* A step of call c that leaves the order alone.
LEMMA CallSide ==
  ASSUME OrderInv, NEW c \in Calls,
         UNCHANGED <<mem, db, submit, inflight, poll, fills, emitting, lost, restarts, blind>>,
         wire' \in [status : {"none"} \cup Working \cup Closed, qty : Qtys, filled : Amounts],
         wire.status = "filled" => wire'.status = "filled",
         wire.status = "none" => wire'.status = "none",
         row' \in [Requests -> Rows],
         pc' \in [Calls -> PCs],
         req' \in [Calls -> Requests \cup {Nil}],
         held' \in [Calls -> Orders \cup {Nil}],
         answer' \in [Calls -> [kind : Answers, order : Orders \cup {Nil}]],
         called' \subseteq Calls,
         \A d \in Calls : d # c => pc'[d] = pc[d] /\ req'[d] = req[d] /\ held'[d] = held[d],
         req'[c] \in Requests,
         pc'[c] \in Deciding => Good(held'[c]) /\ mem # Nil,
         pc'[c] = "load" => Good(held'[c]) /\ restarts > 0
  PROVE  OrderInv'
  <1>1. \A o : Good(o) => Good(o)'
    BY WireStep
  <1>2. LifecycleTypes'
    BY DEF OrderInv, LifecycleTypes, TypeOK, Rows
  <1>3. CopyInv' /\ TrackInv' /\ PollInv'
    BY <1>1 DEF OrderInv, CopyInv, TrackInv, PollInv, Good
  <1>4. SubmitInv'
    BY <1>1 DEF OrderInv, SubmitInv, Good
  <1>5. ASSUME NEW d \in Calls
        PROVE  CallerInv(d)'
    <2>1. CASE d = c
      BY <1>1, <2>1 DEF CallerInv, Good
    <2>2. CASE d # c
      <3>1. CallerInv(d)
        BY DEF OrderInv
      <3>2. QED
        BY <1>1, <2>2, <3>1 DEF CallerInv, Good
    <2>3. QED
      BY <2>1, <2>2
  <1>6. QED
    BY <1>2, <1>3, <1>4, <1>5 DEF OrderInv

\* What the parts of a call's step do to the functions they change.
LEMMA CallTypes ==
  ASSUME OrderInv
  PROVE  /\ wire \in [status : {"none"} \cup Working \cup Closed, qty : Qtys, filled : Amounts]
         /\ row \in [Requests -> Rows] /\ pc \in [Calls -> PCs]
         /\ req \in [Calls -> Requests \cup {Nil}] /\ held \in [Calls -> Orders \cup {Nil}]
         /\ answer \in [Calls -> [kind : Answers, order : Orders \cup {Nil}]]
         /\ called \subseteq Calls /\ mem \in Orders \cup {Nil} /\ db \in Orders \cup {Nil}
         /\ mem # Nil => Good(mem) /\ mem \in Orders
         /\ db # Nil => Good(db)
         /\ \A c \in Calls : pc[c] # "idle" => req[c] \in Requests
         /\ \A c \in Calls : CallerInv(c)
  BY DEF OrderInv, LifecycleTypes, TypeOK, CopyInv, Rows

LEMMA GotoEffect ==
  ASSUME OrderInv, NEW c \in Calls, NEW label \in PCs, Goto(c, label)
  PROVE  pc' \in [Calls -> PCs] /\ pc'[c] = label /\ \A d \in Calls : d # c => pc'[d] = pc[d]
  BY CallTypes DEF Goto

LEMMA HoldEffect ==
  ASSUME OrderInv, NEW c \in Calls, NEW o \in Orders \cup {Nil}, Hold(c, o)
  PROVE  /\ held' \in [Calls -> Orders \cup {Nil}] /\ held'[c] = o
         /\ \A d \in Calls : d # c => held'[d] = held[d]
  BY CallTypes DEF Hold

LEMMA DecideEffect ==
  ASSUME OrderInv, NEW c \in Calls, NEW k \in Answers, NEW o \in Orders \cup {Nil},
         Decide(c, k, o)
  PROVE  answer' \in [Calls -> [kind : Answers, order : Orders \cup {Nil}]]
  BY CallTypes DEF Decide

LEMMA ReplyEffect ==
  ASSUME OrderInv, NEW c \in Calls, NEW k \in Answers, NEW o \in Orders \cup {Nil},
         Reply(c, k, o)
  PROVE  /\ pc' \in [Calls -> PCs] /\ pc'[c] = "done"
         /\ \A d \in Calls : d # c => pc'[d] = pc[d]
         /\ held' \in [Calls -> Orders \cup {Nil}]
         /\ \A d \in Calls : d # c => held'[d] = held[d]
         /\ answer' \in [Calls -> [kind : Answers, order : Orders \cup {Nil}]]
  <1>1. Goto(c, "done") /\ Decide(c, k, o) /\ Hold(c, Nil) /\ "done" \in PCs
    BY DEF Reply, PCs
  <1>2. QED
    BY <1>1, GotoEffect, HoldEffect, DecideEffect

\* The copy of a deciding call, brought up to date.
LEMMA LatestGood ==
  ASSUME OrderInv, NEW c \in Calls, pc[c] \in Deciding
  PROVE  /\ mem # Nil /\ mem \in Orders /\ Good(mem) /\ Good(held[c]) /\ held[c] \in Orders
         /\ Latest(held[c]) = mem /\ Latest(held[c]) \in Orders \cup {Nil}
         /\ req[c] \in Requests /\ pc[c] # "idle"
  BY CallTypes DEF CallerInv, Latest, Deciding, Good

LEMMA InsertEffect ==
  ASSUME OrderInv, NEW i \in Requests,
         row' = [row EXCEPT ![i] = InsertIntent(row[i], i)] \/ row' = row
  PROVE  /\ row' \in [Requests -> Rows]
         /\ \A j \in Requests : row[j].state # "ABSENT" => row'[j].state # "ABSENT"
  <1>1. InsertIntent(row[i], i) \in Rows /\ InsertIntent(row[i], i).state # "ABSENT"
    BY CallTypes, RowsKeep
  <1>2. QED
    BY <1>1, CallTypes

LEMMA FindKeeps ==
  ASSUME OrderInv, NEW c \in Calls, NEW i \in Requests, FindOrder(c, i)
  PROVE  OrderInv'
  <1>1. /\ UNCHANGED <<mem, db, submit, inflight, wire, row, answer, called, poll, fills,
                       emitting, lost, restarts, blind>>
        /\ req' = [req EXCEPT ![c] = i]
        /\ \/ mem # Nil /\ Goto(c, "insert") /\ Hold(c, mem)
           \/ mem = Nil /\ db # Nil /\ Goto(c, "load") /\ Hold(c, db)
    BY DEF FindOrder, orders, world, eventVars, history
  <1>2. /\ req' \in [Calls -> Requests \cup {Nil}] /\ req'[c] = i
        /\ \A d \in Calls : d # c => req'[d] = req[d]
    BY <1>1, CallTypes
  <1>3. CASE mem # Nil /\ Goto(c, "insert") /\ Hold(c, mem)
    <2>1. /\ pc' \in [Calls -> PCs] /\ pc'[c] = "insert"
          /\ \A d \in Calls : d # c => pc'[d] = pc[d]
      BY <1>3, GotoEffect DEF PCs
    <2>2. /\ held' \in [Calls -> Orders \cup {Nil}] /\ held'[c] = mem
          /\ \A d \in Calls : d # c => held'[d] = held[d]
      BY <1>3, CallTypes, HoldEffect
    <2>3. QED
      BY <1>1, <1>2, <1>3, <2>1, <2>2, CallTypes, CallSide
  <1>4. CASE mem = Nil /\ db # Nil /\ Goto(c, "load") /\ Hold(c, db)
    <2>1. /\ pc' \in [Calls -> PCs] /\ pc'[c] = "load"
          /\ \A d \in Calls : d # c => pc'[d] = pc[d]
      BY <1>4, GotoEffect DEF PCs
    <2>2. /\ held' \in [Calls -> Orders \cup {Nil}] /\ held'[c] = db
          /\ \A d \in Calls : d # c => held'[d] = held[d]
      BY <1>4, CallTypes, HoldEffect
    <2>3. restarts > 0
      BY <1>4 DEF OrderInv, SubmitInv, LifecycleTypes, TypeOK
    <2>4. QED
      BY <1>1, <1>2, <1>4, <2>1, <2>2, <2>3, CallTypes, CallSide DEF Deciding
  <1>5. QED
    BY <1>1, <1>3, <1>4

\* A call that is told something and is done with it.
LEMMA RepliesKeep ==
  ASSUME OrderInv, NEW c \in Calls,
         \/ Refuse(c) \/ Lookup(c) \/ IntentStoreFails(c) \/ ReplaceInvalid(c)
  PROVE  OrderInv'
  <1>1. /\ UNCHANGED <<mem, db, submit, inflight, wire, req, called, poll, fills, emitting, lost,
                       restarts, blind>>
        /\ pc[c] \in {"insert", "lookup", "call"}
        /\ row' = row \/ row' = [row EXCEPT ![req[c]] = InsertIntent(row[req[c]], req[c])]
    BY DEF Refuse, Lookup, IntentStoreFails, ReplaceInvalid, orders, world, eventVars, history
  <1>2. req[c] \in Requests
    BY <1>1, CallTypes
  <1>3. \E k \in Answers, o \in Orders \cup {Nil} : Reply(c, k, o)
    <2>1. row[req[c]].stored \in Orders \cup {Nil}
      BY <1>2, CallTypes DEF Rows, OrderIntentRecord
    <2>2. QED
      BY <2>1 DEF Refuse, Lookup, IntentStoreFails, ReplaceInvalid, Answers
  <1>4. /\ pc' \in [Calls -> PCs] /\ pc'[c] = "done"
        /\ \A d \in Calls : d # c => pc'[d] = pc[d]
        /\ held' \in [Calls -> Orders \cup {Nil}]
        /\ \A d \in Calls : d # c => held'[d] = held[d]
        /\ answer' \in [Calls -> [kind : Answers, order : Orders \cup {Nil}]]
    BY <1>3, ReplyEffect
  <1>5. row' \in [Requests -> Rows]
    BY <1>1, <1>2, InsertEffect, CallTypes
  <1>6. QED
    BY <1>1, <1>2, <1>4, <1>5, CallTypes, CallSide DEF Deciding

LEMMA InsertKeeps ==
  ASSUME OrderInv, NEW c \in Calls, InsertOrFind(c)
  PROVE  OrderInv'
  <1>1. /\ UNCHANGED <<mem, db, submit, inflight, wire, req, held, answer, called, poll, fills,
                       emitting, lost, restarts, blind>>
        /\ pc[c] = "insert"
        /\ row' = [row EXCEPT ![req[c]] = InsertIntent(row[req[c]], req[c])]
        /\ Goto(c, "call") \/ Goto(c, "lookup")
    BY DEF InsertOrFind, orders, world, eventVars, history
  <1>2. req[c] \in Requests /\ Good(held[c]) /\ mem # Nil
    BY <1>1, LatestGood DEF Deciding
  <1>3. /\ pc' \in [Calls -> PCs] /\ pc'[c] \in {"call", "lookup"}
        /\ \A d \in Calls : d # c => pc'[d] = pc[d]
    BY <1>1, GotoEffect DEF PCs
  <1>4. row' \in [Requests -> Rows]
    BY <1>1, <1>2, InsertEffect
  <1>5. QED
    BY <1>1, <1>2, <1>3, <1>4, CallTypes, CallSide

\* What the broker does for a cancel or a replace it only does to a working order.
LEMMA CallMovesWire ==
  ASSUME OrderInv,
         \/ wire' = wire
         \/ wire.status \in Working /\ wire' = [wire EXCEPT !.status = "canceled"]
         \/ wire.status \in Working /\ \E q \in Qtys : wire' = [wire EXCEPT !.qty = q]
  PROVE  /\ wire' \in [status : {"none"} \cup Working \cup Closed, qty : Qtys, filled : Amounts]
         /\ wire.status = "filled" => wire'.status = "filled"
         /\ wire.status = "none" => wire'.status = "none"
  BY CallTypes DEF Working, Closed

\* The broker call of a cancel, and a reread that failed.
LEMMA CancelsKeep ==
  ASSUME OrderInv, NEW c \in Calls,
         \/ CancelUnlinked(c) \/ CancelAtBroker(c) \/ CancelUnresolved(c) \/ RereadFails(c)
  PROVE  OrderInv'
  <1>1. /\ UNCHANGED <<mem, db, submit, inflight, row, req, poll, fills, emitting, lost, restarts,
                       blind>>
        /\ pc[c] \in {"call", "reread"}
        /\ called' \in {called, called \cup {c}}
        /\ Hold(c, Latest(held[c]))
        /\ Goto(c, "settle") \/ Goto(c, "reread") \/ Goto(c, "finalize")
        /\ answer' = answer \/ \E k \in {"canceled", "canceledUnknown", "unavailable"} : Decide(c, k, Nil)
        /\ \/ wire' = wire
           \/ wire.status \in Working /\ wire' = [wire EXCEPT !.status = "canceled"]
    BY DEF CancelUnlinked, CancelAtBroker, CancelUnresolved, RereadFails, orders, world,
           eventVars, history
  <1>2. /\ mem # Nil /\ Good(mem) /\ Latest(held[c]) = mem /\ mem \in Orders
        /\ req[c] \in Requests
    BY <1>1, LatestGood DEF Deciding
  <1>3. /\ pc' \in [Calls -> PCs] /\ pc'[c] \in {"settle", "reread", "finalize"}
        /\ \A d \in Calls : d # c => pc'[d] = pc[d]
    BY <1>1, GotoEffect DEF PCs
  <1>4. /\ held' \in [Calls -> Orders \cup {Nil}] /\ held'[c] = mem
        /\ \A d \in Calls : d # c => held'[d] = held[d]
    BY <1>1, <1>2, HoldEffect
  <1>5. answer' \in [Calls -> [kind : Answers, order : Orders \cup {Nil}]]
    BY <1>1, CallTypes, DecideEffect DEF Answers
  <1>6. /\ wire' \in [status : {"none"} \cup Working \cup Closed, qty : Qtys, filled : Amounts]
        /\ wire.status = "filled" => wire'.status = "filled"
        /\ wire.status = "none" => wire'.status = "none"
    BY <1>1, CallMovesWire
  <1>7. called' \subseteq Calls
    BY <1>1, CallTypes
  <1>8. QED
    BY <1>1, <1>2, <1>3, <1>4, <1>5, <1>6, <1>7, CallTypes, CallSide

LEMMA ReplaceKeeps ==
  ASSUME OrderInv, NEW c \in Calls, ReplaceAtBroker(c)
  PROVE  OrderInv'
  <1>1. /\ UNCHANGED <<mem, db, submit, inflight, row, req, poll, fills, emitting, lost, restarts,
                       blind>>
        /\ pc[c] = "call" /\ req[c] # Cancel
        /\ called' = called \cup {c}
        /\ \/ wire' = wire
           \/ wire.status \in Working /\ wire' = [wire EXCEPT !.qty = req[c]]
        /\ \/ /\ Hold(c, Latest(held[c]))
              /\ \/ Goto(c, "settle") /\ Decide(c, "replaced", Nil)
                 \/ Goto(c, "finalize") /\ Decide(c, "rejected", Nil)
           \/ Reply(c, "uncertain", Nil)
    BY DEF ReplaceAtBroker, orders, eventVars, history
  <1>2. /\ mem # Nil /\ Good(mem) /\ Latest(held[c]) = mem /\ mem \in Orders
        /\ req[c] \in Requests
    BY <1>1, LatestGood DEF Deciding
  <1>3. req[c] \in Qtys
    BY <1>1, <1>2, RequestsAssumption
  <1>4. /\ wire' \in [status : {"none"} \cup Working \cup Closed, qty : Qtys, filled : Amounts]
        /\ wire.status = "filled" => wire'.status = "filled"
        /\ wire.status = "none" => wire'.status = "none"
    BY <1>1, <1>3, CallMovesWire
  <1>5. called' \subseteq Calls
    BY <1>1, CallTypes
  <1>6. CASE Hold(c, Latest(held[c])) /\ \/ Goto(c, "settle") /\ Decide(c, "replaced", Nil)
                                         \/ Goto(c, "finalize") /\ Decide(c, "rejected", Nil)
    <2>1. /\ pc' \in [Calls -> PCs] /\ pc'[c] \in {"settle", "finalize"}
          /\ \A d \in Calls : d # c => pc'[d] = pc[d]
      BY <1>6, GotoEffect DEF PCs
    <2>2. /\ held' \in [Calls -> Orders \cup {Nil}] /\ held'[c] = mem
          /\ \A d \in Calls : d # c => held'[d] = held[d]
      BY <1>2, <1>6, HoldEffect
    <2>3. answer' \in [Calls -> [kind : Answers, order : Orders \cup {Nil}]]
      BY <1>6, DecideEffect DEF Answers
    <2>4. QED
      BY <1>1, <1>2, <1>4, <1>5, <2>1, <2>2, <2>3, CallTypes, CallSide
  <1>7. CASE Reply(c, "uncertain", Nil)
    <2>1. /\ pc' \in [Calls -> PCs] /\ pc'[c] = "done"
          /\ \A d \in Calls : d # c => pc'[d] = pc[d]
          /\ held' \in [Calls -> Orders \cup {Nil}]
          /\ \A d \in Calls : d # c => held'[d] = held[d]
          /\ answer' \in [Calls -> [kind : Answers, order : Orders \cup {Nil}]]
      BY <1>7, ReplyEffect DEF Answers
    <2>2. QED
      BY <1>1, <1>2, <1>4, <1>5, <2>1, CallTypes, CallSide DEF Deciding
  <1>8. QED
    BY <1>1, <1>6, <1>7

LEMMA FinalizeKeeps ==
  ASSUME OrderInv, NEW c \in Calls, Finalize(c)
  PROVE  OrderInv'
  <1>1. /\ UNCHANGED <<mem, db, submit, inflight, wire, req, called, poll, fills, emitting, lost,
                       restarts, blind>>
        /\ pc[c] = "finalize"
        /\ \/ row' = row
           \/ row' = [row EXCEPT ![req[c]] =
                        FinalizeIntent(row[req[c]], VerdictOf(answer[c].kind), held[c])]
        /\ Reply(c, answer[c].kind, held[c])
    BY DEF Finalize, orders, world, eventVars, history
  <1>2. /\ req[c] \in Requests /\ held[c] \in Orders \cup {Nil} /\ answer[c].kind \in Answers
        /\ row[req[c]] \in Rows
    BY <1>1, CallTypes
  <1>3. row' \in [Requests -> Rows]
    <2>1. FinalizeIntent(row[req[c]], VerdictOf(answer[c].kind), held[c]) \in Rows
      BY <1>2, FinalizeKeepsRow
    <2>2. QED
      BY <1>1, <1>2, <2>1, CallTypes
  <1>4. /\ pc' \in [Calls -> PCs] /\ pc'[c] = "done"
        /\ \A d \in Calls : d # c => pc'[d] = pc[d]
        /\ held' \in [Calls -> Orders \cup {Nil}]
        /\ \A d \in Calls : d # c => held'[d] = held[d]
        /\ answer' \in [Calls -> [kind : Answers, order : Orders \cup {Nil}]]
    BY <1>1, <1>2, ReplyEffect
  <1>5. QED
    BY <1>1, <1>2, <1>3, <1>4, CallTypes, CallSide DEF Deciding

\* A step that changes the order in memory, by a call or by the poller.
LEMMA MemSide ==
  ASSUME OrderInv,
         UNCHANGED <<db, submit, inflight, wire, row, req, called, fills, emitting, lost,
                     restarts, blind>>,
         mem # Nil \/ restarts > 0,
         mem' \in Orders,
         mem'.status = "FILLED" => wire.status = "filled",
         mem # Nil /\ mem.linked => mem'.linked,
         restarts > 0 => db # Nil /\ mem'.linked = db.linked,
         pc' \in [Calls -> PCs],
         held' \in [Calls -> Orders \cup {Nil}],
         answer' \in [Calls -> [kind : Answers, order : Orders \cup {Nil}]],
         poll' \in [pc : {"idle", "read", "apply", "persist"}, order : Orders \cup {Nil},
                    report : Reports \cup {Nil}],
         \A c \in Calls : pc'[c] # "idle" => req[c] \in Requests
  PROVE  /\ \A o : Good(o) => Good(o)'
         /\ Good(mem)' /\ mem' # Nil
         /\ LifecycleTypes' /\ CopyInv' /\ SubmitInv' /\ TrackInv'
  <1>1. mem' # Nil
    BY NilAssumption
  <1>2. mem # Nil => Good(mem)
    BY CallTypes
  <1>3. (\A o : Good(o) => Good(o)') /\ Good(mem)'
    BY <1>1, <1>2, MemStep
  <1>4. LifecycleTypes'
    BY DEF OrderInv, LifecycleTypes, TypeOK
  <1>5. CopyInv' /\ TrackInv'
    BY <1>1, <1>3 DEF OrderInv, CopyInv, TrackInv, Good
  <1>6. SubmitInv'
    BY <1>1, <1>3 DEF OrderInv, SubmitInv, Good
  <1>7. QED
    BY <1>1, <1>3, <1>4, <1>5, <1>6

\* Other calls and the poller, when the order in memory has changed.
LEMMA CallMem ==
  ASSUME OrderInv, NEW c \in Calls,
         UNCHANGED <<db, submit, inflight, wire, row, req, called, poll, fills, emitting, lost,
                     restarts, blind>>,
         mem # Nil \/ restarts > 0,
         mem' \in Orders,
         mem'.status = "FILLED" => wire.status = "filled",
         mem # Nil /\ mem.linked => mem'.linked,
         restarts > 0 => db # Nil /\ mem'.linked = db.linked,
         pc' \in [Calls -> PCs],
         held' \in [Calls -> Orders \cup {Nil}],
         answer' \in [Calls -> [kind : Answers, order : Orders \cup {Nil}]],
         \A d \in Calls : d # c => pc'[d] = pc[d] /\ held'[d] = held[d],
         pc[c] # "idle", pc'[c] # "load",
         held'[c] \in {held[c], mem'}, Good(held[c])
  PROVE  OrderInv'
  <1>1. poll' \in [pc : {"idle", "read", "apply", "persist"}, order : Orders \cup {Nil},
                   report : Reports \cup {Nil}]
    BY DEF OrderInv, LifecycleTypes, TypeOK
  <1>2. \A d \in Calls : pc'[d] # "idle" => req[d] \in Requests
    BY CallTypes
  <1>3. /\ \A o : Good(o) => Good(o)'
        /\ Good(mem)' /\ mem' # Nil
        /\ LifecycleTypes' /\ CopyInv' /\ SubmitInv' /\ TrackInv'
    BY <1>1, <1>2, MemSide
  <1>4. PollInv'
    BY <1>3 DEF OrderInv, PollInv, Good
  <1>5. ASSUME NEW d \in Calls
        PROVE  CallerInv(d)'
    <2>1. CallerInv(d)
      BY DEF OrderInv
    <2>2. CASE d # c
      BY <1>3, <2>1, <2>2 DEF CallerInv, Good
    <2>3. CASE d = c
      BY <1>3, <2>1, <2>3 DEF CallerInv, Good
    <2>4. QED
      BY <2>2, <2>3
  <1>6. QED
    BY <1>3, <1>4, <1>5 DEF OrderInv

LEMMA LoadKeeps ==
  ASSUME OrderInv, NEW c \in Calls, LoadOrder(c)
  PROVE  OrderInv'
  <1>1. /\ UNCHANGED <<db, submit, inflight, wire, row, req, held, answer, called, poll, fills,
                       emitting, lost, restarts, blind>>
        /\ pc[c] = "load" /\ mem' = held[c] /\ Goto(c, "insert")
    BY DEF LoadOrder, world, eventVars, history
  <1>2. Good(held[c]) /\ restarts > 0
    BY <1>1, CallTypes DEF CallerInv
  <1>3. /\ pc' \in [Calls -> PCs] /\ pc'[c] = "insert"
        /\ \A d \in Calls : d # c => pc'[d] = pc[d]
    BY <1>1, GotoEffect DEF PCs
  <1>4. mem # Nil => mem.linked = db.linked
    BY <1>2, CallTypes DEF Good
  <1>5. mem' \in Orders /\ (mem'.status = "FILLED" => wire.status = "filled")
        /\ db # Nil /\ mem'.linked = db.linked
    BY <1>1, <1>2 DEF Good
  <1>6. QED
    BY <1>1, <1>2, <1>3, <1>4, <1>5, CallTypes, CallMem

LEMMA SettleKeeps ==
  ASSUME OrderInv, NEW c \in Calls, Settle(c)
  PROVE  OrderInv'
  <1>1. /\ UNCHANGED <<db, submit, inflight, wire, row, req, answer, called, poll, fills,
                       emitting, lost, restarts, blind>>
        /\ pc[c] = "settle" /\ Hold(c, mem') /\ Goto(c, "persist")
        /\ mem' = IF req[c] = Cancel THEN [Latest(held[c]) EXCEPT !.status = "CANCELED"]
                                     ELSE [Latest(held[c]) EXCEPT !.qty = req[c]]
    BY DEF Settle, world, eventVars, history
  <1>2. /\ mem # Nil /\ mem \in Orders /\ Good(mem) /\ Good(held[c]) /\ Latest(held[c]) = mem
        /\ req[c] \in Requests
    BY <1>1, LatestGood DEF Deciding
  <1>3. /\ mem' \in Orders /\ mem'.linked = mem.linked
        /\ mem'.status \in {mem.status, "CANCELED"}
    <2>1. CASE req[c] = Cancel
      <3>1. "CANCELED" \in Statuses
        BY DEF Statuses
      <3>2. QED
        BY <1>1, <1>2, <2>1, <3>1, StatusChange
    <2>2. CASE req[c] # Cancel
      <3>1. req[c] \in Qtys
        BY <1>2, <2>2, RequestsAssumption
      <3>2. QED
        BY <1>1, <1>2, <2>2, <3>1, QtyChange
    <2>3. QED
      BY <2>1, <2>2
  <1>4. /\ pc' \in [Calls -> PCs] /\ pc'[c] = "persist"
        /\ \A d \in Calls : d # c => pc'[d] = pc[d]
    BY <1>1, GotoEffect DEF PCs
  <1>5. /\ held' \in [Calls -> Orders \cup {Nil}] /\ held'[c] = mem'
        /\ \A d \in Calls : d # c => held'[d] = held[d]
    BY <1>1, <1>3, HoldEffect
  <1>6. /\ mem'.status = "FILLED" => wire.status = "filled"
        /\ restarts > 0 => db # Nil /\ mem'.linked = db.linked
    BY <1>2, <1>3 DEF Good
  <1>7. QED
    BY <1>1, <1>2, <1>3, <1>4, <1>5, <1>6, CallTypes, CallMem

\* What a report makes of the order in memory.
LEMMA AdoptEffect ==
  ASSUME OrderInv, NEW o \in Orders, NEW r \in Reports,
         Adopts(o, r), Adopt(o, r), mem # Nil,
         r.status = "filled" => wire.status = "filled"
  PROVE  /\ mem' \in Orders /\ mem'.linked = mem.linked
         /\ mem'.status = "FILLED" => wire.status = "filled"
         /\ restarts > 0 => db # Nil /\ mem'.linked = db.linked
  <1>1. mem \in Orders /\ Good(mem)
    BY CallTypes
  <1>2. mem' = Adopted(o, r)
    BY DEF Adopt
  <1>3. /\ mem' \in Orders /\ mem'.linked = mem.linked
        /\ mem'.status = "FILLED" => wire.status = "filled"
    BY <1>1, <1>2, AdoptedGood
  <1>4. QED
    BY <1>1, <1>2, <1>3 DEF Good

LEMMA RereadKeeps ==
  ASSUME OrderInv, NEW c \in Calls, NEW r \in BrokerReports, Reread(c, r)
  PROVE  OrderInv'
  <1>1. /\ UNCHANGED <<db, submit, inflight, wire, row, req, called, poll, fills, emitting, lost,
                       restarts, blind>>
        /\ pc[c] = "reread"
    BY DEF Reread, world, eventVars, history
  <1>2. /\ mem # Nil /\ mem \in Orders /\ Good(mem) /\ Good(held[c]) /\ Latest(held[c]) = mem
        /\ req[c] \in Requests /\ held[c] \in Orders
    BY <1>1, LatestGood DEF Deciding
  <1>3. r \in Reports /\ r.status = wire.status
    BY Fills
  <1>4. CASE /\ Goto(c, "settle") /\ Decide(c, "canceled", Nil)
             /\ UNCHANGED <<mem, held>>
    <2>1. /\ pc' \in [Calls -> PCs] /\ pc'[c] = "settle"
          /\ \A d \in Calls : d # c => pc'[d] = pc[d]
      BY <1>4, GotoEffect DEF PCs
    <2>2. answer' \in [Calls -> [kind : Answers, order : Orders \cup {Nil}]]
      BY <1>4, DecideEffect DEF Answers
    <2>3. QED
      BY <1>1, <1>2, <1>4, <2>1, <2>2, CallTypes, CallSide
  <1>5. CASE /\ Adopts(held[c], r) /\ Adopt(held[c], r) /\ Hold(c, mem')
             /\ Goto(c, "persist") /\ Decide(c, "notCanceled", Nil)
    <2>1. /\ pc' \in [Calls -> PCs] /\ pc'[c] = "persist"
          /\ \A d \in Calls : d # c => pc'[d] = pc[d]
      BY <1>5, GotoEffect DEF PCs
    <2>2. answer' \in [Calls -> [kind : Answers, order : Orders \cup {Nil}]]
      BY <1>5, DecideEffect DEF Answers
    <2>3. /\ mem' \in Orders /\ mem'.linked = mem.linked
          /\ mem'.status = "FILLED" => wire.status = "filled"
          /\ restarts > 0 => db # Nil /\ mem'.linked = db.linked
      BY <1>2, <1>3, <1>5, AdoptEffect
    <2>4. /\ held' \in [Calls -> Orders \cup {Nil}] /\ held'[c] = mem'
          /\ \A d \in Calls : d # c => held'[d] = held[d]
      BY <1>5, <2>3, HoldEffect
    <2>5. QED
      BY <1>1, <1>2, <2>1, <2>2, <2>3, <2>4, CallMem
  <1>6. CASE /\ Hold(c, Latest(held[c]))
             /\ Goto(c, "finalize") /\ Decide(c, "notCanceled", Nil)
             /\ UNCHANGED mem
    <2>1. /\ pc' \in [Calls -> PCs] /\ pc'[c] = "finalize"
          /\ \A d \in Calls : d # c => pc'[d] = pc[d]
      BY <1>6, GotoEffect DEF PCs
    <2>2. answer' \in [Calls -> [kind : Answers, order : Orders \cup {Nil}]]
      BY <1>6, DecideEffect DEF Answers
    <2>3. /\ held' \in [Calls -> Orders \cup {Nil}] /\ held'[c] = mem
          /\ \A d \in Calls : d # c => held'[d] = held[d]
      BY <1>2, <1>6, HoldEffect
    <2>4. QED
      BY <1>1, <1>2, <1>6, <2>1, <2>2, <2>3, CallTypes, CallSide
  <1>7. QED
    BY <1>4, <1>5, <1>6 DEF Reread

\* Only a fill of the broker is announced.
Announced ==
  /\ fills' = fills /\ emitting' \in Nat /\ lost' \in BOOLEAN
  /\ emitting' > 0 => emitting > 0 \/ wire.status = "filled"

LEMMA EmitEffect ==
  ASSUME OrderInv, NEW o, Good(o), StartEmit(o) \/ UNCHANGED eventVars
  PROVE  Announced
  <1>1. emitting \in Nat /\ lost \in BOOLEAN
    BY DEF OrderInv, LifecycleTypes, TypeOK
  <1>2. CASE StartEmit(o)
    BY <1>1, <1>2 DEF StartEmit, Announced, Good
  <1>3. CASE UNCHANGED eventVars
    BY <1>1, <1>3 DEF eventVars, Announced
  <1>4. QED
    BY <1>2, <1>3

\* A step that writes a copy of the order to the database.
LEMMA DbSide ==
  ASSUME OrderInv, NEW o, Good(o), Persist(o), mem # Nil,
         UNCHANGED <<mem, submit, inflight, wire, row, req, called, restarts, blind>>,
         Announced,
         pc' \in [Calls -> PCs],
         held' \in [Calls -> Orders \cup {Nil}],
         answer' = answer,
         poll' \in [pc : {"idle", "read", "apply", "persist"}, order : Orders \cup {Nil},
                    report : Reports \cup {Nil}],
         \A c \in Calls : pc'[c] # "idle" => req[c] \in Requests
  PROVE  /\ \A p : Good(p) => Good(p)'
         /\ LifecycleTypes' /\ CopyInv' /\ SubmitInv' /\ TrackInv'
  <1>1. /\ \A p : Good(p) => Good(p)'
        /\ db' # Nil => Good(db)'
        /\ db' \in Orders \cup {Nil}
    BY CallTypes, PersistGood
  <1>2. LifecycleTypes'
    BY <1>1 DEF OrderInv, LifecycleTypes, TypeOK, Announced
  <1>3. CopyInv' /\ TrackInv'
    BY <1>1 DEF OrderInv, CopyInv, TrackInv, Good, Announced
  <1>4. SubmitInv'
    BY <1>1 DEF OrderInv, SubmitInv, Good
  <1>5. QED
    BY <1>1, <1>2, <1>3, <1>4

LEMMA PersistOrderKeeps ==
  ASSUME OrderInv, NEW c \in Calls, PersistOrder(c)
  PROVE  OrderInv'
  <1>1. /\ UNCHANGED <<mem, submit, inflight, wire, row, req, answer, called, poll, restarts,
                       blind>>
        /\ pc[c] = "persist" /\ Persist(held[c]) /\ Goto(c, "finalize")
        /\ StartEmit(held[c]) \/ UNCHANGED eventVars
        /\ Hold(c, Latest(held[c])) \/ held' = held
    BY DEF PersistOrder, world, eventVars, history
  <1>2. /\ mem # Nil /\ Good(held[c]) /\ Latest(held[c]) \in Orders \cup {Nil}
        /\ held[c] \in Orders \cup {Nil} /\ Announced
    BY <1>1, LatestGood, EmitEffect DEF Deciding
  <1>3. /\ pc' \in [Calls -> PCs] /\ pc'[c] = "finalize"
        /\ \A d \in Calls : d # c => pc'[d] = pc[d]
    BY <1>1, GotoEffect DEF PCs
  <1>4. /\ held' \in [Calls -> Orders \cup {Nil}]
        /\ \A d \in Calls : d # c => held'[d] = held[d]
    BY <1>1, <1>2, HoldEffect, CallTypes
  <1>5. poll' \in [pc : {"idle", "read", "apply", "persist"}, order : Orders \cup {Nil},
                   report : Reports \cup {Nil}]
    BY <1>1 DEF OrderInv, LifecycleTypes, TypeOK
  <1>6. \A d \in Calls : pc'[d] # "idle" => req[d] \in Requests
    BY <1>1, <1>3, CallTypes
  <1>7. /\ \A p : Good(p) => Good(p)'
        /\ LifecycleTypes' /\ CopyInv' /\ SubmitInv' /\ TrackInv'
    BY <1>1, <1>2, <1>3, <1>4, <1>5, <1>6, DbSide
  <1>8. PollInv'
    BY <1>1, <1>7 DEF OrderInv, PollInv, Good
  <1>9. ASSUME NEW d \in Calls
        PROVE  CallerInv(d)'
    <2>1. CallerInv(d)
      BY DEF OrderInv
    <2>2. CASE d # c
      BY <1>1, <1>3, <1>4, <1>7, <2>1, <2>2 DEF CallerInv, Good
    <2>3. CASE d = c
      BY <1>3, <2>3 DEF CallerInv, Deciding
    <2>4. QED
      BY <2>2, <2>3
  <1>10. QED
    BY <1>7, <1>8, <1>9 DEF OrderInv

\* A step that changes intents or the ledger keeps every type.
LEMMA TypesStand ==
  ASSUME TypeOK,
         UNCHANGED <<mem, db, submit, inflight, wire, pc, req, held, answer, called, poll, restarts,
                     blind>>,
         row' \in [Requests -> Rows],
         fills' \in Nat, emitting' \in Nat, lost' \in BOOLEAN
  PROVE  TypeOK'
  <1>1. /\ mem' \in Orders \cup {Nil} /\ db' \in Orders \cup {Nil}
        /\ submit' \in [pc : SubmitPCs, order : Orders \cup {Nil}]
        /\ inflight' \in BOOLEAN
        /\ wire' \in [status : {"none"} \cup Working \cup Closed, qty : Qtys, filled : Amounts]
    BY DEF TypeOK
  <1>2. /\ pc' \in [Calls -> PCs] /\ req' \in [Calls -> Requests \cup {Nil}]
        /\ held' \in [Calls -> Orders \cup {Nil}]
        /\ answer' \in [Calls -> [kind : Answers, order : Orders \cup {Nil}]]
        /\ called' \subseteq Calls
        /\ poll' \in [pc : {"idle", "read", "apply", "persist"}, order : Orders \cup {Nil},
                      report : Reports \cup {Nil}]
        /\ restarts' \in Nat /\ blind' \in BOOLEAN
    BY DEF TypeOK
  <1>3. QED
    BY <1>1, <1>2 DEF TypeOK, Rows

\* Nothing but intents, or nothing at all, changes.
LEMMA ReclaimKeeps ==
  ASSUME OrderInv, NEW i \in Requests, Reclaim(i)
  PROVE  OrderInv'
  <1>1. /\ UNCHANGED <<mem, db, submit, inflight, wire, pc, req, held, answer, called, poll,
                       fills, emitting, lost, restarts, blind>>
        /\ row' = [row EXCEPT ![i] = ReclaimOrphanIntent(Aged(row[i]))]
    BY DEF Reclaim, orders, world, eventVars, history
  <1>2. row' \in [Requests -> Rows]
    BY <1>1, CallTypes, RowsKeep
  <1>3. \A o : Good(o) => Good(o)'
    BY <1>1, WireStep
  <1>4. LifecycleTypes'
    <2>1. TypeOK
      BY DEF OrderInv, LifecycleTypes
    <2>2. TypeOK'
      BY <1>1, <1>2, <2>1, TypesStand DEF TypeOK
    <2>3. QED
      BY <1>1, <2>2 DEF OrderInv, LifecycleTypes
  <1>5. CopyInv' /\ TrackInv' /\ SubmitInv'
    BY <1>1, <1>3 DEF OrderInv, CopyInv, TrackInv, SubmitInv, Good
  <1>6. PollInv' /\ \A c \in Calls : CallerInv(c)'
    BY <1>1, <1>3, CallsStand
  <1>7. QED
    BY <1>4, <1>5, <1>6 DEF OrderInv

LEMMA StutterKeeps ==
  ASSUME OrderInv, UNCHANGED vars
  PROVE  OrderInv'
  <1>1. UNCHANGED <<mem, db, submit, inflight, wire, row, pc, req, held, answer, called, poll,
                    fills, emitting, lost, restarts, blind>>
    BY DEF vars
  <1>2. \A o : Good(o) => Good(o)'
    BY <1>1, WireStep
  <1>3. LifecycleTypes'
    <2>1. TypeOK
      BY DEF OrderInv, LifecycleTypes
    <2>2. TypeOK'
      BY <1>1, <2>1, TypesStand DEF TypeOK, Rows
    <2>3. QED
      BY <1>1, <2>2 DEF OrderInv, LifecycleTypes
  <1>4. CopyInv' /\ TrackInv' /\ SubmitInv'
    BY <1>1, <1>2 DEF OrderInv, CopyInv, TrackInv, SubmitInv, Good
  <1>5. PollInv' /\ \A c \in Calls : CallerInv(c)'
    BY <1>1, <1>2, CallsStand
  <1>6. QED
    BY <1>3, <1>4, <1>5 DEF OrderInv

\* The calls, while the poller works.
LEMMA PollSide ==
  ASSUME OrderInv, \A o : Good(o) => Good(o)', UNCHANGED <<pc, held, restarts>>,
         mem # Nil => mem' # Nil
  PROVE  \A c \in Calls : CallerInv(c)'
  <1>1. ASSUME NEW c \in Calls
        PROVE  CallerInv(c)'
    <2>1. CallerInv(c)
      BY DEF OrderInv
    <2>2. QED
      BY <2>1 DEF CallerInv, Good
  <1>2. QED
    BY <1>1

\* The poller takes a copy and reads the broker, or gives up.
LEMMA PollLooks ==
  ASSUME OrderInv,
         UNCHANGED <<mem, db, submit, inflight, wire, row, pc, req, held, answer, called, fills,
                     emitting, lost, restarts, blind>>,
         poll' \in [pc : {"idle", "read", "apply", "persist"}, order : Orders \cup {Nil},
                    report : Reports \cup {Nil}],
         PollInv'
  PROVE  OrderInv'
  <1>1. \A o : Good(o) => Good(o)'
    BY WireStep
  <1>2. LifecycleTypes'
    BY DEF OrderInv, LifecycleTypes, TypeOK
  <1>3. CopyInv' /\ TrackInv' /\ SubmitInv'
    BY <1>1 DEF OrderInv, CopyInv, TrackInv, SubmitInv, Good
  <1>4. \A c \in Calls : CallerInv(c)'
    BY <1>1, PollSide
  <1>5. QED
    BY <1>2, <1>3, <1>4 DEF OrderInv

Polls == [pc : {"idle", "read", "apply", "persist"}, order : Orders \cup {Nil},
          report : Reports \cup {Nil}]

LEMMA PollerKeeps ==
  ASSUME OrderInv, Poller
  PROVE  OrderInv'
  <1>1. poll \in Polls /\ PollInv /\ NoPoll \in Polls /\ NoPoll.pc = "idle"
    BY DEF OrderInv, LifecycleTypes, TypeOK, Polls, NoPoll
  <1>2. CASE PollSelect
    <2>1. /\ UNCHANGED <<mem, db, submit, inflight, wire, row, pc, req, held, answer, called,
                         fills, emitting, lost, restarts, blind>>
          /\ mem # Nil /\ poll' = [pc |-> "read", order |-> mem, report |-> Nil]
      BY <1>2 DEF PollSelect, Polled, orders, world, calls, eventVars, history
    <2>2. Good(mem) /\ mem \in Orders
      BY <2>1, CallTypes
    <2>3. poll' \in Polls /\ poll'.pc = "read" /\ poll'.order = mem
      BY <2>1, <2>2 DEF Polls
    <2>4. PollInv'
      BY <2>1, <2>2, <2>3 DEF PollInv, Good
    <2>5. QED
      BY <2>1, <2>3, <2>4, PollLooks DEF Polls
  <1>3. CASE PollRead
    <2>1. /\ UNCHANGED <<mem, db, submit, inflight, wire, row, pc, req, held, answer, called,
                         fills, emitting, lost, restarts, blind>>
          /\ poll.pc = "read"
          /\ \E r \in BrokerReports : poll' = [poll EXCEPT !.pc = "apply", !.report = r]
      BY <1>3 DEF PollRead, orders, world, calls, eventVars, history
    <2>2. PICK r \in BrokerReports : poll' = [poll EXCEPT !.pc = "apply", !.report = r]
      BY <2>1
    <2>3. r \in Reports /\ r.status = wire.status
      BY Fills
    <2>4. /\ poll' \in Polls /\ poll'.pc = "apply" /\ poll'.order = poll.order
          /\ poll'.report = r
      BY <1>1, <2>2, <2>3 DEF Polls
    <2>5. PollInv'
      BY <1>1, <2>1, <2>3, <2>4 DEF PollInv, Good
    <2>6. QED
      BY <2>1, <2>4, <2>5, PollLooks DEF Polls
  <1>4. CASE PollReadFails
    <2>1. /\ UNCHANGED <<mem, db, submit, inflight, wire, row, pc, req, held, answer, called,
                         fills, emitting, lost, restarts, blind>>
          /\ poll' = NoPoll
      BY <1>4 DEF PollReadFails, orders, world, calls, eventVars, history
    <2>2. PollInv'
      BY <1>1, <2>1 DEF PollInv
    <2>3. QED
      BY <1>1, <2>1, <2>2, PollLooks DEF Polls
  <1>5. CASE PollApply
    <2>1. /\ UNCHANGED <<db, submit, inflight, wire, row, pc, req, held, answer, called, fills,
                         emitting, lost, restarts, blind>>
          /\ poll.pc = "apply"
      BY <1>5 DEF PollApply, world, calls, eventVars, history
    <2>2. /\ Good(poll.order) /\ poll.order \in Orders /\ mem # Nil /\ poll.report \in Reports
          /\ poll.report.status = "filled" => wire.status = "filled"
      BY <1>1, <2>1 DEF PollInv, Good
    <2>3. CASE Adopts(poll.order, poll.report)
      <3>1. /\ Adopt(poll.order, poll.report)
            /\ poll' = [pc |-> "persist", order |-> mem', report |-> Nil]
        BY <1>5, <2>3 DEF PollApply
      <3>2. /\ mem' \in Orders /\ mem'.linked = mem.linked
            /\ mem'.status = "FILLED" => wire.status = "filled"
            /\ restarts > 0 => db # Nil /\ mem'.linked = db.linked
        BY <2>2, <2>3, <3>1, AdoptEffect
      <3>3. poll' \in Polls /\ poll'.pc = "persist" /\ poll'.order = mem'
        BY <3>1, <3>2 DEF Polls
      <3>4. /\ pc' \in [Calls -> PCs] /\ held' \in [Calls -> Orders \cup {Nil}]
            /\ answer' \in [Calls -> [kind : Answers, order : Orders \cup {Nil}]]
            /\ \A c \in Calls : pc'[c] # "idle" => req[c] \in Requests
        BY <2>1, CallTypes
      <3>5. /\ \A o : Good(o) => Good(o)'
            /\ Good(mem)' /\ mem' # Nil
            /\ LifecycleTypes' /\ CopyInv' /\ SubmitInv' /\ TrackInv'
        BY <2>1, <2>2, <3>2, <3>3, <3>4, MemSide DEF Polls
      <3>6. PollInv'
        BY <3>3, <3>5 DEF PollInv, Good
      <3>7. \A c \in Calls : CallerInv(c)'
        BY <2>1, <3>5, PollSide
      <3>8. QED
        BY <3>5, <3>6, <3>7 DEF OrderInv
    <2>4. CASE ~Adopts(poll.order, poll.report)
      <3>1. poll' = NoPoll /\ UNCHANGED mem
        BY <1>5, <2>4 DEF PollApply
      <3>2. PollInv'
        BY <1>1, <3>1 DEF PollInv
      <3>3. QED
        BY <1>1, <2>1, <3>1, <3>2, PollLooks DEF Polls
    <2>5. QED
      BY <2>3, <2>4
  <1>6. CASE PollPersist
    <2>1. /\ UNCHANGED <<mem, submit, inflight, wire, row, pc, req, held, answer, called, restarts,
                         blind>>
          /\ poll.pc = "persist" /\ Persist(poll.order) /\ StartEmit(poll.order) /\ poll' = NoPoll
      BY <1>6 DEF PollPersist, world, calls, eventVars, history
    <2>2. Good(poll.order) /\ mem # Nil /\ Announced
      BY <1>1, <2>1, EmitEffect DEF PollInv
    <2>3. /\ pc' \in [Calls -> PCs] /\ held' \in [Calls -> Orders \cup {Nil}]
          /\ \A c \in Calls : pc'[c] # "idle" => req[c] \in Requests
      BY <2>1, CallTypes
    <2>4. /\ \A p : Good(p) => Good(p)'
          /\ LifecycleTypes' /\ CopyInv' /\ SubmitInv' /\ TrackInv'
      BY <1>1, <2>1, <2>2, <2>3, DbSide DEF Polls
    <2>5. PollInv'
      BY <1>1, <2>1 DEF PollInv
    <2>6. \A c \in Calls : CallerInv(c)'
      BY <2>1, <2>4, PollSide
    <2>7. QED
      BY <2>4, <2>5, <2>6 DEF OrderInv
  <1>7. QED
    BY <1>2, <1>3, <1>4, <1>5, <1>6 DEF Poller

LEMMA EmitKeeps ==
  ASSUME OrderInv, Emit
  PROVE  OrderInv'
  <1>1. /\ UNCHANGED <<mem, db, submit, inflight, wire, row, pc, req, held, answer, called, poll,
                       restarts, blind>>
        /\ emitting > 0 /\ emitting' = emitting - 1
        /\ fills' \in {fills, fills + 1} /\ lost' \in {lost, TRUE}
    BY DEF Emit, orders, world, calls, eventVars, history
  <1>2. fills \in Nat /\ emitting \in Nat /\ lost \in BOOLEAN
    BY DEF OrderInv, LifecycleTypes, TypeOK
  <1>3. \A o : Good(o) => Good(o)'
    BY <1>1, WireStep
  <1>4. fills' \in Nat /\ emitting' \in Nat /\ lost' \in BOOLEAN
    <2>1. fills' \in Nat /\ emitting' \in Nat
      BY <1>1, <1>2
    <2>2. lost' \in BOOLEAN
      BY <1>1, <1>2
    <2>3. QED
      BY <2>1, <2>2
  <1>5. LifecycleTypes'
    <2>1. TypeOK
      BY DEF OrderInv, LifecycleTypes
    <2>2. TypeOK'
      BY <1>1, <1>4, <2>1, TypesStand DEF TypeOK, Rows
    <2>3. QED
      BY <1>1, <2>2 DEF OrderInv, LifecycleTypes
  <1>6. CopyInv'
    BY <1>1, <1>3 DEF OrderInv, CopyInv
  <1>7. TrackInv' /\ SubmitInv'
    BY <1>1, <1>3 DEF OrderInv, TrackInv, SubmitInv
  <1>8. PollInv' /\ \A c \in Calls : CallerInv(c)'
    BY <1>1, <1>3, CallsStand
  <1>9. QED
    BY <1>5, <1>6, <1>7, <1>8 DEF OrderInv

LEMMA RestartKeeps ==
  ASSUME OrderInv, Restart
  PROVE  OrderInv'
  <1>1. /\ restarts' = restarts + 1 /\ blind' \in BOOLEAN
        /\ mem' = IF Submitted(db) /\ ~blind' THEN db ELSE Nil
        /\ submit' = [pc |-> "done", order |-> Nil]
        /\ poll' = NoPoll
        /\ UNCHANGED <<db, inflight, wire, row, req, called>>
        /\ fills' = fills /\ emitting' = 0 /\ lost' \in BOOLEAN
    BY DEF Restart, SubmitAt, world
  <1>2. /\ pc' = [c \in Calls |-> IF pc[c] \in {"idle", "done"} THEN pc[c] ELSE "crashed"]
        /\ held' = [c \in Calls |-> Nil]
        /\ answer' = [c \in Calls |-> IF pc[c] = "done" THEN answer[c] ELSE NoAnswer]
    BY DEF Restart
  <1>3. TypeOK
    BY DEF OrderInv, LifecycleTypes
  <1>4. restarts \in Nat /\ restarts' > 0 /\ restarts' \in Nat
    BY <1>1, <1>3 DEF TypeOK
  <1>5. /\ pc' \in [Calls -> PCs] /\ held' \in [Calls -> Orders \cup {Nil}]
        /\ answer' \in [Calls -> [kind : Answers, order : Orders \cup {Nil}]]
        /\ \A c \in Calls : pc'[c] \in {"idle", "done", "crashed"} /\ (pc'[c] # "idle" => pc[c] # "idle")
    <2>1. NoAnswer \in [kind : Answers, order : Orders \cup {Nil}]
      BY DEF NoAnswer, Answers
    <2>2. answer' \in [Calls -> [kind : Answers, order : Orders \cup {Nil}]]
      BY <1>2, <1>3, <2>1 DEF TypeOK
    <2>3. QED
      BY <1>2, <1>3, <2>2 DEF TypeOK, PCs
  <1>6. LifecycleTypes'
    <2>1. submit' \in [pc : SubmitPCs, order : Orders \cup {Nil}]
      BY <1>1 DEF SubmitPCs
    <2>2. poll' \in [pc : {"idle", "read", "apply", "persist"}, order : Orders \cup {Nil},
                     report : Reports \cup {Nil}]
      BY <1>1 DEF NoPoll
    <2>3. mem' \in Orders \cup {Nil}
      BY <1>1, <1>3 DEF TypeOK
    <2>4. TypeOK'
      BY <1>1, <1>3, <1>4, <1>5, <2>1, <2>2, <2>3 DEF TypeOK
    <2>5. \A c \in Calls : pc'[c] # "idle" => req'[c] \in Requests
      BY <1>1, <1>5, CallTypes
    <2>6. QED
      BY <2>4, <2>5 DEF LifecycleTypes
  <1>7. db # Nil => Good(db)'
    BY <1>1, <1>4, CallTypes DEF Good
  <1>8. CopyInv'
    BY <1>1, <1>7 DEF OrderInv, CopyInv, Good
  <1>9. SubmitInv'
    BY <1>1, <1>4 DEF OrderInv, SubmitInv
  <1>10. PollInv' /\ \A c \in Calls : CallerInv(c)'
    BY <1>1, <1>5 DEF PollInv, NoPoll, CallerInv, Deciding
  <1>11. TrackInv'
    <2>1. db # Nil => db.status \in Statuses
      BY <1>3 DEF TypeOK, Orders
    <2>2. QED
      BY <1>1, <2>1 DEF TrackInv, Submitted, Statuses, Terminal
  <1>12. QED
    BY <1>6, <1>8, <1>9, <1>10, <1>11 DEF OrderInv

LEMMA NextOrder == OrderInv /\ [Next]_vars => OrderInv'
  <1>1. SUFFICES ASSUME OrderInv, [Next]_vars
                 PROVE  OrderInv'
    OBVIOUS
  <1>2. CASE SubmitThread
    BY <1>1, <1>2, SubmitRecordsKeeps, SubmitPersistsKeeps, SubmitWaits, SubmitReturnsKeeps,
       SubmitFailsKeeps DEF SubmitThread
  <1>3. CASE Broker
    BY <1>1, <1>3, BrokerKeeps
  <1>4. ASSUME NEW c \in Calls, Handler(c)
        PROVE  OrderInv'
    BY <1>1, <1>4, FindKeeps, LoadKeeps, RepliesKeep, InsertKeeps, CancelsKeep, RereadKeeps,
       ReplaceKeeps, SettleKeeps, PersistOrderKeeps, FinalizeKeeps DEF Handler
  <1>5. ASSUME NEW i \in Requests, Reclaim(i)
        PROVE  OrderInv'
    BY <1>1, <1>5, ReclaimKeeps
  <1>6. CASE Poller
    BY <1>1, <1>6, PollerKeeps
  <1>7. CASE Restart
    BY <1>1, <1>7, RestartKeeps
  <1>8. CASE Emit
    BY <1>1, <1>8, EmitKeeps
  <1>9. CASE UNCHANGED vars
    BY <1>1, <1>9, StutterKeeps
  <1>10. QED
    BY <1>1, <1>2, <1>3, <1>4, <1>5, <1>6, <1>7, <1>8, <1>9 DEF Next

\* The strengthened invariant holds in every behaviour of the order's actors.
THEOREM OrderInvariant == Spec => []OrderInv
  BY InitOrder, NextOrder, PTL DEF Spec

\* Every variable keeps its type.
THEOREM LifecycleTypeCorrect == Spec => []TypeOK
  <1>1. OrderInv => TypeOK
    BY DEF OrderInv, LifecycleTypes
  <1>2. QED
    BY <1>1, OrderInvariant, PTL

\* However stale the reports and copies that are applied and written over each
\* other, nobody claims a fill the broker does not have.
THEOREM FillReal == Spec => []FillIsReal
  <1>1. OrderInv => FillIsReal
    BY DEF OrderInv, CopyInv, Good, FillIsReal
  <1>2. QED
    BY <1>1, OrderInvariant, PTL

\* What the database shows as working is in memory with its broker order id.
THEOREM InflightTracked == Spec => []InflightIsTracked
  <1>1. ASSUME OrderInv, Polled(db), ~blind
        PROVE  mem # Nil /\ mem.linked
    <2>1. db # Nil /\ db.linked /\ db.status \notin Terminal /\ Good(db)
      BY <1>1, CallTypes DEF Polled
    <2>2. CASE restarts = 0
      BY <2>1, <2>2 DEF Good
    <2>3. CASE restarts > 0
      <3>1. mem # Nil
        BY <1>1, <2>1, <2>3 DEF OrderInv, TrackInv
      <3>2. Good(mem)
        BY <1>1, <3>1, CallTypes
      <3>3. QED
        BY <2>1, <2>3, <3>1, <3>2 DEF Good
    <2>4. restarts \in Nat
      BY <1>1 DEF OrderInv, LifecycleTypes, TypeOK
    <2>5. QED
      BY <2>2, <2>3, <2>4
  <1>2. OrderInv => InflightIsTracked
    BY <1>1 DEF InflightIsTracked
  <1>3. QED
    BY <1>2, OrderInvariant, PTL

(***************************************************************************)
(* One broker call per intent.                                             *)
(***************************************************************************)

\* A step of call c, seen by the other calls: rows stay written, and c owns its
\* intent only if it did or if nobody else does.
LEMMA OwnerStep ==
  ASSUME OrderInv, OwnerInv, NEW c \in Calls,
         req[c] \in Requests \/ c \notin called',
         \A d \in Calls : d # c => pc'[d] = pc[d] /\ req'[d] = req[d],
         \A i \in Requests : row[i].state # "ABSENT" => row'[i].state # "ABSENT",
         called' \subseteq called \cup {c},
         c \in called' => pc'[c] \notin Early,
         Owner(c)' => /\ req'[c] = req[c]
                      /\ Owner(c) \/ /\ row'[req[c]].state # "ABSENT"
                                     /\ req[c] \in Requests
                                     /\ \A d \in Calls \ {c} : Owner(d) => req[d] # req[c]
  PROVE  OwnerInv'
  <1>1. \A d \in Calls : Owner(d) => req[d] \in Requests
    BY CallTypes DEF Owner, OwnerInv, Early
  <1>2. \A d \in Calls : d # c => (Owner(d)' => Owner(d))
    BY DEF Owner
  <1>3. \A d \in Calls : Owner(d)' => row'[req'[d]].state # "ABSENT"
    BY <1>1, <1>2 DEF OwnerInv
  <1>4. \A d \in called' : pc'[d] \notin Early
    <2>1. \A d \in called : d \in Calls
      BY CallTypes
    <2>2. QED
      BY <2>1 DEF OwnerInv
  <1>5. \A d, e \in Calls : Owner(d)' /\ Owner(e)' /\ req'[d] = req'[e] => d = e
    BY <1>2 DEF OwnerInv
  <1>6. QED
    BY <1>3, <1>4, <1>5 DEF OwnerInv

\* A step in which call c does not come to own its intent.
LEMMA CallMoves ==
  ASSUME OrderInv, OwnerInv, NEW c \in Calls, UNCHANGED req,
         pc[c] # "idle",
         \A d \in Calls : d # c => pc'[d] = pc[d],
         \A i \in Requests : row[i].state # "ABSENT" => row'[i].state # "ABSENT",
         \/ pc'[c] \notin Early /\ called' = called
         \/ pc'[c] \notin Early /\ called' = called \cup {c} /\ pc[c] = "call"
         \/ pc[c] \in Early /\ pc'[c] # "call" /\ called' = called
  PROVE  OwnerInv'
  <1>1. req[c] \in Requests
    BY CallTypes
  <1>2. Owner(c)' => Owner(c)
    BY DEF Owner, Early
  <1>3. c \in called' => pc'[c] \notin Early
    BY DEF OwnerInv
  <1>4. QED
    BY <1>1, <1>2, <1>3, OwnerStep

LEMMA FindOwner ==
  ASSUME OrderInv, OwnerInv, NEW c \in Calls, NEW i \in Requests, FindOrder(c, i)
  PROVE  OwnerInv'
  <1>1. /\ UNCHANGED <<row, called>> /\ pc[c] = "idle" /\ req' = [req EXCEPT ![c] = i]
        /\ Goto(c, "insert") \/ Goto(c, "load")
    BY DEF FindOrder
  <1>2. /\ pc'[c] \in {"insert", "load"}
        /\ \A d \in Calls : d # c => pc'[d] = pc[d] /\ req'[d] = req[d]
    BY <1>1, GotoEffect, CallTypes DEF PCs
  <1>3. c \notin called
    BY <1>1 DEF OwnerInv, Early
  <1>4. ~Owner(c)'
    BY <1>1, <1>2, <1>3 DEF Owner
  <1>5. QED
    BY <1>1, <1>2, <1>3, <1>4, OwnerStep

\* Only the call whose insert found no row comes to own the intent.
LEMMA InsertOwner ==
  ASSUME OrderInv, OwnerInv, NEW c \in Calls, InsertOrFind(c)
  PROVE  OwnerInv'
  <1>1. /\ UNCHANGED <<req, called>> /\ pc[c] = "insert"
        /\ row' = [row EXCEPT ![req[c]] = InsertIntent(row[req[c]], req[c])]
        /\ Goto(c, IF row[req[c]].state = "ABSENT" THEN "call" ELSE "lookup")
    BY DEF InsertOrFind
  <1>2. req[c] \in Requests
    BY <1>1, CallTypes
  <1>3. \A i \in Requests : row[i].state # "ABSENT" => row'[i].state # "ABSENT"
    BY <1>1, <1>2, InsertEffect
  <1>4. CASE row[req[c]].state = "ABSENT"
    <2>1. Goto(c, "call")
      BY <1>1, <1>4
    <2>2. pc'[c] = "call" /\ \A d \in Calls : d # c => pc'[d] = pc[d]
      BY <2>1, GotoEffect DEF PCs
    <2>3. row'[req[c]].state # "ABSENT"
      <3>1. InsertIntent(row[req[c]], req[c]).state # "ABSENT"
        BY <1>2, CallTypes, RowsKeep
      <3>2. QED
        BY <1>1, <1>2, <3>1, CallTypes
    <2>4. \A d \in Calls \ {c} : Owner(d) => req[d] # req[c]
      BY <1>4 DEF OwnerInv
    <2>5. c \notin called'
      BY <1>1 DEF OwnerInv, Early
    <2>6. QED
      BY <1>1, <1>2, <1>3, <2>2, <2>3, <2>4, <2>5, OwnerStep
  <1>5. CASE row[req[c]].state # "ABSENT"
    <2>1. Goto(c, "lookup")
      BY <1>1, <1>5
    <2>2. pc'[c] = "lookup" /\ \A d \in Calls : d # c => pc'[d] = pc[d]
      BY <2>1, GotoEffect DEF PCs
    <2>3. QED
      BY <1>1, <1>3, <2>2, CallMoves DEF Early
  <1>6. QED
    BY <1>4, <1>5

\* The handlers answer without a broker call.
LEMMA RepliesOwner ==
  ASSUME OrderInv, OwnerInv, NEW c \in Calls,
         Refuse(c) \/ Lookup(c) \/ IntentStoreFails(c) \/ ReplaceInvalid(c)
  PROVE  OwnerInv'
  <1>1. /\ UNCHANGED <<req, called>> /\ pc[c] \in {"insert", "lookup", "call"}
        /\ row' = row \/ row' = [row EXCEPT ![req[c]] = InsertIntent(row[req[c]], req[c])]
        /\ Goto(c, "done")
    BY DEF Refuse, Lookup, IntentStoreFails, ReplaceInvalid, Reply
  <1>2. req[c] \in Requests
    BY <1>1, CallTypes
  <1>3. pc'[c] = "done" /\ \A d \in Calls : d # c => pc'[d] = pc[d]
    BY <1>1, GotoEffect DEF PCs
  <1>4. \A i \in Requests : row[i].state # "ABSENT" => row'[i].state # "ABSENT"
    BY <1>1, <1>2, InsertEffect
  <1>5. QED
    BY <1>1, <1>3, <1>4, CallMoves DEF Early

\* The broker call, by the call that owns the intent.
LEMMA BrokerCallOwner ==
  ASSUME OrderInv, OwnerInv, NEW c \in Calls,
         CancelUnlinked(c) \/ CancelAtBroker(c) \/ CancelUnresolved(c) \/ ReplaceAtBroker(c)
  PROVE  OwnerInv'
  <1>1. /\ UNCHANGED <<row, req>> /\ pc[c] = "call" /\ called' \in {called, called \cup {c}}
        /\ \E label \in {"settle", "reread", "finalize", "done"} : Goto(c, label)
    BY DEF CancelUnlinked, CancelAtBroker, CancelUnresolved, ReplaceAtBroker, Reply
  <1>2. /\ pc'[c] \in {"settle", "reread", "finalize", "done"}
        /\ \A d \in Calls : d # c => pc'[d] = pc[d]
    BY <1>1, GotoEffect DEF PCs
  <1>3. QED
    BY <1>1, <1>2, CallMoves DEF Early

\* What follows the broker call.
LEMMA LaterOwner ==
  ASSUME OrderInv, OwnerInv, NEW c \in Calls,
         \/ LoadOrder(c) \/ RereadFails(c) \/ Settle(c) \/ PersistOrder(c) \/ Finalize(c)
         \/ \E r \in BrokerReports : Reread(c, r)
  PROVE  OwnerInv'
  <1>1. CASE LoadOrder(c)
    <2>1. UNCHANGED <<row, req, called>> /\ pc[c] = "load" /\ Goto(c, "insert")
      BY <1>1 DEF LoadOrder
    <2>2. pc'[c] = "insert" /\ \A d \in Calls : d # c => pc'[d] = pc[d]
      BY <2>1, GotoEffect DEF PCs
    <2>3. QED
      BY <2>1, <2>2, CallMoves DEF Early
  <1>2. CASE \/ RereadFails(c) \/ Settle(c) \/ PersistOrder(c)
             \/ \E r \in BrokerReports : Reread(c, r)
    <2>1. /\ UNCHANGED <<row, req, called>> /\ pc[c] \in {"reread", "settle", "persist"}
          /\ \E label \in {"settle", "persist", "finalize"} : Goto(c, label)
      BY <1>2 DEF RereadFails, Settle, PersistOrder, Reread
    <2>2. /\ pc'[c] \in {"settle", "persist", "finalize"}
          /\ \A d \in Calls : d # c => pc'[d] = pc[d]
      BY <2>1, GotoEffect DEF PCs
    <2>3. QED
      BY <2>1, <2>2, CallMoves DEF Early
  <1>3. CASE Finalize(c)
    <2>1. /\ UNCHANGED <<req, called>> /\ pc[c] = "finalize" /\ Goto(c, "done")
          /\ \/ row' = row
             \/ row' = [row EXCEPT ![req[c]] =
                          FinalizeIntent(row[req[c]], VerdictOf(answer[c].kind), held[c])]
      BY <1>3 DEF Finalize, Reply
    <2>2. pc'[c] = "done" /\ \A d \in Calls : d # c => pc'[d] = pc[d]
      BY <2>1, GotoEffect DEF PCs
    <2>3. req[c] \in Requests /\ held[c] \in Orders \cup {Nil} /\ row[req[c]] \in Rows
      BY <2>1, CallTypes
    <2>4. row[req[c]].state # "ABSENT" =>
            FinalizeIntent(row[req[c]], VerdictOf(answer[c].kind), held[c]).state # "ABSENT"
      BY <2>3, FinalizeKeepsRow
    <2>5. \A i \in Requests : row[i].state # "ABSENT" => row'[i].state # "ABSENT"
      BY <2>1, <2>3, <2>4, CallTypes
    <2>6. QED
      BY <2>1, <2>2, <2>5, CallMoves DEF Early
  <1>4. QED
    BY <1>1, <1>2, <1>3

\* Steps that are no handler's: calls stand still, and rows stay written.
LEMMA OthersOwner ==
  ASSUME OrderInv, OwnerInv, UNCHANGED <<pc, req, called>>,
         \A i \in Requests : row[i].state # "ABSENT" => row'[i].state # "ABSENT"
  PROVE  OwnerInv'
  <1>1. \A d \in Calls : Owner(d) => req[d] \in Requests
    BY CallTypes DEF Owner, OwnerInv, Early
  <1>2. QED
    BY <1>1 DEF OwnerInv, Owner

LEMMA RestartOwner ==
  ASSUME OrderInv, OwnerInv, Restart
  PROVE  OwnerInv'
  <1>1. /\ UNCHANGED <<row, req, called>>
        /\ pc' = [c \in Calls |-> IF pc[c] \in {"idle", "done"} THEN pc[c] ELSE "crashed"]
    BY DEF Restart
  <1>2. \A c \in Calls : pc'[c] \in {"idle", "done", "crashed"} /\ (pc'[c] = "idle" => pc[c] = "idle")
    BY <1>1
  <1>3. \A c \in Calls : Owner(c)' <=> c \in called
    BY <1>1, <1>2 DEF Owner
  <1>4. \A c \in called : c \in Calls /\ pc'[c] \notin Early
    BY <1>2, CallTypes DEF OwnerInv, Early
  <1>5. QED
    BY <1>1, <1>3, <1>4 DEF OwnerInv, Owner

LEMMA NextOwner == OrderInv /\ OwnerInv /\ [Next]_vars => OwnerInv'
  <1>1. SUFFICES ASSUME OrderInv, OwnerInv, [Next]_vars
                 PROVE  OwnerInv'
    OBVIOUS
  <1>2. CASE SubmitThread \/ Broker \/ Poller \/ Emit \/ UNCHANGED vars
    <2>1. UNCHANGED <<row, pc, req, called>>
      BY <1>2 DEF Emit, SubmitThread, SubmitRecords, SubmitPersists, SubmitSends, SubmitReturns,
                  SubmitTimesOut, SubmitFails, Broker, BrokerAccepts, BrokerFills, BrokerHolds,
                  BrokerEnds, Poller, PollSelect, PollRead, PollReadFails, PollApply,
                  PollPersist, calls, vars
    <2>2. QED
      BY <1>1, <2>1, OthersOwner
  <1>3. ASSUME NEW c \in Calls, Handler(c)
        PROVE  OwnerInv'
    BY <1>1, <1>3, FindOwner, InsertOwner, RepliesOwner, BrokerCallOwner, LaterOwner DEF Handler
  <1>4. ASSUME NEW i \in Requests, Reclaim(i)
        PROVE  OwnerInv'
    <2>1. /\ UNCHANGED <<pc, req, called>>
          /\ row' = [row EXCEPT ![i] = ReclaimOrphanIntent(Aged(row[i]))]
      BY <1>4 DEF Reclaim
    <2>2. row[i].state # "ABSENT" => ReclaimOrphanIntent(Aged(row[i])).state # "ABSENT"
      BY <1>1, CallTypes, RowsKeep
    <2>3. \A j \in Requests : row[j].state # "ABSENT" => row'[j].state # "ABSENT"
      BY <1>1, <2>1, <2>2, CallTypes
    <2>4. QED
      BY <1>1, <2>1, <2>3, OthersOwner
  <1>5. CASE Restart
    BY <1>1, <1>5, RestartOwner
  <1>6. QED
    BY <1>1, <1>2, <1>3, <1>4, <1>5 DEF Next

LEMMA OwnerInvariant == Spec => []OwnerInv
  <1>1. Init => OwnerInv
    BY DEF Init, OwnerInv, Owner
  <1>2. QED
    BY <1>1, NextOwner, OrderInvariant, PTL DEF Spec

\* A retried or concurrent cancel, or replace to the same quantity, reaches the
\* broker once, across restarts and reclaimed intents.
THEOREM OneCall == Spec => []OneBrokerCallPerIntent
  <1>1. OrderInv /\ OwnerInv => OneBrokerCallPerIntent
    BY CallTypes DEF OwnerInv, Owner, OneBrokerCallPerIntent
  <1>2. QED
    BY <1>1, OwnerInvariant, OrderInvariant, PTL

(***************************************************************************)
(* A confirmed cancel.                                                     *)
(***************************************************************************)

\* A call that was sent to the broker says "canceled" only of a canceled order,
\* and no call has an answer before its broker call.
CancelInv ==
  /\ \A c \in called : answer[c].kind = "canceled" => wire.status = "canceled"
  /\ \A c \in Calls : pc[c] \in Early => answer[c].kind = "none"

\* What a step of call c must show.
LEMMA CancelStep ==
  ASSUME OrderInv, CancelInv, NEW c \in Calls,
         wire.status = "canceled" => wire'.status = "canceled",
         \A d \in Calls : d # c => pc'[d] = pc[d] /\ answer'[d] = answer[d],
         called' \subseteq called \cup {c},
         c \in called' /\ answer'[c].kind = "canceled" => wire'.status = "canceled",
         pc'[c] \in Early => answer'[c].kind = "none"
  PROVE  CancelInv'
  <1>1. \A d \in called : d \in Calls
    BY CallTypes
  <1>2. \A d \in called' : answer'[d].kind = "canceled" => wire'.status = "canceled"
    <2>1. ASSUME NEW d \in called', answer'[d].kind = "canceled"
          PROVE  wire'.status = "canceled"
      <3>1. CASE d = c
        BY <2>1, <3>1
      <3>2. CASE d # c
        BY <1>1, <2>1, <3>2 DEF CancelInv
      <3>3. QED
        BY <3>1, <3>2
    <2>2. QED
      BY <2>1
  <1>3. \A d \in Calls : pc'[d] \in Early => answer'[d].kind = "none"
    <2>1. ASSUME NEW d \in Calls, pc'[d] \in Early
          PROVE  answer'[d].kind = "none"
      <3>1. CASE d = c
        BY <2>1, <3>1
      <3>2. CASE d # c
        BY <2>1, <3>2 DEF CancelInv
      <3>3. QED
        BY <3>1, <3>2
    <2>2. QED
      BY <2>1
  <1>4. Early' = Early
    BY DEF Early
  <1>5. QED
    BY <1>2, <1>3, <1>4 DEF CancelInv

LEMMA DecideKind ==
  ASSUME OrderInv, NEW c \in Calls, NEW k, NEW o, Decide(c, k, o)
  PROVE  answer'[c].kind = k /\ \A d \in Calls : d # c => answer'[d] = answer[d]
  BY CallTypes DEF Decide

\* A step of call c that moves it past Early, or keeps its answer.
LEMMA CancelDecides ==
  ASSUME OrderInv, CancelInv, NEW c \in Calls, NEW label \in PCs, Goto(c, label),
         wire.status = "canceled" => wire'.status = "canceled",
         called' \in {called, called \cup {c}},
         \/ /\ UNCHANGED <<answer, called>>
            /\ label \in Early => pc[c] \in Early
         \/ /\ label \notin Early
            /\ \E k, o : /\ Decide(c, k, o)
                         /\ k = "canceled" => c \notin called' \/ wire'.status = "canceled"
         \/ /\ label \notin Early /\ UNCHANGED answer /\ pc[c] \in Early
  PROVE  CancelInv'
  <1>1. pc'[c] = label /\ \A d \in Calls : d # c => pc'[d] = pc[d]
    BY GotoEffect
  <1>2. CASE UNCHANGED <<answer, called>> /\ (label \in Early => pc[c] \in Early)
    <2>1. c \in called' /\ answer'[c].kind = "canceled" => wire'.status = "canceled"
      BY <1>2 DEF CancelInv
    <2>2. pc'[c] \in Early => answer'[c].kind = "none"
      BY <1>1, <1>2 DEF CancelInv
    <2>3. QED
      BY <1>1, <1>2, <2>1, <2>2, CancelStep
  <1>3. CASE /\ label \notin Early
             /\ \E k, o : /\ Decide(c, k, o)
                          /\ k = "canceled" => c \notin called' \/ wire'.status = "canceled"
    <2>1. PICK k, o : /\ Decide(c, k, o)
                      /\ k = "canceled" => c \notin called' \/ wire'.status = "canceled"
      BY <1>3
    <2>2. answer'[c].kind = k /\ \A d \in Calls : d # c => answer'[d] = answer[d]
      BY <2>1, DecideKind
    <2>3. QED
      BY <1>1, <1>3, <2>1, <2>2, CancelStep
  <1>4. CASE label \notin Early /\ UNCHANGED answer /\ pc[c] \in Early
    <2>1. answer'[c].kind # "canceled"
      BY <1>4 DEF CancelInv
    <2>2. QED
      BY <1>1, <1>4, <2>1, CancelStep
  <1>5. QED
    BY <1>2, <1>3, <1>4

\* Before the broker call, and the replies without one.
LEMMA CancelBefore ==
  ASSUME OrderInv, CancelInv, NEW c \in Calls,
         \/ \E i \in Requests : FindOrder(c, i)
         \/ LoadOrder(c) \/ InsertOrFind(c)
         \/ Refuse(c) \/ Lookup(c) \/ IntentStoreFails(c) \/ ReplaceInvalid(c)
  PROVE  CancelInv'
  <1>1. CASE (\E i \in Requests : FindOrder(c, i)) \/ LoadOrder(c) \/ InsertOrFind(c)
    <2>1. /\ UNCHANGED <<wire, answer, called>> /\ pc[c] \in Early
          /\ \E label \in {"insert", "load", "call", "lookup"} : Goto(c, label)
      BY <1>1 DEF FindOrder, LoadOrder, InsertOrFind, world, Early
    <2>2. QED
      BY <2>1, CancelDecides DEF PCs
  <1>2. CASE Refuse(c) \/ Lookup(c) \/ IntentStoreFails(c) \/ ReplaceInvalid(c)
    <2>1. /\ UNCHANGED <<wire, called>> /\ Goto(c, "done")
          /\ \E k, o : Decide(c, k, o) /\ k # "canceled"
      BY <1>2 DEF Refuse, Lookup, IntentStoreFails, ReplaceInvalid, Reply, world
    <2>2. QED
      BY <2>1, CancelDecides DEF PCs, Early
  <1>3. QED
    BY <1>1, <1>2

\* The broker call: confirmed only when the broker did it.
LEMMA CancelCalls ==
  ASSUME OrderInv, CancelInv, OwnerInv, NEW c \in Calls,
         CancelUnlinked(c) \/ CancelAtBroker(c) \/ CancelUnresolved(c) \/ ReplaceAtBroker(c)
  PROVE  CancelInv'
  <1>1. c \in called => pc[c] \notin Early
    BY DEF OwnerInv
  <1>2. CASE CancelUnlinked(c) \/ CancelUnresolved(c)
    <2>1. /\ UNCHANGED <<wire, called>> /\ Goto(c, "settle") /\ pc[c] = "call"
          /\ \E k, o : Decide(c, k, o)
      BY <1>2 DEF CancelUnlinked, CancelUnresolved, world
    <2>2. c \notin called'
      BY <1>1, <2>1 DEF Early
    <2>3. QED
      BY <2>1, <2>2, CancelDecides DEF PCs, Early
  <1>3. CASE CancelAtBroker(c)
    <2>1. called' = called \cup {c} /\ pc[c] = "call"
      BY <1>3 DEF CancelAtBroker
    <2>2. CASE /\ wire.status \in Working /\ wire' = [wire EXCEPT !.status = "canceled"]
               /\ Goto(c, "settle") /\ Decide(c, "canceled", Nil)
      <3>1. wire'.status = "canceled"
        BY <2>2, CallTypes
      <3>2. QED
        BY <2>1, <2>2, <3>1, CancelDecides DEF PCs, Early
    <2>3. CASE /\ \/ UNCHANGED wire
                  \/ wire.status \in Working /\ wire' = [wire EXCEPT !.status = "canceled"]
               /\ Goto(c, "settle") /\ Decide(c, "canceledUnknown", Nil)
      <3>1. wire.status = "canceled" => wire'.status = "canceled"
        BY <2>3, CallTypes
      <3>2. QED
        BY <2>1, <2>3, <3>1, CancelDecides DEF PCs, Early
    <2>4. CASE Goto(c, "reread") /\ UNCHANGED <<wire, answer>>
      BY <2>1, <2>4, CancelDecides DEF PCs, Early
    <2>5. QED
      BY <1>3, <2>2, <2>3, <2>4 DEF CancelAtBroker
  <1>4. CASE ReplaceAtBroker(c)
    <2>1. /\ called' = called \cup {c} /\ pc[c] = "call"
          /\ \E label \in {"settle", "finalize", "done"} : Goto(c, label)
          /\ \E k, o : Decide(c, k, o) /\ k # "canceled"
          /\ UNCHANGED wire \/ wire' = [wire EXCEPT !.qty = req[c]]
      BY <1>4 DEF ReplaceAtBroker, Reply
    <2>2. wire'.status = wire.status
      BY <2>1, CallTypes
    <2>3. QED
      BY <2>1, <2>2, CancelDecides DEF PCs, Early
  <1>5. QED
    BY <1>2, <1>3, <1>4

\* A reread says canceled of what the broker reports as canceled.
LEMMA CancelAfter ==
  ASSUME OrderInv, CancelInv, NEW c \in Calls,
         \/ \E r \in BrokerReports : Reread(c, r)
         \/ RereadFails(c) \/ Settle(c) \/ PersistOrder(c) \/ Finalize(c)
  PROVE  CancelInv'
  <1>1. CASE \E r \in BrokerReports : Reread(c, r)
    <2>1. PICK r \in BrokerReports : Reread(c, r)
      BY <1>1
    <2>2. r.status = wire.status
      BY Fills
    <2>3. /\ UNCHANGED <<wire, called>>
          /\ \E label \in {"settle", "persist", "finalize"} : Goto(c, label)
          /\ \E k, o : Decide(c, k, o) /\ (k = "canceled" => wire.status = "canceled")
      BY <2>1, <2>2 DEF Reread, world
    <2>4. QED
      BY <2>3, CancelDecides DEF PCs, Early
  <1>2. CASE RereadFails(c)
    <2>1. /\ UNCHANGED <<wire, called>> /\ Goto(c, "finalize") /\ Decide(c, "unavailable", Nil)
      BY <1>2 DEF RereadFails, world
    <2>2. QED
      BY <2>1, CancelDecides DEF PCs, Early
  <1>3. CASE Settle(c) \/ PersistOrder(c)
    <2>1. /\ UNCHANGED <<wire, answer, called>>
          /\ \E label \in {"persist", "finalize"} : Goto(c, label)
      BY <1>3 DEF Settle, PersistOrder, world
    <2>2. QED
      BY <2>1, CancelDecides DEF PCs, Early
  <1>4. CASE Finalize(c)
    <2>1. /\ UNCHANGED <<wire, called>> /\ Goto(c, "done")
          /\ Decide(c, answer[c].kind, held[c])
      BY <1>4 DEF Finalize, Reply, world
    <2>2. answer[c].kind = "canceled" => c \notin called' \/ wire'.status = "canceled"
      BY <2>1 DEF CancelInv
    <2>3. QED
      BY <2>1, <2>2, CancelDecides DEF PCs, Early
  <1>5. QED
    BY <1>1, <1>2, <1>3, <1>4

\* The calls stand still; a canceled order stays canceled at the broker.
LEMMA CancelStands ==
  ASSUME CancelInv, UNCHANGED <<pc, answer, called>>,
         wire.status = "canceled" => wire'.status = "canceled"
  PROVE  CancelInv'
  BY DEF CancelInv, Early

LEMMA NextCancel == OrderInv /\ OwnerInv /\ CancelInv /\ [Next]_vars => CancelInv'
  <1>1. SUFFICES ASSUME OrderInv, OwnerInv, CancelInv, [Next]_vars
                 PROVE  CancelInv'
    OBVIOUS
  <1>2. CASE SubmitThread \/ Poller \/ (\E i \in Requests : Reclaim(i)) \/ Emit
             \/ UNCHANGED vars
    <2>1. UNCHANGED <<pc, answer, called, wire>>
      BY <1>2 DEF Emit, SubmitThread, SubmitRecords, SubmitPersists, SubmitSends, SubmitReturns,
                  SubmitTimesOut, SubmitFails, Poller, PollSelect, PollRead, PollReadFails,
                  PollApply, PollPersist, Reclaim, calls, world, vars
    <2>2. QED
      BY <1>1, <2>1, CancelStands
  <1>3. CASE Broker
    <2>1. UNCHANGED <<pc, answer, called>>
      BY <1>3 DEF Broker, BrokerAccepts, BrokerFills, BrokerHolds, BrokerEnds, calls
    <2>2. inflight => wire.status = "none"
      BY <1>1 DEF OrderInv, SubmitInv
    <2>3. wire.status = "canceled" => wire' = wire
      BY <1>3, <2>2 DEF Broker, BrokerAccepts, BrokerFills, BrokerHolds, BrokerEnds, Working
    <2>4. QED
      BY <1>1, <2>1, <2>3, CancelStands
  <1>4. ASSUME NEW c \in Calls, Handler(c)
        PROVE  CancelInv'
    BY <1>1, <1>4, CancelBefore, CancelCalls, CancelAfter DEF Handler
  <1>5. CASE Restart
    <2>1. /\ UNCHANGED <<wire, called>>
          /\ pc' = [c \in Calls |-> IF pc[c] \in {"idle", "done"} THEN pc[c] ELSE "crashed"]
          /\ answer' = [c \in Calls |-> IF pc[c] = "done" THEN answer[c] ELSE NoAnswer]
      BY <1>5 DEF Restart, world
    <2>2. \A c \in Calls : answer'[c].kind \in {answer[c].kind, "none"}
      BY <2>1 DEF NoAnswer
    <2>3. \A c \in called : c \in Calls
      BY <1>1, CallTypes
    <2>4. \A c \in Calls : pc'[c] \in Early => answer'[c].kind = "none"
      BY <2>1 DEF NoAnswer, Early
    <2>5. QED
      BY <1>1, <2>1, <2>2, <2>3, <2>4 DEF CancelInv, Early
  <1>6. QED
    BY <1>1, <1>2, <1>3, <1>4, <1>5 DEF Next

\* CancelOrder answers success for an order it sent to the broker only when the
\* broker has canceled it, whoever else fills, polls or replaces it.
THEOREM ConfirmedCancel == Spec => []ConfirmedCancelIsReal
  <1>1. Init => CancelInv
    BY DEF Init, CancelInv, NoAnswer
  <1>2. CancelInv => ConfirmedCancelIsReal
    BY DEF CancelInv, ConfirmedCancelIsReal
  <1>3. Spec => []CancelInv
    BY <1>1, NextCancel, OrderInvariant, OwnerInvariant, PTL DEF Spec
  <1>4. QED
    BY <1>2, <1>3, PTL


(***************************************************************************)
(* The only replace survives.                                              *)
(***************************************************************************)

\* No other replace has reached the broker.
Sole(c) == \A d \in called : req[d] \in Qtys => d = c

\* Where a replace is once it has changed the order in memory.
Settled == {"persist", "finalize", "done"}

\* Only a cancel rereads, and a replace that changes the order was sent.
AfterCall(c) ==
  /\ pc[c] = "reread" => req[c] = Cancel
  /\ pc[c] = "settle" => req[c] = Cancel \/ c \in called

\* A replace changes the order only after its broker call, and from then on no
\* step of the first life but another such replace changes a quantity.
QtyInv ==
  /\ \A c \in Calls : AfterCall(c)
  /\ \A c \in called : answer[c].kind = "replaced" => req[c] # Cancel
  /\ \A c \in called :
       answer[c].kind = "replaced" /\ restarts = 0 /\ Sole(c) =>
         /\ wire.qty = req[c]
         /\ pc[c] \in Settled => mem # Nil /\ mem.qty = req[c]

\* A step of the first life keeps the quantity of the order in memory.
QtyKept == restarts = 0 /\ mem # Nil => mem' # Nil /\ mem'.qty = mem.qty

\* A step that leaves the quantities alone, and makes no call a settled replace.
LEMMA QtyStep ==
  ASSUME QtyInv, UNCHANGED restarts, called \subseteq called',
         \A d \in called : req'[d] = req[d],
         wire'.qty = wire.qty, QtyKept,
         \A d \in Calls : AfterCall(d)',
         \A d \in called' : answer'[d].kind = "replaced" =>
                              /\ d \in called /\ answer[d].kind = "replaced"
                              /\ pc'[d] \in Settled => pc[d] \in Settled
  PROVE  QtyInv'
  <1>1. \A d \in called : Sole(d)' => Sole(d)
    BY DEF Sole
  <1>2. Settled' = Settled
    BY DEF Settled
  <1>3. QED
    BY <1>1, <1>2 DEF QtyInv, QtyKept

\* Such a step of a call.
LEMMA QtyMoves ==
  ASSUME OrderInv, QtyInv, NEW c \in Calls, NEW label \in PCs, Goto(c, label),
         UNCHANGED <<req, restarts>>, wire'.qty = wire.qty, QtyKept,
         called' = called \/ called' = called \cup {c},
         label \in {"reread", "settle"} => req[c] = Cancel,
         \/ UNCHANGED <<answer, called>> /\ (label \in Settled => pc[c] \in Settled)
         \/ \E k, o : /\ Decide(c, k, o)
                      /\ k = "replaced" => /\ c \in called /\ k = answer[c].kind
                                           /\ pc[c] \in Settled
  PROVE  QtyInv'
  <1>1. pc'[c] = label /\ \A d \in Calls : d # c => pc'[d] = pc[d]
    BY GotoEffect
  <1>2. \A d \in called : d \in Calls
    BY CallTypes
  <1>3. \A d \in Calls : AfterCall(d)'
    BY <1>1 DEF QtyInv, AfterCall
  <1>4. CASE UNCHANGED <<answer, called>> /\ (label \in Settled => pc[c] \in Settled)
    BY <1>1, <1>2, <1>3, <1>4, QtyStep
  <1>5. ASSUME NEW k, NEW o, Decide(c, k, o),
               k = "replaced" => c \in called /\ k = answer[c].kind /\ pc[c] \in Settled
        PROVE  QtyInv'
    <2>1. answer'[c].kind = k /\ \A d \in Calls : d # c => answer'[d] = answer[d]
      BY <1>5, DecideKind
    <2>2. \A d \in called' : answer'[d].kind = "replaced" =>
                               /\ d \in called /\ answer[d].kind = "replaced"
                               /\ pc'[d] \in Settled => pc[d] \in Settled
      BY <1>1, <1>2, <1>5, <2>1
    <2>3. QED
      BY <1>2, <1>3, <2>2, QtyStep
  <1>6. QED
    BY <1>4, <1>5

LEMMA QtyBefore ==
  ASSUME OrderInv, OwnerInv, QtyInv, NEW c \in Calls,
         \/ \E i \in Requests : FindOrder(c, i)
         \/ LoadOrder(c) \/ InsertOrFind(c)
         \/ Refuse(c) \/ Lookup(c) \/ IntentStoreFails(c) \/ ReplaceInvalid(c)
  PROVE  QtyInv'
  <1>1. CASE \E i \in Requests : FindOrder(c, i)
    <2>1. PICK i \in Requests : FindOrder(c, i)
      BY <1>1
    <2>2. /\ UNCHANGED <<mem, wire, restarts, called, answer>> /\ pc[c] = "idle"
          /\ req' = [req EXCEPT ![c] = i] /\ (Goto(c, "insert") \/ Goto(c, "load"))
      BY <2>1 DEF FindOrder, orders, world, history
    <2>3. pc'[c] \in {"insert", "load"} /\ \A d \in Calls : d # c => pc'[d] = pc[d]
      BY <2>2, GotoEffect DEF PCs
    <2>4. c \notin called
      BY <2>2 DEF OwnerInv, Early
    <2>5. (\A d \in called : d \in Calls) /\ \A d \in Calls : d # c => req'[d] = req[d]
      BY <2>2, CallTypes
    <2>6. QtyKept
      BY <2>2 DEF QtyKept
    <2>7. \A d \in Calls : AfterCall(d)'
      BY <2>2, <2>3, <2>5 DEF QtyInv, AfterCall
    <2>8. QED
      BY <2>2, <2>3, <2>4, <2>5, <2>6, <2>7, QtyStep
  <1>2. CASE LoadOrder(c)
    <2>1. /\ UNCHANGED <<wire, restarts, called, req, answer>> /\ Goto(c, "insert")
          /\ pc[c] = "load"
      BY <1>2 DEF LoadOrder, world, history
    <2>2. restarts > 0
      BY <2>1, CallTypes DEF CallerInv
    <2>3. QtyKept
      BY <2>2 DEF QtyKept
    <2>4. QED
      BY <2>1, <2>3, QtyMoves DEF PCs, Settled
  <1>3. CASE InsertOrFind(c)
    <2>1. /\ UNCHANGED <<mem, wire, restarts, called, req, answer>>
          /\ \E label \in {"call", "lookup"} : Goto(c, label)
      BY <1>3 DEF InsertOrFind, orders, world, history
    <2>2. QtyKept
      BY <2>1 DEF QtyKept
    <2>3. QED
      BY <2>1, <2>2, QtyMoves DEF PCs, Settled
  <1>4. CASE Refuse(c) \/ Lookup(c) \/ IntentStoreFails(c) \/ ReplaceInvalid(c)
    <2>1. /\ UNCHANGED <<mem, wire, restarts, called, req>> /\ Goto(c, "done")
          /\ \E k, o : Decide(c, k, o) /\ k # "replaced"
      BY <1>4 DEF Refuse, Lookup, IntentStoreFails, ReplaceInvalid, Reply, orders, world, history
    <2>2. QtyKept
      BY <2>1 DEF QtyKept
    <2>3. QED
      BY <2>1, <2>2, QtyMoves DEF PCs
  <1>5. QED
    BY <1>1, <1>2, <1>3, <1>4

LEMMA QtyCancels ==
  ASSUME OrderInv, OwnerInv, CancelInv, QtyInv, NEW c \in Calls,
         CancelUnlinked(c) \/ CancelAtBroker(c) \/ CancelUnresolved(c)
  PROVE  QtyInv'
  <1>1. /\ UNCHANGED <<mem, restarts, req>> /\ req[c] = Cancel /\ pc[c] = "call"
        /\ called' = called \/ called' = called \cup {c}
        /\ wire' = wire \/ wire' = [wire EXCEPT !.status = "canceled"]
        /\ \/ Goto(c, "settle") /\ \E k, o : Decide(c, k, o) /\ k # "replaced"
           \/ Goto(c, "reread") /\ UNCHANGED answer
    BY DEF CancelUnlinked, CancelAtBroker, CancelUnresolved, orders, world, history
  <1>2. QtyKept /\ wire'.qty = wire.qty
    BY <1>1, CallTypes DEF QtyKept
  <1>3. CASE Goto(c, "settle") /\ \E k, o : Decide(c, k, o) /\ k # "replaced"
    BY <1>1, <1>2, <1>3, QtyMoves DEF PCs
  <1>4. CASE Goto(c, "reread") /\ UNCHANGED answer
    <2>1. pc'[c] = "reread" /\ \A d \in Calls : d # c => pc'[d] = pc[d]
      BY <1>4, GotoEffect DEF PCs
    <2>2. answer'[c].kind # "replaced"
      BY <1>1, <1>4 DEF CancelInv, Early
    <2>3. \A d \in called' : d \in Calls /\ (d # c => d \in called)
      BY <1>1, CallTypes
    <2>4. \A d \in Calls : AfterCall(d)'
      BY <1>1, <2>1 DEF QtyInv, AfterCall
    <2>5. \A d \in called' : answer'[d].kind = "replaced" =>
                               /\ d \in called /\ answer[d].kind = "replaced"
                               /\ pc'[d] \in Settled => pc[d] \in Settled
      BY <1>4, <2>1, <2>2, <2>3
    <2>6. QED
      BY <1>1, <1>2, <2>4, <2>5, QtyStep
  <1>5. QED
    BY <1>1, <1>3, <1>4

\* The broker call of a replace: the only one there is when it is done.
LEMMA QtyReplaces ==
  ASSUME OrderInv, OwnerInv, CancelInv, QtyInv, NEW c \in Calls, ReplaceAtBroker(c)
  PROVE  QtyInv'
  <1>1. /\ UNCHANGED <<mem, restarts, req>> /\ called' = called \cup {c}
        /\ req[c] # Cancel /\ pc[c] = "call"
        /\ \/ /\ wire' = [wire EXCEPT !.qty = req[c]] /\ Goto(c, "settle")
              /\ Decide(c, "replaced", Nil)
           \/ \E label \in {"finalize", "done"}, k \in {"rejected", "uncertain"} :
                Goto(c, label) /\ Decide(c, k, Nil)
    BY DEF ReplaceAtBroker, Reply, orders, history
  <1>2. req[c] \in Qtys
    BY <1>1, CallTypes, RequestsAssumption
  <1>3. \A d \in called : d \in Calls /\ d # c
    BY <1>1, CallTypes DEF OwnerInv, Early
  <1>4. \A d \in called : ~Sole(d)'
    BY <1>1, <1>2, <1>3 DEF Sole
  <1>5. \E label \in PCs : Goto(c, label) /\ label # "reread"
    BY <1>1 DEF PCs
  <1>6. pc'[c] # "reread" /\ \A d \in Calls : d # c => pc'[d] = pc[d]
    BY <1>5, GotoEffect
  <1>7. \A d \in Calls : d # c => answer'[d] = answer[d]
    BY <1>1, DecideKind
  <1>8. answer'[c].kind = "replaced" => wire'.qty = req[c] /\ pc'[c] \notin Settled
    <2>1. CASE /\ wire' = [wire EXCEPT !.qty = req[c]] /\ Goto(c, "settle")
               /\ Decide(c, "replaced", Nil)
      <3>1. pc'[c] = "settle"
        BY <2>1, GotoEffect DEF PCs
      <3>2. QED
        BY <2>1, <3>1, CallTypes DEF Settled
    <2>2. CASE \E label \in {"finalize", "done"}, k \in {"rejected", "uncertain"} :
                 Goto(c, label) /\ Decide(c, k, Nil)
      BY <2>2, DecideKind
    <2>3. QED
      BY <1>1, <2>1, <2>2
  <1>9. Settled' = Settled
    BY DEF Settled
  <1>10. \A d \in Calls : AfterCall(d)'
    BY <1>1, <1>6 DEF QtyInv, AfterCall
  <1>11. \A d \in called' : answer'[d].kind = "replaced" => req'[d] # Cancel
    BY <1>1, <1>3, <1>7 DEF QtyInv
  <1>12. QED
    BY <1>1, <1>4, <1>8, <1>9, <1>10, <1>11 DEF QtyInv

\* Settle: the new quantity of the only replace, or the status of a cancel.
LEMMA QtySettles ==
  ASSUME OrderInv, QtyInv, NEW c \in Calls, Settle(c)
  PROVE  QtyInv'
  <1>1. /\ UNCHANGED <<wire, restarts, req, answer, called>> /\ Goto(c, "persist")
        /\ pc[c] = "settle"
        /\ mem' = IF req[c] = Cancel THEN [Latest(held[c]) EXCEPT !.status = "CANCELED"]
                                     ELSE [Latest(held[c]) EXCEPT !.qty = req[c]]
    BY DEF Settle, world, history
  <1>2. mem # Nil /\ mem \in Orders /\ Latest(held[c]) = mem /\ req[c] \in Requests
    BY <1>1, LatestGood DEF Deciding
  <1>3. pc'[c] = "persist" /\ \A d \in Calls : d # c => pc'[d] = pc[d]
    BY <1>1, GotoEffect DEF PCs
  <1>4. \A d \in called : d \in Calls
    BY CallTypes
  <1>5. \A d \in called : Sole(d)' => Sole(d)
    BY <1>1 DEF Sole
  <1>6. Settled' = Settled /\ "persist" \in Settled
    BY DEF Settled
  <1>7. \A d \in Calls : AfterCall(d)'
    BY <1>1, <1>3 DEF QtyInv, AfterCall
  <1>8. CASE req[c] = Cancel
    <2>1. mem' \in Orders /\ mem'.qty = mem.qty
      BY <1>1, <1>2, <1>8 DEF Orders, Statuses
    <2>2. mem' # Nil
      BY <2>1, NilAssumption
    <2>3. c \in called => answer[c].kind # "replaced"
      BY <1>8 DEF QtyInv
    <2>4. \A d \in called' : answer'[d].kind = "replaced" =>
                               /\ d \in called /\ answer[d].kind = "replaced"
                               /\ pc'[d] \in Settled => pc[d] \in Settled
      BY <1>1, <1>3, <1>4, <2>3
    <2>5. QED
      BY <1>1, <1>7, <2>1, <2>2, <2>4, QtyStep DEF QtyKept
  <1>9. CASE req[c] # Cancel
    <2>1. c \in called /\ req[c] \in Qtys
      BY <1>1, <1>2, <1>9, RequestsAssumption DEF QtyInv, AfterCall
    <2>2. mem' \in Orders /\ mem'.qty = req[c]
      BY <1>1, <1>2, <1>9, <2>1 DEF Orders
    <2>3. mem' # Nil
      BY <2>2, NilAssumption
    <2>4. \A d \in called : Sole(d) => d = c
      BY <2>1 DEF Sole
    <2>5. QED
      BY <1>1, <1>5, <1>6, <1>7, <2>2, <2>3, <2>4 DEF QtyInv
  <1>10. QED
    BY <1>8, <1>9

\* A report that is adopted keeps the quantity of the order in memory.
LEMMA AdoptQty ==
  ASSUME OrderInv, NEW o, NEW r \in Reports, Adopts(o, r), Adopt(o, r)
  PROVE  QtyKept
  <1>1. SUFFICES ASSUME mem # Nil
                 PROVE  mem' # Nil /\ mem'.qty = mem.qty
    BY DEF QtyKept
  <1>2. mem \in Orders /\ Latest(o) = mem
    BY <1>1, CallTypes DEF Latest
  <1> DEFINE st == alpacaStatusToProto(r.status)
             f  == FilledQty(st, r.filled, mem.qty)
  <1>3. mem' = [mem EXCEPT !.status = st, !.filled = f]
    BY <1>2 DEF Adopt, Adopted
  <1>4. r.status \in Working \cup Closed /\ r.filled \in Amounts /\ mem.qty \in Qtys
    BY <1>2 DEF Reports, Orders
  <1>5. st \in Statuses
    BY <1>4, Fills DEF Adopts
  <1>6. f \in Amounts
    BY <1>4, <1>5, Fills
  <1> HIDE DEF st, f
  <1>7. mem' \in Orders /\ mem'.qty = mem.qty
    BY <1>2, <1>3, <1>5, <1>6 DEF Orders
  <1>8. QED
    BY <1>7, NilAssumption

LEMMA QtyAfter ==
  ASSUME OrderInv, QtyInv, NEW c \in Calls,
         \/ \E r \in BrokerReports : Reread(c, r)
         \/ RereadFails(c) \/ PersistOrder(c) \/ Finalize(c)
  PROVE  QtyInv'
  <1>1. CASE \E r \in BrokerReports : Reread(c, r)
    <2>1. PICK r \in BrokerReports : Reread(c, r)
      BY <1>1
    <2>2. r \in Reports
      BY Fills
    <2>3. UNCHANGED <<wire, restarts, called, req>> /\ req[c] = Cancel
      BY <2>1 DEF Reread, world, history, QtyInv, AfterCall
    <2>4. mem' = mem \/ (Adopts(held[c], r) /\ Adopt(held[c], r))
      BY <2>1 DEF Reread
    <2>5. /\ \E label \in {"settle", "persist", "finalize"} : Goto(c, label)
          /\ \E k \in {"canceled", "notCanceled"} : Decide(c, k, Nil)
      BY <2>1 DEF Reread
    <2>6. QtyKept
      BY <2>2, <2>4, AdoptQty DEF QtyKept
    <2>7. QED
      BY <2>3, <2>5, <2>6, QtyMoves DEF PCs
  <1>2. CASE RereadFails(c)
    <2>1. /\ UNCHANGED <<mem, wire, restarts, called, req>>
          /\ Goto(c, "finalize") /\ Decide(c, "unavailable", Nil)
      BY <1>2 DEF RereadFails, orders, world, history
    <2>2. QtyKept
      BY <2>1 DEF QtyKept
    <2>3. QED
      BY <2>1, <2>2, QtyMoves DEF PCs
  <1>3. CASE PersistOrder(c)
    <2>1. /\ UNCHANGED <<mem, wire, restarts, called, req, answer>>
          /\ Goto(c, "finalize") /\ pc[c] = "persist"
      BY <1>3 DEF PersistOrder, world, history
    <2>2. QtyKept
      BY <2>1 DEF QtyKept
    <2>3. QED
      BY <2>1, <2>2, QtyMoves DEF PCs, Settled
  <1>4. CASE Finalize(c)
    <2>1. /\ UNCHANGED <<mem, wire, restarts, called, req>> /\ pc[c] = "finalize"
          /\ Goto(c, "done") /\ Decide(c, answer[c].kind, held[c])
      BY <1>4 DEF Finalize, Reply, orders, world, history
    <2>2. QtyKept
      BY <2>1 DEF QtyKept
    <2>3. pc'[c] = "done" /\ \A d \in Calls : d # c => pc'[d] = pc[d]
      BY <2>1, GotoEffect DEF PCs
    <2>4. answer'[c].kind = answer[c].kind /\ \A d \in Calls : d # c => answer'[d] = answer[d]
      BY <2>1, DecideKind
    <2>5. \A d \in called : d \in Calls
      BY CallTypes
    <2>6. \A d \in Calls : AfterCall(d)'
      BY <2>1, <2>3 DEF QtyInv, AfterCall
    <2>7. \A d \in called' : answer'[d].kind = "replaced" =>
                               /\ d \in called /\ answer[d].kind = "replaced"
                               /\ pc'[d] \in Settled => pc[d] \in Settled
      BY <2>1, <2>3, <2>4, <2>5 DEF Settled
    <2>8. QED
      BY <2>1, <2>2, <2>6, <2>7, QtyStep
  <1>5. QED
    BY <1>1, <1>2, <1>3, <1>4

\* Steps that are no call's.
LEMMA QtyStands ==
  ASSUME OrderInv, QtyInv,
         SubmitThread \/ Broker \/ Poller \/ (\E i \in Requests : Reclaim(i))
           \/ Emit \/ UNCHANGED vars
  PROVE  QtyInv'
  <1>1. UNCHANGED <<pc, req, answer, called, restarts>>
    BY DEF Emit, SubmitThread, SubmitRecords, SubmitPersists, SubmitSends, SubmitReturns,
           SubmitTimesOut, SubmitFails, Broker, BrokerAccepts, BrokerFills, BrokerHolds,
           BrokerEnds, Poller, PollSelect, PollRead, PollReadFails, PollApply,
           PollPersist, Reclaim, calls, history, vars
  <1>2. mem \in Orders \cup {Nil} /\ submit.order \in Orders \cup {Nil}
        /\ wire \in [status : {"none"} \cup Working \cup Closed, qty : Qtys, filled : Amounts]
    BY DEF OrderInv, LifecycleTypes, TypeOK
  <1>3. wire'.qty = wire.qty
    <2>1. CASE Broker
      BY <1>2, <2>1 DEF Broker, BrokerAccepts, BrokerFills, BrokerHolds, BrokerEnds
    <2>2. CASE SubmitThread \/ Poller \/ (\E i \in Requests : Reclaim(i)) \/ Emit
               \/ UNCHANGED vars
      BY <2>2 DEF Emit, SubmitThread, SubmitRecords, SubmitPersists, SubmitSends, SubmitReturns,
                  SubmitTimesOut, SubmitFails, Poller, PollSelect, PollRead, PollReadFails,
                  PollApply, PollPersist, Reclaim, world, vars
    <2>3. QED
      BY <2>1, <2>2
  <1>4. QtyKept
    <2>1. CASE UNCHANGED mem
      BY <2>1 DEF QtyKept
    <2>2. CASE SubmitRecords
      BY <2>2 DEF SubmitRecords, OrderInv, SubmitInv, QtyKept
    <2>3. ASSUME NEW r \in BrokerReports, SubmitReturns(r)
          PROVE  QtyKept
      <3>1. SUFFICES ASSUME mem # Nil PROVE mem' # Nil /\ mem'.qty = mem.qty
        BY DEF QtyKept
      <3>2. mem \in Orders /\ Latest(submit.order) = mem
        BY <1>2, <3>1 DEF Latest
      <3> DEFINE s  == alpacaStatusToProto(r.status)
                 st == IF s = "UNSPECIFIED" THEN mem.status ELSE s
                 f  == FilledQty(st, r.filled, mem.qty)
      <3>3. mem' = [mem EXCEPT !.linked = TRUE, !.status = st, !.filled = f]
        BY <2>3, <3>2 DEF SubmitReturns
      <3>4. r \in Reports /\ r.filled \in Amounts /\ r.status \in Working \cup Closed
            /\ mem.qty \in Qtys /\ mem.status \in Statuses
        BY <3>2, Fills DEF Reports, Orders
      <3>5. st \in Statuses
        BY <3>4, Fills
      <3>6. f \in Amounts
        BY <3>4, <3>5, Fills
      <3> HIDE DEF s, st, f
      <3>7. mem' \in Orders /\ mem'.qty = mem.qty
        BY <3>2, <3>3, <3>5, <3>6 DEF Orders
      <3>8. QED
        BY <3>7, NilAssumption
    <2>4. CASE SubmitFails
      <3>1. SUFFICES ASSUME mem # Nil PROVE mem' # Nil /\ mem'.qty = mem.qty
        BY DEF QtyKept
      <3>2. mem' = [mem EXCEPT !.status = "REJECTED"] /\ mem \in Orders
        BY <1>2, <2>4, <3>1 DEF SubmitFails, Latest
      <3>3. mem' \in Orders /\ mem'.qty = mem.qty
        BY <3>2 DEF Orders, Statuses
      <3>4. QED
        BY <3>3, NilAssumption
    <2>5. CASE PollApply
      <3>1. poll.report \in Reports
        BY <2>5 DEF PollApply, OrderInv, PollInv
      <3>2. CASE Adopts(poll.order, poll.report)
        BY <2>5, <3>1, <3>2, AdoptQty DEF PollApply
      <3>3. CASE ~Adopts(poll.order, poll.report)
        BY <2>5, <3>3 DEF PollApply, QtyKept
      <3>4. QED
        BY <3>2, <3>3
    <2>6. \/ UNCHANGED mem \/ SubmitRecords \/ (\E r \in BrokerReports : SubmitReturns(r))
          \/ SubmitFails \/ PollApply
      BY DEF Emit, SubmitThread, SubmitPersists, SubmitSends, SubmitTimesOut,
             Broker, BrokerAccepts, BrokerFills, BrokerHolds, BrokerEnds,
             Poller, PollSelect, PollRead, PollReadFails, PollPersist, Reclaim, orders, vars
    <2>7. QED
      BY <2>1, <2>2, <2>3, <2>4, <2>5, <2>6
  <1>5. \A d \in called : d \in Calls
    BY CallTypes
  <1>6. \A d \in Calls : AfterCall(d)'
    BY <1>1 DEF QtyInv, AfterCall
  <1>7. QED
    BY <1>1, <1>3, <1>4, <1>6, QtyStep

LEMMA NextQty == OrderInv /\ OwnerInv /\ CancelInv /\ QtyInv /\ [Next]_vars => QtyInv'
  <1>1. SUFFICES ASSUME OrderInv, OwnerInv, CancelInv, QtyInv, [Next]_vars
                 PROVE  QtyInv'
    OBVIOUS
  <1>2. CASE SubmitThread \/ Broker \/ Poller \/ (\E i \in Requests : Reclaim(i))
             \/ Emit \/ UNCHANGED vars
    BY <1>1, <1>2, QtyStands
  <1>3. ASSUME NEW c \in Calls, Handler(c)
        PROVE  QtyInv'
    BY <1>1, <1>3, QtyBefore, QtyCancels, QtyReplaces, QtySettles, QtyAfter DEF Handler
  <1>4. CASE Restart
    <2>1. /\ UNCHANGED <<called, req>> /\ restarts' = restarts + 1
          /\ pc' = [c \in Calls |-> IF pc[c] \in {"idle", "done"} THEN pc[c] ELSE "crashed"]
          /\ answer' = [c \in Calls |-> IF pc[c] = "done" THEN answer[c] ELSE NoAnswer]
      BY <1>4 DEF Restart
    <2>2. restarts' # 0
      BY <1>1, <2>1 DEF OrderInv, LifecycleTypes, TypeOK
    <2>3. \A c \in Calls : pc'[c] \notin {"reread", "settle"} /\ answer'[c].kind \in {answer[c].kind, "none"}
      BY <2>1 DEF NoAnswer
    <2>4. \A c \in called : c \in Calls
      BY <1>1, CallTypes
    <2>5. QED
      BY <1>1, <2>1, <2>2, <2>3, <2>4 DEF QtyInv, AfterCall
  <1>5. QED
    BY <1>1, <1>2, <1>3, <1>4 DEF Next

\* The only replace that reached the broker is kept, in memory and at the
\* broker, by every poll, submission answer and cancel of the first life.
THEOREM ReplaceKept == Spec => []ReplaceSurvives
  <1>1. Init => QtyInv
    BY DEF Init, QtyInv, AfterCall
  <1>2. Init => CancelInv
    BY DEF Init, CancelInv, NoAnswer
  <1>3. Spec => []CancelInv
    BY <1>2, NextCancel, OrderInvariant, OwnerInvariant, PTL DEF Spec
  <1>4. Spec => []QtyInv
    BY <1>1, <1>3, NextQty, OrderInvariant, OwnerInvariant, PTL DEF Spec
  <1>5. QtyInv => ReplaceSurvives
    BY DEF QtyInv, ReplaceSurvives, Sole, Settled
  <1>6. QED
    BY <1>4, <1>5, PTL

(***************************************************************************)
(* A retried cancel tells what the cancel did.                             *)
(***************************************************************************)

\* A call that works on the intent of the cancel, or has settled it.
HolderPCs == {"call", "reread", "settle", "persist", "finalize"}
Holds(c) ==
  /\ req[c] = Cancel
  /\ pc[c] \in HolderPCs \/ answer[c].kind \in {"canceled", "notCanceled"}

\* It has not changed the order to CANCELED, and may still say notCanceled.
Undecided(c) ==
  /\ req[c] = Cancel
  /\ \/ pc[c] \in {"call", "reread"}
     \/ pc[c] \in {"persist", "finalize"} /\ answer[c].kind = "notCanceled"

\* No cancel has changed the order yet.
Open == row[Cancel].state = "ABSENT" \/ \E c \in Calls : Undecided(c)

Retold(c) == req[c] = Cancel /\ pc[c] = "done" /\ answer[c].kind = "stored"

\* What a cancel will say and has said, and the order it says it with.
Story(c) ==
  req[c] = Cancel =>
    /\ pc[c] = "reread" => wire.status \in Closed
    /\ pc[c] = "settle" => answer[c].kind \in {"canceled", "canceledUnknown"}
    /\ pc[c] = "persist" => answer[c].kind \in {"canceled", "canceledUnknown", "notCanceled"}
    /\ pc[c] = "finalize" =>
         answer[c].kind \in {"canceled", "canceledUnknown", "notCanceled", "unavailable"}
    /\ pc[c] \in {"persist", "finalize"} /\ answer[c].kind = "canceled" =>
         held[c].status = "CANCELED"
    /\ pc[c] \in {"persist", "finalize"} /\ answer[c].kind = "notCanceled" =>
         held[c].status # "CANCELED" /\ wire.status \in {"filled", "rejected"}
    /\ pc[c] = "done" /\ answer[c].kind \in {"canceled", "notCanceled"} =>
         (answer[c].order.status = "CANCELED" <=> answer[c].kind = "canceled")

\* The intent is held by one call, completed by its last step, and answered
\* from as that call answered.
StoryInv ==
  /\ row[Cancel].state # "REJECTED"
  /\ \A c \in Calls : Story(c)
  /\ \A c \in Calls : Holds(c) =>
       /\ row[Cancel].state # "ABSENT"
       /\ row[Cancel].state = "COMPLETED" =>
            pc[c] = "done" /\ row[Cancel].stored = answer[c].order
  /\ \A c, d \in Calls : Holds(c) /\ Holds(d) => c = d
  /\ \A c \in Calls : Retold(c) =>
       row[Cancel].state = "COMPLETED" /\ answer[c].order = row[Cancel].stored

\* A copy of the order is CANCELED only if the broker's order is.
Honest(o) == o # Nil /\ o.status = "CANCELED" => wire.status = "canceled"

HonestCopies ==
  /\ Honest(mem) /\ Honest(db) /\ Honest(submit.order) /\ Honest(poll.order)
  /\ \A c \in Calls : Honest(held[c])

ReportInv ==
  poll.pc = "apply" /\ poll.report.status = "canceled" => wire.status = "canceled"

RetryInv ==
  /\ ReportInv
  /\ Cancel \in Requests => StoryInv /\ (Open => HonestCopies)

\* What the broker has closed stays as it is.
LEMMA ClosedStays ==
  ASSUME OrderInv, [Next]_vars
  PROVE  wire.status \in Closed => wire'.status = wire.status
  <1>1. SUFFICES ASSUME wire.status \in Closed
                 PROVE  wire'.status = wire.status
    OBVIOUS
  <1>2. wire.status \notin Working /\ ~inflight
    BY <1>1 DEF OrderInv, SubmitInv, Working, Closed
  <1>3. CASE Broker
    BY <1>2, <1>3 DEF Broker, BrokerAccepts, BrokerFills, BrokerHolds, BrokerEnds, Working
  <1>4. CASE SubmitThread \/ Poller \/ (\E i \in Requests : Reclaim(i)) \/ Emit \/ Restart
               \/ UNCHANGED vars
    BY <1>4 DEF Emit, SubmitThread, SubmitRecords, SubmitPersists, SubmitSends, SubmitReturns,
                SubmitTimesOut, SubmitFails, Poller, PollSelect, PollRead, PollReadFails,
                PollApply, PollPersist, Reclaim, Restart, world, vars
  <1>5. ASSUME NEW c \in Calls, Handler(c)
        PROVE  wire' = wire
    <2>1. CASE CancelAtBroker(c) \/ ReplaceAtBroker(c)
      BY <1>2, <2>1 DEF CancelAtBroker, ReplaceAtBroker
    <2>2. CASE ~(CancelAtBroker(c) \/ ReplaceAtBroker(c))
      BY <1>5, <2>2 DEF Handler, FindOrder, LoadOrder, Refuse, InsertOrFind, Lookup,
                        IntentStoreFails, CancelUnlinked, CancelUnresolved, Reread,
                        RereadFails, ReplaceInvalid, Settle, PersistOrder, Finalize, world
    <2>3. QED
      BY <2>1, <2>2
  <1>6. QED
    BY <1>3, <1>4, <1>5 DEF Next

LEMMA ProtoCanceled ==
  ASSUME NEW s \in Working \cup Closed
  PROVE  alpacaStatusToProto(s) = "CANCELED" <=> s = "canceled"
  BY DEF Working, Closed, alpacaStatusToProto

\* A report that is adopted gives its own status to the order in memory.
LEMMA AdoptStatus ==
  ASSUME OrderInv, NEW o \in Orders \cup {Nil}, NEW r \in Reports, Adopts(o, r), Adopt(o, r),
         mem # Nil
  PROVE  mem' \in Orders /\ mem'.status = alpacaStatusToProto(r.status)
  <1>1. mem \in Orders /\ Latest(o) = mem
    BY CallTypes DEF Latest
  <1> DEFINE st == alpacaStatusToProto(r.status)
             f  == FilledQty(st, r.filled, mem.qty)
  <1>2. mem' = [mem EXCEPT !.status = st, !.filled = f]
    BY <1>1 DEF Adopt, Adopted
  <1>3. r.status \in Working \cup Closed /\ r.filled \in Amounts /\ mem.qty \in Qtys
    BY <1>1 DEF Reports, Orders
  <1>4. st \in Statuses
    BY <1>3, Fills DEF Adopts
  <1>5. f \in Amounts
    BY <1>3, <1>4, Fills
  <1> HIDE DEF f, st
  <1>6. mem' \in Orders /\ mem'.status = st
    BY <1>1, <1>2, <1>4, <1>5 DEF Orders
  <1>7. QED
    BY <1>6 DEF st

\* The order in memory, written by whoever: only a cancel makes it CANCELED
\* without the broker.
LEMMA HonestMem ==
  ASSUME OrderInv, ReportInv, HonestCopies, [Next]_vars,
         \A c \in Calls : Settle(c) => req[c] # Cancel
  PROVE  Honest(mem)'
  <1>1. wire.status = "canceled" => wire'.status = "canceled"
    BY ClosedStays DEF Closed
  <1>2. mem \in Orders \cup {Nil} /\ db \in Orders \cup {Nil} /\ submit.order \in Orders \cup {Nil}
        /\ poll.order \in Orders \cup {Nil}
    BY DEF OrderInv, LifecycleTypes, TypeOK
  <1>3. CASE mem' = mem
    BY <1>1, <1>3 DEF HonestCopies, Honest
  <1>4. CASE SubmitRecords
    BY <1>4 DEF SubmitRecords, Honest
  <1>5. ASSUME NEW r \in BrokerReports, SubmitReturns(r)
        PROVE  Honest(mem)'
    <2> DEFINE s  == alpacaStatusToProto(r.status)
               old == Latest(submit.order)
               st == IF s = "UNSPECIFIED" THEN old.status ELSE s
               f  == FilledQty(st, r.filled, old.qty)
    <2>1. submit.pc = "await" /\ mem' = [old EXCEPT !.linked = TRUE, !.status = st, !.filled = f]
          /\ wire' = wire
      BY <1>5 DEF SubmitReturns, world
    <2>2. Good(submit.order)
      BY <2>1 DEF OrderInv, SubmitInv
    <2>3. old \in Orders /\ old \in {mem, submit.order} /\ old # Nil
      BY <1>2, <2>2, NilAssumption DEF Latest, Good
    <2>4. r \in Reports /\ r.filled \in Amounts /\ r.status \in Working \cup Closed
          /\ r.status = wire.status /\ old.qty \in Qtys /\ old.status \in Statuses
      BY <2>3, Fills DEF Reports, Orders
    <2>5. st \in Statuses
      BY <2>4, Fills
    <2>6. f \in Amounts
      BY <2>4, <2>5, Fills
    <2>7. st = "CANCELED" => wire.status = "canceled"
      <3>1. s = "CANCELED" => wire.status = "canceled"
        BY <2>4, ProtoCanceled
      <3>2. old.status = "CANCELED" => wire.status = "canceled"
        BY <2>3 DEF HonestCopies, Honest
      <3>3. QED
        BY <3>1, <3>2
    <2> HIDE DEF s, st, f, old
    <2>8. mem'.status = st
      BY <2>1, <2>3, <2>5, <2>6 DEF Orders
    <2>9. QED
      BY <2>1, <2>7, <2>8 DEF Honest
  <1>6. CASE SubmitFails
    <2>1. mem' = [Latest(submit.order) EXCEPT !.status = "REJECTED"]
          /\ submit.pc \in {"call", "await"}
      BY <1>6 DEF SubmitFails
    <2>2. Good(submit.order)
      BY <2>1 DEF OrderInv, SubmitInv
    <2>3. Latest(submit.order) \in Orders /\ "REJECTED" \in Statuses
      BY <1>2, <2>2 DEF Latest, Good, Statuses
    <2>4. mem'.status = "REJECTED"
      BY <2>1, <2>3, StatusChange
    <2>5. QED
      BY <2>4 DEF Honest
  <1>7. CASE PollApply /\ mem' # mem
    <2>1. /\ poll.report \in Reports /\ mem # Nil
          /\ Adopts(poll.order, poll.report) /\ Adopt(poll.order, poll.report)
          /\ poll.pc = "apply"
      BY <1>7 DEF PollApply, OrderInv, PollInv
    <2>2. mem'.status = alpacaStatusToProto(poll.report.status)
      BY <1>2, <2>1, AdoptStatus
    <2>3. poll.report.status \in Working \cup Closed
      BY <2>1 DEF Reports
    <2>4. mem'.status = "CANCELED" => poll.report.status = "canceled"
      BY <2>2, <2>3, ProtoCanceled
    <2>5. QED
      BY <1>1, <2>1, <2>4 DEF ReportInv, Honest
  <1>8. ASSUME NEW c \in Calls, LoadOrder(c)
        PROVE  Honest(mem)'
    BY <1>1, <1>8 DEF LoadOrder, HonestCopies, Honest
  <1>9. ASSUME NEW c \in Calls, NEW r \in BrokerReports, Reread(c, r), mem' # mem
        PROVE  Honest(mem)'
    <2>1. pc[c] = "reread" /\ Adopts(held[c], r) /\ Adopt(held[c], r) /\ r.status # "canceled"
      BY <1>9 DEF Reread
    <2>2. mem # Nil /\ held[c] \in Orders
      BY <2>1, LatestGood DEF Deciding
    <2>3. r \in Reports /\ r.status \in Working \cup Closed
      BY Fills DEF Reports
    <2>4. mem'.status = alpacaStatusToProto(r.status)
      BY <2>1, <2>2, <2>3, AdoptStatus
    <2>5. mem'.status # "CANCELED"
      BY <2>1, <2>3, <2>4, ProtoCanceled
    <2>6. QED
      BY <2>5 DEF Honest
  <1>10. ASSUME NEW c \in Calls, Settle(c)
         PROVE  Honest(mem)'
    <2>1. req[c] # Cancel /\ pc[c] = "settle"
      BY <1>10 DEF Settle
    <2>2. mem # Nil /\ mem \in Orders /\ Latest(held[c]) = mem /\ req[c] \in Requests
      BY <2>1, LatestGood DEF Deciding
    <2>3. req[c] \in Qtys /\ mem' = [mem EXCEPT !.qty = req[c]]
      BY <1>10, <2>1, <2>2, RequestsAssumption DEF Settle
    <2>4. mem'.status = mem.status
      BY <2>2, <2>3, QtyChange
    <2>5. QED
      BY <1>1, <2>2, <2>4 DEF HonestCopies, Honest
  <1>11. CASE Restart
    BY <1>1, <1>11 DEF Restart, HonestCopies, Honest
  <1>12. \/ mem' = mem \/ SubmitRecords \/ (\E r \in BrokerReports : SubmitReturns(r))
         \/ SubmitFails \/ PollApply \/ Restart
         \/ \E c \in Calls : \/ LoadOrder(c) \/ Settle(c)
                             \/ \E r \in BrokerReports : Reread(c, r)
    BY DEF Next, vars, Emit, SubmitThread, SubmitPersists, SubmitSends, SubmitTimesOut, Broker,
           BrokerAccepts, BrokerFills, BrokerHolds, BrokerEnds, Poller, PollSelect, PollRead,
           PollReadFails, PollPersist, Reclaim, Handler, FindOrder, Refuse, InsertOrFind, Lookup,
           IntentStoreFails, CancelUnlinked, CancelAtBroker, CancelUnresolved, RereadFails,
           ReplaceAtBroker, ReplaceInvalid, PersistOrder, Finalize, orders
  <1>13. QED
    BY <1>3, <1>4, <1>5, <1>6, <1>7, <1>8, <1>9, <1>10, <1>11, <1>12

\* The row of the order: what a handler or the poller writes is a copy.
LEMMA PersistHonest ==
  ASSUME NEW o \in Orders, Honest(o), Honest(db), db \in Orders \cup {Nil}, Persist(o),
         wire.status = "canceled" => wire'.status = "canceled"
  PROVE  Honest(db)'
  <1>1. CASE db' = db \/ db' = o
    BY <1>1 DEF Honest
  <1>2. CASE db # Nil /\ db' = [o EXCEPT !.qty = db.qty]
    <2>1. db.qty \in Qtys
      BY <1>2 DEF Orders
    <2>2. db'.status = o.status
      BY <1>2, <2>1, QtyChange
    <2>3. o # Nil
      BY NilAssumption
    <2>4. QED
      BY <2>2, <2>3 DEF Honest
  <1>3. QED
    BY <1>1, <1>2 DEF Persist

LEMMA HonestDb ==
  ASSUME OrderInv, HonestCopies, [Next]_vars
  PROVE  Honest(db)'
  <1>1. wire.status = "canceled" => wire'.status = "canceled"
    BY ClosedStays DEF Closed
  <1>2. Honest(db) /\ db \in Orders \cup {Nil}
    BY CallTypes DEF HonestCopies
  <1>3. CASE db' = db
    BY <1>1, <1>3 DEF HonestCopies, Honest
  <1>4. CASE SubmitPersists
    <2>1. Persist(submit.order) /\ Good(submit.order)
      BY <1>4 DEF SubmitPersists, OrderInv, SubmitInv
    <2>2. submit.order \in Orders /\ Honest(submit.order)
      BY <2>1 DEF Good, HonestCopies
    <2>3. QED
      BY <1>1, <1>2, <2>1, <2>2, PersistHonest
  <1>5. CASE PollPersist
    <2>1. Persist(poll.order) /\ Good(poll.order)
      BY <1>5 DEF PollPersist, OrderInv, PollInv
    <2>2. poll.order \in Orders /\ Honest(poll.order)
      BY <2>1 DEF Good, HonestCopies
    <2>3. QED
      BY <1>1, <1>2, <2>1, <2>2, PersistHonest
  <1>6. ASSUME NEW c \in Calls, PersistOrder(c)
        PROVE  Honest(db)'
    <2>1. Persist(held[c]) /\ pc[c] = "persist"
      BY <1>6 DEF PersistOrder
    <2>2. held[c] \in Orders /\ Honest(held[c])
      BY <2>1, LatestGood DEF Deciding, HonestCopies
    <2>3. QED
      BY <1>1, <1>2, <2>1, <2>2, PersistHonest
  <1>7. \/ db' = db \/ SubmitPersists \/ PollPersist \/ \E c \in Calls : PersistOrder(c)
    BY DEF Next, vars, Emit, SubmitThread, SubmitRecords, SubmitSends, SubmitReturns,
           SubmitTimesOut,
           SubmitFails, Broker, BrokerAccepts, BrokerFills, BrokerHolds, BrokerEnds, Poller,
           PollSelect, PollRead, PollReadFails, PollApply, Reclaim, Restart, Handler, FindOrder,
           LoadOrder, Refuse, InsertOrFind, Lookup, IntentStoreFails, CancelUnlinked,
           CancelAtBroker, CancelUnresolved, Reread, RereadFails, ReplaceAtBroker,
           ReplaceInvalid, Settle, Finalize, orders
  <1>8. QED
    BY <1>3, <1>4, <1>5, <1>6, <1>7

\* The copies the submission, the poller and the calls keep are taken from
\* memory or the row.
LEMMA HonestNext ==
  ASSUME OrderInv, ReportInv, HonestCopies, [Next]_vars,
         \A c \in Calls : Settle(c) => req[c] # Cancel
  PROVE  HonestCopies'
  <1>1. wire.status = "canceled" => wire'.status = "canceled"
    BY ClosedStays DEF Closed
  <1>2. Honest(mem)' /\ Honest(db)'
    BY HonestMem, HonestDb
  <1>3. \A o : Honest(o) => Honest(o)'
    BY <1>1 DEF Honest
  <1>4. submit'.order \in {submit.order, mem', Nil}
    <2>1. CASE submit' = submit
      BY <2>1
    <2>2. CASE SubmitThread \/ Restart
      <3>1. \E label \in SubmitPCs, o \in {submit.order, mem', Nil} : SubmitAt(label, o)
        BY <2>2 DEF SubmitThread, SubmitRecords, SubmitPersists, SubmitSends, SubmitReturns,
                    SubmitTimesOut, SubmitFails, Restart, SubmitPCs
      <3>2. QED
        BY <3>1 DEF SubmitAt
    <2>3. submit' = submit \/ SubmitThread \/ Restart
      BY DEF Next, vars, Emit, Broker, BrokerAccepts, BrokerFills, BrokerHolds, BrokerEnds, Poller,
             PollSelect, PollRead, PollReadFails, PollApply, PollPersist, Reclaim, Handler,
             FindOrder, LoadOrder, Refuse, InsertOrFind, Lookup, IntentStoreFails,
             CancelUnlinked, CancelAtBroker, CancelUnresolved, Reread, RereadFails,
             ReplaceAtBroker, ReplaceInvalid, Settle, PersistOrder, Finalize
    <2>4. QED
      BY <2>1, <2>2, <2>3
  <1>5. poll'.order \in {poll.order, mem, mem', Nil}
    <2>1. CASE poll' = poll
      BY <2>1
    <2>2. CASE Poller \/ Restart
      <3>1. poll \in [pc : {"idle", "read", "apply", "persist"}, order : Orders \cup {Nil},
                      report : Reports \cup {Nil}]
        BY DEF OrderInv, LifecycleTypes, TypeOK
      <3>2. CASE PollRead
        BY <3>1, <3>2 DEF PollRead
      <3>3. CASE PollApply
        BY <3>3 DEF PollApply, NoPoll
      <3>4. CASE PollSelect \/ PollReadFails \/ PollPersist \/ Restart
        BY <3>4 DEF PollSelect, PollReadFails, PollPersist, Restart, NoPoll
      <3>5. QED
        BY <2>2, <3>2, <3>3, <3>4 DEF Poller
    <2>3. poll' = poll \/ Poller \/ Restart
      BY DEF Next, vars, Emit, Broker, BrokerAccepts, BrokerFills, BrokerHolds, BrokerEnds,
             SubmitThread, SubmitRecords, SubmitPersists, SubmitSends, SubmitReturns,
             SubmitTimesOut, SubmitFails, Reclaim, Handler,
             FindOrder, LoadOrder, Refuse, InsertOrFind, Lookup, IntentStoreFails,
             CancelUnlinked, CancelAtBroker, CancelUnresolved, Reread, RereadFails,
             ReplaceAtBroker, ReplaceInvalid, Settle, PersistOrder, Finalize
    <2>4. QED
      BY <2>1, <2>2, <2>3
  <1>6. ASSUME NEW d \in Calls
        PROVE  held'[d] \in {held[d], mem, db, mem', Nil}
    <2>1. held \in [Calls -> Orders \cup {Nil}]
      BY CallTypes
    <2>2. ASSUME NEW c \in Calls, Handler(c)
          PROVE  \/ held' = held
                 \/ \E o \in {held[c], mem, db, mem', Nil} : Hold(c, o)
      BY <2>2 DEF Handler, FindOrder, LoadOrder, Refuse, InsertOrFind, Lookup,
                  IntentStoreFails, CancelUnlinked, CancelAtBroker, CancelUnresolved, Reread,
                  RereadFails, ReplaceAtBroker, ReplaceInvalid, Settle, PersistOrder, Finalize,
                  Reply, Latest
    <2>3. CASE held' = held
      BY <2>3
    <2>4. CASE Restart
      BY <2>4 DEF Restart
    <2>5. ASSUME NEW c \in Calls, NEW o \in {held[c], mem, db, mem', Nil}, Hold(c, o)
          PROVE  held'[d] \in {held[d], mem, db, mem', Nil}
      BY <2>1, <2>5 DEF Hold
    <2>6. held' = held \/ Restart \/ \E c \in Calls : Handler(c)
      BY DEF Next, vars, Emit, Broker, BrokerAccepts, BrokerFills, BrokerHolds, BrokerEnds, Poller,
             PollSelect, PollRead, PollReadFails, PollApply, PollPersist, Reclaim,
             SubmitThread, SubmitRecords, SubmitPersists, SubmitSends, SubmitReturns,
             SubmitTimesOut, SubmitFails, calls
    <2>7. QED
      BY <2>2, <2>3, <2>4, <2>5, <2>6
  <1>7. Honest(mem) /\ Honest(db) /\ Honest(submit.order) /\ Honest(poll.order)
        /\ \A c \in Calls : Honest(held[c])
    BY DEF HonestCopies
  <1>8. Honest(submit.order)'
    BY <1>1, <1>2, <1>4, <1>7 DEF Honest
  <1>9. Honest(poll.order)'
    BY <1>1, <1>2, <1>5, <1>7 DEF Honest
  <1>10. \A d \in Calls : Honest(held[d])'
    BY <1>1, <1>2, <1>6, <1>7 DEF Honest
  <1>11. QED
    BY <1>2, <1>8, <1>9, <1>10 DEF HonestCopies

\* What a step does to the row of the cancel, but for the end of the cancel.
RowStands ==
  /\ row[Cancel].state # "ABSENT" => row'[Cancel].state # "ABSENT"
  /\ row'[Cancel].state = "COMPLETED" \/ row[Cancel].state = "COMPLETED" =>
       row'[Cancel] = row[Cancel]
  /\ row[Cancel].state # "REJECTED" => row'[Cancel].state # "REJECTED"

\* A handler's step is about its own call.
LEMMA HandlerFrame ==
  ASSUME OrderInv, NEW c \in Calls, Handler(c)
  PROVE  /\ \A d \in Calls : d # c => /\ pc'[d] = pc[d] /\ req'[d] = req[d]
                                      /\ held'[d] = held[d] /\ answer'[d] = answer[d]
         /\ pc[c] # "done"
  <1>1. /\ pc[c] # "done"
        /\ \E label : Goto(c, label)
        /\ req' = req \/ \E i \in Requests : req' = [req EXCEPT ![c] = i]
        /\ held' = held \/ \E o : Hold(c, o)
        /\ answer' = answer \/ \E k, o : Decide(c, k, o)
    BY DEF Handler, FindOrder, LoadOrder, Refuse, InsertOrFind, Lookup, IntentStoreFails,
           CancelUnlinked, CancelAtBroker, CancelUnresolved, Reread, RereadFails,
           ReplaceAtBroker, ReplaceInvalid, Settle, PersistOrder, Finalize, Reply
  <1>2. ASSUME NEW d \in Calls, d # c
        PROVE  pc'[d] = pc[d] /\ req'[d] = req[d] /\ held'[d] = held[d] /\ answer'[d] = answer[d]
    <2>1. pc'[d] = pc[d]
      BY <1>1, <1>2, CallTypes DEF Goto
    <2>2. req'[d] = req[d]
      BY <1>1, <1>2, CallTypes
    <2>3. held'[d] = held[d]
      BY <1>1, <1>2, CallTypes DEF Hold
    <2>4. answer'[d] = answer[d]
      BY <1>1, <1>2, CallTypes DEF Decide
    <2>5. QED
      BY <2>1, <2>2, <2>3, <2>4
  <1>3. QED
    BY <1>1, <1>2

LEMMA AnswerIs ==
  ASSUME OrderInv, NEW c \in Calls, NEW k, NEW o, Decide(c, k, o)
  PROVE  answer'[c].kind = k /\ answer'[c].order = o
  BY CallTypes DEF Decide

\* A step of call c that leaves a completed intent alone.
LEMMA StoryStep ==
  ASSUME OrderInv, StoryInv, [Next]_vars, NEW c \in Calls, Handler(c), RowStands, Story(c)',
         Holds(c)' => \/ Holds(c)
                      \/ row[Cancel].state = "ABSENT" /\ row'[Cancel].state = "PENDING",
         Undecided(c)' => Undecided(c) \/ row[Cancel].state = "ABSENT",
         Retold(c)' => row[Cancel].state = "COMPLETED" /\ answer'[c].order = row[Cancel].stored
  PROVE  StoryInv' /\ (Open' => Open)
  <1>1. /\ \A d \in Calls : d # c => /\ pc'[d] = pc[d] /\ req'[d] = req[d]
                                     /\ held'[d] = held[d] /\ answer'[d] = answer[d]
        /\ pc[c] # "done"
    BY HandlerFrame
  <1>2. wire.status \in Closed => wire'.status = wire.status
    BY ClosedStays
  <1>3. Closed' = Closed /\ HolderPCs' = HolderPCs
    BY DEF Closed, HolderPCs
  <1>4. \A d \in Calls : Story(d)'
    <2>1. ASSUME NEW d \in Calls, d # c
          PROVE  Story(d)'
      <3>1. Story(d)
        BY DEF StoryInv
      <3>2. QED
        BY <1>1, <1>2, <1>3, <2>1, <3>1 DEF Story, Closed
    <2>2. QED
      BY <2>1
  <1>5. \A d \in Calls : d # c => /\ Holds(d)' <=> Holds(d)
                                  /\ Undecided(d)' <=> Undecided(d)
                                  /\ Retold(d)' <=> Retold(d)
    BY <1>1, <1>3 DEF Holds, Undecided, Retold
  <1>6. Holds(c) => row[Cancel].state # "COMPLETED"
    BY <1>1 DEF StoryInv
  <1>7. \A d \in Calls : Holds(d)' =>
          /\ row'[Cancel].state # "ABSENT"
          /\ row'[Cancel].state = "COMPLETED" =>
               pc'[d] = "done" /\ row'[Cancel].stored = answer'[d].order
    <2>1. ASSUME NEW d \in Calls, d # c, Holds(d)'
          PROVE  /\ row'[Cancel].state # "ABSENT"
                 /\ row'[Cancel].state = "COMPLETED" =>
                      pc'[d] = "done" /\ row'[Cancel].stored = answer'[d].order
      BY <1>1, <1>5, <2>1 DEF StoryInv, RowStands
    <2>2. ASSUME Holds(c)'
          PROVE  row'[Cancel].state # "ABSENT" /\ row'[Cancel].state # "COMPLETED"
      BY <1>6, <2>2 DEF StoryInv, RowStands
    <2>3. QED
      BY <2>1, <2>2
  <1>8. \A d, e \in Calls : Holds(d)' /\ Holds(e)' => d = e
    BY <1>5 DEF StoryInv
  <1>9. \A d \in Calls : Retold(d)' =>
          row'[Cancel].state = "COMPLETED" /\ answer'[d].order = row'[Cancel].stored
    <2>1. ASSUME NEW d \in Calls, Retold(d)'
          PROVE  row[Cancel].state = "COMPLETED" /\ answer'[d].order = row[Cancel].stored
      BY <1>1, <1>5, <2>1 DEF StoryInv
    <2>2. QED
      BY <2>1 DEF RowStands
  <1>10. StoryInv'
    BY <1>4, <1>7, <1>8, <1>9 DEF StoryInv, RowStands
  <1>11. Open' => Open
    BY <1>5 DEF Open, RowStands
  <1>12. QED
    BY <1>10, <1>11

\* Steps that leave the row of the cancel alone.
LEMMA RowSame ==
  ASSUME row'[Cancel] = row[Cancel]
  PROVE  RowStands
  BY DEF RowStands

\* A call that is no cancel, and the beginning of a call.
LEMMA RetryOther ==
  ASSUME OrderInv, CancelInv, StoryInv, Cancel \in Requests, [Next]_vars, NEW c \in Calls,
         Handler(c), req[c] # Cancel \/ pc[c] \in {"idle", "load"}
  PROVE  StoryInv' /\ (Open' => Open)
  <1>1. CASE \E i \in Requests : FindOrder(c, i)
    <2>1. /\ UNCHANGED <<row, answer>> /\ pc[c] = "idle" /\ (Goto(c, "insert") \/ Goto(c, "load"))
      BY <1>1 DEF FindOrder
    <2>2. pc'[c] \in {"insert", "load"}
      BY <2>1, GotoEffect DEF PCs
    <2>3. answer'[c].kind = "none"
      BY <2>1 DEF CancelInv, Early
    <2>4. RowStands /\ Story(c)' /\ ~Holds(c)' /\ ~Undecided(c)' /\ ~Retold(c)'
      BY <2>1, <2>2, <2>3, RowSame DEF Story, Holds, HolderPCs, Undecided, Retold
    <2>5. QED
      BY <2>4, StoryStep
  <1>2. CASE LoadOrder(c)
    <2>1. UNCHANGED <<row, answer, req>> /\ pc[c] = "load" /\ Goto(c, "insert")
      BY <1>2 DEF LoadOrder
    <2>2. pc'[c] = "insert"
      BY <2>1, GotoEffect DEF PCs
    <2>3. answer'[c].kind = "none"
      BY <2>1 DEF CancelInv, Early
    <2>4. RowStands /\ Story(c)' /\ ~Holds(c)' /\ ~Undecided(c)' /\ ~Retold(c)'
      BY <2>1, <2>2, <2>3, RowSame DEF Story, Holds, HolderPCs, Undecided, Retold
    <2>5. QED
      BY <2>4, StoryStep
  <1>3. CASE ~(\E i \in Requests : FindOrder(c, i)) /\ ~LoadOrder(c)
    <2>1. /\ UNCHANGED req /\ pc[c] \notin {"idle", "load"}
          /\ \/ row' = row
             \/ row' = [row EXCEPT ![req[c]] = InsertIntent(row[req[c]], req[c])]
             \/ row' = [row EXCEPT ![req[c]] =
                          FinalizeIntent(row[req[c]], VerdictOf(answer[c].kind), held[c])]
      BY <1>3 DEF Handler, Refuse, InsertOrFind, Lookup, IntentStoreFails,
           CancelUnlinked, CancelAtBroker, CancelUnresolved, Reread, RereadFails,
           ReplaceAtBroker, ReplaceInvalid, Settle, PersistOrder, Finalize
    <2>2. req[c] # Cancel
      BY <2>1
    <2>3. row'[Cancel] = row[Cancel]
      BY <2>1, <2>2, CallTypes
    <2>4. RowStands /\ Story(c)' /\ ~Holds(c)' /\ ~Undecided(c)' /\ ~Retold(c)'
      BY <2>1, <2>2, <2>3, RowSame DEF Story, Holds, Undecided, Retold
    <2>5. QED
      BY <2>4, StoryStep
  <1>4. QED
    BY <1>1, <1>2, <1>3

\* The intent of a cancel: inserted by one call, looked up by the others.
LEMMA RetryIntent ==
  ASSUME OrderInv, CancelInv, StoryInv, Cancel \in Requests, [Next]_vars, NEW c \in Calls,
         Handler(c), req[c] = Cancel,
         Refuse(c) \/ InsertOrFind(c) \/ Lookup(c) \/ IntentStoreFails(c)
  PROVE  StoryInv' /\ (Open' => Open)
  <1>1. row \in [Requests -> Rows] /\ row[Cancel] \in Rows
    BY CallTypes
  <1>2. InsertIntent(row[Cancel], Cancel).state =
          IF row[Cancel].state = "ABSENT" THEN "PENDING" ELSE row[Cancel].state
    BY DEF InsertIntent, Written
  <1>3. row[Cancel].state # "ABSENT" => InsertIntent(row[Cancel], Cancel) = row[Cancel]
    BY DEF InsertIntent
  <1>4. row' = row \/ row' = [row EXCEPT ![Cancel] = InsertIntent(row[Cancel], Cancel)]
    BY DEF Refuse, InsertOrFind, Lookup, IntentStoreFails
  <1>5. RowStands
    BY <1>1, <1>2, <1>3, <1>4 DEF RowStands
  <1>6. CASE InsertOrFind(c)
    <2>1. /\ UNCHANGED <<answer, req>> /\ pc[c] = "insert"
          /\ row' = [row EXCEPT ![Cancel] = InsertIntent(row[Cancel], Cancel)]
          /\ Goto(c, IF row[Cancel].state = "ABSENT" THEN "call" ELSE "lookup")
      BY <1>6 DEF InsertOrFind
    <2>2. pc'[c] = IF row[Cancel].state = "ABSENT" THEN "call" ELSE "lookup"
      BY <2>1, GotoEffect DEF PCs
    <2>3. answer'[c].kind = "none"
      BY <2>1 DEF CancelInv, Early
    <2>4. Story(c)' /\ ~Retold(c)'
      BY <2>2, <2>3 DEF Story, Retold
    <2>5. Holds(c)' \/ Undecided(c)' => row[Cancel].state = "ABSENT"
      BY <2>2, <2>3 DEF Holds, HolderPCs, Undecided
    <2>6. row[Cancel].state = "ABSENT" => row'[Cancel].state = "PENDING"
      BY <1>1, <1>2, <2>1
    <2>7. QED
      BY <1>5, <2>4, <2>5, <2>6, StoryStep
  <1>7. CASE Refuse(c) \/ IntentStoreFails(c)
    <2>1. /\ UNCHANGED req /\ Goto(c, "done")
          /\ \E k \in {"refused", "internal"} : Decide(c, k, Nil)
      BY <1>7 DEF Refuse, IntentStoreFails, Reply
    <2>2. pc'[c] = "done" /\ answer'[c].kind \in {"refused", "internal"}
      BY <2>1, GotoEffect, AnswerIs DEF PCs
    <2>3. Story(c)' /\ ~Holds(c)' /\ ~Undecided(c)' /\ ~Retold(c)'
      BY <2>2 DEF Story, Holds, HolderPCs, Undecided, Retold
    <2>4. QED
      BY <1>5, <2>3, StoryStep
  <1>8. CASE Lookup(c)
    <2>1. /\ Goto(c, "done")
          /\ \E k \in {"stored", "unknown", "pending"} : \E o :
               /\ Decide(c, k, o)
               /\ k = "stored" =>
                    /\ classifyIntentLookup(row[Cancel], Cancel) = "ReturnStored"
                    /\ o = row[Cancel].stored
      BY <1>8 DEF Lookup, Reply
    <2>2. PICK k \in {"stored", "unknown", "pending"} :
            \E o : /\ Decide(c, k, o)
                   /\ k = "stored" =>
                        /\ classifyIntentLookup(row[Cancel], Cancel) = "ReturnStored"
                        /\ o = row[Cancel].stored
      BY <2>1
    <2>3. PICK o : /\ Decide(c, k, o)
                   /\ k = "stored" =>
                        /\ classifyIntentLookup(row[Cancel], Cancel) = "ReturnStored"
                        /\ o = row[Cancel].stored
      BY <2>2
    <2>4. pc'[c] = "done" /\ answer'[c].kind = k /\ answer'[c].order = o
      BY <2>1, <2>3, GotoEffect, AnswerIs DEF PCs
    <2>5. k = "stored" => row[Cancel].state = "COMPLETED"
      BY <2>3 DEF classifyIntentLookup, Verdicts, StoryInv
    <2>6. Story(c)' /\ ~Holds(c)' /\ ~Undecided(c)'
      BY <2>4 DEF Story, Holds, HolderPCs, Undecided
    <2>7. Retold(c)' => row[Cancel].state = "COMPLETED" /\ answer'[c].order = row[Cancel].stored
      BY <2>3, <2>4, <2>5 DEF Retold
    <2>8. QED
      BY <1>5, <2>6, <2>7, StoryStep
  <1>9. QED
    BY <1>6, <1>7, <1>8

\* The broker call and what follows it, up to the end.
LEMMA RetryCancels ==
  ASSUME OrderInv, CancelInv, StoryInv, Open => HonestCopies, [Next]_vars, NEW c \in Calls,
         Handler(c), req[c] = Cancel,
         \/ CancelUnlinked(c) \/ CancelAtBroker(c) \/ CancelUnresolved(c)
         \/ (\E r \in BrokerReports : Reread(c, r)) \/ RereadFails(c) \/ PersistOrder(c)
  PROVE  StoryInv' /\ (Open' => Open)
  <1>1. /\ row' = row /\ req' = req /\ pc[c] \in {"call", "reread", "persist"}
    BY DEF CancelUnlinked, CancelAtBroker, CancelUnresolved, Reread, RereadFails, PersistOrder
  <1>2. RowStands /\ Holds(c)
    BY <1>1, RowSame DEF Holds, HolderPCs
  <1>3. mem # Nil /\ Latest(held[c]) = mem /\ mem \in Orders /\ held[c] \in Orders
    BY <1>1, LatestGood DEF Deciding
  <1>4. Undecided(c) => Honest(mem)
    BY DEF Open, HonestCopies
  <1>5. CASE \/ CancelUnlinked(c) \/ CancelUnresolved(c)
             \/ CancelAtBroker(c) /\ Goto(c, "settle")
    <2>1. Goto(c, "settle") /\ \E k \in {"canceled", "canceledUnknown"} : Decide(c, k, Nil)
      <3>1. CASE CancelUnlinked(c) \/ CancelUnresolved(c)
        BY <3>1 DEF CancelUnlinked, CancelUnresolved
      <3>2. CASE CancelAtBroker(c) /\ Goto(c, "settle")
        <4>1. ~Goto(c, "reread")
          BY <3>2, GotoEffect DEF PCs
        <4>2. QED
          BY <3>2, <4>1 DEF CancelAtBroker
      <3>3. QED
        BY <1>5, <3>1, <3>2
    <2>2. pc'[c] = "settle" /\ answer'[c].kind \in {"canceled", "canceledUnknown"}
      BY <2>1, GotoEffect, AnswerIs DEF PCs
    <2>3. Story(c)' /\ ~Undecided(c)' /\ ~Retold(c)'
      BY <2>2 DEF Story, Undecided, Retold
    <2>4. QED
      BY <1>2, <2>3, StoryStep
  <1>6. CASE CancelAtBroker(c) /\ ~Goto(c, "settle")
    <2>1. /\ Goto(c, "reread") /\ wire.status \in Closed /\ wire' = wire
          /\ UNCHANGED answer /\ pc[c] = "call"
      BY <1>6 DEF CancelAtBroker
    <2>2. pc'[c] = "reread"
      BY <2>1, GotoEffect DEF PCs
    <2>3. answer'[c].kind = "none"
      BY <2>1 DEF CancelInv, Early
    <2>4. Closed' = Closed
      BY DEF Closed
    <2>5. Story(c)' /\ Undecided(c) /\ ~Retold(c)'
      BY <2>1, <2>2, <2>3, <2>4 DEF Story, Undecided, Retold
    <2>6. QED
      BY <1>2, <2>5, StoryStep
  <1>7. ASSUME NEW r \in BrokerReports, Reread(c, r)
        PROVE  StoryInv' /\ (Open' => Open)
    <2>1. pc[c] = "reread" /\ wire' = wire
      BY <1>7 DEF Reread, world
    <2>2. Undecided(c)
      BY <2>1 DEF Undecided
    <2>3. wire.status \in Closed
      BY <2>1 DEF StoryInv, Story
    <2>4. r \in Reports /\ r.status = wire.status /\ r.status \in Working \cup Closed
      BY Fills DEF Reports
    <2>5. CASE Goto(c, "settle") /\ Decide(c, "canceled", Nil)
      <3>1. pc'[c] = "settle" /\ answer'[c].kind = "canceled"
        BY <2>5, GotoEffect, AnswerIs DEF PCs
      <3>2. Story(c)' /\ ~Undecided(c)' /\ ~Retold(c)'
        BY <3>1 DEF Story, Undecided, Retold
      <3>3. QED
        BY <1>2, <3>2, StoryStep
    <2>6. CASE /\ r.status # "canceled" /\ Adopts(held[c], r) /\ Adopt(held[c], r)
               /\ Hold(c, mem') /\ Goto(c, "persist") /\ Decide(c, "notCanceled", Nil)
      <3>1. pc'[c] = "persist" /\ answer'[c].kind = "notCanceled"
        BY <2>6, GotoEffect, AnswerIs DEF PCs
      <3>2. mem'.status # "CANCELED" /\ mem' \in Orders
        BY <1>3, <2>4, <2>6, AdoptStatus, ProtoCanceled
      <3>3. held'[c] = mem'
        BY <2>6, <3>2, HoldEffect
      <3>4. wire'.status \in {"filled", "rejected"}
        BY <2>1, <2>3, <2>4, <2>6 DEF Closed
      <3>5. Story(c)' /\ ~Retold(c)'
        BY <3>1, <3>2, <3>3, <3>4 DEF Story, Retold
      <3>6. QED
        BY <1>2, <2>2, <3>5, StoryStep
    <2>7. CASE /\ r.status # "canceled" /\ Hold(c, Latest(held[c]))
               /\ Goto(c, "finalize") /\ Decide(c, "notCanceled", Nil)
      <3>1. pc'[c] = "finalize" /\ answer'[c].kind = "notCanceled"
        BY <2>7, GotoEffect, AnswerIs DEF PCs
      <3>2. held'[c] = mem
        BY <1>3, <2>7, HoldEffect
      <3>3. mem.status # "CANCELED"
        BY <1>3, <1>4, <2>2, <2>4, <2>7 DEF Honest
      <3>4. wire'.status \in {"filled", "rejected"}
        BY <2>1, <2>3, <2>4, <2>7 DEF Closed
      <3>5. Story(c)' /\ ~Retold(c)'
        BY <3>1, <3>2, <3>3, <3>4 DEF Story, Retold
      <3>6. QED
        BY <1>2, <2>2, <3>5, StoryStep
    <2>8. QED
      BY <1>7, <2>5, <2>6, <2>7 DEF Reread
  <1>8. CASE RereadFails(c)
    <2>1. Goto(c, "finalize") /\ Decide(c, "unavailable", Nil)
      BY <1>8 DEF RereadFails
    <2>2. pc'[c] = "finalize" /\ answer'[c].kind = "unavailable"
      BY <2>1, GotoEffect, AnswerIs DEF PCs
    <2>3. Story(c)' /\ ~Undecided(c)' /\ ~Retold(c)'
      BY <2>2 DEF Story, Undecided, Retold
    <2>4. QED
      BY <1>2, <2>3, StoryStep
  <1>9. CASE PersistOrder(c)
    <2>1. /\ pc[c] = "persist" /\ UNCHANGED <<mem, wire, answer>> /\ Goto(c, "finalize")
          /\ IF answer[c].kind = "notCanceled" THEN Hold(c, mem) ELSE held' = held
      BY <1>3, <1>9 DEF PersistOrder, world
    <2>2. pc'[c] = "finalize"
      BY <2>1, GotoEffect DEF PCs
    <2>3. held'[c] = IF answer[c].kind = "notCanceled" THEN mem ELSE held[c]
      BY <1>3, <2>1, HoldEffect
    <2>4. /\ answer[c].kind \in {"canceled", "canceledUnknown", "notCanceled"}
          /\ answer[c].kind = "canceled" => held[c].status = "CANCELED"
          /\ answer[c].kind = "notCanceled" => wire.status \in {"filled", "rejected"}
      BY <2>1 DEF StoryInv, Story
    <2>5. answer[c].kind = "notCanceled" => Undecided(c) /\ mem.status # "CANCELED"
      BY <1>3, <1>4, <2>1, <2>4 DEF Undecided, Honest
    <2>6. Story(c)' /\ ~Retold(c)' /\ (Undecided(c)' => Undecided(c))
      BY <2>1, <2>2, <2>3, <2>4, <2>5 DEF Story, Undecided, Retold
    <2>7. QED
      BY <1>2, <2>6, StoryStep
  <1>10. QED
    BY <1>5, <1>6, <1>7, <1>8, <1>9

\* The order is changed to CANCELED: what follows is decided.
LEMMA RetrySettles ==
  ASSUME OrderInv, CancelInv, StoryInv, [Next]_vars, NEW c \in Calls,
         Handler(c), req[c] = Cancel, Settle(c)
  PROVE  StoryInv' /\ ~Open'
  <1>1. /\ row' = row /\ UNCHANGED <<req, answer>> /\ pc[c] = "settle" /\ Goto(c, "persist")
        /\ mem' = [Latest(held[c]) EXCEPT !.status = "CANCELED"] /\ Hold(c, mem')
    BY DEF Settle
  <1>2. RowStands /\ Holds(c)
    BY <1>1, RowSame DEF Holds, HolderPCs
  <1>3. mem \in Orders /\ Latest(held[c]) = mem
    BY <1>1, LatestGood DEF Deciding
  <1>4. mem' \in Orders /\ mem'.status = "CANCELED"
    BY <1>1, <1>3 DEF Orders, Statuses
  <1>5. pc'[c] = "persist" /\ held'[c] = mem'
    BY <1>1, <1>4, GotoEffect, HoldEffect DEF PCs
  <1>6. answer'[c].kind \in {"canceled", "canceledUnknown"}
    BY <1>1 DEF StoryInv, Story
  <1>7. Story(c)' /\ ~Undecided(c)' /\ ~Retold(c)'
    BY <1>4, <1>5, <1>6 DEF Story, Undecided, Retold
  <1>8. StoryInv'
    BY <1>2, <1>7, StoryStep
  <1>9. \A d \in Calls : d # c => ~Undecided(d)'
    <2>1. \A d \in Calls : d # c => ~Holds(d)
      BY <1>2 DEF StoryInv
    <2>2. \A d \in Calls : Undecided(d) => Holds(d)
      BY DEF Undecided, Holds, HolderPCs
    <2>3. \A d \in Calls : d # c => (Undecided(d)' => Undecided(d))
      BY HandlerFrame DEF Undecided
    <2>4. QED
      BY <2>1, <2>2, <2>3
  <1>10. row'[Cancel].state # "ABSENT"
    BY <1>1, <1>2 DEF StoryInv
  <1>11. QED
    BY <1>7, <1>8, <1>9, <1>10 DEF Open

\* The end of a cancel: its verdict and its order go into the row.
LEMMA RetryFinalizes ==
  ASSUME OrderInv, StoryInv, Cancel \in Requests, [Next]_vars, NEW c \in Calls,
         Handler(c), req[c] = Cancel, Finalize(c)
  PROVE  StoryInv' /\ (Open' => Open)
  <1> DEFINE k == answer[c].kind
  <1>1. /\ UNCHANGED req /\ pc[c] = "finalize"
        /\ \/ row' = row
           \/ row' = [row EXCEPT ![Cancel] = FinalizeIntent(row[Cancel], VerdictOf(k), held[c])]
        /\ Goto(c, "done") /\ Decide(c, k, held[c])
    BY DEF Finalize, Reply
  <1>2. pc'[c] = "done" /\ answer'[c].kind = k /\ answer'[c].order = held[c]
    BY <1>1, GotoEffect, AnswerIs DEF PCs
  <1>3. /\ \A d \in Calls : d # c => /\ pc'[d] = pc[d] /\ req'[d] = req[d]
                                     /\ held'[d] = held[d] /\ answer'[d] = answer[d]
    BY HandlerFrame
  <1>4. Holds(c)
    BY <1>1 DEF Holds, HolderPCs
  <1>5. row[Cancel].state \notin {"ABSENT", "COMPLETED", "REJECTED"}
    BY <1>1, <1>4 DEF StoryInv
  <1>6. /\ k \in {"canceled", "canceledUnknown", "notCanceled", "unavailable"}
        /\ k = "canceled" => held[c].status = "CANCELED"
        /\ k = "notCanceled" => held[c].status # "CANCELED"
    BY <1>1 DEF StoryInv, Story
  <1>7. VerdictOf(k) = IF k \in {"canceledUnknown", "unavailable"} THEN "UNKNOWN" ELSE "COMPLETED"
    BY <1>6 DEF VerdictOf
  <1>8. row \in [Requests -> Rows]
    BY CallTypes
  <1>9. /\ row'[Cancel].state \notin {"ABSENT", "REJECTED"}
        /\ row'[Cancel].state = "COMPLETED" =>
             k \in {"canceled", "notCanceled"} /\ row'[Cancel].stored = held[c]
    <2>1. CASE row' = row
      BY <1>5, <2>1
    <2>2. CASE row' = [row EXCEPT ![Cancel] = FinalizeIntent(row[Cancel], VerdictOf(k), held[c])]
      <3>1. row'[Cancel] = FinalizeIntent(row[Cancel], VerdictOf(k), held[c])
        BY <1>8, <2>2
      <3>2. QED
        BY <1>5, <1>6, <1>7, <3>1 DEF FinalizeIntent, Written
    <2>3. QED
      BY <1>1, <2>1, <2>2
  <1>10. Closed' = Closed /\ HolderPCs' = HolderPCs
    BY DEF Closed, HolderPCs
  <1>11. \A d \in Calls : d # c => /\ Holds(d)' <=> Holds(d)
                                   /\ Undecided(d)' <=> Undecided(d)
                                   /\ Retold(d)' <=> Retold(d)
    BY <1>3, <1>10 DEF Holds, Undecided, Retold
  <1>12. \A d \in Calls : d # c => ~Holds(d)
    BY <1>4 DEF StoryInv
  <1>13. \A d \in Calls : ~Retold(d)
    BY <1>5 DEF StoryInv
  <1>14. Story(c)' /\ ~Undecided(c)' /\ ~Retold(c)'
    BY <1>2, <1>6 DEF Story, Undecided, Retold
  <1>15. wire.status \in Closed => wire'.status = wire.status
    BY ClosedStays
  <1>16. \A d \in Calls : d # c => Story(d)'
    <2>1. ASSUME NEW d \in Calls, d # c
          PROVE  Story(d)'
      <3>1. Story(d)
        BY DEF StoryInv
      <3>2. QED
        BY <1>3, <1>10, <1>15, <2>1, <3>1 DEF Story, Closed
    <2>2. QED
      BY <2>1
  <1>17. StoryInv'
    BY <1>2, <1>9, <1>11, <1>12, <1>13, <1>14, <1>16 DEF StoryInv
  <1>18. Open' => Open
    BY <1>9, <1>11, <1>14 DEF Open
  <1>19. QED
    BY <1>17, <1>18

\* Steps that are no handler's.
LEMMA RetryStands ==
  ASSUME OrderInv, StoryInv, [Next]_vars, RowStands, UNCHANGED <<pc, req, held, answer>>
  PROVE  StoryInv' /\ (Open' => Open)
  <1>1. wire.status \in Closed => wire'.status = wire.status
    BY ClosedStays
  <1>2. Closed' = Closed /\ HolderPCs' = HolderPCs
    BY DEF Closed, HolderPCs
  <1>3. \A d \in Calls : Story(d)'
    <2>1. ASSUME NEW d \in Calls
          PROVE  Story(d)'
      <3>1. Story(d)
        BY DEF StoryInv
      <3>2. QED
        BY <1>1, <1>2, <3>1 DEF Story, Closed
    <2>2. QED
      BY <2>1
  <1>4. \A d \in Calls : /\ Holds(d)' <=> Holds(d)
                         /\ Undecided(d)' <=> Undecided(d)
                         /\ Retold(d)' <=> Retold(d)
    BY <1>2 DEF Holds, Undecided, Retold
  <1>5. StoryInv'
    BY <1>3, <1>4 DEF StoryInv, RowStands
  <1>6. Open' => Open
    BY <1>4 DEF Open, RowStands
  <1>7. QED
    BY <1>5, <1>6

\* A restart leaves the calls that are done, and the rows.
LEMMA RetryRestarts ==
  ASSUME OrderInv, CancelInv, StoryInv, Restart
  PROVE  StoryInv' /\ (Open' => Open)
  <1>1. /\ UNCHANGED <<row, req, wire>>
        /\ pc' = [c \in Calls |-> IF pc[c] \in {"idle", "done"} THEN pc[c] ELSE "crashed"]
        /\ answer' = [c \in Calls |-> IF pc[c] = "done" THEN answer[c] ELSE NoAnswer]
    BY DEF Restart, world
  <1>2. \A c \in Calls : \/ pc[c] = "done" /\ pc'[c] = "done" /\ answer'[c] = answer[c]
                         \/ pc'[c] \in {"idle", "crashed"} /\ answer'[c].kind = "none"
    BY <1>1 DEF NoAnswer
  <1>3. \A c \in Calls : /\ Holds(c)' => Holds(c) /\ pc'[c] = pc[c] /\ answer'[c] = answer[c]
                         /\ Retold(c)' => Retold(c) /\ answer'[c] = answer[c]
                         /\ ~Undecided(c)'
    BY <1>1, <1>2 DEF Holds, HolderPCs, Retold, Undecided
  <1>4. \A c \in Calls : Story(c)'
    <2>1. ASSUME NEW c \in Calls
          PROVE  Story(c)'
      <3>1. Story(c)
        BY DEF StoryInv
      <3>2. QED
        BY <1>1, <1>2, <3>1 DEF Story
    <2>2. QED
      BY <2>1
  <1>5. StoryInv'
    BY <1>1, <1>3, <1>4 DEF StoryInv
  <1>6. QED
    BY <1>1, <1>3, <1>5 DEF Open

LEMMA NextReport == OrderInv /\ ReportInv /\ [Next]_vars => ReportInv'
  <1>1. SUFFICES ASSUME OrderInv, ReportInv, [Next]_vars
                 PROVE  ReportInv'
    OBVIOUS
  <1>2. wire.status = "canceled" => wire'.status = "canceled"
    BY <1>1, ClosedStays DEF Closed
  <1>3. poll \in [pc : {"idle", "read", "apply", "persist"}, order : Orders \cup {Nil},
                  report : Reports \cup {Nil}]
    BY <1>1 DEF OrderInv, LifecycleTypes, TypeOK
  <1>4. CASE PollRead
    <2>1. PICK r \in BrokerReports : poll' = [poll EXCEPT !.pc = "apply", !.report = r]
      BY <1>4 DEF PollRead
    <2>2. poll'.report = r /\ r.status = wire.status
      BY <1>3, <2>1, Fills
    <2>3. QED
      BY <1>2, <2>2 DEF ReportInv
  <1>5. CASE poll' = poll
    BY <1>1, <1>2, <1>5 DEF ReportInv
  <1>6. CASE poll'.pc # "apply"
    BY <1>6 DEF ReportInv
  <1>7. poll' = poll \/ PollRead \/ poll'.pc # "apply"
    <2>1. CASE Poller \/ Restart
      BY <2>1 DEF Poller, PollSelect, PollReadFails, PollApply, PollPersist, Restart, NoPoll
    <2>2. poll' = poll \/ Poller \/ Restart
      BY <1>1 DEF Next, vars, Emit, Broker, BrokerAccepts, BrokerFills, BrokerHolds, BrokerEnds,
             SubmitThread, SubmitRecords, SubmitPersists, SubmitSends, SubmitReturns,
             SubmitTimesOut, SubmitFails, Reclaim, Handler,
             FindOrder, LoadOrder, Refuse, InsertOrFind, Lookup, IntentStoreFails,
             CancelUnlinked, CancelAtBroker, CancelUnresolved, Reread, RereadFails,
             ReplaceAtBroker, ReplaceInvalid, Settle, PersistOrder, Finalize
    <2>3. QED
      BY <2>1, <2>2
  <1>8. QED
    BY <1>4, <1>5, <1>6, <1>7

LEMMA NextRetry == OrderInv /\ CancelInv /\ RetryInv /\ [Next]_vars => RetryInv'
  <1>1. SUFFICES ASSUME OrderInv, CancelInv, RetryInv, [Next]_vars, Cancel \in Requests
                 PROVE  StoryInv' /\ (Open' => HonestCopies')
    BY NextReport DEF RetryInv
  <1>2. StoryInv /\ ReportInv /\ (Open => HonestCopies)
    BY <1>1 DEF RetryInv
  <1>3. CASE \E c \in Calls : Settle(c) /\ req[c] = Cancel
    BY <1>1, <1>2, <1>3, RetrySettles DEF Handler
  <1>4. CASE \A c \in Calls : Settle(c) => req[c] # Cancel
    <2>1. Open => HonestCopies'
      BY <1>1, <1>2, <1>4, HonestNext
    <2>2. StoryInv' /\ (Open' => Open)
      <3>1. CASE SubmitThread \/ Broker \/ Poller \/ Emit \/ UNCHANGED vars
        <4>1. UNCHANGED <<row, pc, req, held, answer>>
          BY <3>1 DEF Emit, SubmitThread, SubmitRecords, SubmitPersists, SubmitSends, SubmitReturns,
                  SubmitTimesOut, SubmitFails, Broker, BrokerAccepts, BrokerFills, BrokerHolds,
                  BrokerEnds, Poller, PollSelect, PollRead, PollReadFails, PollApply,
                  PollPersist, calls, vars
        <4>2. QED
          BY <1>1, <1>2, <4>1, RowSame, RetryStands
      <3>2. ASSUME NEW i \in Requests, Reclaim(i)
            PROVE  StoryInv' /\ (Open' => Open)
        <4>1. /\ UNCHANGED <<pc, req, held, answer>> /\ row[i].state = "PENDING"
              /\ row' = [row EXCEPT ![i] = ReclaimOrphanIntent(Aged(row[i]))]
          BY <3>2 DEF Reclaim
        <4>2. row \in [Requests -> Rows]
          BY <1>1, CallTypes
        <4>3. ReclaimOrphanIntent(Aged(row[i])).state = "UNKNOWN"
          BY <4>1 DEF ReclaimOrphanIntent, Aged, Reclaimable, Written
        <4>4. RowStands
          BY <1>1, <4>1, <4>2, <4>3 DEF RowStands
        <4>5. QED
          BY <1>1, <1>2, <4>1, <4>4, RetryStands
      <3>3. ASSUME NEW c \in Calls, Handler(c)
            PROVE  StoryInv' /\ (Open' => Open)
        <4>1. CASE req[c] # Cancel \/ pc[c] \in {"idle", "load"}
          BY <1>1, <1>2, <3>3, <4>1, RetryOther
        <4>2. CASE req[c] = Cancel /\ pc[c] \notin {"idle", "load"}
          <5>1. \/ Refuse(c) \/ InsertOrFind(c) \/ Lookup(c) \/ IntentStoreFails(c)
                \/ CancelUnlinked(c) \/ CancelAtBroker(c) \/ CancelUnresolved(c)
                \/ (\E r \in BrokerReports : Reread(c, r)) \/ RereadFails(c) \/ PersistOrder(c)
                \/ Finalize(c)
            BY <1>4, <3>3, <4>2 DEF Handler, FindOrder, LoadOrder, ReplaceAtBroker, ReplaceInvalid
          <5>2. QED
            BY <1>1, <1>2, <3>3, <4>2, <5>1, RetryIntent, RetryCancels, RetryFinalizes
        <4>3. QED
          BY <4>1, <4>2
      <3>4. CASE Restart
        BY <1>1, <1>2, <3>4, RetryRestarts
      <3>5. QED
        BY <1>1, <3>1, <3>2, <3>3, <3>4 DEF Next
    <2>3. QED
      BY <2>1, <2>2
  <1>5. QED
    BY <1>3, <1>4

\* A retry of a cancel that is answered from the intent agrees with the cancel
\* that settled it, whatever polls, replaces and restarts come in between.
THEOREM RetryAgrees == Spec => []CancelRetryAgrees
  <1>1. Init => CancelInv
    BY DEF Init, CancelInv, NoAnswer
  <1>2. Init => RetryInv
    <2>1. SUFFICES ASSUME Init PROVE RetryInv
      OBVIOUS
    <2>2. \A c \in Calls : pc[c] = "idle" /\ answer[c].kind = "none" /\ held[c] = Nil
      BY <2>1 DEF Init, NoAnswer
    <2>3. Cancel \in Requests => StoryInv
      <3>1. Cancel \in Requests => row[Cancel].state = "ABSENT"
        BY <2>1 DEF Init, Absent
      <3>2. QED
        BY <2>2, <3>1 DEF StoryInv, Story, Holds, HolderPCs, Retold
    <2>4. ReportInv /\ HonestCopies
      BY <2>1, <2>2 DEF Init, NoPoll, ReportInv, HonestCopies, Honest
    <2>5. QED
      BY <2>3, <2>4 DEF RetryInv
  <1>3. Spec => []CancelInv
    BY <1>1, NextCancel, OrderInvariant, OwnerInvariant, PTL DEF Spec
  <1>4. Spec => []RetryInv
    BY <1>2, <1>3, NextRetry, OrderInvariant, PTL DEF Spec
  <1>5. OrderInv /\ RetryInv => CancelRetryAgrees
    <2>1. SUFFICES ASSUME OrderInv, RetryInv, NEW c \in Calls, NEW d \in Calls,
                          req[c] = Cancel, pc[c] = "done",
                          answer[c].kind \in {"canceled", "notCanceled"},
                          req[d] = Cancel, pc[d] = "done", answer[d].kind = "stored"
                   PROVE  answer[d].order.status = "CANCELED" <=> answer[c].kind = "canceled"
      BY DEF CancelRetryAgrees
    <2>2. StoryInv
      BY <2>1, CallTypes DEF RetryInv
    <2>3. Holds(c) /\ Retold(d) /\ Story(c)
      BY <2>1, <2>2 DEF StoryInv, Holds, Retold
    <2>4. answer[d].order = answer[c].order
      BY <2>2, <2>3 DEF StoryInv
    <2>5. QED
      BY <2>1, <2>3, <2>4 DEF Story
  <1>6. QED
    BY <1>4, <1>5, OrderInvariant, PTL
===============================================================================
