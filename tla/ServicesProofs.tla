---------------------------- MODULE ServicesProofs ----------------------------
(***************************************************************************)
(* Proofs about the alerts of notify, the backfills of ingest, the         *)
(* administrators of the identity service and the sessions of a browser,   *)
(* and about the four services of Services side by side: for every number  *)
(* of alerts, streams, chunks, users, calls, tokens, codes, failures and   *)
(* restarts.                                                               *)
(***************************************************************************)
EXTENDS Services, FiniteSetTheorems, WellFoundedInduction, TLAPS

-----------------------------------------------------------------------------
(* Alerts and their fan-out. *)

\* A window counts one send as long as its key is recorded, and none else.
WindowInv ==
  /\ dedup \subseteq Keys
  /\ sends \in [Keys -> Nat]
  /\ fan \in [Alerts -> {"none", "due", "slack", "mail", "over"}]
  /\ \A k \in Keys : sends[k] = IF k \in dedup THEN 1 ELSE 0

LEMMA KeyType == \A e \in Alerts : Key(e) \in Keys
  BY DEF Key, Keys

LEMMA InitWindow == AlertInit => WindowInv
  BY DEF AlertInit, WindowInv

LEMMA DispatchKeeps ==
  ASSUME WindowInv, NEW e \in Alerts, Dispatch(e)
  PROVE  WindowInv'
  <1>1. Key(e) \in Keys
    BY KeyType
  <1>2. fan' \in [Alerts -> {"none", "due", "slack", "mail", "over"}]
    BY DEF Dispatch, WindowInv
  <1>3. CASE Suppressed(e)
    BY <1>2, <1>3 DEF Dispatch, WindowInv
  <1>4. CASE ~Suppressed(e)
    <2>1. Key(e) \notin dedup
      BY <1>4 DEF Suppressed
    <2>2. /\ dedup' = dedup \cup {Key(e)}
          /\ sends' = [sends EXCEPT ![Key(e)] = @ + 1]
      BY <1>4 DEF Dispatch
    <2>3. QED
      BY <1>1, <1>2, <2>1, <2>2 DEF WindowInv
  <1>5. QED
    BY <1>3, <1>4

LEMMA ResumeKeeps ==
  ASSUME WindowInv, Resume
  PROVE  WindowInv'
  <1>1. dedup' = dedup /\ sends' = sends
    BY DEF Resume
  <1>2. fan' \in [Alerts -> {"none", "due", "slack", "mail", "over"}]
    BY DEF Resume, Announced, WindowInv
  <1>3. QED
    BY <1>1, <1>2 DEF WindowInv

\* The steps that touch neither the map nor the fan-out of an alert.
LEMMA OthersKeep ==
  ASSUME WindowInv, UNCHANGED <<fan, dedup, sends>>
  PROVE  WindowInv'
  BY DEF WindowInv

LEMMA NextWindow == WindowInv /\ [AlertNext]_alertVars => WindowInv'
  <1>1. SUFFICES ASSUME WindowInv, [AlertNext]_alertVars
                 PROVE  WindowInv'
    OBVIOUS
  <1>2. ASSUME NEW e \in Alerts, EmitAlert(e) \/ PushDispatch(e) \/ NoAudience(e) \/ SendPush(e)
        PROVE  WindowInv'
    BY <1>1, <1>2, OthersKeep
       DEF EmitAlert, PushDispatch, NoAudience, SendPush, fanout
  <1>3. ASSUME NEW e \in Alerts, Dispatch(e)
        PROVE  WindowInv'
    BY <1>1, <1>3, DispatchKeeps
  <1>4. ASSUME NEW e \in Alerts, ChannelDone(e)
        PROVE  WindowInv'
    BY <1>1, <1>4 DEF ChannelDone, WindowInv
  <1>5. ASSUME NEW s \in Streams, Subscribe(s) \/ Disconnect(s)
        PROVE  WindowInv'
    BY <1>1, <1>5, OthersKeep DEF Subscribe, Disconnect, fanout
  <1>6. CASE RunStatement \/ StatementFails
    BY <1>1, <1>6, OthersKeep DEF RunStatement, StatementFails, fanout
  <1>7. CASE Resume
    BY <1>1, <1>7, ResumeKeeps
  <1>8. ASSUME NEW k \in Keys, WindowEnds(k)
        PROVE  WindowInv'
    BY <1>1, <1>8 DEF WindowEnds, WindowInv
  <1>9. ASSUME NEW p \in Endpoints, EndpointGone(p)
        PROVE  WindowInv'
    BY <1>1, <1>9, OthersKeep DEF EndpointGone, fanout
  <1>10. CASE Restart
    BY <1>1, <1>10 DEF Restart, WindowInv
  <1>11. CASE UNCHANGED alertVars
    BY <1>1, <1>11, OthersKeep DEF alertVars, fanout
  <1>12. QED
    BY <1>1, <1>2, <1>3, <1>4, <1>5, <1>6, <1>7, <1>8, <1>9, <1>10, <1>11 DEF AlertNext

\* However many alerts of one content are dispatched while the sends of the
\* first are under way, the window sees one.
THEOREM OneSend == AlertSpec => []OneSendPerWindow
  <1>1. AlertSpec => []WindowInv
    BY InitWindow, NextWindow, PTL DEF AlertSpec
  <1>2. WindowInv => OneSendPerWindow
    BY DEF WindowInv, OneSendPerWindow
  <1>3. QED
    BY <1>1, <1>2, PTL

-----------------------------------------------------------------------------
(* Sequences. *)

LEMMA AppendedEntries ==
  ASSUME NEW S, NEW q \in Seq(S), NEW x \in S
  PROVE  /\ Append(q, x) \in Seq(S)
         /\ DOMAIN q = 1..Len(q) /\ Len(q) \in Nat
         /\ DOMAIN Append(q, x) = 1..Len(q) + 1
         /\ \A i \in 1..Len(q) : Append(q, x)[i] = q[i]
         /\ Append(q, x)[Len(q) + 1] = x
  OBVIOUS

LEMMA RemainingEntries ==
  ASSUME NEW S, NEW q \in Seq(S), q # <<>>
  PROVE  /\ Tail(q) \in Seq(S) /\ Head(q) \in S
         /\ DOMAIN q = 1..Len(q) /\ Len(q) \in Nat /\ 1 \in DOMAIN q
         /\ DOMAIN Tail(q) = 1..Len(q) - 1
         /\ Head(q) = q[1]
         /\ \A i \in 1..Len(q) - 1 : Tail(q)[i] = q[i + 1] /\ i + 1 \in DOMAIN q
  <1>1. Len(q) \in Nat /\ Len(q) # 0 /\ DOMAIN q = 1..Len(q)
    OBVIOUS
  <1>2. Tail(q) \in Seq(S) /\ Head(q) \in S /\ Len(Tail(q)) = Len(q) - 1 /\ Head(q) = q[1]
    OBVIOUS
  <1>3. DOMAIN Tail(q) = 1..Len(q) - 1
    BY <1>2
  <1>4. \A i \in 1..Len(q) - 1 : Tail(q)[i] = q[i + 1] /\ i + 1 \in DOMAIN q
    BY <1>1
  <1>5. QED
    BY <1>1, <1>2, <1>3, <1>4

-----------------------------------------------------------------------------
(* The table, the pool and the streams. *)

AlertTypes ==
  /\ created \in Seq(Alerts)
  /\ quiet \subseteq Alerts /\ alike \in BOOLEAN
  /\ pushTable \subseteq Endpoints /\ gone \subseteq Endpoints
  /\ statements \in Seq(Statements) /\ results \in Seq(Statements)
  /\ emit \in [Alerts -> {"none", "insert", "answered", "failed"}]
  /\ stream \in [Streams -> {"none", "open", "closed"}]
  /\ push \in [Alerts -> {"none", "due", "rows", "send", "prune", "over"}]
  /\ targets \in [Alerts -> SUBSET Endpoints] /\ doomed \in [Alerts -> SUBSET gone]
  /\ mishaps \in 0..MaxMishaps

LEMMA InitAlertTypes == AlertInit => AlertTypes
  <1>. SUFFICES ASSUME AlertInit PROVE AlertTypes
    OBVIOUS
  <1>1. /\ created \in Seq(Alerts) /\ statements \in Seq(Statements)
        /\ results \in Seq(Statements)
    BY DEF AlertInit
  <1>2. mishaps \in 0..MaxMishaps
    BY AlertAssumption DEF AlertInit
  <1>3. quiet \subseteq Alerts
    BY DEF AlertInit
  <1>4. QED
    BY <1>1, <1>2, <1>3 DEF AlertInit, AlertTypes

LEMMA NextAlertTypes == AlertTypes /\ [AlertNext]_alertVars => AlertTypes'
  <1>. SUFFICES ASSUME AlertTypes, [AlertNext]_alertVars PROVE AlertTypes'
    OBVIOUS
  <1>1. Mishap => mishaps' \in 0..MaxMishaps
    BY AlertAssumption DEF Mishap, AlertTypes
  <1>2. ASSUME NEW e \in Alerts, NEW kind \in {"insert", "rows", "prune"}, Enqueue(kind, e)
        PROVE  statements' \in Seq(Statements)
    <2>1. <<kind, e>> \in Statements
      BY DEF Statements
    <2>2. QED
      BY <1>2, <2>1, AppendedEntries DEF Enqueue, AlertTypes
  <1>3. /\ statements # <<>> => /\ Tail(statements) \in Seq(Statements)
                                /\ Head(statements) \in Statements
                                /\ Head(statements)[2] \in Alerts
        /\ results # <<>> => /\ Tail(results) \in Seq(Statements)
                             /\ Head(results)[2] \in Alerts
    BY RemainingEntries DEF AlertTypes, Statements
  <1>4. ASSUME NEW e \in Alerts, EmitAlert(e)
        PROVE  AlertTypes'
    <2>1. created' \in Seq(Alerts)
      BY <1>4, AppendedEntries DEF EmitAlert, AlertTypes
    <2>2. statements' \in Seq(Statements)
      BY <1>2, <1>4 DEF EmitAlert
    <2>3. QED
      BY <1>4, <2>1, <2>2
      DEF EmitAlert, AlertTypes, database, fanout, webPush
  <1>5. ASSUME NEW e \in Alerts, Dispatch(e) \/ ChannelDone(e)
        PROVE  AlertTypes'
    BY <1>5 DEF Dispatch, ChannelDone, AlertTypes, alertCalls, database, pool, webPush, subscribers
  <1>6. ASSUME NEW e \in Alerts, PushDispatch(e)
        PROVE  AlertTypes'
    <2>1. statements' \in Seq(Statements)
      BY <1>2, <1>6 DEF PushDispatch, AlertTypes
    <2>2. QED
      BY <1>6, <2>1 DEF PushDispatch, AlertTypes, alertCalls, database, fanout, subscribers
  <1>7. ASSUME NEW e \in Alerts, NoAudience(e)
        PROVE  AlertTypes'
    BY <1>1, <1>7 DEF NoAudience, AlertTypes, alertCalls, database, pool, fanout, subscribers
  <1>8. ASSUME NEW e \in Alerts, SendPush(e)
        PROVE  AlertTypes'
    <2>1. UNCHANGED <<alertCalls, database, results, fanout, subscribers, mishaps>>
      BY <1>8 DEF SendPush
    <2>2. CASE targets[e] = {}
      BY <1>8, <2>1, <2>2 DEF SendPush, AlertTypes, alertCalls, database, fanout, subscribers
    <2>3. CASE targets[e] # {}
      <3>1. PICK p \in targets[e] :
              /\ targets' = [targets EXCEPT ![e] = @ \ {p}]
              /\ \/ /\ p \in gone /\ push' = [push EXCEPT ![e] = "prune"]
                    /\ doomed' = [doomed EXCEPT ![e] = {p}] /\ Enqueue("prune", e)
                 \/ UNCHANGED <<push, doomed, statements>>
        BY <1>8, <2>3 DEF SendPush
      <3>2. statements' \in Seq(Statements)
        BY <1>2, <3>1 DEF AlertTypes
      <3>3. targets' \in [Alerts -> SUBSET Endpoints]
        BY <3>1 DEF AlertTypes
      <3>4. /\ push' \in [Alerts -> {"none", "due", "rows", "send", "prune", "over"}]
            /\ doomed' \in [Alerts -> SUBSET gone]
        BY <3>1 DEF AlertTypes
      <3>5. QED
        BY <2>1, <3>2, <3>3, <3>4 DEF AlertTypes, alertCalls, database, fanout, subscribers
    <2>4. QED
      BY <2>2, <2>3
  <1>9. ASSUME NEW s \in Streams, Subscribe(s) \/ Disconnect(s)
        PROVE  AlertTypes'
    BY <1>1, <1>9 DEF Subscribe, Disconnect, AlertTypes, alertCalls, database, pool, fanout, webPush
  <1>10. CASE RunStatement
    <2>1. /\ statements # <<>> /\ statements' = Tail(statements)
          /\ results' = Append(results, Head(statements))
          /\ UNCHANGED <<alertCalls, gone, fanout, push, doomed, subscribers, mishaps>>
      BY <1>10 DEF RunStatement
    <2>2. statements' \in Seq(Statements) /\ results' \in Seq(Statements)
      BY <1>3, <2>1, AppendedEntries DEF AlertTypes
    <2>3. pushTable' \subseteq Endpoints /\ targets' \in [Alerts -> SUBSET Endpoints]
      BY <1>10, <1>3, <2>1 DEF RunStatement, AlertTypes
    <2>4. QED
      BY <2>1, <2>2, <2>3 DEF AlertTypes, alertCalls, fanout, subscribers
  <1>11. CASE StatementFails
    <2>1. /\ statements # <<>> /\ statements' = Tail(statements) /\ Mishap
          /\ UNCHANGED <<created, quiet, alike, database, results, fanout, targets, subscribers>>
      BY <1>11 DEF StatementFails
    <2>2. statements' \in Seq(Statements) /\ mishaps' \in 0..MaxMishaps
      BY <1>1, <1>3, <2>1
    <2>3. emit' \in [Alerts -> {"none", "insert", "answered", "failed"}]
      BY <1>11, <1>3, <2>1 DEF StatementFails, AlertTypes
    <2>4. push' \in [Alerts -> {"none", "due", "rows", "send", "prune", "over"}]
      BY <1>11, <1>3, <2>1 DEF StatementFails, AlertTypes
    <2>5. doomed' \in [Alerts -> SUBSET gone]
      BY <1>11, <1>3, <2>1 DEF StatementFails, AlertTypes
    <2>6. QED
      BY <2>1, <2>2, <2>3, <2>4, <2>5 DEF AlertTypes, database, fanout, subscribers
  <1>12. CASE Resume
    <2>. DEFINE e == Head(results)[2]
    <2>1. /\ results # <<>> /\ results' = Tail(results)
          /\ UNCHANGED <<created, quiet, alike, database, statements, dedup, sends>>
      BY <1>12 DEF Resume
    <2>2. e \in Alerts /\ results' \in Seq(Statements)
      BY <1>3, <2>1
    <2>3. \/ Announced(e, {}) /\ UNCHANGED mishaps
          \/ \E s \in Streams : Announced(e, {s}) /\ Mishap
          \/ /\ push' = [push EXCEPT ![e] = "send"] /\ doomed' = [doomed EXCEPT ![e] = {}]
             /\ UNCHANGED <<targets, emit, fan, subscribers, mishaps>>
      BY <1>12 DEF Resume
    <2>. HIDE DEF e
    <2>4. ASSUME NEW broken, Announced(e, broken), mishaps' \in 0..MaxMishaps
          PROVE  AlertTypes'
      <3>1. /\ stream' \in [Streams -> {"none", "open", "closed"}]
            /\ emit' \in [Alerts -> {"none", "insert", "answered", "failed"}]
            /\ push' \in [Alerts -> {"none", "due", "rows", "send", "prune", "over"}]
        BY <2>2, <2>4 DEF Announced, AlertTypes
      <3>2. UNCHANGED <<targets, doomed>>
        BY <2>4 DEF Announced
      <3>3. QED
        BY <2>1, <2>2, <2>4, <3>1, <3>2 DEF AlertTypes, database
    <2>5. CASE UNCHANGED <<targets, emit, fan, subscribers, mishaps>>
               /\ push' = [push EXCEPT ![e] = "send"] /\ doomed' = [doomed EXCEPT ![e] = {}]
      <3>1. /\ push' \in [Alerts -> {"none", "due", "rows", "send", "prune", "over"}]
            /\ doomed' \in [Alerts -> SUBSET gone]
        BY <2>2, <2>5 DEF AlertTypes
      <3>2. QED
        BY <2>1, <2>2, <2>5, <3>1 DEF AlertTypes, database, subscribers
    <2>6. mishaps \in 0..MaxMishaps
      BY DEF AlertTypes
    <2>7. QED
      BY <1>1, <2>3, <2>4, <2>5, <2>6
  <1>13. ASSUME NEW k \in Keys, WindowEnds(k)
         PROVE  AlertTypes'
    BY <1>13 DEF WindowEnds, AlertTypes, alertCalls, database, pool, webPush, subscribers
  <1>14. ASSUME NEW p \in Endpoints, EndpointGone(p)
         PROVE  AlertTypes'
    BY <1>14 DEF EndpointGone, AlertTypes, alertCalls, pool, fanout, webPush, subscribers
  <1>15. CASE Restart
    <2>1. statements' \in Seq(Statements) /\ results' \in Seq(Statements)
      BY <1>15 DEF Restart
    <2>2. mishaps' \in 0..MaxMishaps
      BY <1>1, <1>15 DEF Restart
    <2>3. QED
      BY <1>15, <2>1, <2>2 DEF Restart, AlertTypes, database
  <1>16. CASE UNCHANGED alertVars
    BY <1>16
    DEF alertVars, AlertTypes, alertCalls, database, pool, fanout, webPush, subscribers
  <1>17. QED
    BY <1>4, <1>5, <1>6, <1>7, <1>8, <1>9, <1>10, <1>11, <1>12, <1>13, <1>14, <1>15, <1>16
    DEF AlertNext

\* An insert under way is ahead of the inserts issued after it.
Ahead(x, y) == x[1] = "insert" /\ y[1] = "insert" => Before(x[2], y[2])

\* Every stream has been written to up to some alert before the one x inserts.
Fed(x) ==
  x[1] = "insert" => \A s \in Streams : \A i \in DOMAIN got[s] : Before(got[s][i], x[2])

StoredInv ==
  /\ IsInjective(created)
  /\ \A i \in DOMAIN created : emit[created[i]] # "none"
  /\ stored \subseteq ToSet(created)
  /\ \A s \in Streams : owed[s] \subseteq ToSet(created) /\ got[s] \in Seq(stored)
  /\ \A s \in Streams : stream[s] = "none" => owed[s] = {}

PoolInv ==
  /\ \A i \in DOMAIN statements :
       /\ statements[i][1] = "insert" => statements[i][2] \in ToSet(created)
       /\ Fed(statements[i])
  /\ \A i \in DOMAIN results :
       /\ results[i][1] = "insert" => results[i][2] \in stored
       /\ Fed(results[i])
  /\ \A i, j \in DOMAIN statements : i < j => Ahead(statements[i], statements[j])
  /\ \A i, j \in DOMAIN results : i < j => Ahead(results[i], results[j])
  /\ \A i \in DOMAIN results : \A j \in DOMAIN statements : Ahead(results[i], statements[j])

GotInv ==
  \A s \in Streams :
    /\ \A i, j \in DOMAIN got[s] : i < j => Before(got[s][i], got[s][j])
    /\ stream[s] = "open" =>
         \A e \in owed[s] : emit[e] = "answered" => e \in ToSet(got[s])

OrderInv == StoredInv /\ PoolInv /\ GotInv

LEMMA InitOrder == AlertInit => OrderInv
  <1>. SUFFICES ASSUME AlertInit PROVE OrderInv
    OBVIOUS
  <1>1. /\ created = <<>> /\ stored = {} /\ statements = <<>> /\ results = <<>>
        /\ \A s \in Streams : owed[s] = {} /\ got[s] = <<>> /\ stream[s] = "none"
    BY DEF AlertInit
  <1>2. DOMAIN created = {} /\ DOMAIN statements = {} /\ DOMAIN results = {}
    BY <1>1
  <1>3. StoredInv
    <2>0. <<>> \in Seq(stored)
      OBVIOUS
    <2>1. \A s \in Streams : got[s] \in Seq(stored)
      BY <1>1, <2>0
    <2>2. QED
      BY <1>1, <1>2, <2>1 DEF StoredInv, IsInjective
  <1>4. PoolInv
    BY <1>2 DEF PoolInv
  <1>5. GotInv
    BY <1>1 DEF GotInv
  <1>6. QED
    BY <1>3, <1>4, <1>5 DEF OrderInv

\* Steps that neither emit nor run nor write: streams may open or close.
LEMMA CalmKeeps ==
  ASSUME AlertTypes, OrderInv,
         UNCHANGED <<created, emit, stored, owed, got, results, statements>>,
         \A s \in Streams : stream'[s] = stream[s] \/ stream'[s] = "closed"
                              \/ (stream[s] = "none" /\ stream'[s] = "open")
  PROVE  OrderInv'
  <1>1. StoredInv'
    BY DEF OrderInv, StoredInv
  <1>2. PoolInv'
    BY DEF OrderInv, PoolInv, Fed, Ahead, Before
  <1>3. GotInv'
    BY DEF OrderInv, GotInv, StoredInv, Before
  <1>4. QED
    BY <1>1, <1>2, <1>3 DEF OrderInv

\* A statement of Web Push joins the queue.
LEMMA QueueKeeps ==
  ASSUME AlertTypes, OrderInv, NEW e \in Alerts, NEW kind \in {"rows", "prune"},
         Enqueue(kind, e), UNCHANGED <<created, emit, stored, owed, got, results, stream>>
  PROVE  OrderInv'
  <1>. DEFINE x == <<kind, e>>
              n == Len(statements)
  <1>1. x \in Statements /\ x[1] # "insert"
    BY DEF Statements
  <1>2. /\ statements' = Append(statements, x) /\ n \in Nat
        /\ DOMAIN statements = 1..n /\ DOMAIN statements' = 1..n + 1
        /\ \A i \in 1..n : statements'[i] = statements[i]
        /\ statements'[n + 1] = x
    BY <1>1, AppendedEntries DEF Enqueue, AlertTypes
  <1>. HIDE DEF x, n
  <1>3. \A i \in DOMAIN statements' : i = n + 1 \/ (i \in DOMAIN statements /\ i \in 1..n)
    BY <1>2
  <1>4. StoredInv' /\ GotInv'
    BY DEF OrderInv, StoredInv, GotInv, Before
  <1>5. PoolInv
    BY DEF OrderInv
  <1>6. ASSUME NEW i \in DOMAIN statements'
        PROVE  /\ statements'[i][1] = "insert" => statements'[i][2] \in ToSet(created')
               /\ Fed(statements[i])'
    BY <1>1, <1>2, <1>3, <1>5 DEF PoolInv, Fed, Before
  <1>7. ASSUME NEW i \in DOMAIN statements', NEW j \in DOMAIN statements', i < j
        PROVE  Ahead(statements[i], statements[j])'
    BY <1>1, <1>2, <1>3, <1>5, <1>7 DEF PoolInv, Ahead, Before
  <1>8. ASSUME NEW i \in DOMAIN results, NEW j \in DOMAIN statements'
        PROVE  Ahead(results[i], statements[j])'
    BY <1>1, <1>2, <1>3, <1>5 DEF PoolInv, Ahead, Before
  <1>9. \A i \in DOMAIN results : (results[i][1] = "insert" => results[i][2] \in stored) /\ Fed(results[i])'
    BY <1>5 DEF PoolInv, Fed, Before
  <1>10. \A i, j \in DOMAIN results : i < j => Ahead(results[i], results[j])'
    BY <1>5 DEF PoolInv, Ahead, Before
  <1>11. PoolInv'
    BY <1>6, <1>7, <1>8, <1>9, <1>10 DEF PoolInv
  <1>12. QED
    BY <1>4, <1>11 DEF OrderInv

\* An alert comes last: in created_at, and in the queue.
LEMMA EmitKeeps ==
  ASSUME AlertTypes, OrderInv, NEW e \in Alerts, EmitAlert(e)
  PROVE  OrderInv'
  <1>. DEFINE x == <<"insert", e>>
              n == Len(statements)
              m == Len(created)
  <1>1. /\ emit[e] = "none" /\ emit' = [emit EXCEPT ![e] = "insert"]
        /\ created' = Append(created, e) /\ Enqueue("insert", e)
        /\ owed' = [s \in Streams |-> IF stream[s] = "open" THEN owed[s] \cup {e} ELSE owed[s]]
        /\ UNCHANGED <<stored, results, stream, got>>
    BY DEF EmitAlert, database
  <1>2. x \in Statements /\ x[1] = "insert" /\ x[2] = e
    BY DEF Statements
  <1>3. /\ statements' = Append(statements, x) /\ n \in Nat
        /\ DOMAIN statements = 1..n /\ DOMAIN statements' = 1..n + 1
        /\ \A i \in 1..n : statements'[i] = statements[i]
        /\ statements'[n + 1] = x
    BY <1>1, <1>2, AppendedEntries DEF Enqueue, AlertTypes
  <1>4. /\ created \in Seq(Alerts) /\ m \in Nat
        /\ DOMAIN created = 1..m /\ DOMAIN created' = 1..m + 1
        /\ \A i \in 1..m : created'[i] = created[i]
        /\ created'[m + 1] = e
    BY <1>1, AppendedEntries DEF AlertTypes
  <1>. HIDE DEF x, n, m
  <1>5. StoredInv /\ PoolInv /\ GotInv
    BY DEF OrderInv
  <1>6. \A i \in DOMAIN statements' : i = n + 1 \/ (i \in DOMAIN statements /\ i \in 1..n)
    BY <1>3
  <1>7. \A i \in DOMAIN created' : i = m + 1 \/ (i \in DOMAIN created /\ i \in 1..m)
    BY <1>4
  <1>8. \A d, f : Before(d, f) => Before(d, f)'
    BY <1>4 DEF Before
  <1>9. ASSUME NEW d \in ToSet(created)
        PROVE  Before(d, e)'
    <2>1. PICK a \in DOMAIN created : created[a] = d
      BY DEF ToSet
    <2>2. a \in DOMAIN created' /\ m + 1 \in DOMAIN created' /\ a < m + 1 /\ created'[a] = d
      BY <1>4, <2>1
    <2>3. QED
      BY <1>4, <2>2 DEF Before
  <1>10. ToSet(created') = ToSet(created) \cup {e}
    <2>1. ToSet(created') \subseteq ToSet(created) \cup {e}
      BY <1>4, <1>7 DEF ToSet
    <2>2. ToSet(created) \subseteq ToSet(created')
      BY <1>4 DEF ToSet
    <2>3. m + 1 \in DOMAIN created' /\ created'[m + 1] = e
      BY <1>4
    <2>4. e \in ToSet(created')
      BY <2>3 DEF ToSet
    <2>5. QED
      BY <2>1, <2>2, <2>4
  <1>11. \A d \in ToSet(created) : emit[d] # "none"
    BY <1>5 DEF StoredInv, ToSet
  <1>12. /\ emit'[e] = "insert" /\ \A d \in Alerts : d # e => emit'[d] = emit[d]
    BY <1>1 DEF AlertTypes
  <1>13. StoredInv'
    <2>1. IsInjective(created')
      <3>1. \A i \in 1..m : created[i] # e
        BY <1>1, <1>4, <1>5 DEF StoredInv
      <3>2. \A i, j \in 1..m : created[i] = created[j] => i = j
        BY <1>4, <1>5 DEF StoredInv, IsInjective
      <3>3. \A i, j \in 1..m + 1 : created'[i] = created'[j] => i = j
        BY <1>4, <1>7, <3>1, <3>2
      <3>4. QED
        BY <1>4, <3>3 DEF IsInjective
    <2>2. ASSUME NEW i \in DOMAIN created'
          PROVE  emit'[created'[i]] # "none"
      <3>1. CASE i = m + 1
        BY <1>4, <1>12, <3>1
      <3>2. CASE i \in 1..m
        <4>1. created'[i] = created[i] /\ created[i] \in Alerts /\ emit[created[i]] # "none"
          BY <1>4, <1>5, <3>2 DEF StoredInv
        <4>2. QED
          BY <1>12, <4>1
      <3>3. QED
        BY <1>7, <3>1, <3>2
    <2>3. \A s \in Streams : owed'[s] \subseteq ToSet(created') /\ got'[s] \in Seq(stored')
      BY <1>1, <1>5, <1>10 DEF StoredInv
    <2>4. \A s \in Streams : stream'[s] = "none" => owed'[s] = {}
      BY <1>1, <1>5 DEF StoredInv
    <2>5. stored' \subseteq ToSet(created')
      BY <1>1, <1>5, <1>10 DEF StoredInv
    <2>6. QED
      BY <2>1, <2>2, <2>3, <2>4, <2>5 DEF StoredInv
  <1>14. ASSUME NEW s \in Streams, NEW i \in DOMAIN got[s]
         PROVE  got[s][i] \in ToSet(created)
    <2>1. got[s] \in Seq(stored) /\ stored \subseteq ToSet(created)
      BY <1>5 DEF StoredInv
    <2>2. QED
      BY <2>1
  <1>15. \A y : Fed(y) => Fed(y)'
    BY <1>1, <1>8 DEF Fed
  <1>16. Fed(x)'
    BY <1>1, <1>2, <1>9, <1>14 DEF Fed
  <1>17. \A y, z : Ahead(y, z) => Ahead(y, z)'
    BY <1>8 DEF Ahead
  <1>18. \A y : (y[1] = "insert" => y[2] \in ToSet(created)) => Ahead(y, x)'
    BY <1>2, <1>9 DEF Ahead
  <1>19. PoolInv'
    <2>1. ASSUME NEW i \in DOMAIN statements'
          PROVE  /\ statements'[i][1] = "insert" => statements'[i][2] \in ToSet(created')
                 /\ Fed(statements[i])'
      <3>1. CASE i = n + 1
        BY <1>2, <1>3, <1>10, <1>16, <3>1
      <3>2. CASE i \in DOMAIN statements /\ i \in 1..n
        BY <1>3, <1>5, <1>10, <1>15, <3>2 DEF PoolInv
      <3>3. QED
        BY <1>6, <3>1, <3>2
    <2>2. ASSUME NEW i \in DOMAIN statements', NEW j \in DOMAIN statements', i < j
          PROVE  Ahead(statements[i], statements[j])'
      <3>1. i \in DOMAIN statements /\ i \in 1..n
        BY <1>3, <1>6, <2>2
      <3>2. CASE j = n + 1
        BY <1>3, <1>5, <1>18, <3>1, <3>2 DEF PoolInv
      <3>3. CASE j \in DOMAIN statements /\ j \in 1..n
        BY <1>3, <1>5, <1>17, <2>2, <3>1, <3>3 DEF PoolInv
      <3>4. QED
        BY <1>6, <3>2, <3>3
    <2>3. ASSUME NEW i \in DOMAIN results, NEW j \in DOMAIN statements'
          PROVE  Ahead(results[i], statements[j])'
      <3>1. results[i][1] = "insert" => results[i][2] \in ToSet(created)
        BY <1>5 DEF PoolInv, StoredInv
      <3>2. CASE j = n + 1
        BY <1>1, <1>3, <1>18, <3>1, <3>2
      <3>3. CASE j \in DOMAIN statements /\ j \in 1..n
        BY <1>1, <1>3, <1>5, <1>17, <3>3 DEF PoolInv
      <3>4. QED
        BY <1>6, <3>2, <3>3
    <2>4. \A i \in DOMAIN results : (results[i][1] = "insert" => results[i][2] \in stored) /\ Fed(results[i])'
      BY <1>1, <1>5, <1>15 DEF PoolInv
    <2>5. \A i, j \in DOMAIN results : i < j => Ahead(results[i], results[j])'
      BY <1>1, <1>5, <1>17 DEF PoolInv
    <2>6. QED
      BY <1>1, <2>1, <2>2, <2>3, <2>4, <2>5 DEF PoolInv
  <1>20. GotInv'
    <2>1. ASSUME NEW s \in Streams, NEW i \in DOMAIN got[s], NEW j \in DOMAIN got[s], i < j
          PROVE  Before(got[s][i], got[s][j])'
      BY <1>1, <1>5, <1>8, <2>1 DEF GotInv
    <2>2. ASSUME NEW s \in Streams, stream[s] = "open", NEW d \in owed'[s], emit'[d] = "answered"
          PROVE  d \in ToSet(got[s])
      <3>1. d # e /\ d \in owed[s]
        BY <1>1, <1>12, <2>2
      <3>2. d \in Alerts
        BY <1>4, <1>5, <3>1 DEF StoredInv, ToSet
      <3>3. QED
        BY <1>5, <1>12, <2>2, <3>1, <3>2 DEF GotInv
    <2>3. QED
      BY <1>1, <2>1, <2>2 DEF GotInv
  <1>21. QED
    BY <1>13, <1>19, <1>20 DEF OrderInv

LEMMA WiderSeq ==
  ASSUME NEW S, NEW T, S \subseteq T, NEW q \in Seq(S)
  PROVE  q \in Seq(T)
  OBVIOUS

\* The head of the queue runs: its result comes after the other results and
\* before the rest of the queue.
LEMMA RunKeeps ==
  ASSUME AlertTypes, OrderInv, RunStatement
  PROVE  OrderInv'
  <1>. DEFINE x == Head(statements)
              n == Len(statements)
              m == Len(results)
  <1>1. /\ statements # <<>> /\ statements' = Tail(statements)
        /\ results' = Append(results, x)
        /\ stored' = IF x[1] = "insert" THEN stored \cup {x[2]} ELSE stored
        /\ UNCHANGED <<created, emit, stream, owed, got>>
    BY DEF RunStatement, alertCalls, subscribers
  <1>2. /\ statements \in Seq(Statements) /\ results \in Seq(Statements)
    BY DEF AlertTypes
  <1>3. /\ n \in Nat /\ DOMAIN statements = 1..n /\ 1 \in DOMAIN statements
        /\ DOMAIN statements' = 1..n - 1 /\ x = statements[1] /\ x \in Statements
        /\ \A i \in 1..n - 1 : statements'[i] = statements[i + 1] /\ i + 1 \in DOMAIN statements
    BY <1>1, <1>2, RemainingEntries
  <1>4. /\ m \in Nat /\ DOMAIN results = 1..m /\ DOMAIN results' = 1..m + 1
        /\ \A i \in 1..m : results'[i] = results[i]
        /\ results'[m + 1] = x
    BY <1>1, <1>2, <1>3, AppendedEntries
  <1>. HIDE DEF x, n, m
  <1>5. StoredInv /\ PoolInv /\ GotInv
    BY DEF OrderInv
  <1>6. \A i \in DOMAIN results' : i = m + 1 \/ (i \in DOMAIN results /\ i \in 1..m)
    BY <1>4
  <1>7. \A i \in DOMAIN statements' :
          i \in Int /\ statements'[i] = statements[i + 1] /\ i + 1 \in DOMAIN statements /\ 1 < i + 1
    BY <1>3
  <1>8. /\ x[1] = "insert" => x[2] \in ToSet(created)
        /\ Fed(x)
    BY <1>3, <1>5 DEF PoolInv
  <1>9. stored \subseteq stored' /\ (x[1] = "insert" => x[2] \in stored')
    BY <1>1
  <1>10. StoredInv'
    <2>1. stored' \subseteq ToSet(created')
      BY <1>1, <1>5, <1>8 DEF StoredInv
    <2>2. \A s \in Streams : got'[s] \in Seq(stored')
      BY <1>1, <1>5, <1>9, WiderSeq DEF StoredInv
    <2>3. QED
      BY <1>1, <1>5, <2>1, <2>2 DEF StoredInv
  <1>11. \A y : Fed(y) => Fed(y)'
    BY <1>1 DEF Fed, Before
  <1>12. \A y, z : Ahead(y, z) => Ahead(y, z)'
    BY <1>1 DEF Ahead, Before
  <1>13. PoolInv'
    <2>1. ASSUME NEW i \in DOMAIN statements'
          PROVE  /\ statements'[i][1] = "insert" => statements'[i][2] \in ToSet(created')
                 /\ Fed(statements[i])'
      BY <1>1, <1>5, <1>7, <1>11 DEF PoolInv
    <2>2. ASSUME NEW i \in DOMAIN statements', NEW j \in DOMAIN statements', i < j
          PROVE  Ahead(statements[i], statements[j])'
      <3>1. i + 1 < j + 1
        BY <1>7, <2>2
      <3>2. QED
        BY <1>5, <1>7, <1>12, <3>1 DEF PoolInv
    <2>3. ASSUME NEW i \in DOMAIN results'
          PROVE  /\ results'[i][1] = "insert" => results'[i][2] \in stored'
                 /\ Fed(results[i])'
      <3>1. CASE i = m + 1
        BY <1>4, <1>8, <1>9, <1>11, <3>1
      <3>2. CASE i \in DOMAIN results /\ i \in 1..m
        <4>1. (results[i][1] = "insert" => results[i][2] \in stored) /\ Fed(results[i])
          BY <1>5, <3>2 DEF PoolInv
        <4>2. QED
          BY <1>4, <1>9, <1>11, <3>2, <4>1
      <3>3. QED
        BY <1>6, <3>1, <3>2
    <2>4. ASSUME NEW i \in DOMAIN results', NEW j \in DOMAIN results', i < j
          PROVE  Ahead(results[i], results[j])'
      <3>1. i \in DOMAIN results /\ i \in 1..m
        BY <1>4, <1>6, <2>4
      <3>2. CASE j = m + 1
        BY <1>3, <1>4, <1>5, <1>12, <3>1, <3>2 DEF PoolInv
      <3>3. CASE j \in DOMAIN results /\ j \in 1..m
        BY <1>4, <1>5, <1>12, <2>4, <3>1, <3>3 DEF PoolInv
      <3>4. QED
        BY <1>6, <3>2, <3>3
    <2>5. ASSUME NEW i \in DOMAIN results', NEW j \in DOMAIN statements'
          PROVE  Ahead(results[i], statements[j])'
      <3>1. CASE i = m + 1
        <4>1. Ahead(statements[1], statements[j + 1])
          BY <1>3, <1>5, <1>7 DEF PoolInv
        <4>2. QED
          BY <1>3, <1>4, <1>7, <1>12, <3>1, <4>1
      <3>2. CASE i \in DOMAIN results /\ i \in 1..m
        <4>1. Ahead(results[i], statements[j + 1])
          BY <1>5, <1>7, <3>2 DEF PoolInv
        <4>2. QED
          BY <1>4, <1>7, <1>12, <3>2, <4>1
      <3>3. QED
        BY <1>6, <3>1, <3>2
    <2>6. QED
      BY <2>1, <2>2, <2>3, <2>4, <2>5 DEF PoolInv
  <1>14. GotInv'
    BY <1>1, <1>5 DEF GotInv, Before
  <1>15. QED
    BY <1>10, <1>13, <1>14 DEF OrderInv

\* A statement fails: its alert stays out of the table, and out of the streams.
LEMMA FailureKeeps ==
  ASSUME AlertTypes, OrderInv, StatementFails
  PROVE  OrderInv'
  <1>. DEFINE x == Head(statements)
              n == Len(statements)
  <1>1. /\ statements # <<>> /\ statements' = Tail(statements)
        /\ emit' = IF x[1] = "insert" THEN [emit EXCEPT ![x[2]] = "failed"] ELSE emit
        /\ UNCHANGED <<created, stored, results, stream, owed, got>>
    BY DEF StatementFails, database, subscribers
  <1>2. statements \in Seq(Statements)
    BY DEF AlertTypes
  <1>3. /\ n \in Nat /\ DOMAIN statements' = 1..n - 1
        /\ \A i \in 1..n - 1 : statements'[i] = statements[i + 1] /\ i + 1 \in DOMAIN statements
    BY <1>1, <1>2, RemainingEntries
  <1>. HIDE DEF x, n
  <1>4. StoredInv /\ PoolInv /\ GotInv
    BY DEF OrderInv
  <1>5. \A i \in DOMAIN statements' :
          i \in Int /\ statements'[i] = statements[i + 1] /\ i + 1 \in DOMAIN statements
    BY <1>3
  <1>6. \A e \in Alerts : emit'[e] = emit[e] \/ emit'[e] = "failed"
    BY <1>1 DEF AlertTypes
  <1>7. \A i \in DOMAIN created : created[i] \in Alerts
    BY DEF AlertTypes
  <1>8. StoredInv'
    <2>1. \A i \in DOMAIN created : emit'[created[i]] # "none"
      BY <1>4, <1>6, <1>7 DEF StoredInv
    <2>2. QED
      BY <1>1, <1>4, <2>1 DEF StoredInv
  <1>9. \A y : Fed(y) => Fed(y)'
    BY <1>1 DEF Fed, Before
  <1>10. \A y, z : Ahead(y, z) => Ahead(y, z)'
    BY <1>1 DEF Ahead, Before
  <1>11. PoolInv'
    <2>1. ASSUME NEW i \in DOMAIN statements'
          PROVE  /\ statements'[i][1] = "insert" => statements'[i][2] \in ToSet(created')
                 /\ Fed(statements[i])'
      BY <1>1, <1>4, <1>5, <1>9 DEF PoolInv
    <2>2. ASSUME NEW i \in DOMAIN statements', NEW j \in DOMAIN statements', i < j
          PROVE  Ahead(statements[i], statements[j])'
      <3>1. i + 1 < j + 1
        BY <1>5, <2>2
      <3>2. QED
        BY <1>4, <1>5, <1>10, <3>1 DEF PoolInv
    <2>3. ASSUME NEW i \in DOMAIN results, NEW j \in DOMAIN statements'
          PROVE  Ahead(results[i], statements[j])'
      <3>1. Ahead(results[i], statements[j + 1])
        BY <1>4, <1>5 DEF PoolInv
      <3>2. QED
        BY <1>1, <1>5, <1>10, <3>1
    <2>4. \A i \in DOMAIN results :
            (results[i][1] = "insert" => results[i][2] \in stored) /\ Fed(results[i])'
      BY <1>1, <1>4, <1>9 DEF PoolInv
    <2>5. \A i, j \in DOMAIN results : i < j => Ahead(results[i], results[j])'
      BY <1>1, <1>4, <1>10 DEF PoolInv
    <2>6. QED
      BY <1>1, <2>1, <2>2, <2>3, <2>4, <2>5 DEF PoolInv
  <1>12. GotInv'
    <2>1. \A s \in Streams : \A e \in owed[s] : e \in Alerts
      BY <1>4, <1>7 DEF StoredInv, ToSet
    <2>2. \A s \in Streams : \A e \in owed[s] : emit'[e] = "answered" => emit[e] = "answered"
      BY <1>6, <2>1
    <2>3. QED
      BY <1>1, <1>4, <2>2 DEF GotInv, Before
  <1>13. QED
    BY <1>8, <1>11, <1>12 DEF OrderInv

\* The streams are written to: up to here they had seen earlier alerts only.
LEMMA AnnouncedKeeps ==
  ASSUME AlertTypes, OrderInv, results # <<>>, Head(results)[1] = "insert",
         NEW broken, Announced(Head(results)[2], broken),
         results' = Tail(results), UNCHANGED <<created, stored, statements>>
  PROVE  OrderInv'
  <1>. DEFINE x == Head(results)
              e == Head(results)[2]
              m == Len(results)
  <1>1. /\ got' = [s \in Streams |->
                     IF stream[s] = "open" /\ s \notin broken THEN Append(got[s], e) ELSE got[s]]
        /\ stream' = [s \in Streams |-> IF s \in broken THEN "closed" ELSE stream[s]]
        /\ emit' = [emit EXCEPT ![e] = "answered"] /\ owed' = owed
    BY DEF Announced
  <1>2. results \in Seq(Statements)
    BY DEF AlertTypes
  <1>3. /\ m \in Nat /\ DOMAIN results = 1..m /\ 1 \in DOMAIN results
        /\ DOMAIN results' = 1..m - 1 /\ x = results[1] /\ x \in Statements
        /\ \A i \in 1..m - 1 : results'[i] = results[i + 1] /\ i + 1 \in DOMAIN results
    BY <1>2, RemainingEntries
  <1>4. x[1] = "insert" /\ x[2] = e /\ e \in Alerts
    BY <1>3 DEF Statements
  <1>. HIDE DEF x, e, m
  <1>5. StoredInv /\ PoolInv /\ GotInv
    BY DEF OrderInv
  <1>6. \A i \in DOMAIN results' :
          i \in Int /\ results'[i] = results[i + 1] /\ i + 1 \in DOMAIN results /\ 1 < i + 1
    BY <1>3
  <1>7. e \in stored /\ Fed(x)
    BY <1>3, <1>4, <1>5 DEF PoolInv
  <1>8. \A s \in Streams : got[s] \in Seq(stored)
    BY <1>5 DEF StoredInv
  <1>9. ASSUME NEW s \in Streams
        PROVE  \/ got'[s] = got[s]
               \/ /\ got'[s] = Append(got[s], e) /\ got'[s] \in Seq(stored)
                  /\ Len(got[s]) \in Nat /\ DOMAIN got[s] = 1..Len(got[s])
                  /\ DOMAIN got'[s] = 1..Len(got[s]) + 1
                  /\ \A i \in 1..Len(got[s]) : got'[s][i] = got[s][i]
                  /\ got'[s][Len(got[s]) + 1] = e
    <2>1. got'[s] = got[s] \/ got'[s] = Append(got[s], e)
      BY <1>1
    <2>2. CASE got'[s] = Append(got[s], e)
      BY <1>7, <1>8, <2>2, AppendedEntries
    <2>3. QED
      BY <2>1, <2>2
  <1>10. ASSUME NEW s \in Streams, NEW i \in DOMAIN got'[s]
         PROVE  \/ i \in DOMAIN got[s] /\ got'[s][i] = got[s][i]
                \/ /\ got'[s][i] = e /\ i = Len(got[s]) + 1
                   /\ DOMAIN got[s] = 1..Len(got[s]) /\ Len(got[s]) \in Nat
    <2>. DEFINE k == Len(got[s])
    <2>1. CASE got'[s] = got[s]
      BY <2>1
    <2>2. CASE /\ k \in Nat /\ DOMAIN got[s] = 1..k /\ DOMAIN got'[s] = 1..k + 1
               /\ \A j \in 1..k : got'[s][j] = got[s][j]
               /\ got'[s][k + 1] = e
      <3>. HIDE DEF k
      <3>1. i \in 1..k \/ i = k + 1
        BY <2>2
      <3>2. CASE i \in 1..k
        BY <2>2, <3>2
      <3>3. CASE i = k + 1
        BY <2>2, <3>3 DEF k
      <3>4. QED
        BY <3>1, <3>2, <3>3
    <2>3. QED
      BY <1>9, <2>1, <2>2
  <1>11. ASSUME NEW s \in Streams
         PROVE  ToSet(got[s]) \subseteq ToSet(got'[s])
    <2>. DEFINE k == Len(got[s])
    <2>1. CASE got'[s] = got[s]
      BY <2>1 DEF ToSet
    <2>2. CASE /\ k \in Nat /\ DOMAIN got[s] = 1..k /\ DOMAIN got'[s] = 1..k + 1
               /\ \A j \in 1..k : got'[s][j] = got[s][j]
      <3>. HIDE DEF k
      <3>1. \A i \in DOMAIN got[s] : i \in DOMAIN got'[s] /\ got'[s][i] = got[s][i]
        BY <2>2
      <3>2. QED
        BY <3>1 DEF ToSet
    <2>3. QED
      BY <1>9, <2>1, <2>2
  <1>12. ASSUME NEW s \in Streams, stream'[s] = "open"
         PROVE  stream[s] = "open" /\ e \in ToSet(got'[s])
    <2>1. stream[s] = "open" /\ s \notin broken
      BY <1>1, <1>12
    <2>2. got'[s] = Append(got[s], e)
      BY <1>1, <2>1
    <2>3. /\ Len(got[s]) \in Nat /\ DOMAIN got'[s] = 1..Len(got[s]) + 1
          /\ got'[s][Len(got[s]) + 1] = e
      BY <1>7, <1>8, <2>2, AppendedEntries
    <2>4. Len(got[s]) + 1 \in DOMAIN got'[s]
      BY <2>3
    <2>5. QED
      BY <2>1, <2>3, <2>4 DEF ToSet
  <1>13. /\ emit'[e] = "answered" /\ \A d \in Alerts : d # e => emit'[d] = emit[d]
    BY <1>1, <1>4 DEF AlertTypes
  <1>14. \A i \in DOMAIN created : created[i] \in Alerts
    BY DEF AlertTypes
  <1>15. StoredInv'
    <2>1. \A i \in DOMAIN created : emit'[created[i]] # "none"
      BY <1>5, <1>13, <1>14 DEF StoredInv
    <2>2. \A s \in Streams : got'[s] \in Seq(stored)
      BY <1>8, <1>9
    <2>3. \A s \in Streams : stream'[s] = "none" => stream[s] = "none"
      BY <1>1
    <2>4. QED
      BY <1>1, <1>5, <2>1, <2>2, <2>3 DEF StoredInv
  <1>16. \A y, z : Ahead(y, z) => Ahead(y, z)'
    BY DEF Ahead, Before
  <1>17. \A y : Fed(y) /\ Ahead(x, y) => Fed(y)'
    <2>1. SUFFICES ASSUME NEW y, Fed(y), Ahead(x, y), y[1] = "insert",
                          NEW s \in Streams, NEW i \in DOMAIN got'[s]
                   PROVE  Before(got[s][i], y[2])'
      BY DEF Fed
    <2>2. CASE i \in DOMAIN got[s] /\ got'[s][i] = got[s][i]
      BY <2>1, <2>2 DEF Fed, Before
    <2>3. CASE got'[s][i] = e
      BY <1>4, <2>1, <2>3 DEF Ahead, Before
    <2>4. QED
      BY <1>10, <2>2, <2>3
  <1>18. PoolInv'
    <2>1. ASSUME NEW i \in DOMAIN statements
          PROVE  /\ statements[i][1] = "insert" => statements[i][2] \in ToSet(created)
                 /\ Fed(statements[i])'
      <3>1. Fed(statements[i]) /\ Ahead(x, statements[i])
        BY <1>3, <1>5 DEF PoolInv
      <3>2. Fed(statements[i])'
        BY <1>17, <3>1
      <3>3. QED
        BY <1>5, <3>2 DEF PoolInv
    <2>2. ASSUME NEW i \in DOMAIN results'
          PROVE  /\ results'[i][1] = "insert" => results'[i][2] \in stored
                 /\ Fed(results[i])'
      <3>1. Fed(results[i + 1]) /\ Ahead(x, results[i + 1])
        BY <1>3, <1>5, <1>6 DEF PoolInv
      <3>2. Fed(results[i])'
        BY <1>6, <1>17, <3>1
      <3>3. QED
        BY <1>5, <1>6, <3>2 DEF PoolInv
    <2>3. \A i, j \in DOMAIN statements : i < j => Ahead(statements[i], statements[j])'
      BY <1>5, <1>16 DEF PoolInv
    <2>4. ASSUME NEW i \in DOMAIN results', NEW j \in DOMAIN results', i < j
          PROVE  Ahead(results[i], results[j])'
      <3>1. i + 1 < j + 1
        BY <1>6, <2>4
      <3>2. QED
        BY <1>5, <1>6, <1>16, <3>1 DEF PoolInv
    <2>5. ASSUME NEW i \in DOMAIN results', NEW j \in DOMAIN statements
          PROVE  Ahead(results[i], statements[j])'
      <3>1. Ahead(results[i + 1], statements[j])
        BY <1>5, <1>6 DEF PoolInv
      <3>2. QED
        BY <1>6, <1>16, <3>1
    <2>6. QED
      BY <2>1, <2>2, <2>3, <2>4, <2>5 DEF PoolInv
  <1>19. GotInv'
    <2>1. ASSUME NEW s \in Streams, NEW i \in DOMAIN got'[s], NEW j \in DOMAIN got'[s], i < j
          PROVE  Before(got[s][i], got[s][j])'
      <3>1. CASE j \in DOMAIN got[s] /\ got'[s][j] = got[s][j]
        <4>1. i \in DOMAIN got[s] /\ got'[s][i] = got[s][i]
          BY <1>10, <2>1, <3>1
        <4>2. Before(got[s][i], got[s][j])
          BY <1>5, <2>1, <3>1, <4>1 DEF GotInv
        <4>3. QED
          BY <3>1, <4>1, <4>2 DEF Before
      <3>2. CASE /\ got'[s][j] = e /\ j = Len(got[s]) + 1
                 /\ DOMAIN got[s] = 1..Len(got[s]) /\ Len(got[s]) \in Nat
        <4>1. i \in DOMAIN got[s] /\ got'[s][i] = got[s][i]
          BY <1>10, <2>1, <3>2
        <4>2. Before(got[s][i], e)
          BY <1>4, <1>7, <4>1 DEF Fed
        <4>3. QED
          BY <3>2, <4>1, <4>2 DEF Before
      <3>3. QED
        BY <1>10, <3>1, <3>2
    <2>2. ASSUME NEW s \in Streams, stream'[s] = "open", NEW d \in owed[s], emit'[d] = "answered"
          PROVE  d \in ToSet(got'[s])
      <3>1. CASE d = e
        BY <1>12, <2>2, <3>1
      <3>2. CASE d # e
        <4>1. d \in Alerts
          BY <1>5, <1>14 DEF StoredInv, ToSet
        <4>2. d \in ToSet(got[s])
          BY <1>5, <1>12, <1>13, <2>2, <3>2, <4>1 DEF GotInv
        <4>3. QED
          BY <1>11, <4>2
      <3>3. QED
        BY <3>1, <3>2
    <2>3. QED
      BY <1>1, <2>1, <2>2 DEF GotInv
  <1>20. QED
    BY <1>15, <1>18, <1>19 DEF OrderInv

\* A statement of Web Push is answered.
LEMMA AnswerKeeps ==
  ASSUME AlertTypes, OrderInv, results # <<>>, results' = Tail(results),
         UNCHANGED <<created, emit, stored, owed, got, statements, stream>>
  PROVE  OrderInv'
  <1>1. results \in Seq(Statements)
    BY DEF AlertTypes
  <1>2. \A i \in DOMAIN results' :
          i \in Int /\ results'[i] = results[i + 1] /\ i + 1 \in DOMAIN results
    BY <1>1, RemainingEntries
  <1>3. StoredInv' /\ GotInv'
    BY DEF OrderInv, StoredInv, GotInv, Before
  <1>4. PoolInv
    BY DEF OrderInv
  <1>5. \A y : Fed(y) => Fed(y)'
    BY DEF Fed, Before
  <1>6. \A y, z : Ahead(y, z) => Ahead(y, z)'
    BY DEF Ahead, Before
  <1>7. PoolInv'
    <2>1. \A i \in DOMAIN statements :
            /\ statements[i][1] = "insert" => statements[i][2] \in ToSet(created)
            /\ Fed(statements[i])'
      BY <1>4, <1>5 DEF PoolInv
    <2>2. \A i, j \in DOMAIN statements : i < j => Ahead(statements[i], statements[j])'
      BY <1>4, <1>6 DEF PoolInv
    <2>3. ASSUME NEW i \in DOMAIN results'
          PROVE  /\ results'[i][1] = "insert" => results'[i][2] \in stored
                 /\ Fed(results[i])'
      BY <1>2, <1>4, <1>5 DEF PoolInv
    <2>4. ASSUME NEW i \in DOMAIN results', NEW j \in DOMAIN results', i < j
          PROVE  Ahead(results[i], results[j])'
      <3>1. i + 1 < j + 1
        BY <1>2, <2>4
      <3>2. QED
        BY <1>2, <1>4, <1>6, <3>1 DEF PoolInv
    <2>5. ASSUME NEW i \in DOMAIN results', NEW j \in DOMAIN statements
          PROVE  Ahead(results[i], statements[j])'
      <3>1. Ahead(results[i + 1], statements[j])
        BY <1>2, <1>4 DEF PoolInv
      <3>2. QED
        BY <1>2, <1>6, <3>1
    <2>6. QED
      BY <2>1, <2>2, <2>3, <2>4, <2>5 DEF PoolInv
  <1>8. QED
    BY <1>3, <1>7 DEF OrderInv

\* A restart: nothing is under way, and no stream is open.
LEMMA AlertRestartKeeps ==
  ASSUME AlertTypes, OrderInv, Restart
  PROVE  OrderInv'
  <1>1. /\ statements' = <<>> /\ results' = <<>>
        /\ emit' = [e \in Alerts |-> IF emit[e] = "insert" THEN "failed" ELSE emit[e]]
        /\ stream' = [s \in Streams |-> IF stream[s] = "open" THEN "closed" ELSE stream[s]]
        /\ UNCHANGED <<created, stored, owed, got>>
    BY DEF Restart, database
  <1>2. DOMAIN statements' = {} /\ DOMAIN results' = {}
    BY <1>1
  <1>3. \A i \in DOMAIN created : created[i] \in Alerts
    BY DEF AlertTypes
  <1>4. StoredInv'
    <2>1. \A i \in DOMAIN created : emit'[created[i]] # "none"
      BY <1>1, <1>3 DEF OrderInv, StoredInv
    <2>2. \A s \in Streams : stream'[s] = "none" => stream[s] = "none"
      BY <1>1
    <2>3. QED
      BY <1>1, <2>1, <2>2 DEF OrderInv, StoredInv
  <1>5. PoolInv'
    BY <1>2 DEF PoolInv
  <1>6. GotInv'
    <2>1. \A s \in Streams : stream'[s] # "open"
      BY <1>1
    <2>2. QED
      BY <1>1, <2>1 DEF OrderInv, GotInv, Before
  <1>7. QED
    BY <1>4, <1>5, <1>6 DEF OrderInv

LEMMA NextOrder == AlertTypes /\ OrderInv /\ [AlertNext]_alertVars => OrderInv'
  <1>. SUFFICES ASSUME AlertTypes, OrderInv, [AlertNext]_alertVars PROVE OrderInv'
    OBVIOUS
  <1>1. ASSUME NEW e \in Alerts, EmitAlert(e)
        PROVE  OrderInv'
    BY <1>1, EmitKeeps
  <1>2. ASSUME NEW e \in Alerts, Dispatch(e) \/ ChannelDone(e) \/ NoAudience(e)
        PROVE  OrderInv'
    BY <1>2, CalmKeeps
    DEF Dispatch, ChannelDone, NoAudience, alertCalls, database, pool, subscribers
  <1>3. ASSUME NEW e \in Alerts, PushDispatch(e)
        PROVE  OrderInv'
    <2>1. UNCHANGED <<created, emit, stored, owed, got, results, stream>>
      BY <1>3 DEF PushDispatch, alertCalls, database, subscribers
    <2>2. UNCHANGED statements \/ Enqueue("rows", e)
      BY <1>3 DEF PushDispatch
    <2>3. QED
      BY <2>1, <2>2, CalmKeeps, QueueKeeps
  <1>4. ASSUME NEW e \in Alerts, SendPush(e)
        PROVE  OrderInv'
    <2>1. UNCHANGED <<created, emit, stored, owed, got, results, stream>>
      BY <1>4 DEF SendPush, alertCalls, database, subscribers
    <2>2. UNCHANGED statements \/ Enqueue("prune", e)
      BY <1>4 DEF SendPush
    <2>3. QED
      BY <2>1, <2>2, CalmKeeps, QueueKeeps
  <1>5. ASSUME NEW s \in Streams, Subscribe(s) \/ Disconnect(s)
        PROVE  OrderInv'
    <2>1. UNCHANGED <<created, emit, stored, owed, got, results, statements>>
      BY <1>5 DEF Subscribe, Disconnect, alertCalls, database, pool
    <2>2. \A t \in Streams : stream'[t] = stream[t] \/ stream'[t] = "closed"
                               \/ (stream[t] = "none" /\ stream'[t] = "open")
      BY <1>5 DEF Subscribe, Disconnect, AlertTypes
    <2>3. QED
      BY <2>1, <2>2, CalmKeeps
  <1>6. CASE RunStatement
    BY <1>6, RunKeeps
  <1>7. CASE StatementFails
    BY <1>7, FailureKeeps
  <1>8. CASE Resume
    <2>1. results # <<>> /\ results' = Tail(results) /\ UNCHANGED <<created, stored, statements>>
      BY <1>8 DEF Resume, database
    <2>2. \/ Head(results)[1] = "insert" /\ \E broken : Announced(Head(results)[2], broken)
          \/ UNCHANGED <<emit, subscribers>>
      BY <1>8 DEF Resume
    <2>3. QED
      BY <2>1, <2>2, AnnouncedKeeps, AnswerKeeps DEF subscribers
  <1>9. ASSUME NEW k \in Keys, WindowEnds(k)
        PROVE  OrderInv'
    BY <1>9, CalmKeeps DEF WindowEnds, alertCalls, database, pool, subscribers
  <1>10. ASSUME NEW p \in Endpoints, EndpointGone(p)
         PROVE  OrderInv'
    BY <1>10, CalmKeeps DEF EndpointGone, alertCalls, pool, subscribers
  <1>11. CASE Restart
    BY <1>11, AlertRestartKeeps
  <1>12. CASE UNCHANGED alertVars
    BY <1>12, CalmKeeps DEF alertVars, alertCalls, database, pool, subscribers
  <1>13. QED
    BY <1>1, <1>2, <1>3, <1>4, <1>5, <1>6, <1>7, <1>8, <1>9, <1>10, <1>11, <1>12 DEF AlertNext

\* The inserts under way stand in the order of created_at and every stream is
\* behind all of them: the state in which a stream cannot fall out of order.
THEOREM AlertInductive == AlertSpec => [](AlertTypes /\ OrderInv)
  <1>1. AlertInit => AlertTypes /\ OrderInv
    BY InitAlertTypes, InitOrder
  <1>2. AlertTypes /\ OrderInv /\ [AlertNext]_alertVars => (AlertTypes /\ OrderInv)'
    BY NextAlertTypes, NextOrder
  <1>3. QED
    BY <1>1, <1>2, PTL DEF AlertSpec

\* StreamAlerts: whatever else the one connection has to do, however often a
\* statement fails, a stream breaks or the service restarts, a stream shows the
\* alerts in the order of created_at, once each, stored ones only, and an open
\* one has shown every alert whose EmitAlert was answered since it opened.
THEOREM StreamsInOrder == AlertSpec => []StreamInOrder
  <1>1. OrderInv => StreamInOrder
    <2>1. SUFFICES ASSUME OrderInv, NEW s \in Streams PROVE ToSet(got[s]) \subseteq stored
      BY DEF OrderInv, GotInv, StreamInOrder
    <2>2. got[s] \in Seq(stored)
      BY <2>1 DEF OrderInv, StoredInv
    <2>3. QED
      BY <2>2 DEF ToSet
  <1>2. QED
    BY <1>1, AlertInductive, PTL

\* Type correctness of the alerts: created_at gives each alert one place, and
\* what the streams are owed and got comes from the alerts emitted and stored.
THEOREM AlertTypeCorrect == AlertSpec => []AlertTypeOK
  <1>1. AlertSpec => []WindowInv
    BY InitWindow, NextWindow, PTL DEF AlertSpec
  <1>2. AlertTypes /\ OrderInv /\ WindowInv => AlertTypeOK
    <2>1. SUFFICES ASSUME AlertTypes, StoredInv, WindowInv PROVE AlertTypeOK
      BY DEF OrderInv
    <2>2. stored \subseteq ToSet(created) /\ IsInjective(created)
      BY <2>1 DEF StoredInv
    <2>3. \A s \in Streams : owed[s] \subseteq ToSet(created) /\ got[s] \in Seq(stored)
      BY <2>1 DEF StoredInv
    <2>4. QED
      BY <2>1, <2>2, <2>3 DEF AlertTypes, WindowInv, AlertTypeOK
  <1>3. QED
    BY <1>1, <1>2, AlertInductive, PTL

-----------------------------------------------------------------------------
(* Backfills. *)

\* A chunk that is over, without a cancellation, is over with its outcome.
OverInv ==
  \A b \in taken :
    runner = "chunks" /\ worker[b] = "over" =>
      registry \/ (outcome[b] \in Outcomes /\ chunk[b] = outcome[b])

\* What a worker is about to record is an outcome.
RecordInv == \A b \in Chunks : worker[b] = "record" => outcome[b] \in Outcomes

\* A verdict of COMPLETED is only pronounced on clean chunks.
VerdictInv ==
  runner = "completed" => \A b \in taken : chunk[b] = "clean" /\ worker[b] = "over"

\* A job that reports COMPLETED is not about to be run again.
ReportInv ==
  /\ job = "completed" => \A b \in taken : chunk[b] = "clean" /\ worker[b] = "over"
  /\ runner = "plan" => job # "completed"

BInv == BackfillTypeOK /\ OverInv /\ RecordInv /\ VerdictInv /\ ReportInv

LEMMA InitBackfill == BackfillInit => BInv
  <1>. SUFFICES ASSUME BackfillInit PROVE BInv
    OBVIOUS
  <1>1. /\ job = "none" /\ runner = "none" /\ taken = {} /\ planned \in {{}, Chunks}
        /\ registry = FALSE /\ resumed = FALSE /\ troubles = 0
    BY DEF BackfillInit
  <1>2. /\ chunk = [b \in Chunks |-> "none"]
        /\ worker = [b \in Chunks |-> "none"]
        /\ outcome = [b \in Chunks |-> "none"]
        /\ cancel = [q \in Cancels |-> "none"]
    BY DEF BackfillInit
  <1>3. /\ chunk \in [Chunks -> {"none", "pending", "running"} \cup Outcomes]
        /\ worker \in [Chunks -> {"none", "ready", "fetch", "record", "over"}]
        /\ outcome \in [Chunks -> {"none"} \cup Outcomes]
        /\ cancel \in [Cancels -> {"none", "read", "write", "over"}]
        /\ \A b \in Chunks : worker[b] = "none"
    BY <1>2
  <1>4. BackfillTypeOK
    BY <1>1, <1>3 DEF BackfillTypeOK
  <1>5. OverInv /\ RecordInv /\ VerdictInv /\ ReportInv
    BY <1>1, <1>3 DEF OverInv, RecordInv, VerdictInv, ReportInv
  <1>6. QED
    BY <1>4, <1>5 DEF BInv

\* Steps that leave the chunks and their workers alone.
LEMMA JobSteps ==
  ASSUME BInv,
         TriggerBackfill \/ StartRun \/ StartResumed \/ NothingPlanned
  PROVE  BInv'
  <1>1. BackfillTypeOK'
    BY DEF BInv, BackfillTypeOK, TriggerBackfill, StartRun, StartResumed, NothingPlanned
  <1>2. /\ UNCHANGED <<chunk, taken, worker, planned>>
        /\ runner' \in {"created", "none", "plan"}
        /\ runner' = "plan" => job' = "running"
        /\ job' = "completed" => job = "completed" \/ planned = {}
    BY DEF TriggerBackfill, StartRun, StartResumed, NothingPlanned
  <1>3. OverInv' /\ RecordInv' /\ VerdictInv'
    <2>1. outcome' = outcome
      BY DEF TriggerBackfill, StartRun, StartResumed, NothingPlanned
    <2>2. QED
      BY <1>2, <2>1 DEF BInv, OverInv, RecordInv, VerdictInv
  <1>4. ReportInv'
    BY <1>2 DEF BInv, BackfillTypeOK, ReportInv
  <1>5. QED
    BY <1>1, <1>3, <1>4 DEF BInv

\* What the registry says when the chunks start is what keeps them from it.
LEMMA ChunksStart ==
  ASSUME BInv, RunChunks
  PROVE  BInv'
  <1>1. Incomplete \subseteq planned
    BY DEF Incomplete
  <1>2. \A b \in Chunks : worker'[b] = IF b \notin Incomplete THEN "none"
                                       ELSE IF registry THEN "over" ELSE "ready"
    BY DEF RunChunks
  <1>3. /\ worker' \in [Chunks -> {"none", "ready", "fetch", "record", "over"}]
        /\ chunk' \in [Chunks -> {"none", "pending", "running"} \cup Outcomes]
    BY DEF RunChunks, BInv, BackfillTypeOK
  <1>4. BackfillTypeOK'
    BY <1>1, <1>2, <1>3 DEF RunChunks, BInv, BackfillTypeOK
  <1>5. OverInv'
    BY <1>1, <1>2 DEF RunChunks, OverInv, BInv, BackfillTypeOK
  <1>6. RecordInv' /\ VerdictInv' /\ ReportInv'
    BY <1>2 DEF RunChunks, RecordInv, VerdictInv, ReportInv, BInv
  <1>7. QED
    BY <1>4, <1>5, <1>6 DEF BInv

\* A worker that is not over belongs to a chunk no verdict has been passed on.
LEMMA WorkerStep ==
  ASSUME BInv, NEW b \in Chunks, worker[b] \notin {"none", "over"},
         UNCHANGED <<job, registry, runner, planned, taken, resumed, cancel>>,
         troubles' \in Nat,
         worker' \in [Chunks -> {"none", "ready", "fetch", "record", "over"}],
         chunk' \in [Chunks -> {"none", "pending", "running"} \cup Outcomes],
         outcome' \in [Chunks -> {"none"} \cup Outcomes],
         \A d \in Chunks :
           d # b => worker'[d] = worker[d] /\ chunk'[d] = chunk[d] /\ outcome'[d] = outcome[d],
         worker'[b] = "record" => outcome'[b] \in Outcomes,
         worker'[b] = "over" /\ runner = "chunks" => outcome'[b] \in Outcomes /\ chunk'[b] = outcome'[b]
  PROVE  BInv'
  <1>1. b \in taken /\ taken \subseteq Chunks
    BY DEF BInv, BackfillTypeOK
  <1>2. BackfillTypeOK'
    BY <1>1 DEF BInv, BackfillTypeOK
  <1>3. OverInv'
    BY <1>1 DEF BInv, OverInv
  <1>4. RecordInv'
    BY DEF BInv, RecordInv
  <1>5. runner # "completed" /\ job # "completed"
    BY <1>1 DEF BInv, VerdictInv, ReportInv
  <1>6. VerdictInv' /\ ReportInv'
    BY <1>5 DEF BInv, VerdictInv, ReportInv
  <1>7. QED
    BY <1>2, <1>3, <1>4, <1>6 DEF BInv

LEMMA WorkersKeep ==
  ASSUME BInv, NEW b \in Chunks,
         MarkRunning(b) \/ Record(b) \/ \E x \in Outcomes : Fetch(b, x)
  PROVE  BInv'
  <1>1. /\ worker \in [Chunks -> {"none", "ready", "fetch", "record", "over"}]
        /\ chunk \in [Chunks -> {"none", "pending", "running"} \cup Outcomes]
        /\ outcome \in [Chunks -> {"none"} \cup Outcomes]
        /\ troubles \in Nat
    BY DEF BInv, BackfillTypeOK
  <1>2. CASE MarkRunning(b)
    BY <1>1, <1>2, WorkerStep DEF MarkRunning
  <1>3. CASE Record(b)
    <2>1. outcome[b] \in Outcomes
      BY <1>3 DEF Record, BInv, RecordInv
    <2>2. QED
      BY <1>1, <1>3, <2>1, WorkerStep DEF Record
  <1>4. CASE \E x \in Outcomes : Fetch(b, x)
    BY <1>1, <1>4, WorkerStep DEF Fetch, jobRows
  <1>5. QED
    BY <1>2, <1>3, <1>4

\* All chunks over and none lacking: every one of them is clean.
LEMMA FinalizeKeeps ==
  ASSUME BInv, Finalize
  PROVE  BInv'
  <1>1. taken \subseteq Chunks /\ outcome \in [Chunks -> {"none"} \cup Outcomes]
    BY DEF BInv, BackfillTypeOK
  <1>2. /\ UNCHANGED <<job, chunk, planned, taken, worker, outcome, resumed, cancel, troubles>>
        /\ runner = "chunks" /\ \A b \in taken : worker[b] = "over"
    BY DEF Finalize, Gathered, jobRows
  <1>3. CASE registry
    <2>1. runner' = "none" /\ registry' = FALSE
      BY <1>3 DEF Finalize
    <2>2. QED
      BY <1>2, <2>1 DEF BInv, BackfillTypeOK, OverInv, RecordInv, VerdictInv, ReportInv
  <1>4. CASE ~registry
    <2>1. runner' = Verdict /\ registry' = registry
      BY <1>4 DEF Finalize
    <2>2. Verdict \in {"completed", "partial", "failed"}
      BY DEF Verdict
    <2>3. ASSUME Verdict = "completed", NEW b \in taken
          PROVE  chunk[b] = "clean" /\ worker[b] = "over"
      <3>1. FailedSymbols = {}
        BY <2>3 DEF Verdict
      <3>2. outcome[b] \in Outcomes /\ chunk[b] = outcome[b]
        BY <1>2, <1>4 DEF BInv, OverInv
      <3>3. QED
        BY <1>1, <1>2, <3>1, <3>2 DEF FailedSymbols, Outcomes
    <2>4. QED
      BY <1>2, <2>1, <2>2, <2>3 DEF BInv, BackfillTypeOK, OverInv, RecordInv, VerdictInv, ReportInv
  <1>5. QED
    BY <1>3, <1>4

LEMMA VerdictKeeps ==
  ASSUME BInv, WriteVerdict
  PROVE  BInv'
  BY DEF WriteVerdict, BInv, BackfillTypeOK, OverInv, RecordInv, VerdictInv, ReportInv

LEMMA ExceptedRunner ==
  ASSUME BInv, Excepted
  PROVE  runner' \in {"none", "failed"} /\ registry' \in BOOLEAN
  BY DEF Excepted, BInv, BackfillTypeOK

LEMMA RunnerFailsKeeps ==
  ASSUME BInv, RunnerFails
  PROVE  BInv'
  <1>1. /\ UNCHANGED <<job, chunk, planned, taken, worker, outcome, cancel, resumed>>
        /\ runner' \in {"none", "failed"} /\ registry' \in BOOLEAN
        /\ troubles' \in Nat
    <2>1. troubles' \in Nat
      BY DEF RunnerFails, Trouble, BInv, BackfillTypeOK
    <2>2. QED
      BY <2>1, ExceptedRunner DEF RunnerFails, jobRows, BInv, BackfillTypeOK
  <1>2. QED
    BY <1>1 DEF BInv, BackfillTypeOK, OverInv, RecordInv, VerdictInv, ReportInv

LEMMA WorkerFailsKeeps ==
  ASSUME BInv, NEW b \in Chunks, WorkerFails(b)
  PROVE  BInv'
  <1>1. /\ worker' = [worker EXCEPT ![b] = "over"]
        /\ worker[b] \in {"ready", "record"}
        /\ chunk' = chunk \/ (worker[b] = "record" /\ chunk' = [chunk EXCEPT ![b] = outcome[b]])
        /\ UNCHANGED <<job, planned, taken, outcome, cancel, resumed>>
    BY DEF WorkerFails
  <1>2. troubles' \in Nat
    BY DEF WorkerFails, Trouble, BInv, BackfillTypeOK
  <1>3. /\ runner' # "chunks"
        /\ runner' \in {"none", "failed"} \/ (runner' = runner /\ runner # "chunks")
        /\ registry' \in BOOLEAN
    BY ExceptedRunner DEF WorkerFails, BInv, BackfillTypeOK
  <1>4. /\ worker' \in [Chunks -> {"none", "ready", "fetch", "record", "over"}]
        /\ chunk' \in [Chunks -> {"none", "pending", "running"} \cup Outcomes]
        /\ \A d \in Chunks : d # b => worker'[d] = worker[d] /\ chunk'[d] = chunk[d]
        /\ worker'[b] = "over"
    BY <1>1 DEF BInv, BackfillTypeOK
  <1>5. b \in taken /\ taken \subseteq Chunks
    BY <1>1 DEF BInv, BackfillTypeOK
  <1>6. BackfillTypeOK'
    BY <1>1, <1>2, <1>3, <1>4, <1>5 DEF BInv, BackfillTypeOK
  <1>7. OverInv' /\ RecordInv'
    BY <1>1, <1>3, <1>4 DEF BInv, OverInv, RecordInv
  <1>8. runner # "completed" /\ job # "completed"
    BY <1>1, <1>5 DEF BInv, VerdictInv, ReportInv
  <1>9. VerdictInv' /\ ReportInv'
    BY <1>1, <1>3, <1>8 DEF BInv, VerdictInv, ReportInv
  <1>10. QED
    BY <1>6, <1>7, <1>9 DEF BInv

LEMMA CancelsKeep ==
  ASSUME BInv, NEW q \in Cancels, CancelRead(q) \/ CancelRegister(q) \/ CancelWrite(q)
  PROVE  BInv'
  <1>1. UNCHANGED <<chunk, runner, planned, taken, worker, outcome, resumed, troubles>>
    BY DEF CancelRead, CancelRegister, CancelWrite, jobRows, runnerVars
  <1>2. cancel' \in [Cancels -> {"none", "read", "write", "over"}]
    BY DEF CancelRead, CancelRegister, CancelWrite, BInv, BackfillTypeOK
  <1>3. job' \in {job, "canceled"} /\ registry' \in {registry, TRUE}
    BY DEF CancelRead, CancelRegister, CancelWrite, jobRows
  <1>4. BackfillTypeOK'
    BY <1>1, <1>2, <1>3 DEF BInv, BackfillTypeOK
  <1>5. registry => registry'
    BY <1>3
  <1>6. OverInv' /\ RecordInv'
    BY <1>1, <1>5 DEF BInv, OverInv, RecordInv
  <1>7. VerdictInv'
    BY <1>1 DEF BInv, VerdictInv
  <1>8. job' = "completed" => job = "completed"
    BY <1>3
  <1>9. ReportInv'
    BY <1>1, <1>8 DEF BInv, ReportInv
  <1>10. QED
    BY <1>4, <1>6, <1>7, <1>9 DEF BInv

LEMMA RestartKeeps ==
  ASSUME BInv, RestartIngest
  PROVE  BInv'
  <1>1. /\ taken' = {} /\ runner' \in {"resumed", "none"} /\ resumed' = TRUE /\ registry' = FALSE
        /\ worker' = [b \in Chunks |-> "none"] /\ outcome' = [b \in Chunks |-> "none"]
        /\ UNCHANGED <<chunk, planned>>
    BY DEF RestartIngest
  <1>2. /\ cancel' \in [Cancels -> {"none", "read", "write", "over"}]
        /\ job' \in {job, "failed"}
        /\ troubles' \in Nat
    BY DEF RestartIngest, Trouble, BInv, BackfillTypeOK
  <1>3. BackfillTypeOK'
    BY <1>1, <1>2 DEF BInv, BackfillTypeOK
  <1>4. OverInv' /\ RecordInv' /\ VerdictInv' /\ ReportInv'
    BY <1>1 DEF OverInv, RecordInv, VerdictInv, ReportInv
  <1>5. QED
    BY <1>3, <1>4 DEF BInv

LEMMA NextBackfill == BInv /\ [BackfillNext]_backfillVars => BInv'
  <1>1. SUFFICES ASSUME BInv, [BackfillNext]_backfillVars
                 PROVE  BInv'
    OBVIOUS
  <1>2. CASE TriggerBackfill \/ StartRun \/ StartResumed \/ NothingPlanned
    BY <1>1, <1>2, JobSteps
  <1>3. CASE RunChunks
    BY <1>1, <1>3, ChunksStart
  <1>4. ASSUME NEW b \in Chunks, MarkRunning(b) \/ Record(b) \/ \E x \in Outcomes : Fetch(b, x)
        PROVE  BInv'
    BY <1>1, <1>4, WorkersKeep
  <1>5. ASSUME NEW b \in Chunks, WorkerFails(b)
        PROVE  BInv'
    BY <1>1, <1>5, WorkerFailsKeeps
  <1>6. CASE Finalize
    BY <1>1, <1>6, FinalizeKeeps
  <1>7. CASE WriteVerdict
    BY <1>1, <1>7, VerdictKeeps
  <1>8. CASE RunnerFails
    BY <1>1, <1>8, RunnerFailsKeeps
  <1>9. ASSUME NEW q \in Cancels, CancelRead(q) \/ CancelRegister(q) \/ CancelWrite(q)
        PROVE  BInv'
    BY <1>1, <1>9, CancelsKeep
  <1>10. CASE RestartIngest
    BY <1>1, <1>10, RestartKeeps
  <1>11. CASE UNCHANGED backfillVars
    BY <1>1, <1>11
       DEF backfillVars, jobRows, runnerVars, BInv, BackfillTypeOK, OverInv, RecordInv,
           VerdictInv, ReportInv
  <1>12. QED
    BY <1>1, <1>2, <1>3, <1>4, <1>5, <1>6, <1>7, <1>8, <1>9, <1>10, <1>11 DEF BackfillNext

\* The strengthened invariant holds in every behaviour of a job.
THEOREM BackfillInductive == BackfillSpec => []BInv
  BY InitBackfill, NextBackfill, PTL DEF BackfillSpec

\* The rows of a job, its runner and its workers keep their types.
THEOREM BackfillTypeCorrect == BackfillSpec => []BackfillTypeOK
  <1>1. BInv => BackfillTypeOK
    BY DEF BInv
  <1>2. QED
    BY <1>1, BackfillInductive, PTL

\* A first run finds no chunks; a runner that finds some follows a restart.
FreshInv ==
  /\ job = "none" => runner = "none" /\ taken = {} /\ \A b \in Chunks : chunk[b] = "none"
  /\ runner = "resumed" => resumed
  /\ ~resumed /\ runner \in {"created", "plan"} =>
       taken = {} /\ \A b \in Chunks : chunk[b] = "none"

\* A chunk that need not be handed on: fetched, or what an earlier life made of it.
Left(b) == chunk[b] = "clean" \/ (resumed /\ chunk[b] \in {"running", "lacking"})

\* While chunks run and once they are reported, the others are of that kind.
LeftInv ==
  runner \in {"chunks", "completed"} \/ job = "completed" =>
    \A b \in planned \ taken : Left(b)

LEMMA FreshStep ==
  ASSUME BInv, FreshInv, [BackfillNext]_backfillVars
  PROVE  FreshInv'
  <1>. USE DEF FreshInv
  <1>1. CASE TriggerBackfill \/ StartRun \/ StartResumed \/ NothingPlanned
    BY <1>1 DEF TriggerBackfill, StartRun, StartResumed, NothingPlanned
  <1>2. CASE RunChunks
    BY <1>2 DEF RunChunks
  <1>3. ASSUME NEW b \in Chunks,
               MarkRunning(b) \/ Record(b) \/ WorkerFails(b) \/ \E x \in Outcomes : Fetch(b, x)
        PROVE  FreshInv'
    <2>1. b \in taken
      BY <1>3 DEF MarkRunning, Record, WorkerFails, Fetch, BInv, BackfillTypeOK
    <2>2. /\ UNCHANGED <<job, taken, resumed>>
          /\ runner' = runner \/ runner' \in {"none", "failed"}
      BY <1>3 DEF MarkRunning, Record, WorkerFails, Fetch, Excepted, jobRows
    <2>3. QED
      BY <2>1, <2>2
  <1>4. CASE Finalize \/ WriteVerdict \/ RunnerFails
    <2>1. UNCHANGED <<chunk, taken, resumed>> /\ runner # "none"
      BY <1>4 DEF Finalize, Gathered, WriteVerdict, RunnerFails, jobRows
    <2>2. /\ runner' \in {"none", "completed", "partial", "failed"}
          /\ job' = "none" => job = "none"
      BY <1>4 DEF Finalize, Verdict, WriteVerdict, RunnerFails, Excepted, jobRows
    <2>3. QED
      BY <2>1, <2>2
  <1>5. ASSUME NEW q \in Cancels, CancelRead(q) \/ CancelRegister(q) \/ CancelWrite(q)
        PROVE  FreshInv'
    <2>1. UNCHANGED <<chunk, taken, resumed, runner>> /\ job' \in {job, "canceled"}
      BY <1>5 DEF CancelRead, CancelRegister, CancelWrite, jobRows, runnerVars
    <2>2. QED
      BY <2>1
  <1>6. CASE RestartIngest
    BY <1>6 DEF RestartIngest
  <1>7. CASE UNCHANGED backfillVars
    BY <1>7 DEF backfillVars, jobRows, runnerVars
  <1>8. QED
    BY <1>1, <1>2, <1>3, <1>4, <1>5, <1>6, <1>7 DEF BackfillNext

\* A first run hands on every chunk; a resumed one all but those that are left.
LEMMA HandedOn ==
  ASSUME BInv, FreshInv, RunChunks
  PROVE  \A b \in planned' \ taken' : Left(b)'
  <1>1. SUFFICES ASSUME NEW b \in planned \ Incomplete
                 PROVE  Left(b)'
    BY DEF RunChunks
  <1>2. b \in Chunks /\ chunk[b] \notin {"none", "pending", "failed"}
    BY <1>1 DEF Incomplete, BInv, BackfillTypeOK
  <1>3. chunk'[b] = chunk[b] /\ resumed' = resumed
    BY <1>2 DEF RunChunks
  <1>4. chunk[b] \in {"running", "clean", "lacking"}
    BY <1>2 DEF BInv, BackfillTypeOK, Outcomes
  <1>5. resumed
    BY <1>2 DEF FreshInv, RunChunks, BInv, BackfillTypeOK
  <1>6. QED
    BY <1>3, <1>4, <1>5 DEF Left

LEMMA LeftStep ==
  ASSUME BInv, FreshInv, LeftInv, [BackfillNext]_backfillVars
  PROVE  LeftInv'
  <1>1. ASSUME UNCHANGED <<chunk, planned, taken, resumed>>,
               runner' \in {"chunks", "completed"} \/ job' = "completed" =>
                 runner \in {"chunks", "completed"} \/ job = "completed" \/ planned = {}
        PROVE  LeftInv'
    BY <1>1 DEF LeftInv, Left
  <1>2. CASE TriggerBackfill \/ StartRun \/ StartResumed \/ NothingPlanned
    BY <1>1, <1>2 DEF TriggerBackfill, StartRun, StartResumed, NothingPlanned
  <1>3. CASE RunChunks
    BY <1>3, HandedOn DEF LeftInv
  <1>4. ASSUME NEW b \in Chunks,
               MarkRunning(b) \/ Record(b) \/ WorkerFails(b) \/ \E x \in Outcomes : Fetch(b, x)
        PROVE  LeftInv'
    <2>1. b \in taken /\ chunk \in [Chunks -> {"none", "pending", "running"} \cup Outcomes]
      BY <1>4 DEF MarkRunning, Record, WorkerFails, Fetch, BInv, BackfillTypeOK
    <2>2. /\ UNCHANGED <<job, planned, taken, resumed>>
          /\ runner' = runner \/ runner' \in {"none", "failed"}
      BY <1>4 DEF MarkRunning, Record, WorkerFails, Fetch, Excepted, jobRows
    <2>3. \A d \in Chunks \ taken : chunk'[d] = chunk[d]
      BY <1>4, <2>1 DEF MarkRunning, Record, WorkerFails, Fetch, jobRows
    <2>4. planned \subseteq Chunks
      BY DEF BInv, BackfillTypeOK
    <2>5. QED
      BY <2>2, <2>3, <2>4 DEF LeftInv, Left
  <1>5. CASE Finalize
    <2>1. UNCHANGED <<job, chunk, planned, taken, resumed>> /\ runner = "chunks"
      BY <1>5 DEF Finalize, Gathered, jobRows
    <2>2. QED
      BY <1>1, <2>1
  <1>6. CASE WriteVerdict
    BY <1>1, <1>6 DEF WriteVerdict
  <1>7. CASE RunnerFails
    <2>1. UNCHANGED <<job, chunk, planned, taken, resumed>> /\ runner' \in {"none", "failed"}
      BY <1>7 DEF RunnerFails, Excepted, jobRows
    <2>2. QED
      BY <1>1, <2>1
  <1>8. ASSUME NEW q \in Cancels, CancelRead(q) \/ CancelRegister(q) \/ CancelWrite(q)
        PROVE  LeftInv'
    <2>1. UNCHANGED <<chunk, planned, taken, resumed, runner>> /\ job' \in {job, "canceled"}
      BY <1>8 DEF CancelRead, CancelRegister, CancelWrite, jobRows, runnerVars
    <2>2. QED
      BY <1>1, <2>1
  <1>9. CASE RestartIngest
    <2>1. /\ UNCHANGED <<chunk, planned>> /\ resumed' /\ runner' \in {"resumed", "none"}
          /\ job' \in {job, "failed"}
      BY <1>9 DEF RestartIngest
    <2>2. job = "completed" => \A b \in planned : Left(b)'
      BY <2>1 DEF BInv, ReportInv, LeftInv, Left
    <2>3. QED
      BY <2>1, <2>2 DEF LeftInv
  <1>10. CASE UNCHANGED backfillVars
    BY <1>1, <1>10 DEF backfillVars, jobRows, runnerVars
  <1>11. QED
    BY <1>2, <1>3, <1>4, <1>5, <1>6, <1>7, <1>8, <1>9, <1>10 DEF BackfillNext

\* Cancellations, failures and restarts at any point: a job reports COMPLETED
\* only if every planned chunk is clean, but for those an earlier life of the
\* process left running or lacking.
THEOREM CompletedIsFetched == BackfillSpec => []CompletedMeansFetched
  <1>1. BackfillInit => FreshInv /\ LeftInv
    BY DEF BackfillInit, FreshInv, LeftInv
  <1>2. BInv /\ FreshInv /\ LeftInv /\ [BackfillNext]_backfillVars => FreshInv' /\ LeftInv'
    BY FreshStep, LeftStep
  <1>3. BInv /\ LeftInv => CompletedMeansFetched
    BY DEF BInv, ReportInv, LeftInv, Left, CompletedMeansFetched
  <1>4. QED
    BY <1>1, <1>2, <1>3, BackfillInductive, PTL DEF BackfillSpec

-----------------------------------------------------------------------------
(* Administrators. *)

\* The rows keep their types.
THEOREM AdminTypeCorrect == AdminSpec => []AdminTypeOK
  <1>1. AdminInit => AdminTypeOK
    BY DEF AdminInit, AdminTypeOK
  <1>2. AdminTypeOK /\ [AdminNext]_adminVars => AdminTypeOK'
    <2>1. SUFFICES ASSUME AdminTypeOK, [AdminNext]_adminVars
                   PROVE  AdminTypeOK'
      OBVIOUS
    <2>2. ASSUME NEW u \in Updates, Start(u)
          PROVE  AdminTypeOK'
      <3>1. saw[u] \subseteq Users /\ InOffice \subseteq Users
        BY <2>1 DEF AdminTypeOK, InOffice
      <3>2. QED
        BY <2>1, <2>2, <3>1 DEF AdminTypeOK, Start
    <2>3. ASSUME NEW u \in Updates, Written(u)
          PROVE  AdminTypeOK'
      <3>1. admin' \subseteq Users /\ enabled' \subseteq Users
        BY <2>1, <2>3 DEF AdminTypeOK, Written, SetUserRoles, SetUserActive
      <3>2. QED
        BY <2>1, <2>3, <3>1 DEF AdminTypeOK, Written
    <2>4. ASSUME NEW u \in Updates, Refused(u)
          PROVE  AdminTypeOK'
      BY <2>1, <2>4 DEF AdminTypeOK, Refused
    <2>5. CASE UNCHANGED adminVars
      BY <2>1, <2>5 DEF AdminTypeOK, adminVars
    <2>6. QED
      BY <2>1, <2>2, <2>3, <2>4, <2>5 DEF AdminNext
  <1>3. QED
    BY <1>1, <1>2, PTL DEF AdminSpec

\* Calls that run at the same time have met; whom a running call saw in office
\* and who is not any more was removed by a call it met.
Removed(v, w) == stage[v] = "done" /\ change[v] \in Removals /\ target[v] = w

MetInv ==
  /\ \A u, v \in Updates : stage[u] = "running" /\ stage[v] = "running" /\ u # v => {u, v} \in met
  /\ \A u \in Updates : stage[u] = "running" =>
       \A w \in saw[u] \ InOffice : \E v \in Updates : {u, v} \in met /\ Removed(v, w)

AdminsInv == AdminTypeOK /\ MetInv /\ EmptiedByTwo

LEMMA StartMeets ==
  ASSUME AdminsInv, NEW u \in Updates, Start(u)
  PROVE  MetInv' /\ EmptiedByTwo'
  <1>1. /\ \A v \in Updates \ {u} : stage'[v] = stage[v] /\ saw'[v] = saw[v]
        /\ stage[u] = "idle" /\ stage'[u] = "running" /\ saw'[u] = InOffice
        /\ UNCHANGED <<change, target>> /\ InOffice' = InOffice
    BY DEF Start, AdminsInv, AdminTypeOK, InOffice
  <1>2. /\ \A v \in Updates : stage[v] = "running" => {u, v} \in met'
        /\ \A m \in met : m \in met'
    BY DEF Start
  <1>3. \A v, w : v \in Updates /\ Removed(v, w) => Removed(v, w)'
    BY <1>1 DEF Removed
  <1>4. ASSUME NEW x \in Updates, NEW y \in Updates, stage'[x] = "running", stage'[y] = "running", x # y
        PROVE  {x, y} \in met'
    <2>1. CASE x = u
      BY <1>1, <1>2, <1>4, <2>1
    <2>2. CASE y = u
      <3>1. {u, x} \in met'
        BY <1>1, <1>2, <1>4, <2>2
      <3>2. {u, x} = {x, y}
        BY <2>2
      <3>3. QED
        BY <3>1, <3>2
    <2>3. CASE x # u /\ y # u
      BY <1>1, <1>2, <1>4, <2>3 DEF AdminsInv, MetInv
    <2>4. QED
      BY <2>1, <2>2, <2>3
  <1>5. ASSUME NEW x \in Updates, stage'[x] = "running", NEW w \in saw'[x] \ InOffice'
        PROVE  \E v \in Updates : {x, v} \in met' /\ Removed(v, w)'
    <2>1. x # u /\ stage[x] = "running" /\ w \in saw[x] \ InOffice
      BY <1>1, <1>5
    <2>2. PICK v \in Updates : {x, v} \in met /\ Removed(v, w)
      BY <2>1 DEF AdminsInv, MetInv
    <2>3. QED
      BY <1>2, <1>3, <2>2
  <1>6. MetInv'
    BY <1>4, <1>5 DEF MetInv
  <1>7. EmptiedByTwo'
    <2>1. SUFFICES ASSUME InOffice = {} PROVE EmptiedByTwo'
      BY <1>1 DEF EmptiedByTwo
    <2>2. PICK x, y \in Updates :
            /\ {x, y} \in met /\ target[x] # target[y]
            /\ \A w \in {x, y} : stage[w] = "done" /\ change[w] \in Removals
      BY <2>1 DEF AdminsInv, EmptiedByTwo
    <2>3. \A w \in {x, y} : stage'[w] = "done" /\ change'[w] \in Removals
      BY <1>1, <2>2
    <2>4. QED
      BY <1>1, <1>2, <2>2, <2>3 DEF EmptiedByTwo
  <1>8. QED
    BY <1>6, <1>7

\* A call that ends takes at most its target out of office.
LEMMA EndRemoves ==
  ASSUME AdminTypeOK, NEW u \in Updates, Written(u) \/ Refused(u)
  PROVE  /\ \A v \in Updates \ {u} : stage'[v] = stage[v] /\ saw'[v] = saw[v]
         /\ stage[u] = "running" /\ stage'[u] \in {"done", "refused"}
         /\ UNCHANGED <<change, target, met>>
         /\ \A w \in InOffice \ InOffice' :
              w = target[u] /\ change[u] \in Removals /\ stage'[u] = "done"
  <1>1. CASE Refused(u)
    BY <1>1 DEF Refused, AdminTypeOK, InOffice
  <1>2. CASE Written(u)
    <2>1. /\ \A v \in Updates \ {u} : stage'[v] = stage[v] /\ saw'[v] = saw[v]
          /\ stage[u] = "running" /\ stage'[u] = "done"
          /\ UNCHANGED <<change, target, met>>
      BY <1>2 DEF Written, AdminTypeOK
    <2>2. ASSUME NEW w \in InOffice \ InOffice'
          PROVE  w = target[u] /\ change[u] \in Removals
      BY <1>2, <2>2 DEF Written, SetUserRoles, SetUserActive, InOffice, AdminTypeOK, Changes, Removals
    <2>3. QED
      BY <2>1, <2>2
  <1>3. QED
    BY <1>1, <1>2

\* The guard of the call that takes the last one out of office counted another,
\* whom a call it met has removed since.
LEMMA LastRemoved ==
  ASSUME AdminsInv, NEW u \in Updates, Written(u), InOffice # {}, InOffice' = {}
  PROVE  \E v \in Updates : /\ {u, v} \in met /\ target[u] # target[v]
                            /\ change[u] \in Removals /\ stage[v] = "done" /\ change[v] \in Removals
  <1>1. /\ InOffice \subseteq {target[u]} /\ target[u] \in admin /\ change[u] \in Removals
        /\ stage[u] = "running"
    BY EndRemoves DEF AdminsInv, InOffice
  <1>2. Others(u) # {}
    BY <1>1 DEF Written, Guard, Removals
  <1>3. PICK w \in saw[u] : w # target[u]
    BY <1>2 DEF Others
  <1>4. w \in saw[u] \ InOffice
    BY <1>1, <1>3
  <1>5. PICK v \in Updates : {u, v} \in met /\ Removed(v, w)
    BY <1>1, <1>4 DEF AdminsInv, MetInv
  <1>6. QED
    BY <1>1, <1>3, <1>5 DEF Removed

LEMMA EndMeets ==
  ASSUME AdminsInv, NEW u \in Updates, Written(u) \/ Refused(u)
  PROVE  MetInv' /\ EmptiedByTwo'
  <1>1. /\ \A v \in Updates \ {u} : stage'[v] = stage[v] /\ saw'[v] = saw[v]
        /\ stage[u] = "running" /\ stage'[u] \in {"done", "refused"}
        /\ UNCHANGED <<change, target, met>>
        /\ \A w \in InOffice \ InOffice' :
             w = target[u] /\ change[u] \in Removals /\ stage'[u] = "done"
    BY EndRemoves DEF AdminsInv
  <1>2. \A v, w : v \in Updates /\ Removed(v, w) => Removed(v, w)'
    BY <1>1 DEF Removed
  <1>3. \A x, y \in Updates :
          stage'[x] = "running" /\ stage'[y] = "running" /\ x # y => {x, y} \in met'
    BY <1>1 DEF AdminsInv, MetInv
  <1>4. ASSUME NEW x \in Updates, stage'[x] = "running", NEW w \in saw'[x] \ InOffice'
        PROVE  \E v \in Updates : {x, v} \in met' /\ Removed(v, w)'
    <2>1. x # u /\ stage[x] = "running" /\ w \in saw[x]
      BY <1>1, <1>4
    <2>2. CASE w \in InOffice
      <3>1. {x, u} \in met
        BY <1>1, <2>1 DEF AdminsInv, MetInv
      <3>2. Removed(u, w)'
        BY <1>1, <1>4, <2>2 DEF Removed
      <3>3. QED
        BY <1>1, <3>1, <3>2
    <2>3. CASE w \notin InOffice
      <3>1. PICK v \in Updates : {x, v} \in met /\ Removed(v, w)
        BY <2>1, <2>3 DEF AdminsInv, MetInv
      <3>2. QED
        BY <1>1, <1>2, <3>1
    <2>4. QED
      BY <2>2, <2>3
  <1>5. MetInv'
    BY <1>3, <1>4 DEF MetInv
  <1>6. EmptiedByTwo'
    <2>1. SUFFICES ASSUME InOffice' = {} PROVE EmptiedByTwo'
      BY DEF EmptiedByTwo
    <2>2. CASE InOffice = {}
      <3>1. PICK x, y \in Updates :
              /\ {x, y} \in met /\ target[x] # target[y]
              /\ \A w \in {x, y} : stage[w] = "done" /\ change[w] \in Removals
        BY <2>2 DEF AdminsInv, EmptiedByTwo
      <3>2. \A w \in {x, y} : stage'[w] = "done" /\ change'[w] \in Removals
        BY <1>1, <3>1
      <3>3. QED
        BY <1>1, <3>1, <3>2 DEF EmptiedByTwo
    <2>3. CASE InOffice # {}
      <3>1. Written(u) /\ stage'[u] = "done"
        BY <1>1, <2>1, <2>3 DEF Refused, InOffice
      <3>2. PICK v \in Updates :
              /\ {u, v} \in met /\ target[u] # target[v]
              /\ change[u] \in Removals /\ stage[v] = "done" /\ change[v] \in Removals
        BY <2>1, <2>3, <3>1, LastRemoved
      <3>3. \A w \in {u, v} : stage'[w] = "done" /\ change'[w] \in Removals
        BY <1>1, <3>1, <3>2
      <3>4. QED
        BY <1>1, <3>2, <3>3 DEF EmptiedByTwo
    <2>4. QED
      BY <2>2, <2>3
  <1>7. QED
    BY <1>5, <1>6

\* However many updates run at once: no administrator is left only if two that
\* ran at the same time removed two different ones.
THEOREM LastTwoOverlapped == AdminSpec => []EmptiedByTwo
  <1>1. AdminInit => MetInv /\ EmptiedByTwo
    BY DEF AdminInit, MetInv, EmptiedByTwo
  <1>2. AdminTypeOK /\ MetInv /\ EmptiedByTwo /\ [AdminNext]_adminVars => MetInv' /\ EmptiedByTwo'
    <2>1. SUFFICES ASSUME AdminsInv, [AdminNext]_adminVars PROVE MetInv' /\ EmptiedByTwo'
      BY DEF AdminsInv
    <2>2. CASE UNCHANGED adminVars
      <3>1. UNCHANGED <<admin, enabled, change, target, stage, saw, met>>
        BY <2>2 DEF adminVars
      <3>2. MetInv /\ EmptiedByTwo
        BY <2>1 DEF AdminsInv
      <3>3. MetInv' = MetInv
        BY <3>1 DEF MetInv, Removed, InOffice
      <3>4. EmptiedByTwo' = EmptiedByTwo
        BY <3>1 DEF EmptiedByTwo, InOffice
      <3>5. QED
        BY <3>2, <3>3, <3>4
    <2>3. QED
      BY <2>1, <2>2, StartMeets, EndMeets DEF AdminNext
  <1>3. QED
    BY <1>1, <1>2, AdminTypeCorrect, PTL DEF AdminSpec

-----------------------------------------------------------------------------
(* Sessions.  The rows and the calls keep their types. *)

Places == {"idle", "connect", "claim", "insert", "commit", "issue", "update",
           "revoke", "locks", "ok", "failed"}

RowTypes ==
  /\ tok \in [Tokens -> {"none", "live", "revoked"}]
  /\ root \in [Tokens -> 0..MaxTokens]
  /\ app \in [Tokens -> Codes \cup {Nil}]
  /\ code \in [Codes -> {"none", "issued", "consumed"}]
  /\ active \in BOOLEAN
  /\ ended \subseteq Tokens

CallTypes ==
  /\ op \in [Calls -> Operations]
  /\ at \in [Calls -> Places]
  /\ held \in [Calls -> 0..MaxTokens \cup Codes]
  /\ made \in [Calls -> 0..MaxTokens]
  /\ rows \in [Calls -> SUBSET Tokens]
  /\ failed \in 0..MaxFaults

\* The chain of an inserted token leads back to one that starts a session.
ChainInv ==
  /\ tok[1] # "none"
  /\ \A t \in Tokens : tok[t] = "none" => root[t] = 0 /\ app[t] = Nil
  /\ \A t \in Tokens :
       tok[t] # "none" =>
         root[t] \in 1..t /\ tok[root[t]] # "none" /\ root[root[t]] = root[t]

Claiming(c) == at[c] \in {"connect", "claim", "insert", "commit"}

Claimed(c) == at[c] \in {"insert", "commit"}

Presents(c) ==
  \/ op[c] = "refresh" /\ held[c] \in Tokens /\ tok[held[c]] # "none"
  \/ op[c] = "exchange" /\ held[c] \in Codes

\* Operations that answer with a token.
Makers == {"refresh", "exchange", "login"}

\* What a call has claimed stays as it claimed it until it commits; what it is
\* about to insert comes after every token of the session it extends.
CallOK(c) ==
  /\ Claiming(c) => Presents(c)
  /\ Claimed(c) /\ op[c] = "refresh" => tok[held[c]] = "live"
  /\ Claimed(c) /\ op[c] = "exchange" => code[held[c]] = "issued"
  /\ at[c] = "commit" => made[c] \in Tokens /\ tok[made[c]] = "none"
  /\ at[c] = "commit" /\ op[c] = "refresh" =>
       \A t \in Tokens : root[t] = root[held[c]] => t < made[c]
  /\ made[c] # 0 => at[c] \in {"commit", "ok"}
  /\ at[c] = "ok" /\ made[c] # 0 => tok[made[c]] # "none"
  /\ at[c] = "ok" /\ op[c] \in Makers => made[c] # 0
  /\ at[c] = "issue" => op[c] = "login"
  /\ at[c] \in {"update", "revoke", "locks"} => op[c] \notin Makers

CallInv == \A c \in Calls : CallOK(c)

\* Two calls have claimed two rows, and insert two tokens.
Distinct(c, d) ==
  /\ Claimed(c) /\ Claimed(d) => held[c] # held[d]
  /\ made[c] # 0 => made[c] # made[d]

PairInv == \A c, d \in Calls : c # d => Distinct(c, d)

\* The live token of a session is its last one, until a revocation took it.
LiveInv ==
  /\ \A t, u \in Tokens : tok[t] = "live" /\ root[u] = root[t] => u <= t
  /\ \A s \in Tokens :
       root[s] = s /\ s \notin ended => \E t \in Tokens : root[t] = s /\ tok[t] = "live"
  /\ \A t \in Tokens : tok[t] = "live" => root[t] \notin ended
  /\ \A s \in ended : root[s] = s

\* A code is consumed with the session that came of it, and not twice.
CodeInv ==
  /\ \A s \in Tokens : root[s] = s /\ app[s] # Nil => code[app[s]] = "consumed"
  /\ \A r, s \in Tokens :
       root[r] = r /\ root[s] = s /\ app[r] = app[s] /\ app[s] # Nil => r = s
  /\ \A k \in Codes :
       code[k] = "consumed" => \E s \in Tokens : root[s] = s /\ app[s] = k

TableInv == RowTypes /\ ChainInv /\ LiveInv /\ CodeInv

IdentityInv == TableInv /\ CallTypes /\ CallInv /\ PairInv

LEMMA InitIdentity == IdentityInit => IdentityInv
  <1>. SUFFICES ASSUME IdentityInit PROVE IdentityInv
    OBVIOUS
  <1>1. 1 \in Tokens /\ 0 \in 0..MaxTokens /\ 1 \in 0..MaxTokens /\ 0 \in 0..MaxFaults
    BY IdentityAssumption DEF Tokens
  <1>2. RowTypes
    BY <1>1 DEF IdentityInit, RowTypes
  <1>3. CallTypes
    BY <1>1 DEF IdentityInit, CallTypes, Operations, Places
  <1>4. ChainInv
    BY <1>1 DEF IdentityInit, ChainInv, Tokens
  <1>5. LiveInv
    BY <1>1 DEF IdentityInit, LiveInv, Tokens
  <1>6. CodeInv
    BY <1>1 DEF IdentityInit, CodeInv, Tokens
  <1>7. CallInv
    BY <1>1 DEF IdentityInit, CallInv, CallOK, Claiming, Claimed, Makers
  <1>8. PairInv
    BY <1>1 DEF IdentityInit, PairInv, Distinct, Claimed
  <1>9. QED
    BY <1>2, <1>3, <1>4, <1>5, <1>6, <1>7, <1>8 DEF IdentityInv, TableInv

\* Tokens are numbered as they are inserted: the next one is after the newest.
LEMMA NewestToken ==
  ASSUME IdentityInv
  PROVE  /\ Inserted \subseteq Tokens /\ NextToken \in Nat \ {0}
         /\ NextToken - 1 \in Inserted
         /\ \A u \in Inserted : u < NextToken
  <1>. DEFINE Behind == {MaxTokens - t : t \in Inserted}
              Earlier == {ss \in Nat \X Nat : ss[1] < ss[2]}
  <1>1. Inserted \subseteq Tokens /\ 1 \in Inserted
    BY IdentityAssumption
    DEF IdentityInv, TableInv, CallTypes, ChainInv, CallInv, CallOK, Inserted, Tokens
  <1>2. Behind \subseteq Nat /\ Behind # {}
    BY <1>1, IdentityAssumption DEF Tokens
  <1>3. IsWellFoundedOn(Earlier, Nat)
    BY NatLessThanWellFounded DEF OpToRel
  <1>4. PICK x \in Behind : \A y \in Behind : ~ (<<y, x>> \in Earlier)
    <2>. HIDE DEF Behind, Earlier
    <2>. QED
      BY <1>2, <1>3, WFMin
  <1>5. PICK t \in Inserted : x = MaxTokens - t
    BY <1>4
  <1>6. ASSUME NEW u \in Inserted
        PROVE  u <= t
    <2>1. MaxTokens - u \in Behind /\ MaxTokens - u \in Nat /\ x \in Nat
      BY <1>1, <1>2, <1>4, IdentityAssumption DEF Tokens
    <2>2. ~ (MaxTokens - u < x)
      BY <1>4, <2>1
    <2>3. QED
      BY <1>1, <1>5, <2>2, IdentityAssumption DEF Tokens
  <1>. DEFINE Newest == CHOOSE v \in Inserted : \A u \in Inserted : u <= v
  <1>7. Newest \in Inserted /\ \A u \in Inserted : u <= Newest
    BY <1>5, <1>6
  <1>8. NextToken = 1 + Newest
    BY DEF NextToken
  <1>. HIDE DEF Newest
  <1>9. ASSUME NEW u \in Inserted
        PROVE  u < NextToken
    <2>1. u \in Int /\ Newest \in Int /\ u <= Newest
      BY <1>1, <1>7 DEF Tokens
    <2>. HIDE DEF NextToken, Inserted
    <2>2. QED
      BY <2>1, <1>8
  <1>10. NextToken \in Nat \ {0} /\ NextToken - 1 = Newest
    <2>1. Newest \in Nat
      BY <1>1, <1>7 DEF Tokens
    <2>. HIDE DEF NextToken
    <2>2. QED
      BY <2>1, <1>8
  <1>11. QED
    BY <1>1, <1>7, <1>9, <1>10

\* The token a statement inserts is new, and later than every other one.
LEMMA NewToken ==
  ASSUME IdentityInv, NextToken \in Tokens
  PROVE  /\ tok[NextToken] = "none"
         /\ \A t \in Tokens : tok[t] # "none" => t < NextToken
         /\ \A d \in Calls : made[d] # NextToken
  <1>1. Inserted \subseteq Tokens /\ \A u \in Inserted : u < NextToken
    BY NewestToken
  <1>2. \A t \in Tokens : tok[t] # "none" => t \in Inserted
    BY DEF Inserted
  <1>3. NextToken \notin Inserted
    BY <1>1 DEF Tokens
  <1>4. ASSUME NEW d \in Calls
        PROVE  made[d] # NextToken
    <2>1. made[d] # 0 => made[d] \in Inserted
      BY <1>2 DEF IdentityInv, CallTypes, CallInv, CallOK, Inserted, Tokens
    <2>2. QED
      BY <1>3, <2>1 DEF Tokens
  <1>5. QED
    BY <1>1, <1>2, <1>3, <1>4

\* A step of one call leaves the others where they are.
Frame(c) ==
  \A d \in Calls \ {c} :
    op'[d] = op[d] /\ at'[d] = at[d] /\ held'[d] = held[d] /\ made'[d] = made[d]

\* Inserted tokens stay inserted and keep their session.
Grows ==
  \A t \in Tokens : tok[t] # "none" => tok'[t] # "none" /\ root'[t] = root[t]

Apart(c) == \A d \in Calls \ {c} : Distinct(c, d)

LEMMA SameTables ==
  ASSUME TableInv, active' \in BOOLEAN, UNCHANGED <<tok, root, app, code, ended>>
  PROVE  TableInv'
  BY DEF TableInv, RowTypes, ChainInv, LiveInv, CodeInv

\* Another call keeps its promise if what it has claimed is not touched.
LEMMA OthersKept ==
  ASSUME NEW c \in Calls, Frame(c), Grows, NEW d \in Calls \ {c}, CallOK(d),
         Claimed(d) /\ op[d] = "refresh" => tok'[held[d]] = "live",
         Claimed(d) /\ op[d] = "exchange" => code'[held[d]] = "issued",
         at[d] = "commit" => tok'[made[d]] = "none",
         at[d] = "commit" /\ op[d] = "refresh" =>
           \A t \in Tokens : root'[t] = root'[held[d]] => t < made[d],
         made[d] \in 0..MaxTokens
  PROVE  CallOK(d)'
  <1>1. op'[d] = op[d] /\ at'[d] = at[d] /\ held'[d] = held[d] /\ made'[d] = made[d]
    BY DEF Frame
  <1>2. (Claiming(d) => Presents(d))'
    BY <1>1 DEF CallOK, Claiming, Presents, Grows
  <1>3. (made[d] # 0 => made[d] \in Tokens) /\ (at[d] = "commit" => made[d] \in Tokens)
    BY DEF Tokens, CallOK
  <1>4. (at[d] = "ok" /\ made[d] # 0 => tok[made[d]] # "none")'
    BY <1>1, <1>3 DEF CallOK, Grows
  <1>5. QED
    BY <1>1, <1>2, <1>3, <1>4 DEF CallOK, Claimed

LEMMA ApartKept ==
  ASSUME PairInv, NEW c \in Calls, Frame(c),
         Claimed(c)' => Claimed(c) /\ held'[c] = held[c],
         made'[c] \in {0, made[c]}
  PROVE  Apart(c)'
  BY DEF PairInv, Apart, Distinct, Frame, Claimed

LEMMA PairsFromOne ==
  ASSUME PairInv, NEW c \in Calls, Frame(c), Apart(c)'
  PROVE  PairInv'
  <1>1. SUFFICES ASSUME NEW d \in Calls, NEW e \in Calls, d # e
                 PROVE  Distinct(d, e)'
    BY DEF PairInv
  <1>2. CASE d = c
    BY <1>1, <1>2 DEF Apart
  <1>3. CASE e = c
    BY <1>1, <1>3 DEF Apart, Distinct
  <1>4. CASE d # c /\ e # c
    BY <1>1, <1>4 DEF PairInv, Distinct, Frame, Claimed
  <1>5. QED
    BY <1>2, <1>3, <1>4

\* A step of one call that writes no row.
LEMMA QuietStep ==
  ASSUME IdentityInv, NEW c \in Calls, Frame(c), active' \in BOOLEAN,
         UNCHANGED <<tok, root, app, code, ended>>,
         CallTypes', CallOK(c)', Apart(c)'
  PROVE  IdentityInv'
  <1>1. TableInv'
    BY SameTables DEF IdentityInv
  <1>2. Grows
    BY DEF Grows
  <1>3. ASSUME NEW d \in Calls \ {c}
        PROVE  CallOK(d)'
    <2>1. CallOK(d) /\ made[d] \in 0..MaxTokens
      BY DEF IdentityInv, CallInv, CallTypes
    <2>2. /\ Claimed(d) /\ op[d] = "refresh" => tok'[held[d]] = "live"
          /\ Claimed(d) /\ op[d] = "exchange" => code'[held[d]] = "issued"
          /\ at[d] = "commit" => tok'[made[d]] = "none"
          /\ at[d] = "commit" /\ op[d] = "refresh" =>
               \A t \in Tokens : root'[t] = root'[held[d]] => t < made[d]
      BY <2>1 DEF CallOK
    <2>3. QED
      BY <1>2, <2>1, <2>2, OthersKept
  <1>4. CallInv'
    BY <1>3 DEF CallInv
  <1>5. PairInv'
    BY PairsFromOne DEF IdentityInv
  <1>6. QED
    BY <1>1, <1>4, <1>5 DEF IdentityInv

-----------------------------------------------------------------------------
(* The steps of a call. *)

\* What a caller may ask, and where the call starts.
Fits(operation, presented, where) ==
  /\ operation \in Operations
  /\ presented \in 0..MaxTokens \cup Codes
  /\ \/ where = "connect" /\ operation = "refresh"
          /\ presented \in Tokens /\ tok[presented] # "none"
     \/ where = "connect" /\ operation = "exchange" /\ presented \in Codes
     \/ where = "issue" /\ operation = "login"
     \/ where \in {"update", "revoke"} /\ operation \notin Makers
     \/ where = "failed"

LEMMA BeginKeeps ==
  ASSUME IdentityInv, NEW c \in Calls, NEW operation, NEW presented, NEW where,
         Begin(c, operation, presented, where), Fits(operation, presented, where)
  PROVE  IdentityInv'
  <1>1. /\ op' = [op EXCEPT ![c] = operation] /\ held' = [held EXCEPT ![c] = presented]
        /\ at' = [at EXCEPT ![c] = where] /\ at[c] = "idle"
        /\ UNCHANGED <<tables, made, rows, failed>>
    BY DEF Begin
  <1>2. CallTypes'
    BY <1>1 DEF IdentityInv, CallTypes, Fits, Places
  <1>3. Frame(c) /\ op'[c] = operation /\ held'[c] = presented /\ at'[c] = where
    BY <1>1 DEF Frame, IdentityInv, CallTypes
  <1>4. made[c] = 0 /\ made'[c] = 0
    BY <1>1 DEF IdentityInv, CallInv, CallOK
  <1>5. CallOK(c)'
    BY <1>1, <1>3, <1>4 DEF CallOK, Claiming, Claimed, Presents, Fits, tables, Makers
  <1>6. Apart(c)'
    <2>1. ~ Claimed(c)'
      BY <1>3 DEF Claimed, Fits
    <2>2. QED
      BY <1>3, <1>4, <2>1, ApartKept DEF IdentityInv
  <1>7. active' \in BOOLEAN
    BY <1>1 DEF tables, IdentityInv, TableInv, RowTypes
  <1>8. QED
    BY <1>1, <1>2, <1>3, <1>5, <1>6, <1>7, QuietStep DEF tables

LEMMA CallsArrive ==
  ASSUME IdentityInv, NEW c \in Calls
  PROVE  /\ \A t \in Tokens : tok[t] # "none" /\ CallRefresh(c, t) => IdentityInv'
         /\ \A k \in Codes : CallExchange(c, k) \/ CallDropApp(c, k) => IdentityInv'
         /\ CallLogin(c) \/ CallLogout(c) \/ CallPassword(c) => IdentityInv'
         /\ \A wanted \in BOOLEAN : CallSetActive(c, wanted) => IdentityInv'
  <1>0. 0 \in 0..MaxTokens /\ Tokens \subseteq 0..MaxTokens
    BY IdentityAssumption DEF Tokens
  <1>1. ASSUME NEW t \in Tokens, tok[t] # "none", CallRefresh(c, t)
        PROVE  IdentityInv'
    <2>1. Fits("refresh", t, "connect")
      BY <1>0, <1>1 DEF Fits, Operations
    <2>2. QED
      BY <1>1, <2>1, BeginKeeps DEF CallRefresh
  <1>2. ASSUME NEW k \in Codes, CallExchange(c, k)
        PROVE  IdentityInv'
    <2>1. /\ Fits("exchange", k, "connect") /\ Fits("exchange", k, "failed")
      BY DEF Fits, Operations
    <2>2. QED
      BY <1>2, <2>1, BeginKeeps DEF CallExchange
  <1>3. ASSUME NEW k \in Codes, CallDropApp(c, k)
        PROVE  IdentityInv'
    <2>1. Fits("drop", k, "revoke")
      BY DEF Fits, Operations, Makers
    <2>2. QED
      BY <1>3, <2>1, BeginKeeps DEF CallDropApp
  <1>4. ASSUME CallLogin(c)
        PROVE  IdentityInv'
    <2>1. /\ Fits("login", 0, "issue") /\ Fits("login", 0, "failed")
      BY <1>0 DEF Fits, Operations
    <2>2. QED
      BY <1>4, <2>1, BeginKeeps DEF CallLogin
  <1>5. ASSUME CallLogout(c) \/ CallPassword(c)
        PROVE  IdentityInv'
    <2>1. Fits("logout", 0, "revoke") /\ Fits("password", 0, "update")
      BY <1>0 DEF Fits, Operations, Makers
    <2>2. QED
      BY <1>5, <2>1, BeginKeeps DEF CallLogout, CallPassword
  <1>6. ASSUME NEW wanted \in BOOLEAN, CallSetActive(c, wanted)
        PROVE  IdentityInv'
    <2>1. Fits("activate", 0, "update") /\ Fits("deactivate", 0, "update")
      BY <1>0 DEF Fits, Operations, Makers
    <2>2. QED
      BY <1>6, <2>1, BeginKeeps DEF CallSetActive
  <1>7. QED
    BY <1>1, <1>2, <1>3, <1>4, <1>5, <1>6

LEMMA ConnectKeeps ==
  ASSUME IdentityInv, NEW c \in Calls, Connect(c)
  PROVE  IdentityInv'
  <1>1. /\ at' = [at EXCEPT ![c] = "claim"] /\ at[c] = "connect"
        /\ UNCHANGED <<tables, op, held, made, rows, failed>>
    BY DEF Connect, Goto
  <1>2. CallTypes'
    BY <1>1 DEF IdentityInv, CallTypes, Places
  <1>3. Frame(c) /\ at'[c] = "claim"
    BY <1>1 DEF Frame, IdentityInv, CallTypes
  <1>4. CallOK(c)'
    BY <1>1, <1>3
    DEF IdentityInv, CallInv, CallOK, Claiming, Claimed, Presents, tables
  <1>5. Apart(c)'
    BY <1>1, <1>3, ApartKept DEF IdentityInv, Claimed
  <1>6. active' \in BOOLEAN
    BY <1>1 DEF tables, IdentityInv, TableInv, RowTypes
  <1>7. QED
    BY <1>1, <1>2, <1>3, <1>4, <1>5, <1>6, QuietStep DEF tables

LEMMA EndTypes ==
  ASSUME CallTypes, NEW c \in Calls, NEW result \in {"ok", "failed"}, End(c, result)
  PROVE  /\ at' \in [Calls -> Places] /\ held' \in [Calls -> 0..MaxTokens \cup Codes]
         /\ at'[c] = result
         /\ \A d \in Calls \ {c} : at'[d] = at[d] /\ held'[d] = held[d]
  <1>1. 0 \in 0..MaxTokens
    BY IdentityAssumption
  <1>2. QED
    BY <1>1 DEF CallTypes, End, Goto, Places

\* The claim waits until no other call holds the row.
LEMMA ClaimKeeps ==
  ASSUME IdentityInv, NEW c \in Calls, Claim(c)
  PROVE  IdentityInv'
  <1>1. /\ at[c] = "claim" /\ ~Locked(held[c])
        /\ UNCHANGED <<tables, op, made, rows, failed>>
    BY DEF Claim
  <1>2. made[c] = 0
    BY <1>1 DEF IdentityInv, CallInv, CallOK
  <1>3. active' \in BOOLEAN
    BY <1>1 DEF tables, IdentityInv, TableInv, RowTypes
  <1>4. CASE Claimable(c)
    <2>1. at' = [at EXCEPT ![c] = "insert"] /\ held' = held
      BY <1>4 DEF Claim, Goto
    <2>2. CallTypes'
      BY <1>1, <2>1 DEF IdentityInv, CallTypes, Places
    <2>3. Frame(c) /\ at'[c] = "insert"
      BY <1>1, <2>1 DEF Frame, IdentityInv, CallTypes
    <2>4. Presents(c) /\ op[c] \in {"refresh", "exchange"}
      BY <1>1 DEF IdentityInv, CallInv, CallOK, Claiming, Presents
    <2>5. CallOK(c)'
      BY <1>1, <1>2, <1>4, <2>1, <2>3, <2>4
      DEF CallOK, Claiming, Claimed, Presents, tables, Claimable
    <2>6. Apart(c)'
      BY <1>1, <1>2, <2>1, <2>3 DEF Apart, Distinct, Frame, Locked, Claimed
    <2>7. QED
      BY <1>1, <1>3, <2>2, <2>3, <2>5, <2>6, QuietStep DEF tables
  <1>5. CASE ~Claimable(c)
    <2>1. End(c, "failed")
      BY <1>5 DEF Claim
    <2>2. CallTypes' /\ Frame(c) /\ at'[c] = "failed"
      BY <1>1, <2>1, EndTypes DEF IdentityInv, CallTypes, Frame
    <2>3. CallOK(c)'
      BY <1>1, <1>2, <2>2 DEF CallOK, Claiming, Claimed
    <2>4. Apart(c)'
      BY <1>1, <2>2, ApartKept DEF IdentityInv, Claimed
    <2>5. QED
      BY <1>1, <1>3, <2>2, <2>3, <2>4, QuietStep DEF tables
  <1>6. QED
    BY <1>4, <1>5

\* The inserted token comes after every committed one.
LEMMA InsertKeeps ==
  ASSUME IdentityInv, NEW c \in Calls, Insert(c)
  PROVE  IdentityInv'
  <1>1. /\ at[c] = "insert" /\ NextToken \in Tokens
        /\ made' = [made EXCEPT ![c] = NextToken] /\ at' = [at EXCEPT ![c] = "commit"]
        /\ UNCHANGED <<tables, op, held, rows, failed>>
    BY DEF Insert, Goto
  <1>. DEFINE new == NextToken
  <1>2. /\ new \in Tokens /\ tok[new] = "none"
        /\ \A t \in Tokens : tok[t] # "none" => t < new
        /\ \A d \in Calls : made[d] # new
        /\ made' = [made EXCEPT ![c] = new]
    BY <1>1, NewToken
  <1>. HIDE DEF new
  <1>3. CallTypes'
    BY <1>1, <1>2 DEF IdentityInv, CallTypes, Places, Tokens
  <1>4. Frame(c) /\ at'[c] = "commit" /\ made'[c] = new
    BY <1>1, <1>2 DEF Frame, IdentityInv, CallTypes
  <1>5. Presents(c) /\ Claimed(c) /\ CallOK(c)
    BY <1>1 DEF IdentityInv, CallInv, CallOK, Claiming, Claimed
  <1>6. ASSUME op[c] = "refresh", NEW t \in Tokens, root[t] = root[held[c]]
        PROVE  t < new
    <2>1. held[c] \in Tokens /\ tok[held[c]] # "none"
      BY <1>5, <1>6 DEF Presents
    <2>2. root[t] # 0
      BY <1>6, <2>1 DEF IdentityInv, TableInv, ChainInv
    <2>3. tok[t] # "none"
      BY <2>2 DEF IdentityInv, TableInv, ChainInv
    <2>4. QED
      BY <1>2, <2>3
  <1>7. CallOK(c)'
    BY <1>1, <1>2, <1>4, <1>5, <1>6
    DEF CallOK, Claiming, Claimed, Presents, tables
  <1>8. Apart(c)'
    BY <1>1, <1>2, <1>4, <1>5 DEF IdentityInv, PairInv, Apart, Distinct, Frame, Claimed
  <1>9. active' \in BOOLEAN
    BY <1>1 DEF tables, IdentityInv, TableInv, RowTypes
  <1>10. QED
    BY <1>1, <1>3, <1>4, <1>7, <1>8, <1>9, QuietStep DEF tables

LEMMA FailsKeeps ==
  ASSUME IdentityInv, NEW c \in Calls, Fails(c)
  PROVE  IdentityInv'
  <1>1. /\ Faulty /\ End(c, "failed") /\ made' = [made EXCEPT ![c] = 0]
        /\ rows' = [rows EXCEPT ![c] = {}] /\ UNCHANGED <<tables, op>>
    BY DEF Fails
  <1>2. failed' \in 0..MaxFaults /\ 0 \in 0..MaxTokens
    BY <1>1, IdentityAssumption DEF Faulty, IdentityInv, CallTypes
  <1>3. CallTypes' /\ Frame(c) /\ at'[c] = "failed" /\ made'[c] = 0
    BY <1>1, <1>2, EndTypes DEF IdentityInv, CallTypes, Frame
  <1>4. CallOK(c)'
    BY <1>3 DEF CallOK, Claiming, Claimed
  <1>5. Apart(c)'
    BY <1>3, ApartKept DEF IdentityInv, Claimed
  <1>6. active' \in BOOLEAN
    BY <1>1 DEF tables, IdentityInv, TableInv, RowTypes
  <1>7. QED
    BY <1>1, <1>3, <1>4, <1>5, <1>6, QuietStep DEF tables

LEMMA UpdateKeeps ==
  ASSUME IdentityInv, NEW c \in Calls, Update(c)
  PROVE  IdentityInv'
  <1>. DEFINE where == IF op[c] = "activate" THEN "ok" ELSE "revoke"
  <1>1. /\ at[c] = "update" /\ at' = [at EXCEPT ![c] = where]
        /\ UNCHANGED <<tok, root, app, code, ended, op, held, made, rows, failed>>
    BY DEF Update, Goto
  <1>2. where \in {"ok", "revoke"}
    OBVIOUS
  <1>. HIDE DEF where
  <1>3. CallTypes'
    BY <1>1, <1>2 DEF IdentityInv, CallTypes, Places
  <1>4. Frame(c) /\ at'[c] = where
    BY <1>1 DEF Frame, IdentityInv, CallTypes
  <1>5. op[c] \notin Makers /\ made[c] = 0
    BY <1>1 DEF IdentityInv, CallInv, CallOK
  <1>6. CallOK(c)'
    BY <1>1, <1>2, <1>4, <1>5 DEF CallOK, Claiming, Claimed, Makers
  <1>7. Apart(c)'
    BY <1>1, <1>2, <1>4, ApartKept DEF IdentityInv, Claimed
  <1>8. active' \in BOOLEAN
    BY DEF Update, IdentityInv, TableInv, RowTypes
  <1>9. QED
    BY <1>1, <1>3, <1>4, <1>6, <1>7, <1>8, QuietStep

LEMMA StartRevokeKeeps ==
  ASSUME IdentityInv, NEW c \in Calls, StartRevoke(c)
  PROVE  IdentityInv'
  <1>1. /\ at[c] = "revoke" /\ at' = [at EXCEPT ![c] = "locks"]
        /\ rows' = [rows EXCEPT ![c] = Scope(c)]
        /\ UNCHANGED <<tables, op, held, made, failed>>
    BY DEF StartRevoke, Goto
  <1>2. Scope(c) \subseteq Tokens
    BY DEF Scope
  <1>3. CallTypes'
    BY <1>1, <1>2 DEF IdentityInv, CallTypes, Places
  <1>4. Frame(c) /\ at'[c] = "locks"
    BY <1>1 DEF Frame, IdentityInv, CallTypes
  <1>5. op[c] \notin Makers /\ made[c] = 0
    BY <1>1 DEF IdentityInv, CallInv, CallOK
  <1>6. CallOK(c)'
    BY <1>1, <1>4, <1>5 DEF CallOK, Claiming, Claimed, Makers
  <1>7. Apart(c)'
    BY <1>1, <1>4, ApartKept DEF IdentityInv, Claimed
  <1>8. active' \in BOOLEAN
    BY <1>1 DEF tables, IdentityInv, TableInv, RowTypes
  <1>9. QED
    BY <1>1, <1>3, <1>4, <1>6, <1>7, <1>8, QuietStep DEF tables

\* A code is issued: the only row written is one nobody presents.
LEMMA IssueCodeKeeps ==
  ASSUME IdentityInv, NEW k \in Codes, IssueCode(k)
  PROVE  IdentityInv'
  <1>1. /\ code[k] = "none" /\ code' = [code EXCEPT ![k] = "issued"]
        /\ UNCHANGED <<tok, root, app, active, ended, calls, failed>>
    BY DEF IssueCode
  <1>2. \A x \in Codes : x # k => code'[x] = code[x]
    BY <1>1 DEF IdentityInv, TableInv, RowTypes
  <1>3. code'[k] = "issued" /\ code' \in [Codes -> {"none", "issued", "consumed"}]
    BY <1>1 DEF IdentityInv, TableInv, RowTypes
  <1>4. RowTypes' /\ ChainInv' /\ LiveInv' /\ CallTypes' /\ PairInv'
    BY <1>1, <1>3
    DEF IdentityInv, TableInv, RowTypes, ChainInv, LiveInv, CallTypes, PairInv, Distinct,
        Claimed, calls
  <1>5. CodeInv'
    <2>1. \A s \in Tokens : root[s] = s /\ app[s] # Nil => app[s] \in Codes /\ app[s] # k
      BY <1>1 DEF IdentityInv, TableInv, RowTypes, CodeInv
    <2>2. QED
      BY <1>1, <1>2, <1>3, <2>1 DEF IdentityInv, TableInv, CodeInv
  <1>6. CallInv'
    <2>1. ASSUME NEW c \in Calls
          PROVE  CallOK(c)'
      <3>1. CallOK(c)
        BY DEF IdentityInv, CallInv
      <3>2. Claimed(c) /\ op[c] = "exchange" => held[c] \in Codes /\ held[c] # k
        BY <1>1, <3>1 DEF CallOK, Claimed, Claiming, Presents
      <3>3. Claimed(c) /\ op[c] = "exchange" => code'[held[c]] = "issued"
        BY <1>2, <3>1, <3>2 DEF CallOK
      <3>4. QED
        BY <1>1, <3>1, <3>3 DEF CallOK, Claiming, Claimed, Presents, calls
    <2>2. QED
      BY <2>1 DEF CallInv
  <1>7. QED
    BY <1>4, <1>5, <1>6 DEF IdentityInv, TableInv

-----------------------------------------------------------------------------
(* A token that starts a session. *)

LEMMA SessionStarts ==
  ASSUME TableInv, NEW n \in Tokens, tok[n] = "none",
         tok' = [tok EXCEPT ![n] = "live"], root' = [root EXCEPT ![n] = n],
         \A t \in Tokens : t # n => app'[t] = app[t], ended' = ended
  PROVE  /\ tok' \in [Tokens -> {"none", "live", "revoked"}]
         /\ root' \in [Tokens -> 0..MaxTokens]
         /\ tok'[n] = "live" /\ root'[n] = n /\ root[n] = 0 /\ app[n] = Nil
         /\ \A t \in Tokens : t # n => tok'[t] = tok[t] /\ root'[t] = root[t] /\ root[t] # n
         /\ Grows /\ ChainInv' /\ LiveInv'
  <1>1. RowTypes /\ ChainInv /\ LiveInv
    BY DEF TableInv
  <1>2. /\ tok' \in [Tokens -> {"none", "live", "revoked"}] /\ tok'[n] = "live"
        /\ \A t \in Tokens : t # n => tok'[t] = tok[t]
    BY <1>1 DEF RowTypes
  <1>3. n \in 0..MaxTokens /\ n \in 1..n /\ n # 0 /\ n \in Int
    BY DEF Tokens
  <1>4. /\ root' \in [Tokens -> 0..MaxTokens] /\ root'[n] = n
        /\ \A t \in Tokens : t # n => root'[t] = root[t]
    BY <1>1, <1>3 DEF RowTypes
  <1>5. root[n] = 0 /\ app[n] = Nil
    BY <1>1 DEF ChainInv
  <1>6. n \notin ended
    BY <1>1, <1>3, <1>5 DEF LiveInv
  <1>7. ASSUME NEW t \in Tokens
        PROVE  /\ root[t] # n
               /\ tok[t] # "none" => root[t] \in Tokens
    <2>1. CASE tok[t] = "none"
      BY <1>1, <1>3, <2>1 DEF ChainInv
    <2>2. CASE tok[t] # "none"
      <3>1. root[t] \in 1..t /\ tok[root[t]] # "none"
        BY <1>1, <2>2 DEF ChainInv
      <3>2. root[t] \in Tokens
        <4>1. t \in Int /\ t <= MaxTokens
          BY DEF Tokens
        <4>2. root[t] \in Int /\ 1 <= root[t] /\ root[t] <= t
          BY <3>1, <4>1
        <4>3. QED
          BY <4>1, <4>2, IdentityAssumption DEF Tokens
      <3>3. QED
        BY <3>1, <3>2
    <2>3. QED
      BY <2>1, <2>2
  <1>8. ChainInv'
    <2>1. tok'[1] # "none"
      BY <1>1, <1>2, IdentityAssumption DEF ChainInv, Tokens
    <2>2. ASSUME NEW t \in Tokens, tok'[t] = "none"
          PROVE  root'[t] = 0 /\ app'[t] = Nil
      BY <1>1, <1>2, <1>4, <2>2 DEF ChainInv
    <2>3. ASSUME NEW t \in Tokens, tok'[t] # "none"
          PROVE  root'[t] \in 1..t /\ tok'[root'[t]] # "none" /\ root'[root'[t]] = root'[t]
      <3>1. CASE t = n
        BY <1>2, <1>3, <1>4, <3>1
      <3>2. CASE t # n
        <4>1. tok[t] # "none" /\ root'[t] = root[t] /\ root[t] \in Tokens /\ root[t] # n
          BY <1>2, <1>4, <1>7, <2>3, <3>2
        <4>2. root[t] \in 1..t /\ tok[root[t]] # "none" /\ root[root[t]] = root[t]
          BY <1>1, <4>1 DEF ChainInv
        <4>3. QED
          BY <1>2, <1>4, <4>1, <4>2
      <3>3. QED
        BY <3>1, <3>2
    <2>4. QED
      BY <2>1, <2>2, <2>3 DEF ChainInv
  <1>9. LiveInv'
    <2>1. ASSUME NEW t \in Tokens, NEW u \in Tokens, tok'[t] = "live", root'[u] = root'[t]
          PROVE  u <= t
      <3>1. CASE t = n
        <4>1. u = n
          BY <1>4, <1>7, <2>1, <3>1
        <4>2. QED
          BY <1>3, <3>1, <4>1
      <3>2. CASE t # n
        <4>1. u # n
          BY <1>4, <1>7, <2>1, <3>2
        <4>2. QED
          BY <1>1, <1>2, <1>4, <2>1, <3>2, <4>1 DEF LiveInv
      <3>3. QED
        BY <3>1, <3>2
    <2>2. ASSUME NEW s \in Tokens, root'[s] = s, s \notin ended
          PROVE  \E t \in Tokens : root'[t] = s /\ tok'[t] = "live"
      <3>1. CASE s = n
        BY <1>2, <1>4, <3>1
      <3>2. CASE s # n
        <4>1. PICK t \in Tokens : root[t] = s /\ tok[t] = "live"
          BY <1>1, <1>4, <2>2, <3>2 DEF LiveInv
        <4>2. t # n
          BY <4>1
        <4>3. QED
          BY <1>2, <1>4, <4>1, <4>2
      <3>3. QED
        BY <3>1, <3>2
    <2>3. ASSUME NEW t \in Tokens, tok'[t] = "live"
          PROVE  root'[t] \notin ended
      BY <1>1, <1>2, <1>4, <1>6, <2>3 DEF LiveInv
    <2>4. \A s \in ended : root'[s] = s
      BY <1>1, <1>4, <1>6 DEF LiveInv, RowTypes
    <2>5. QED
      BY <2>1, <2>2, <2>3, <2>4 DEF LiveInv
  <1>10. Grows
    BY <1>2, <1>4 DEF Grows
  <1>11. QED
    BY <1>2, <1>4, <1>5, <1>7, <1>8, <1>9, <1>10

\* The other calls do not present the token that starts a session.
LEMMA OthersAtStart ==
  ASSUME IdentityInv, NEW c \in Calls, NEW n \in Tokens, NEW d \in Calls \ {c},
         Frame(c), Grows, tok[n] = "none", made[d] # n,
         \A t \in Tokens : t # n => tok'[t] = tok[t] /\ root'[t] = root[t] /\ root[t] # n,
         root'[n] = n,
         Claimed(d) /\ op[d] = "exchange" => code'[held[d]] = code[held[d]]
  PROVE  CallOK(d)'
  <1>1. CallOK(d) /\ made[d] \in 0..MaxTokens
    BY DEF IdentityInv, CallInv, CallTypes
  <1>2. Claimed(d) => Presents(d)
    BY <1>1 DEF CallOK, Claimed, Claiming
  <1>3. Claimed(d) /\ op[d] = "refresh" => tok'[held[d]] = "live"
    BY <1>1, <1>2 DEF CallOK, Presents
  <1>4. Claimed(d) /\ op[d] = "exchange" => code'[held[d]] = "issued"
    BY <1>1 DEF CallOK
  <1>5. at[d] = "commit" => tok'[made[d]] = "none"
    BY <1>1 DEF CallOK
  <1>6. ASSUME at[d] = "commit", op[d] = "refresh", NEW t \in Tokens,
               root'[t] = root'[held[d]]
        PROVE  t < made[d]
    <2>1. held[d] \in Tokens /\ held[d] # n
      BY <1>2, <1>6 DEF Claimed, Presents
    <2>2. root[t] = root[held[d]]
      BY <1>6, <2>1
    <2>3. QED
      BY <1>1, <1>6, <2>2 DEF CallOK
  <1>7. QED
    BY <1>1, <1>3, <1>4, <1>5, <1>6, OthersKept

LEMMA IssueKeeps ==
  ASSUME IdentityInv, NEW c \in Calls, Issue(c)
  PROVE  IdentityInv'
  <1>. DEFINE n == NextToken
  <1>1. /\ at[c] = "issue" /\ n \in Tokens
        /\ made' = [made EXCEPT ![c] = n] /\ tok' = [tok EXCEPT ![n] = "live"]
        /\ root' = [root EXCEPT ![n] = n] /\ at' = [at EXCEPT ![c] = "ok"]
        /\ UNCHANGED <<app, code, active, ended, op, held, rows, failed>>
    BY DEF Issue, Goto
  <1>2. tok[n] = "none" /\ \A d \in Calls : made[d] # n
    BY <1>1, NewToken
  <1>. HIDE DEF n
  <1>3. /\ RowTypes /\ CodeInv /\ CallTypes /\ CallInv /\ PairInv /\ TableInv
    BY DEF IdentityInv, TableInv
  <1>4. /\ tok' \in [Tokens -> {"none", "live", "revoked"}]
        /\ root' \in [Tokens -> 0..MaxTokens]
        /\ tok'[n] = "live" /\ root'[n] = n /\ root[n] = 0 /\ app[n] = Nil
        /\ \A t \in Tokens : t # n => tok'[t] = tok[t] /\ root'[t] = root[t] /\ root[t] # n
        /\ Grows /\ ChainInv' /\ LiveInv'
    BY <1>1, <1>2, <1>3, SessionStarts
  <1>5. RowTypes'
    BY <1>1, <1>3, <1>4 DEF RowTypes
  <1>6. CallTypes'
    BY <1>1, <1>3 DEF CallTypes, Places, Tokens
  <1>7. CodeInv'
    <2>1. \A s \in Tokens : (root'[s] = s /\ app[s] # Nil) <=> (root[s] = s /\ app[s] # Nil)
      BY <1>4
    <2>2. \A k \in Codes : Nil # k
      BY IdentityAssumption
    <2>3. \A s \in Tokens : root'[s] = s /\ app'[s] # Nil => code'[app'[s]] = "consumed"
      BY <1>1, <1>3, <2>1 DEF CodeInv
    <2>4. \A r, s \in Tokens :
            root'[r] = r /\ root'[s] = s /\ app'[r] = app'[s] /\ app'[s] # Nil => r = s
      BY <1>1, <1>3, <2>1 DEF CodeInv
    <2>5. \A k \in Codes :
            code'[k] = "consumed" => \E s \in Tokens : root'[s] = s /\ app'[s] = k
      BY <1>1, <1>3, <2>1, <2>2 DEF CodeInv
    <2>6. QED
      BY <2>3, <2>4, <2>5 DEF CodeInv
  <1>8. Frame(c) /\ at'[c] = "ok" /\ made'[c] = n
    BY <1>1, <1>3 DEF Frame, CallTypes
  <1>9. CallInv'
    <2>1. CallOK(c)'
      BY <1>1, <1>3, <1>4, <1>8 DEF CallOK, CallInv, Claiming, Claimed, Tokens
    <2>2. ASSUME NEW d \in Calls \ {c}
          PROVE  CallOK(d)'
      BY <1>1, <1>2, <1>4, <1>8, OthersAtStart
    <2>3. QED
      BY <2>1, <2>2 DEF CallInv
  <1>10. PairInv'
    <2>1. Apart(c)'
      BY <1>2, <1>8 DEF Apart, Distinct, Frame, Claimed
    <2>2. QED
      BY <1>3, <1>8, <2>1, PairsFromOne
  <1>11. QED
    BY <1>4, <1>5, <1>6, <1>7, <1>9, <1>10 DEF IdentityInv, TableInv

-----------------------------------------------------------------------------
(* Commits. *)

LEMMA CommitCalls ==
  ASSUME IdentityInv, NEW c \in Calls, Commit(c)
  PROVE  /\ at[c] = "commit" /\ op' = op /\ active' = active /\ ended' = ended
         /\ Frame(c) /\ CallTypes' /\ at'[c] \in {"ok", "failed"}
         /\ made'[c] \in {0, made[c]}
         /\ made'[c] = 0 <=> at'[c] = "failed"
  <1>1. at[c] = "commit" /\ op' = op /\ active' = active /\ ended' = ended /\ rows' = rows
    BY DEF Commit
  <1>2. CallTypes /\ made[c] \in Tokens /\ made[c] # 0
    BY <1>1 DEF IdentityInv, CallInv, CallOK, Tokens
  <1>3. CASE End(c, "ok") /\ UNCHANGED <<made, failed>>
    BY <1>1, <1>2, <1>3, EndTypes DEF CallTypes, Frame
  <1>4. CASE End(c, "failed") /\ made' = [made EXCEPT ![c] = 0] /\ Faulty
    <2>1. failed' \in 0..MaxFaults /\ 0 \in 0..MaxTokens
      BY <1>2, <1>4, IdentityAssumption DEF Faulty, CallTypes
    <2>2. QED
      BY <1>1, <1>2, <1>4, <2>1, EndTypes DEF CallTypes, Frame
  <1>5. QED
    BY <1>1, <1>3, <1>4 DEF Commit

LEMMA RedeemedKeeps ==
  ASSUME IdentityInv, NEW c \in Calls, Commit(c), Redeemed(c)
  PROVE  IdentityInv'
  <1>. DEFINE n == made[c]
              k == held[c]
  <1>1. /\ RowTypes /\ ChainInv /\ LiveInv /\ CodeInv /\ CallTypes /\ CallInv /\ PairInv
        /\ TableInv /\ CallOK(c)
    BY DEF IdentityInv, TableInv, CallInv
  <1>2. /\ at[c] = "commit" /\ op' = op /\ active' = active /\ ended' = ended
        /\ Frame(c) /\ CallTypes' /\ at'[c] \in {"ok", "failed"}
        /\ made'[c] \in {0, n} /\ (made'[c] = 0 <=> at'[c] = "failed")
    BY CommitCalls
  <1>3. /\ op[c] = "exchange" /\ code' = [code EXCEPT ![k] = "consumed"]
        /\ tok' = [tok EXCEPT ![n] = "live"] /\ root' = [root EXCEPT ![n] = n]
        /\ app' = [app EXCEPT ![n] = k]
    BY DEF Redeemed
  <1>4. /\ n \in Tokens /\ tok[n] = "none" /\ n # 0 /\ k \in Codes /\ code[k] = "issued"
        /\ k # Nil
    BY <1>1, <1>2, <1>3, IdentityAssumption
    DEF CallOK, Claiming, Claimed, Presents, Tokens
  <1>. HIDE DEF n, k
  <1>5. /\ app' \in [Tokens -> Codes \cup {Nil}] /\ app'[n] = k
        /\ \A t \in Tokens : t # n => app'[t] = app[t]
    BY <1>1, <1>3, <1>4 DEF RowTypes
  <1>6. /\ tok' \in [Tokens -> {"none", "live", "revoked"}]
        /\ root' \in [Tokens -> 0..MaxTokens]
        /\ tok'[n] = "live" /\ root'[n] = n /\ root[n] = 0 /\ app[n] = Nil
        /\ \A t \in Tokens : t # n => tok'[t] = tok[t] /\ root'[t] = root[t] /\ root[t] # n
        /\ Grows /\ ChainInv' /\ LiveInv'
    BY <1>1, <1>2, <1>3, <1>4, <1>5, SessionStarts
  <1>7. /\ code' \in [Codes -> {"none", "issued", "consumed"}] /\ code'[k] = "consumed"
        /\ \A x \in Codes : x # k => code'[x] = code[x]
    BY <1>1, <1>3, <1>4 DEF RowTypes
  <1>8. RowTypes'
    BY <1>1, <1>2, <1>5, <1>6, <1>7 DEF RowTypes
  <1>9. CodeInv'
    <2>1. \A s \in Tokens : root[s] = s /\ app[s] # Nil => app[s] # k
      BY <1>1, <1>4 DEF CodeInv
    <2>2. \A s \in Tokens : s # n => root'[s] = root[s] /\ app'[s] = app[s]
      BY <1>5, <1>6
    <2>3. ASSUME NEW s \in Tokens, root'[s] = s, app'[s] # Nil
          PROVE  code'[app'[s]] = "consumed"
      <3>1. CASE s = n
        BY <1>5, <1>7, <3>1
      <3>2. CASE s # n
        <4>1. app[s] \in Codes /\ code[app[s]] = "consumed"
          BY <1>1, <2>2, <2>3, <3>2 DEF CodeInv, RowTypes
        <4>2. QED
          BY <1>7, <2>2, <3>2, <4>1
      <3>3. QED
        BY <3>1, <3>2
    <2>4. ASSUME NEW r \in Tokens, NEW s \in Tokens, root'[r] = r, root'[s] = s,
                 app'[r] = app'[s], app'[s] # Nil
          PROVE  r = s
      <3>1. CASE r # n /\ s # n
        BY <1>1, <2>2, <2>4, <3>1 DEF CodeInv
      <3>2. CASE r = n \/ s = n
        BY <1>4, <1>5, <2>1, <2>2, <2>4, <3>2
      <3>3. QED
        BY <3>1, <3>2
    <2>5. ASSUME NEW x \in Codes, code'[x] = "consumed"
          PROVE  \E s \in Tokens : root'[s] = s /\ app'[s] = x
      <3>1. CASE x = k
        BY <1>4, <1>5, <1>6, <3>1
      <3>2. CASE x # k
        <4>1. PICK s \in Tokens : root[s] = s /\ app[s] = x
          BY <1>1, <1>7, <2>5, <3>2 DEF CodeInv
        <4>2. s # n
          BY <1>4, <1>6, <4>1
        <4>3. QED
          BY <2>2, <4>1, <4>2
      <3>3. QED
        BY <3>1, <3>2
    <2>6. QED
      BY <2>3, <2>4, <2>5 DEF CodeInv
  <1>10. CallInv'
    <2>1. CallOK(c)'
      BY <1>2, <1>3, <1>4, <1>6 DEF CallOK, Claiming, Claimed, Makers
    <2>2. ASSUME NEW d \in Calls \ {c}
          PROVE  CallOK(d)'
      <3>1. CallOK(d) /\ Distinct(c, d) /\ Distinct(d, c)
        BY <1>1 DEF CallInv, PairInv
      <3>2. made[d] # n
        BY <1>4, <3>1 DEF Distinct, n
      <3>3. Claimed(d) /\ op[d] = "exchange" => held[d] \in Codes /\ held[d] # k
        BY <1>2, <3>1 DEF Distinct, CallOK, Claimed, Claiming, Presents, k
      <3>4. Claimed(d) /\ op[d] = "exchange" => code'[held[d]] = code[held[d]]
        BY <1>7, <3>3
      <3>5. QED
        BY <1>2, <1>4, <1>6, <3>2, <3>4, OthersAtStart
    <2>3. QED
      BY <2>1, <2>2 DEF CallInv
  <1>11. PairInv'
    <2>1. ~ Claimed(c)'
      BY <1>2 DEF Claimed
    <2>2. Apart(c)'
      BY <1>1, <1>2, <2>1, ApartKept DEF n
    <2>3. QED
      BY <1>1, <1>2, <2>2, PairsFromOne
  <1>12. QED
    BY <1>2, <1>6, <1>8, <1>9, <1>10, <1>11 DEF IdentityInv, TableInv

\* A refresh moves the session to its next token: the claimed token was the
\* live one, and no other call had claimed a token of the session.
LEMMA RotatedKeeps ==
  ASSUME IdentityInv, NEW c \in Calls, Commit(c), Rotated(c)
  PROVE  IdentityInv'
  <1>. DEFINE n == made[c]
              a == held[c]
  <1>1. /\ RowTypes /\ ChainInv /\ LiveInv /\ CodeInv /\ CallTypes /\ CallInv /\ PairInv
        /\ TableInv /\ CallOK(c)
    BY DEF IdentityInv, TableInv, CallInv
  <1>2. /\ at[c] = "commit" /\ op' = op /\ active' = active /\ ended' = ended
        /\ Frame(c) /\ CallTypes' /\ at'[c] \in {"ok", "failed"}
        /\ made'[c] \in {0, n} /\ (made'[c] = 0 <=> at'[c] = "failed")
    BY CommitCalls
  <1>3. /\ op[c] = "refresh" /\ code' = code
        /\ tok' = [tok EXCEPT ![a] = "revoked", ![n] = "live"]
        /\ root' = [root EXCEPT ![n] = root[a]] /\ app' = [app EXCEPT ![n] = app[a]]
    BY DEF Rotated
  <1>4. /\ n \in Tokens /\ tok[n] = "none" /\ n # 0 /\ a \in Tokens /\ tok[a] = "live"
        /\ \A t \in Tokens : root[t] = root[a] => t < n
    BY <1>1, <1>2, <1>3 DEF CallOK, Claiming, Claimed, Presents, Tokens
  <1>. HIDE DEF n, a
  <1>5. root[n] = 0 /\ a < n /\ a # n
    BY <1>1, <1>4 DEF ChainInv
  <1>6. root[a] \in 1..a /\ root[a] # n /\ root[a] \in Tokens
    <2>1. root[a] \in 1..a /\ a \in Int /\ n \in Int /\ a <= MaxTokens
      BY <1>1, <1>4 DEF ChainInv, Tokens
    <2>2. root[a] \in Int /\ 1 <= root[a] /\ root[a] <= a
      BY <2>1
    <2>3. QED
      BY <1>5, <2>1, <2>2, IdentityAssumption DEF Tokens
  <1>7. /\ tok' \in [Tokens -> {"none", "live", "revoked"}]
        /\ tok'[n] = "live" /\ tok'[a] = "revoked"
        /\ \A t \in Tokens : t # n /\ t # a => tok'[t] = tok[t]
    BY <1>1, <1>3, <1>4, <1>5 DEF RowTypes
  <1>8. /\ root' \in [Tokens -> 0..MaxTokens] /\ root'[n] = root[a]
        /\ \A t \in Tokens : t # n => root'[t] = root[t]
    BY <1>1, <1>3, <1>4 DEF RowTypes
  <1>9. /\ app' \in [Tokens -> Codes \cup {Nil}]
        /\ \A t \in Tokens : t # n => app'[t] = app[t]
    BY <1>1, <1>3, <1>4 DEF RowTypes
  <1>10. Grows
    BY <1>4, <1>7, <1>8 DEF Grows
  <1>11. RowTypes'
    BY <1>1, <1>2, <1>3, <1>7, <1>8, <1>9 DEF RowTypes
  <1>12. ChainInv'
    <2>1. tok'[1] # "none"
      BY <1>1, <1>7, <1>4, IdentityAssumption DEF ChainInv, Tokens
    <2>2. ASSUME NEW t \in Tokens, tok'[t] = "none"
          PROVE  root'[t] = 0 /\ app'[t] = Nil
      BY <1>1, <1>7, <1>8, <1>9, <2>2 DEF ChainInv
    <2>3. ASSUME NEW t \in Tokens, tok'[t] # "none"
          PROVE  root'[t] \in 1..t /\ tok'[root'[t]] # "none" /\ root'[root'[t]] = root'[t]
      <3>1. tok[root[a]] # "none" /\ root[root[a]] = root[a]
        BY <1>1, <1>4 DEF ChainInv
      <3>2. CASE t = n
        <4>1. root[a] \in 1..n
          BY <1>4, <1>5, <1>6 DEF Tokens
        <4>2. tok'[root[a]] # "none" /\ root'[root[a]] = root[a]
          BY <1>6, <1>7, <1>8, <3>1
        <4>3. QED
          BY <1>8, <3>2, <4>1, <4>2
      <3>3. CASE t # n
        <4>1. tok[t] # "none" /\ root'[t] = root[t]
          BY <1>4, <1>7, <1>8, <2>3, <3>3
        <4>2. root[t] \in 1..t /\ tok[root[t]] # "none" /\ root[root[t]] = root[t]
          BY <1>1, <4>1 DEF ChainInv
        <4>3. root[t] # n /\ root[t] \in Tokens
          <5>1. t \in Int /\ t <= MaxTokens
            BY DEF Tokens
          <5>2. root[t] \in Int /\ 1 <= root[t] /\ root[t] <= t
            BY <4>2, <5>1
          <5>3. QED
            BY <1>4, <4>2, <5>1, <5>2, IdentityAssumption DEF Tokens
        <4>4. tok'[root[t]] # "none" /\ root'[root[t]] = root[t]
          BY <1>7, <1>8, <4>2, <4>3
        <4>5. QED
          BY <4>1, <4>2, <4>4
      <3>4. QED
        BY <3>2, <3>3
    <2>4. QED
      BY <2>1, <2>2, <2>3 DEF ChainInv
  <1>13. \A t \in Tokens : tok[t] = "live" /\ root[t] = root[a] => t = a
    <2>1. ASSUME NEW t \in Tokens, tok[t] = "live", root[t] = root[a]
          PROVE  t = a
      <3>1. a <= t /\ t <= a
        BY <1>1, <1>4, <2>1 DEF LiveInv
      <3>2. QED
        BY <1>4, <3>1 DEF Tokens
    <2>2. QED
      BY <2>1
  <1>14. LiveInv'
    <2>1. ASSUME NEW t \in Tokens, NEW u \in Tokens, tok'[t] = "live", root'[u] = root'[t]
          PROVE  u <= t
      <3>1. CASE t = n
        <4>1. u = n \/ root[u] = root[a]
          BY <1>8, <2>1, <3>1
        <4>2. u = n \/ u < n
          BY <1>4, <4>1
        <4>3. QED
          BY <3>1, <4>2 DEF Tokens
      <3>2. CASE t # n
        <4>1. t # a /\ tok[t] = "live" /\ root'[t] = root[t]
          BY <1>7, <1>8, <2>1, <3>2
        <4>2. u # n
          BY <1>8, <1>13, <2>1, <4>1
        <4>3. root[u] = root[t]
          BY <1>8, <2>1, <4>1, <4>2
        <4>4. QED
          BY <1>1, <4>1, <4>3 DEF LiveInv
      <3>3. QED
        BY <3>1, <3>2
    <2>2. ASSUME NEW s \in Tokens, root'[s] = s, s \notin ended
          PROVE  \E t \in Tokens : root'[t] = s /\ tok'[t] = "live"
      <3>1. s # n /\ root[s] = s
        BY <1>6, <1>8, <2>2
      <3>2. PICK t \in Tokens : root[t] = s /\ tok[t] = "live"
        BY <1>1, <2>2, <3>1 DEF LiveInv
      <3>3. CASE t = a
        BY <1>4, <1>7, <1>8, <3>2, <3>3
      <3>4. CASE t # a
        BY <1>4, <1>7, <1>8, <3>2, <3>4
      <3>5. QED
        BY <3>3, <3>4
    <2>3. ASSUME NEW t \in Tokens, tok'[t] = "live"
          PROVE  root'[t] \notin ended
      <3>1. root[a] \notin ended
        BY <1>1, <1>4 DEF LiveInv
      <3>2. QED
        BY <1>1, <1>7, <1>8, <2>3, <3>1 DEF LiveInv
    <2>4. \A s \in ended : root'[s] = s
      <3>1. \A s \in ended : s \in Tokens /\ root[s] = s
        BY <1>1 DEF LiveInv, RowTypes
      <3>2. n \notin ended
        BY <1>4, <1>5, <3>1
      <3>3. QED
        BY <1>8, <3>1, <3>2
    <2>5. QED
      BY <1>2, <2>1, <2>2, <2>3, <2>4 DEF LiveInv
  <1>15. CodeInv'
    <2>1. \A s \in Tokens : root'[s] = s <=> root[s] = s
      BY <1>4, <1>5, <1>6, <1>8
    <2>2. \A s \in Tokens : root[s] = s => app'[s] = app[s]
      BY <1>4, <1>5, <1>9
    <2>3. \A s \in Tokens : root'[s] = s /\ app'[s] # Nil => code'[app'[s]] = "consumed"
      BY <1>1, <1>3, <2>1, <2>2 DEF CodeInv
    <2>4. \A r, s \in Tokens :
            root'[r] = r /\ root'[s] = s /\ app'[r] = app'[s] /\ app'[s] # Nil => r = s
      BY <1>1, <2>1, <2>2 DEF CodeInv
    <2>5. \A k \in Codes :
            code'[k] = "consumed" => \E s \in Tokens : root'[s] = s /\ app'[s] = k
      BY <1>1, <1>3, <2>1, <2>2 DEF CodeInv
    <2>6. QED
      BY <2>3, <2>4, <2>5 DEF CodeInv
  <1>16. CallInv'
    <2>1. CallOK(c)'
      BY <1>2, <1>3, <1>4, <1>7 DEF CallOK, Claiming, Claimed, Makers
    <2>2. ASSUME NEW d \in Calls \ {c}
          PROVE  CallOK(d)'
      <3>1. CallOK(d) /\ Distinct(c, d) /\ made[d] \in 0..MaxTokens
        BY <1>1 DEF CallInv, PairInv, CallTypes
      <3>2. made[d] # n
        BY <1>4, <3>1 DEF Distinct, n
      <3>3. Claimed(d) /\ op[d] = "refresh" =>
              held[d] \in Tokens /\ tok[held[d]] = "live" /\ held[d] # a
        BY <1>2, <3>1 DEF Distinct, CallOK, Claimed, Claiming, Presents, a
      <3>4. Claimed(d) /\ op[d] = "refresh" => tok'[held[d]] = "live" /\ held[d] # n
        BY <1>4, <1>7, <3>3
      <3>5. Claimed(d) /\ op[d] = "exchange" => code'[held[d]] = "issued"
        BY <1>3, <3>1 DEF CallOK
      <3>6. at[d] = "commit" => tok'[made[d]] = "none"
        BY <1>4, <1>7, <3>1, <3>2 DEF CallOK
      <3>7. ASSUME at[d] = "commit", op[d] = "refresh", NEW t \in Tokens,
                   root'[t] = root'[held[d]]
            PROVE  t < made[d]
        <4>1. /\ held[d] \in Tokens /\ tok[held[d]] = "live" /\ held[d] # a /\ held[d] # n
              /\ root'[held[d]] = root[held[d]]
          BY <1>8, <3>3, <3>4, <3>7 DEF Claimed
        <4>2. t # n
          BY <1>8, <1>13, <3>7, <4>1
        <4>3. root[t] = root[held[d]]
          BY <1>8, <3>7, <4>1, <4>2
        <4>4. QED
          BY <3>1, <3>7, <4>3 DEF CallOK
      <3>8. QED
        BY <1>2, <1>10, <3>1, <3>4, <3>5, <3>6, <3>7, OthersKept
    <2>3. QED
      BY <2>1, <2>2 DEF CallInv
  <1>17. PairInv'
    <2>1. ~ Claimed(c)'
      BY <1>2 DEF Claimed
    <2>2. Apart(c)'
      BY <1>1, <1>2, <2>1, ApartKept DEF n
    <2>3. QED
      BY <1>1, <1>2, <2>2, PairsFromOne
  <1>18. QED
    BY <1>2, <1>11, <1>12, <1>14, <1>15, <1>16, <1>17 DEF IdentityInv, TableInv

\* A revocation takes live tokens no call has claimed, and with each its session.
LEMMA EndRevokeKeeps ==
  ASSUME IdentityInv, NEW c \in Calls, EndRevoke(c)
  PROVE  IdentityInv'
  <1>. DEFINE lost == {t \in rows[c] : tok[t] = "live"}
  <1>1. /\ RowTypes /\ ChainInv /\ LiveInv /\ CodeInv /\ CallTypes /\ CallInv /\ PairInv
        /\ TableInv /\ CallOK(c)
    BY DEF IdentityInv, TableInv, CallInv
  <1>2. /\ at[c] = "locks" /\ \A t \in rows[c] : ~Locked(t)
        /\ tok' = [t \in Tokens |-> IF t \in lost THEN "revoked" ELSE tok[t]]
        /\ ended' = ended \cup {root[t] : t \in lost}
        /\ rows' = [rows EXCEPT ![c] = {}] /\ End(c, "ok")
        /\ UNCHANGED <<root, app, code, active, op, made, failed>>
    BY DEF EndRevoke
  <1>3. /\ lost \subseteq Tokens /\ \A t \in lost : tok[t] = "live" /\ ~Locked(t)
    BY <1>1, <1>2 DEF CallTypes
  <1>. HIDE DEF lost
  <1>4. /\ tok' \in [Tokens -> {"none", "live", "revoked"}]
        /\ \A t \in Tokens : tok'[t] = "live" <=> tok[t] = "live" /\ t \notin lost
        /\ \A t \in Tokens : tok'[t] = "none" <=> tok[t] = "none"
    BY <1>1, <1>2, <1>3 DEF RowTypes
  <1>5. ASSUME NEW t \in lost
        PROVE  root[t] \in Tokens /\ root[root[t]] = root[t]
    <2>1. /\ root[t] \in 1..t /\ root[root[t]] = root[t] /\ t \in Int
          /\ t <= MaxTokens /\ t \in Tokens
      BY <1>1, <1>3 DEF ChainInv, Tokens
    <2>2. root[t] \in Int /\ 1 <= root[t] /\ root[t] <= t
      BY <2>1
    <2>3. QED
      BY <2>1, <2>2, IdentityAssumption DEF Tokens
  <1>6. RowTypes'
    BY <1>1, <1>2, <1>4, <1>5 DEF RowTypes
  <1>7. /\ CallTypes' /\ Frame(c) /\ at'[c] = "ok"
    BY <1>1, <1>2, EndTypes DEF CallTypes, Frame
  <1>8. ChainInv'
    <2>1. tok'[1] # "none"
      BY <1>1, <1>4, IdentityAssumption DEF ChainInv, Tokens
    <2>2. ASSUME NEW t \in Tokens, tok'[t] = "none"
          PROVE  root'[t] = 0 /\ app'[t] = Nil
      BY <1>1, <1>2, <1>4, <2>2 DEF ChainInv
    <2>3. ASSUME NEW t \in Tokens, tok'[t] # "none"
          PROVE  root'[t] \in 1..t /\ tok'[root'[t]] # "none" /\ root'[root'[t]] = root'[t]
      <3>1. root[t] \in 1..t /\ tok[root[t]] # "none" /\ root[root[t]] = root[t]
        BY <1>1, <1>4, <2>3 DEF ChainInv
      <3>2. root[t] \in Tokens
        <4>1. t \in Int /\ t <= MaxTokens
          BY DEF Tokens
        <4>2. root[t] \in Int /\ 1 <= root[t] /\ root[t] <= t
          BY <3>1, <4>1
        <4>3. QED
          BY <4>1, <4>2, IdentityAssumption DEF Tokens
      <3>3. QED
        BY <1>2, <1>4, <3>1, <3>2
    <2>4. QED
      BY <2>1, <2>2, <2>3 DEF ChainInv
  <1>9. LiveInv'
    <2>1. \A t, u \in Tokens : tok'[t] = "live" /\ root'[u] = root'[t] => u <= t
      BY <1>1, <1>2, <1>4 DEF LiveInv
    <2>2. ASSUME NEW s \in Tokens, root'[s] = s, s \notin ended'
          PROVE  \E t \in Tokens : root'[t] = s /\ tok'[t] = "live"
      <3>1. PICK t \in Tokens : root[t] = s /\ tok[t] = "live"
        BY <1>1, <1>2, <2>2 DEF LiveInv
      <3>2. t \notin lost
        BY <1>2, <2>2, <3>1
      <3>3. QED
        BY <1>2, <1>4, <3>1, <3>2
    <2>3. ASSUME NEW t \in Tokens, tok'[t] = "live"
          PROVE  root'[t] \notin ended'
      <3>1. tok[t] = "live" /\ t \notin lost /\ root[t] \notin ended
        BY <1>1, <1>4, <2>3 DEF LiveInv
      <3>2. ASSUME NEW u \in lost, root[u] = root[t]
            PROVE  FALSE
        <4>1. u \in Tokens /\ u <= t /\ t <= u
          BY <1>1, <1>3, <3>1, <3>2 DEF LiveInv
        <4>2. u = t
          BY <4>1 DEF Tokens
        <4>3. QED
          BY <3>1, <4>2
      <3>3. QED
        BY <1>2, <3>1, <3>2
    <2>4. \A s \in ended' : root'[s] = s
      BY <1>1, <1>2, <1>5 DEF LiveInv
    <2>5. QED
      BY <2>1, <2>2, <2>3, <2>4 DEF LiveInv
  <1>10. CodeInv'
    BY <1>1, <1>2 DEF CodeInv
  <1>11. Grows
    BY <1>2, <1>4 DEF Grows
  <1>12. CallInv'
    <2>1. made'[c] = 0 /\ op'[c] \notin Makers
      BY <1>1, <1>2 DEF CallOK
    <2>2. CallOK(c)'
      BY <1>7, <2>1 DEF CallOK, Claiming, Claimed
    <2>3. ASSUME NEW d \in Calls \ {c}
          PROVE  CallOK(d)'
      <3>1. CallOK(d) /\ made[d] \in 0..MaxTokens
        BY <1>1 DEF CallInv, CallTypes
      <3>2. Claimed(d) /\ op[d] = "refresh" =>
              held[d] \in Tokens /\ tok[held[d]] = "live" /\ held[d] \notin lost
        BY <1>3, <3>1 DEF CallOK, Claimed, Claiming, Presents, Locked
      <3>3. Claimed(d) /\ op[d] = "refresh" => tok'[held[d]] = "live"
        BY <1>4, <3>2
      <3>4. Claimed(d) /\ op[d] = "exchange" => code'[held[d]] = "issued"
        BY <1>2, <3>1 DEF CallOK
      <3>5. at[d] = "commit" => tok'[made[d]] = "none"
        BY <1>4, <3>1 DEF CallOK
      <3>6. at[d] = "commit" /\ op[d] = "refresh" =>
              \A t \in Tokens : root'[t] = root'[held[d]] => t < made[d]
        BY <1>2, <3>1 DEF CallOK
      <3>7. QED
        BY <1>7, <1>11, <3>1, <3>3, <3>4, <3>5, <3>6, OthersKept
    <2>4. QED
      BY <2>2, <2>3 DEF CallInv
  <1>13. PairInv'
    <2>1. ~ Claimed(c)' /\ made'[c] = made[c]
      BY <1>2, <1>7 DEF Claimed
    <2>2. Apart(c)'
      BY <1>1, <1>7, <2>1, ApartKept
    <2>3. QED
      BY <1>1, <1>7, <2>2, PairsFromOne
  <1>14. QED
    BY <1>6, <1>7, <1>8, <1>9, <1>10, <1>12, <1>13 DEF IdentityInv, TableInv

\* What a call does at the identity service keeps the rows and the calls right.
LEMMA ServeKeeps ==
  ASSUME IdentityInv, NEW c \in Calls, Serve(c) \/ Fails(c)
  PROVE  IdentityInv'
  <1>1. Commit(c) => IdentityInv'
    BY RotatedKeeps, RedeemedKeeps DEF Commit
  <1>2. QED
    BY <1>1, ConnectKeeps, ClaimKeeps, InsertKeeps, FailsKeeps, IssueKeeps, UpdateKeeps,
       StartRevokeKeeps, EndRevokeKeeps
    DEF Serve

-----------------------------------------------------------------------------
(* What a step does to the sessions. *)

\* An inserted token keeps its client.
SameApps == \A t \in Tokens : tok[t] # "none" => app'[t] = app[t]

\* A step of a call moves one session on, or starts one, or neither.
Moves(c) ==
  /\ Frame(c) /\ Grows /\ SameApps /\ op' = op
  /\ at[c] \notin {"idle", "ok", "failed"} /\ at'[c] # "idle"
  /\ Claiming(c)' => Claiming(c) /\ held'[c] = held[c]
  /\ made'[c] # 0 /\ at'[c] = "ok" =>
       /\ made'[c] \in Tokens /\ tok[made'[c]] = "none"
       /\ op[c] = "login" => app'[made'[c]] = Nil
       /\ op[c] = "refresh" => Claiming(c) /\ app'[made'[c]] = app[held[c]]
       /\ \A t \in Tokens : root'[t] = root'[made'[c]] => t <= made'[c]
  /\ \A t \in Tokens : tok[t] = "none" /\ tok'[t] # "none" =>
       \/ root'[t] = t
       \/ Claiming(c) /\ op[c] = "refresh" /\ tok[held[c]] = "live" /\ root'[t] = root[held[c]]

LEMMA QuietMoves ==
  ASSUME IdentityInv, NEW c \in Calls, Frame(c), op' = op,
         UNCHANGED <<tok, root, app>>,
         at[c] \notin {"idle", "ok", "failed"}, at'[c] # "idle",
         Claiming(c)' => Claiming(c) /\ held'[c] = held[c],
         at'[c] = "ok" => made'[c] = 0
  PROVE  Moves(c)
  BY DEF Moves, Grows, SameApps

LEMMA QuietServes ==
  ASSUME IdentityInv, NEW c \in Calls,
         Connect(c) \/ Claim(c) \/ Insert(c) \/ Fails(c) \/ Update(c) \/ StartRevoke(c)
  PROVE  Moves(c)
  <1>1. CallTypes /\ CallOK(c)
    BY DEF IdentityInv, CallInv
  <1>2. CASE Connect(c)
    BY <1>1, <1>2, QuietMoves DEF Connect, Goto, CallTypes, Frame, Claiming, tables
  <1>3. CASE Claim(c)
    <2>1. /\ at[c] = "claim" /\ UNCHANGED <<tables, op, made, rows, failed>>
          /\ \/ Goto(c, "insert") /\ UNCHANGED held
             \/ End(c, "failed")
      BY <1>3 DEF Claim
    <2>2. CASE Goto(c, "insert") /\ UNCHANGED held
      BY <1>1, <2>1, <2>2, QuietMoves DEF Goto, CallTypes, Frame, Claiming, tables
    <2>3. CASE End(c, "failed")
      BY <1>1, <2>1, <2>3, QuietMoves DEF End, Goto, CallTypes, Frame, Claiming, tables
    <2>4. QED
      BY <2>1, <2>2, <2>3
  <1>4. CASE Insert(c)
    <2>1. /\ at[c] = "insert" /\ made' = [made EXCEPT ![c] = NextToken]
          /\ at' = [at EXCEPT ![c] = "commit"]
          /\ UNCHANGED <<tables, op, held, rows, failed>>
      BY <1>4 DEF Insert, Goto
    <2>2. Frame(c) /\ at'[c] = "commit"
      BY <1>1, <2>1 DEF Frame, CallTypes
    <2>3. QED
      BY <2>1, <2>2, QuietMoves DEF Claiming, tables
  <1>5. CASE Fails(c)
    BY <1>1, <1>5, QuietMoves DEF Fails, End, Goto, CallTypes, Frame, Claiming, tables
  <1>6. CASE Update(c)
    <2>1. \E where \in {"ok", "revoke"} : at' = [at EXCEPT ![c] = where]
      BY <1>6 DEF Update, Goto
    <2>2. /\ at[c] = "update" /\ made[c] = 0
          /\ UNCHANGED <<tok, root, app, code, ended, op, held, made, rows, failed>>
      BY <1>1, <1>6 DEF Update, CallOK
    <2>3. Frame(c) /\ at'[c] \in {"ok", "revoke"}
      BY <1>1, <2>1, <2>2 DEF Frame, CallTypes
    <2>4. QED
      BY <2>2, <2>3, QuietMoves DEF Claiming
  <1>7. CASE StartRevoke(c)
    BY <1>1, <1>7, QuietMoves DEF StartRevoke, Goto, CallTypes, Frame, Claiming, tables
  <1>8. QED
    BY <1>2, <1>3, <1>4, <1>5, <1>6, <1>7

LEMMA IssueMoves ==
  ASSUME IdentityInv, NEW c \in Calls, Issue(c)
  PROVE  Moves(c)
  <1>. DEFINE n == NextToken
  <1>1. /\ at[c] = "issue" /\ n \in Tokens
        /\ made' = [made EXCEPT ![c] = n] /\ tok' = [tok EXCEPT ![n] = "live"]
        /\ root' = [root EXCEPT ![n] = n] /\ at' = [at EXCEPT ![c] = "ok"]
        /\ UNCHANGED <<app, code, active, ended, op, held, rows, failed>>
    BY DEF Issue, Goto
  <1>2. tok[n] = "none"
    BY <1>1, NewToken
  <1>. HIDE DEF n
  <1>3. TableInv /\ CallTypes /\ CallOK(c)
    BY DEF IdentityInv, CallInv
  <1>4. /\ root'[n] = n /\ app[n] = Nil /\ Grows
        /\ \A t \in Tokens : t # n => tok'[t] = tok[t] /\ root'[t] = root[t] /\ root[t] # n
    BY <1>1, <1>2, <1>3, SessionStarts
  <1>5. Frame(c) /\ at'[c] = "ok" /\ made'[c] = n
    BY <1>1, <1>3 DEF Frame, CallTypes
  <1>6. op[c] = "login"
    BY <1>1, <1>3 DEF CallOK
  <1>7. \A t \in Tokens : root'[t] = n => t <= n
    BY <1>4 DEF Tokens
  <1>8. QED
    BY <1>1, <1>2, <1>4, <1>5, <1>6, <1>7 DEF Moves, SameApps, Claiming

LEMMA CommitMoves ==
  ASSUME IdentityInv, NEW c \in Calls, Commit(c)
  PROVE  Moves(c)
  <1>. DEFINE n == made[c]
              a == held[c]
  <1>1. /\ at[c] = "commit" /\ op' = op /\ active' = active /\ ended' = ended
        /\ Frame(c) /\ CallTypes' /\ at'[c] \in {"ok", "failed"}
        /\ made'[c] \in {0, n} /\ (made'[c] = 0 <=> at'[c] = "failed")
    BY CommitCalls
  <1>2. /\ RowTypes /\ ChainInv /\ TableInv /\ CallOK(c)
        /\ n \in Tokens /\ tok[n] = "none" /\ Presents(c)
    BY <1>1 DEF IdentityInv, TableInv, CallInv, CallOK, Claiming
  <1>3. CASE Rotated(c)
    <2>1. /\ op[c] = "refresh"
          /\ tok' = [tok EXCEPT ![a] = "revoked", ![n] = "live"]
          /\ root' = [root EXCEPT ![n] = root[a]] /\ app' = [app EXCEPT ![n] = app[a]]
      BY <1>3 DEF Rotated
    <2>2. /\ a \in Tokens /\ tok[a] = "live" /\ a # n
          /\ \A t \in Tokens : root[t] = root[a] => t < n
      BY <1>1, <1>2, <2>1 DEF CallOK, Presents, Claimed
    <2>. HIDE DEF n, a
    <2>3. /\ \A t \in Tokens : t # n /\ t # a => tok'[t] = tok[t]
          /\ tok'[a] = "revoked" /\ tok'[n] = "live"
      BY <1>2, <2>1, <2>2 DEF RowTypes
    <2>4. /\ \A t \in Tokens : t # n => root'[t] = root[t]
          /\ root'[n] = root[a]
      BY <1>2, <2>1 DEF RowTypes
    <2>5. /\ \A t \in Tokens : t # n => app'[t] = app[t]
          /\ app'[n] = app[a]
      BY <1>2, <2>1 DEF RowTypes
    <2>6. Grows /\ SameApps
      BY <1>2, <2>2, <2>3, <2>4, <2>5 DEF Grows, SameApps
    <2>7. \A t \in Tokens : root'[t] = root'[n] => t <= n
      BY <1>2, <2>2, <2>4 DEF Tokens
    <2>8. \A t \in Tokens : tok[t] = "none" /\ tok'[t] # "none" => t = n
      BY <2>2, <2>3
    <2>9. Claiming(c) /\ ~ Claiming(c)'
      BY <1>1 DEF Claiming
    <2>10. made'[c] # 0 => made'[c] = n
      BY <1>1
    <2>11. tok[held[c]] = "live" /\ root'[n] = root[held[c]] /\ app'[n] = app[held[c]]
      BY <2>2, <2>4, <2>5 DEF a
    <2>12. QED
      BY <1>1, <1>2, <2>1, <2>6, <2>7, <2>8, <2>9, <2>10, <2>11 DEF Moves
  <1>4. CASE Redeemed(c)
    <2>1. /\ op[c] = "exchange"
          /\ tok' = [tok EXCEPT ![n] = "live"] /\ root' = [root EXCEPT ![n] = n]
          /\ app' = [app EXCEPT ![n] = a]
      BY <1>4 DEF Redeemed
    <2>. HIDE DEF n, a
    <2>2. \A t \in Tokens : t # n => app'[t] = app[t]
      BY <1>2, <2>1 DEF RowTypes
    <2>3. /\ root'[n] = n /\ Grows
          /\ \A t \in Tokens : t # n => tok'[t] = tok[t] /\ root'[t] = root[t] /\ root[t] # n
      BY <1>1, <1>2, <2>1, <2>2, SessionStarts
    <2>4. SameApps
      BY <1>2, <2>2 DEF SameApps
    <2>5. \A t \in Tokens : root'[t] = root'[n] => t <= n
      BY <2>3 DEF Tokens
    <2>6. ~ Claiming(c)'
      BY <1>1 DEF Claiming
    <2>7. made'[c] # 0 => made'[c] = n
      BY <1>1
    <2>8. QED
      BY <1>1, <1>2, <2>1, <2>3, <2>4, <2>5, <2>6, <2>7 DEF Moves
  <1>5. QED
    BY <1>3, <1>4 DEF Commit

LEMMA EndRevokeMoves ==
  ASSUME IdentityInv, NEW c \in Calls, EndRevoke(c)
  PROVE  Moves(c)
  <1>. DEFINE lost == {t \in rows[c] : tok[t] = "live"}
  <1>1. /\ at[c] = "locks"
        /\ tok' = [t \in Tokens |-> IF t \in lost THEN "revoked" ELSE tok[t]]
        /\ End(c, "ok") /\ UNCHANGED <<root, app, op, made>>
    BY DEF EndRevoke
  <1>2. CallTypes /\ CallOK(c) /\ made[c] = 0
    BY <1>1 DEF IdentityInv, CallInv, CallOK
  <1>3. \A t \in Tokens : tok'[t] = "none" <=> tok[t] = "none"
    BY <1>1
  <1>4. Frame(c) /\ at'[c] = "ok"
    BY <1>1, <1>2, EndTypes DEF Frame
  <1>5. Grows /\ SameApps
    BY <1>1, <1>3 DEF Grows, SameApps
  <1>6. QED
    BY <1>1, <1>2, <1>3, <1>4, <1>5 DEF Moves, Claiming

LEMMA ServeMoves ==
  ASSUME IdentityInv, NEW c \in Calls, Serve(c) \/ Fails(c)
  PROVE  Moves(c)
  BY QuietServes, IssueMoves, CommitMoves, EndRevokeMoves DEF Serve

-----------------------------------------------------------------------------
(* The browser. *)

BrowserTypes ==
  /\ jar \in 0..MaxTokens
  /\ access \in {"none", "good", "near", "expired"}
  /\ lapsed \in BOOLEAN
  /\ tab \in [Calls -> Tabs \cup {Nil}]
  /\ reply \in [Calls -> {"none", "asked", "abandoned", "done"}]
  /\ ages \in 0..MaxAges

JarInv ==
  /\ jar = 0 <=> access = "none"
  /\ jar # 0 => tok[jar] # "none" /\ app[jar] = Nil

\* What the browser asks for belongs to a first-party session.
AskedOK(c) ==
  /\ at[c] = "idle" => reply[c] = "none"
  /\ reply[c] # "none" => op[c] \in {"refresh", "login", "logout"}
  /\ reply[c] # "none" /\ op[c] = "refresh" /\ Claiming(c) => app[held[c]] = Nil
  /\ reply[c] # "none" /\ at[c] = "ok" /\ made[c] # 0 => app[made[c]] = Nil

Unheard(c) == reply[c] = "asked" /\ at[c] = "ok" /\ made[c] # 0

\* A token on its way to the browser is the last of its session, because
\* nobody can have presented it.
OnItsWay(c) ==
  Unheard(c) =>
    /\ jar # made[c]
    /\ \A d \in Calls : op[d] = "refresh" /\ Claiming(d) => held[d] # made[c]
    /\ \A t \in Tokens : root[t] = root[made[c]] => t <= made[c]

BrowserInv ==
  BrowserTypes /\ JarInv /\ (\A c \in Calls : AskedOK(c)) /\ (\A c \in Calls : OnItsWay(c))

SessionInv == IdentityInv /\ BrowserInv

LEMMA InitSession == BrowserInit => SessionInv
  <1>. SUFFICES ASSUME BrowserInit PROVE SessionInv
    OBVIOUS
  <1>1. IdentityInv /\ IdentityInit
    BY InitIdentity DEF BrowserInit
  <1>2. 1 \in Tokens /\ 0 \in 0..MaxTokens /\ 1 \in 0..MaxTokens /\ 0 \in 0..MaxAges
    BY IdentityAssumption, BrowserAssumption DEF Tokens
  <1>3. BrowserTypes
    BY <1>2 DEF BrowserInit, BrowserTypes
  <1>6. JarInv
    <2>1. jar = 1 /\ access = "near" /\ tok[1] = "live" /\ app[1] = Nil
      BY <1>1, <1>2 DEF BrowserInit, IdentityInit
    <2>2. QED
      BY <2>1 DEF JarInv
  <1>4. \A c \in Calls : AskedOK(c) /\ OnItsWay(c)
    BY DEF BrowserInit, IdentityInit, AskedOK, OnItsWay, Unheard
  <1>5. QED
    BY <1>1, <1>3, <1>4, <1>6 DEF SessionInv, BrowserInv

LEMMA ServeKeepsBrowser ==
  ASSUME SessionInv, NEW c \in Calls, Serve(c) \/ Fails(c), UNCHANGED browser
  PROVE  SessionInv'
  <1>1. IdentityInv /\ IdentityInv' /\ Moves(c)
    BY ServeKeeps, ServeMoves DEF SessionInv
  <1>2. /\ ChainInv /\ ChainInv' /\ LiveInv /\ CallInv /\ CallTypes /\ CallTypes'
        /\ BrowserTypes /\ JarInv /\ RowTypes
        /\ (\A d \in Calls : AskedOK(d)) /\ (\A d \in Calls : OnItsWay(d))
    BY <1>1 DEF IdentityInv, TableInv, SessionInv, BrowserInv
  <1>3. UNCHANGED <<jar, access, lapsed, tab, reply, ages>>
    BY DEF browser
  <1>4. /\ Frame(c) /\ Grows /\ SameApps /\ op' = op
        /\ at[c] \notin {"idle", "ok", "failed"} /\ at'[c] # "idle"
    BY <1>1 DEF Moves
  <1>5. BrowserTypes'
    BY <1>2, <1>3 DEF BrowserTypes
  <1>6. JarInv'
    <2>1. jar # 0 => jar \in Tokens
      <3>1. jar \in 0..MaxTokens
        BY <1>2 DEF BrowserTypes
      <3>2. QED
        BY <3>1 DEF Tokens
    <2>2. jar # 0 => tok'[jar] # "none" /\ app'[jar] = Nil
      BY <1>2, <1>4, <2>1 DEF JarInv, Grows, SameApps
    <2>3. jar' = jar /\ access' = access
      BY <1>3
    <2>4. jar = 0 <=> access = "none"
      BY <1>2 DEF JarInv
    <2>5. QED
      BY <2>2, <2>3, <2>4 DEF JarInv
  <1>7. ASSUME NEW d \in Calls
        PROVE  AskedOK(d)'
    <2>1. AskedOK(d) /\ CallOK(d)
      BY <1>2 DEF CallInv
    <2>2. Claiming(d) /\ op[d] = "refresh" => held[d] \in Tokens /\ tok[held[d]] # "none"
      BY <2>1 DEF CallOK, Presents
    <2>3. CASE d # c
      <3>1. op'[d] = op[d] /\ at'[d] = at[d] /\ held'[d] = held[d] /\ made'[d] = made[d]
        BY <1>4, <2>3 DEF Frame
      <3>2. at[d] = "ok" /\ made[d] # 0 => made[d] \in Tokens /\ tok[made[d]] # "none"
        BY <1>2, <2>1 DEF CallOK, CallTypes, Tokens
      <3>3. QED
        BY <1>3, <1>4, <2>1, <2>2, <3>1, <3>2 DEF AskedOK, Claiming, SameApps
    <2>4. CASE d = c
      <3>1. reply[c] # "none" /\ op[c] = "refresh" /\ Claiming(c)' => app'[held'[c]] = Nil
        BY <1>1, <1>4, <2>1, <2>2, <2>4 DEF Moves, AskedOK, SameApps
      <3>2. reply[c] # "none" /\ at'[c] = "ok" /\ made'[c] # 0 => app'[made'[c]] = Nil
        <4>1. SUFFICES ASSUME reply[c] # "none", at'[c] = "ok", made'[c] # 0
                       PROVE  app'[made'[c]] = Nil
          OBVIOUS
        <4>2. CASE op[c] = "refresh"
          BY <1>1, <2>1, <2>4, <4>1, <4>2 DEF Moves, AskedOK
        <4>3. CASE op[c] = "login"
          BY <1>1, <4>1, <4>3 DEF Moves
        <4>4. CASE op[c] = "logout"
          <5>1. CallOK(c)' /\ op'[c] = "logout"
            BY <1>1, <1>4, <4>4 DEF IdentityInv, CallInv
          <5>2. CallOK(c) /\ at[c] \notin {"idle", "ok", "failed"} /\ ~ Claiming(c) /\ at[c] # "issue"
            BY <1>4, <2>1, <2>4, <4>4 DEF CallOK, Presents
          <5>3. at[c] \in {"update", "revoke", "locks"}
            BY <1>2, <5>2 DEF CallTypes, Places, Claiming
          <5>4. Update(c) \/ StartRevoke(c) \/ EndRevoke(c) \/ Fails(c)
            BY <5>3 DEF Serve, Connect, Claim, Insert, Commit, Issue
          <5>5. made'[c] = made[c] \/ made'[c] = 0
            BY <1>2, <5>4 DEF Update, StartRevoke, EndRevoke, Fails, CallTypes
          <5>6. made[c] = 0
            BY <5>2, <5>3 DEF CallOK
          <5>7. QED
            BY <4>1, <5>5, <5>6
        <4>5. QED
          BY <2>1, <2>4, <4>1, <4>2, <4>3, <4>4 DEF AskedOK
      <3>3. QED
        BY <1>3, <1>4, <2>1, <2>4, <3>1, <3>2 DEF AskedOK
    <2>5. QED
      BY <2>3, <2>4
  <1>8. ASSUME NEW d \in Calls
        PROVE  OnItsWay(d)'
    <2>1. SUFFICES ASSUME Unheard(d)'
                   PROVE  /\ jar' # made'[d]
                          /\ \A e \in Calls : op'[e] = "refresh" /\ Claiming(e)' => held'[e] # made'[d]
                          /\ \A t \in Tokens : root'[t] = root'[made'[d]] => t <= made'[d]
      BY DEF OnItsWay
    <2>2. reply[d] = "asked" /\ at'[d] = "ok" /\ made'[d] # 0
      BY <1>3, <2>1 DEF Unheard
    <2>3. ASSUME NEW e \in Calls, op'[e] = "refresh", Claiming(e)'
          PROVE  /\ op[e] = "refresh" /\ Claiming(e) /\ held'[e] = held[e]
                 /\ held[e] \in Tokens /\ tok[held[e]] # "none"
      <3>1. op[e] = "refresh" /\ Claiming(e) /\ held'[e] = held[e]
        <4>1. CASE e = c
          BY <1>1, <1>4, <2>3, <4>1 DEF Moves
        <4>2. CASE e # c
          BY <1>4, <2>3, <4>2 DEF Frame, Claiming
        <4>3. QED
          BY <4>1, <4>2
      <3>2. QED
        BY <1>2, <3>1 DEF CallInv, CallOK, Presents
    <2>4. CASE d = c
      <3>1. /\ made'[c] \in Tokens /\ tok[made'[c]] = "none"
            /\ \A t \in Tokens : root'[t] = root'[made'[c]] => t <= made'[c]
        BY <1>1, <2>2, <2>4 DEF Moves
      <3>2. jar' # made'[c]
        BY <1>2, <1>3, <2>2, <2>4, <3>1 DEF JarInv
      <3>3. QED
        BY <2>3, <2>4, <3>1, <3>2
    <2>5. CASE d # c
      <3>1. made'[d] = made[d] /\ at[d] = "ok" /\ Unheard(d)
        BY <1>4, <2>2, <2>5 DEF Frame, Unheard
      <3>2. /\ jar # made[d]
            /\ \A e \in Calls : op[e] = "refresh" /\ Claiming(e) => held[e] # made[d]
            /\ \A t \in Tokens : root[t] = root[made[d]] => t <= made[d]
        BY <1>2, <3>1 DEF OnItsWay
      <3>3. made[d] \in Tokens /\ tok[made[d]] # "none"
        BY <1>2, <2>2, <3>1 DEF CallInv, CallOK, CallTypes, Tokens
      <3>4. root'[made[d]] = root[made[d]] /\ root[made[d]] # 0 /\ tok[root[made[d]]] # "none"
        <4>1. root[made[d]] \in 1..made[d] /\ tok[root[made[d]]] # "none"
          BY <1>2, <3>3 DEF ChainInv
        <4>2. QED
          BY <1>4, <3>3, <4>1 DEF Grows
      <3>5. ASSUME NEW t \in Tokens, root'[t] = root[made[d]]
            PROVE  t <= made[d]
        <4>1. tok'[t] # "none"
          BY <1>2, <3>4, <3>5 DEF ChainInv
        <4>2. CASE tok[t] # "none"
          BY <1>4, <3>2, <3>5, <4>2 DEF Grows
        <4>3. CASE tok[t] = "none"
          <5>1. \/ root'[t] = t
                \/ /\ Claiming(c) /\ op[c] = "refresh"
                   /\ tok[held[c]] = "live" /\ root'[t] = root[held[c]]
            BY <1>1, <4>1, <4>3 DEF Moves
          <5>2. root'[t] # t
            BY <3>4, <3>5, <4>3
          <5>3. Claiming(c) /\ op[c] = "refresh" /\ tok[held[c]] = "live" /\ root[held[c]] = root[made[d]]
            BY <3>5, <5>1, <5>2
          <5>4. held[c] \in Tokens /\ held[c] # made[d]
            BY <1>2, <3>2, <5>3 DEF CallInv, CallOK, Presents
          <5>5. held[c] <= made[d] /\ made[d] <= held[c]
            BY <1>2, <3>2, <3>3, <5>3, <5>4 DEF LiveInv
          <5>6. QED
            BY <3>3, <5>4, <5>5 DEF Tokens
        <4>4. QED
          BY <4>2, <4>3
      <3>6. QED
        BY <1>3, <2>3, <3>1, <3>2, <3>4, <3>5
    <2>6. QED
      BY <2>4, <2>5
  <1>9. QED
    BY <1>1, <1>5, <1>6, <1>7, <1>8 DEF SessionInv, BrowserInv

\* A call arrives from elsewhere.
LEMMA ElsewhereKeeps ==
  ASSUME SessionInv, NEW c \in Calls, Elsewhere(c), UNCHANGED browser
  PROVE  SessionInv'
  <1>1. /\ IdentityInv /\ ChainInv /\ CallInv /\ CallTypes /\ RowTypes
        /\ BrowserTypes /\ JarInv
        /\ (\A d \in Calls : AskedOK(d)) /\ (\A d \in Calls : OnItsWay(d))
    BY DEF IdentityInv, TableInv, SessionInv, BrowserInv
  <1>2. UNCHANGED <<jar, access, lapsed, tab, reply, ages>>
    BY DEF browser
  <1>3. IdentityInv'
    BY <1>1, CallsArrive DEF Elsewhere, OAuthCall, AdminCall
  <1>4. PICK o, p, w : /\ Begin(c, o, p, w)
                       /\ o = "refresh" => p \in Tokens /\ app[p] \in Codes
    <2>1. CASE AdminCall(c)
      <3>1. CASE CallPassword(c)
        BY <3>1 DEF CallPassword
      <3>2. CASE \E wanted \in BOOLEAN : CallSetActive(c, wanted)
        <4>1. PICK wanted \in BOOLEAN : CallSetActive(c, wanted)
          BY <3>2
        <4>2. (IF wanted THEN "activate" ELSE "deactivate") # "refresh"
          OBVIOUS
        <4>3. QED
          BY <4>1, <4>2 DEF CallSetActive
      <3>3. QED
        BY <2>1, <3>1, <3>2 DEF AdminCall
    <2>2. CASE OAuthCall(c)
      <3>1. PICK k \in Codes :
              \/ CallExchange(c, k)
              \/ CallDropApp(c, k)
              \/ \E t \in Tokens : tok[t] # "none" /\ app[t] = k /\ CallRefresh(c, t)
        BY <2>2 DEF OAuthCall
      <3>2. CASE CallExchange(c, k)
        BY <3>2 DEF CallExchange
      <3>3. CASE CallDropApp(c, k)
        <4>1. Begin(c, "drop", k, "revoke")
          BY <3>3 DEF CallDropApp
        <4>2. QED
          BY <4>1
      <3>4. CASE \E t \in Tokens : tok[t] # "none" /\ app[t] = k /\ CallRefresh(c, t)
        BY <3>4 DEF CallRefresh
      <3>5. QED
        BY <3>1, <3>2, <3>3, <3>4
    <2>3. QED
      BY <2>1, <2>2 DEF Elsewhere
  <1>5. /\ at[c] = "idle" /\ at' = [at EXCEPT ![c] = w] /\ op' = [op EXCEPT ![c] = o]
        /\ held' = [held EXCEPT ![c] = p] /\ UNCHANGED <<tables, made>>
    BY <1>4 DEF Begin
  <1>6. Frame(c) /\ held'[c] = p /\ op'[c] = o
    BY <1>1, <1>5 DEF Frame, CallTypes
  <1>7. reply[c] = "none" /\ UNCHANGED <<tok, root, app>>
    BY <1>1, <1>5 DEF AskedOK, tables
  <1>8. BrowserTypes'
    BY <1>1, <1>2 DEF BrowserTypes
  <1>9. JarInv'
    BY <1>1, <1>2, <1>7 DEF JarInv
  <1>10. ASSUME NEW d \in Calls
         PROVE  AskedOK(d)'
    BY <1>1, <1>2, <1>6, <1>7 DEF AskedOK, Frame, Claiming
  <1>11. ASSUME NEW d \in Calls
         PROVE  OnItsWay(d)'
    <2>1. SUFFICES ASSUME Unheard(d)'
                   PROVE  /\ jar' # made'[d]
                          /\ \A e \in Calls : op'[e] = "refresh" /\ Claiming(e)' => held'[e] # made'[d]
                          /\ \A t \in Tokens : root'[t] = root'[made'[d]] => t <= made'[d]
      BY DEF OnItsWay
    <2>2. d # c
      BY <1>2, <1>7, <2>1 DEF Unheard
    <2>3. Unheard(d) /\ made'[d] = made[d] /\ AskedOK(d)
      BY <1>1, <1>2, <1>6, <2>1, <2>2 DEF Unheard, Frame
    <2>4. app[made[d]] = Nil
      BY <2>3 DEF AskedOK, Unheard
    <2>5. o = "refresh" => p # made[d]
      BY <1>4, <2>4, IdentityAssumption
    <2>6. /\ jar # made[d]
          /\ \A e \in Calls : op[e] = "refresh" /\ Claiming(e) => held[e] # made[d]
          /\ \A t \in Tokens : root[t] = root[made[d]] => t <= made[d]
      BY <1>1, <2>3 DEF OnItsWay
    <2>7. ASSUME NEW e \in Calls, op'[e] = "refresh", Claiming(e)'
          PROVE  held'[e] # made'[d]
      <3>1. CASE e = c
        BY <1>6, <2>3, <2>5, <2>7, <3>1
      <3>2. CASE e # c
        BY <1>6, <2>3, <2>6, <2>7, <3>2 DEF Frame, Claiming
      <3>3. QED
        BY <3>1, <3>2
    <2>8. QED
      BY <1>2, <1>7, <2>3, <2>6, <2>7
  <1>12. QED
    BY <1>3, <1>8, <1>9, <1>10, <1>11 DEF SessionInv, BrowserInv

\* A request of the browser carries the cookies of the moment.
LEMMA SendKeeps ==
  ASSUME SessionInv, NEW c \in Calls, Send(c)
  PROVE  SessionInv' /\ jar' = jar
  <1>1. /\ IdentityInv /\ ChainInv /\ CallInv /\ CallTypes /\ RowTypes
        /\ BrowserTypes /\ JarInv
        /\ (\A d \in Calls : AskedOK(d)) /\ (\A d \in Calls : OnItsWay(d))
    BY DEF IdentityInv, TableInv, SessionInv, BrowserInv
  <1>2. jar \in 0..MaxTokens
    BY <1>1 DEF BrowserTypes
  <1>3. jar # 0 => jar \in Tokens /\ tok[jar] # "none" /\ app[jar] = Nil
    BY <1>1, <1>2 DEF JarInv, Tokens
  <1>4. PICK from \in Tabs \cup {Nil} : Ask(c, from)
    BY DEF Send, Navigate, Post, Login, Logout
  <1>. DEFINE Sent(o, p, w) ==
         /\ Begin(c, o, p, w)
         /\ o \in {"refresh", "login", "logout"} /\ w \in {"connect", "issue", "failed", "revoke"}
         /\ o = "refresh" => p = jar /\ jar # 0
  <1>5. /\ IdentityInv'
        /\ \E o, p, w : Sent(o, p, w)
    <2>1. CASE jar # 0 /\ CallRefresh(c, jar)
      <3>1. Sent("refresh", jar, "connect")
        BY <2>1 DEF CallRefresh
      <3>. HIDE DEF Sent
      <3>2. QED
        BY <1>1, <1>3, <2>1, <3>1, CallsArrive
    <2>2. CASE CallLogin(c)
      <3>1. Sent("login", 0, IF active THEN "issue" ELSE "failed")
        BY <2>2 DEF CallLogin
      <3>. HIDE DEF Sent
      <3>2. QED
        BY <1>1, <2>2, <3>1, CallsArrive
    <2>3. CASE CallLogout(c)
      <3>1. Sent("logout", 0, "revoke")
        BY <2>3 DEF CallLogout
      <3>. HIDE DEF Sent
      <3>2. QED
        BY <1>1, <2>3, <3>1, CallsArrive
    <2>4. QED
      BY <2>1, <2>2, <2>3 DEF Send, Navigate, Post, Login, Logout
  <1>6. PICK o, p, w : Sent(o, p, w)
    BY <1>5
  <1>7. /\ at[c] = "idle" /\ at' = [at EXCEPT ![c] = w] /\ op' = [op EXCEPT ![c] = o]
        /\ held' = [held EXCEPT ![c] = p] /\ UNCHANGED <<tables, made>>
    BY <1>6 DEF Begin
  <1>8. Frame(c) /\ held'[c] = p /\ op'[c] = o /\ at'[c] = w
    BY <1>1, <1>7 DEF Frame, CallTypes
  <1>9. UNCHANGED <<tok, root, app, made>>
    BY <1>7 DEF tables
  <1>10. /\ reply' = [reply EXCEPT ![c] = "asked"] /\ tab' = [tab EXCEPT ![c] = from]
         /\ UNCHANGED <<jar, access, lapsed, ages>>
    BY <1>4 DEF Ask
  <1>11. BrowserTypes'
    BY <1>1, <1>10 DEF BrowserTypes
  <1>12. \A d \in Calls : reply'[d] = IF d = c THEN "asked" ELSE reply[d]
    BY <1>1, <1>10 DEF BrowserTypes
  <1>13. JarInv'
    <2>1. jar = 0 <=> access = "none"
      BY <1>1 DEF JarInv
    <2>2. QED
      BY <1>3, <1>9, <1>10, <2>1 DEF JarInv
  <1>14. ASSUME NEW d \in Calls
         PROVE  AskedOK(d)'
    <2>1. CASE d = c
      BY <1>3, <1>6, <1>8, <1>9, <1>12, <2>1 DEF AskedOK
    <2>2. CASE d # c
      BY <1>1, <1>8, <1>9, <1>12, <2>2 DEF AskedOK, Frame, Claiming
    <2>3. QED
      BY <2>1, <2>2
  <1>15. ASSUME NEW d \in Calls
         PROVE  OnItsWay(d)'
    <2>1. SUFFICES ASSUME Unheard(d)'
                   PROVE  /\ jar' # made'[d]
                          /\ \A e \in Calls : op'[e] = "refresh" /\ Claiming(e)' => held'[e] # made'[d]
                          /\ \A t \in Tokens : root'[t] = root'[made'[d]] => t <= made'[d]
      BY DEF OnItsWay
    <2>2. d # c
      BY <1>6, <1>8, <2>1 DEF Unheard
    <2>3. Unheard(d)
      BY <1>8, <1>9, <1>12, <2>1, <2>2 DEF Unheard, Frame
    <2>4. /\ jar # made[d]
          /\ \A e \in Calls : op[e] = "refresh" /\ Claiming(e) => held[e] # made[d]
          /\ \A t \in Tokens : root[t] = root[made[d]] => t <= made[d]
      BY <1>1, <2>3 DEF OnItsWay
    <2>5. ASSUME NEW e \in Calls, op'[e] = "refresh", Claiming(e)'
          PROVE  held'[e] # made'[d]
      <3>1. CASE e = c
        BY <1>6, <1>8, <1>9, <2>4, <2>5, <3>1
      <3>2. CASE e # c
        BY <1>8, <1>9, <2>4, <2>5, <3>2 DEF Frame, Claiming
      <3>3. QED
        BY <3>1, <3>2
    <2>6. QED
      BY <1>9, <1>10, <2>4, <2>5
  <1>16. QED
    BY <1>5, <1>10, <1>11, <1>13, <1>14, <1>15 DEF SessionInv, BrowserInv

\* Nothing of the identity service changes but the count of faults.
SameService == UNCHANGED <<tables, calls>> /\ failed' \in 0..MaxFaults

LEMMA SameServiceKeeps ==
  ASSUME IdentityInv, SameService
  PROVE  IdentityInv'
  <1>1. UNCHANGED <<tok, root, app, code, active, ended, op, at, held, made, rows>>
    BY DEF SameService, tables, calls
  <1>2. CallTypes'
    BY <1>1 DEF IdentityInv, CallTypes, SameService
  <1>3. TableInv'
    BY <1>1, SameTables DEF IdentityInv, TableInv, RowTypes
  <1>4. CallInv' /\ PairInv'
    BY <1>1
    DEF IdentityInv, CallInv, CallOK, PairInv, Distinct, Claiming, Claimed, Presents
  <1>5. QED
    BY <1>2, <1>3, <1>4 DEF IdentityInv

\* An answer that arrives puts the last token of its session into the jar, or
\* empties the jar, or leaves it.
LEMMA HearKeeps ==
  ASSUME SessionInv, NEW c \in Calls, Receive(c) \/ GiveUp(c) \/ AnswerLost(c)
  PROVE  /\ SessionInv' /\ UNCHANGED root
         /\ jar' # 0 /\ jar # 0 /\ root[jar] = root[jar'] => jar <= jar'
  <1>1. /\ IdentityInv /\ CallInv /\ CallTypes /\ PairInv
        /\ BrowserTypes /\ JarInv
        /\ (\A d \in Calls : AskedOK(d)) /\ (\A d \in Calls : OnItsWay(d))
    BY DEF IdentityInv, TableInv, SessionInv, BrowserInv
  <1>2. SameService
    <2>1. failed \in 0..MaxFaults
      BY <1>1 DEF CallTypes
    <2>2. Faulty => failed' \in 0..MaxFaults
      BY <2>1, IdentityAssumption DEF Faulty
    <2>3. QED
      BY <2>1, <2>2 DEF Receive, GiveUp, AnswerLost, SameService, identity
  <1>3. UNCHANGED <<tok, root, app, op, at, held, made>>
    BY <1>2 DEF SameService, tables, calls
  <1>4. PICK r \in {"abandoned", "done"} : reply' = [reply EXCEPT ![c] = r]
    BY DEF Receive, GiveUp, AnswerLost
  <1>5. /\ reply[c] # "none" /\ UNCHANGED <<lapsed, tab, ages>>
        /\ \/ UNCHANGED <<jar, access>>
           \/ jar' = 0 /\ access' = "none"
           \/ Granted(c) /\ jar' = made[c] /\ access' = "good"
    BY DEF Receive, GiveUp, AnswerLost, SetCookies, ClearCookies, LoginFails, Granted, Answered
  <1>6. /\ jar \in 0..MaxTokens /\ reply \in [Calls -> {"none", "asked", "abandoned", "done"}]
        /\ access \in {"none", "good", "near", "expired"}
    BY <1>1 DEF BrowserTypes
  <1>7. Granted(c) => made[c] \in Tokens /\ Unheard(c) /\ tok[made[c]] # "none" /\ app[made[c]] = Nil
    <2>1. Granted(c) => at[c] = "ok" /\ op[c] \in Makers /\ reply[c] = "asked"
      BY DEF Granted, Makers
    <2>2. CallOK(c) /\ AskedOK(c) /\ made[c] \in 0..MaxTokens
      BY <1>1 DEF CallInv, CallTypes
    <2>3. Granted(c) => made[c] # 0
      BY <2>1, <2>2 DEF CallOK
    <2>4. made[c] # 0 => made[c] \in Tokens
      BY <2>2 DEF Tokens
    <2>5. QED
      BY <2>1, <2>2, <2>3, <2>4 DEF CallOK, AskedOK, Unheard
  <1>8. \A d \in Calls : reply'[d] = IF d = c THEN r ELSE reply[d]
    BY <1>4, <1>6
  <1>9. BrowserTypes'
    <2>1. jar' \in 0..MaxTokens /\ access' \in {"none", "good", "near", "expired"}
      BY <1>5, <1>6, <1>7, IdentityAssumption DEF Tokens
    <2>2. QED
      BY <1>1, <1>4, <1>5, <1>6, <2>1 DEF BrowserTypes
  <1>10. JarInv'
    <2>1. CASE UNCHANGED <<jar, access>>
      <3>1. jar = 0 <=> access = "none"
        BY <1>1 DEF JarInv
      <3>2. jar # 0 => tok[jar] # "none" /\ app[jar] = Nil
        BY <1>1 DEF JarInv
      <3>3. QED
        BY <1>3, <2>1, <3>1, <3>2 DEF JarInv
    <2>2. CASE jar' = 0 /\ access' = "none"
      BY <2>2 DEF JarInv
    <2>3. CASE Granted(c) /\ jar' = made[c] /\ access' = "good"
      <3>1. jar' # 0
        BY <1>7, <2>3 DEF Tokens
      <3>2. QED
        BY <1>3, <1>7, <2>3, <3>1 DEF JarInv
    <2>4. QED
      BY <1>5, <2>1, <2>2, <2>3
  <1>11. ASSUME NEW d \in Calls
         PROVE  AskedOK(d)'
    <2>1. AskedOK(d) /\ (d = c => reply[d] # "none")
      BY <1>1, <1>5
    <2>2. reply'[d] = "none" <=> reply[d] = "none"
      BY <1>5, <1>8
    <2>3. QED
      BY <1>3, <2>1, <2>2 DEF AskedOK, Claiming
  <1>12. ASSUME NEW d \in Calls
         PROVE  OnItsWay(d)'
    <2>1. SUFFICES ASSUME Unheard(d)'
                   PROVE  /\ jar' # made[d]
                          /\ \A e \in Calls : op[e] = "refresh" /\ Claiming(e) => held[e] # made[d]
                          /\ \A t \in Tokens : root[t] = root[made[d]] => t <= made[d]
      BY <1>3 DEF OnItsWay, Claiming
    <2>2. d # c /\ Unheard(d)
      BY <1>3, <1>8, <2>1 DEF Unheard
    <2>3. /\ jar # made[d]
          /\ \A e \in Calls : op[e] = "refresh" /\ Claiming(e) => held[e] # made[d]
          /\ \A t \in Tokens : root[t] = root[made[d]] => t <= made[d]
      BY <1>1, <2>2 DEF OnItsWay
    <2>4. made[d] # 0 /\ made[d] # made[c]
      BY <1>1, <2>2 DEF Unheard, PairInv, Distinct
    <2>5. jar' # made[d]
      BY <1>5, <2>3, <2>4
    <2>6. QED
      BY <2>3, <2>5
  <1>13. jar' # 0 /\ jar # 0 /\ root[jar] = root[jar'] => jar <= jar'
    <2>1. SUFFICES ASSUME jar # 0, Granted(c), jar' = made[c], root[jar] = root[made[c]]
                   PROVE  jar <= made[c]
      BY <1>5, <1>6
    <2>2. jar \in Tokens
      BY <1>6, <2>1 DEF Tokens
    <2>3. QED
      BY <1>1, <1>7, <2>1, <2>2 DEF OnItsWay
  <1>14. IdentityInv'
    BY <1>1, <1>2, SameServiceKeeps
  <1>15. QED
    BY <1>3, <1>9, <1>10, <1>11, <1>12, <1>13, <1>14 DEF SessionInv, BrowserInv

\* Steps that leave the jar and every call alone.
LEMMA RestKeeps ==
  ASSUME SessionInv,
         \/ Age \/ UNCHANGED sessionVars
         \/ (\E k \in Codes : IssueCode(k)) /\ UNCHANGED browser
  PROVE  SessionInv' /\ jar' = jar
  <1>1. /\ IdentityInv /\ BrowserTypes /\ JarInv
        /\ (\A d \in Calls : AskedOK(d)) /\ (\A d \in Calls : OnItsWay(d))
    BY DEF SessionInv, BrowserInv
  <1>2. UNCHANGED <<tok, root, app, calls, jar, reply>>
    BY DEF Age, sessionVars, identity, browser, tables, IssueCode
  <1>3. IdentityInv'
    <2>1. CASE Age \/ UNCHANGED sessionVars
      <3>1. failed \in 0..MaxFaults
        BY <1>1 DEF IdentityInv, CallTypes
      <3>2. SameService
        BY <2>1, <3>1 DEF Age, sessionVars, identity, SameService
      <3>3. QED
        BY <1>1, <3>2, SameServiceKeeps
    <2>2. CASE \E k \in Codes : IssueCode(k)
      BY <1>1, <2>2, IssueCodeKeeps
    <2>3. QED
      BY <2>1, <2>2
  <1>4. BrowserTypes' /\ (access' = "none" <=> access = "none")
    <2>1. CASE Age
      <3>1. ages' \in 0..MaxAges
        BY <1>1, <2>1, BrowserAssumption DEF Age, BrowserTypes
      <3>2. /\ access' \in {"none", "good", "near", "expired"} /\ lapsed' \in BOOLEAN
            /\ access' # "none" /\ access # "none"
        BY <1>1, <2>1 DEF Age, BrowserTypes
      <3>3. QED
        BY <1>1, <2>1, <3>1, <3>2 DEF Age, BrowserTypes
    <2>2. CASE UNCHANGED browser
      BY <1>1, <2>2 DEF browser, BrowserTypes
    <2>3. QED
      BY <2>1, <2>2 DEF sessionVars
  <1>5. JarInv'
    <2>1. jar = 0 <=> access = "none"
      BY <1>1 DEF JarInv
    <2>2. jar # 0 => tok[jar] # "none" /\ app[jar] = Nil
      BY <1>1 DEF JarInv
    <2>3. QED
      BY <1>2, <1>4, <2>1, <2>2 DEF JarInv
  <1>6. ASSUME NEW d \in Calls
        PROVE  AskedOK(d)' /\ OnItsWay(d)'
    BY <1>1, <1>2 DEF calls, AskedOK, OnItsWay, Unheard, Claiming
  <1>7. QED
    BY <1>2, <1>3, <1>4, <1>5, <1>6 DEF SessionInv, BrowserInv

LEMMA NextSession ==
  ASSUME SessionInv, [BrowserNext]_sessionVars
  PROVE  /\ SessionInv'
         /\ jar # 0 /\ jar' # 0 /\ root[jar] = root'[jar'] => jar' >= jar
  <1>1. jar \in Int /\ jar \in 0..MaxTokens
    BY DEF SessionInv, BrowserInv, BrowserTypes
  <1>2. ASSUME NEW c \in Calls, Send(c)
        PROVE  SessionInv' /\ jar' = jar
    BY <1>2, SendKeeps
  <1>3. ASSUME NEW c \in Calls, Receive(c) \/ GiveUp(c) \/ AnswerLost(c)
        PROVE  /\ SessionInv' /\ UNCHANGED root
               /\ jar' # 0 /\ jar # 0 /\ root[jar] = root[jar'] => jar <= jar'
    BY <1>3, HearKeeps
  <1>4. ASSUME NEW c \in Calls, Serve(c) \/ Fails(c) \/ Elsewhere(c), UNCHANGED browser
        PROVE  SessionInv' /\ jar' = jar
    BY <1>4, ServeKeepsBrowser, ElsewhereKeeps DEF browser
  <1>5. ASSUME \/ Age \/ UNCHANGED sessionVars
               \/ (\E k \in Codes : IssueCode(k)) /\ UNCHANGED browser
        PROVE  SessionInv' /\ jar' = jar
    BY <1>5, RestKeeps
  <1>6. QED
    <2>1. CASE SessionInv' /\ jar' = jar
      BY <1>1, <2>1
    <2>2. CASE \E c \in Calls : Receive(c) \/ GiveUp(c) \/ AnswerLost(c)
      <3>1. /\ SessionInv' /\ UNCHANGED root
            /\ jar' # 0 /\ jar # 0 /\ root[jar] = root[jar'] => jar <= jar'
        BY <1>3, <2>2
      <3>2. jar' \in Int
        BY <3>1 DEF SessionInv, BrowserInv, BrowserTypes
      <3>3. QED
        BY <1>1, <3>1, <3>2
    <2>3. QED
      BY <1>2, <1>4, <1>5, <2>1, <2>2 DEF BrowserNext

\* The rows of identity, the calls under way and what the browser has or waits
\* for fit together in every state.
THEOREM SessionInductive == SessionSpec => []SessionInv
  <1>1. SessionInv /\ [BrowserNext]_sessionVars => SessionInv'
    BY NextSession
  <1>2. QED
    BY <1>1, InitSession, PTL DEF SessionSpec

\* The rows, the calls and the cookies keep their types.
THEOREM SessionTypeCorrect == SessionSpec => []BrowserTypeOK
  <1>1. SessionInv => BrowserTypeOK
    <2>. SUFFICES ASSUME SessionInv PROVE BrowserTypeOK
      OBVIOUS
    <2>1. /\ RowTypes /\ CallTypes /\ ChainInv /\ LiveInv /\ CallInv /\ BrowserTypes /\ JarInv
          /\ \A c \in Calls : AskedOK(c)
      BY DEF SessionInv, IdentityInv, TableInv, BrowserInv
    <2>2. ASSUME NEW c \in Calls
          PROVE  /\ held[c] \in 0..MaxTokens \cup Codes
                 /\ at[c] \in {"insert", "commit"} =>
                      op[c] \in {"refresh", "exchange"} /\ held[c] # 0
                 /\ reply[c] # "none" => op[c] \in {"refresh", "login", "logout"}
      <3>1. CallOK(c) /\ AskedOK(c)
        BY <2>1 DEF CallInv
      <3>2. 0 \notin Tokens /\ 0 \notin Codes
        BY IdentityAssumption DEF Tokens
      <3>3. held[c] \in 0..MaxTokens \cup Codes
        BY <2>1 DEF CallTypes
      <3>4. QED
        BY <3>1, <3>2, <3>3 DEF CallOK, AskedOK, Claiming, Presents
    <2>3. /\ \A t \in Tokens : tok[t] # "none" => root[t] \in 1..t
          /\ ended \subseteq {t \in Tokens : root[t] = t}
      BY <2>1 DEF ChainInv, LiveInv, RowTypes
    <2>4. IdentityTypeOK
      BY <2>1, <2>2, <2>3 DEF IdentityTypeOK, RowTypes, CallTypes, Places
    <2>5. (jar = 0 <=> access = "none") /\ (jar # 0 => tok[jar] # "none" /\ app[jar] = Nil)
      BY <2>1 DEF JarInv
    <2>6. QED
      BY <2>1, <2>2, <2>4, <2>5 DEF BrowserTypeOK, BrowserTypes
  <1>2. QED
    BY <1>1, SessionInductive, PTL

\* However many refreshes, revocations and failures cross: a session has one
\* live token, and none once a revocation took it.
THEOREM OneLiveToken == SessionSpec => []SessionHasItsToken
  <1>1. SessionInv => SessionHasItsToken
    <2>. SUFFICES ASSUME SessionInv, NEW s \in Sessions
                  PROVE  Cardinality({t \in Session(s) : tok[t] = "live"}) =
                           (IF s \in ended THEN 0 ELSE 1)
      BY DEF SessionHasItsToken
    <2>. DEFINE Live == {t \in Session(s) : tok[t] = "live"}
    <2>1. LiveInv /\ s \in Tokens /\ root[s] = s
      BY DEF SessionInv, IdentityInv, TableInv, Sessions
    <2>2. CASE s \in ended
      <3>1. Live = {}
        BY <2>1, <2>2 DEF LiveInv, Session
      <3>2. QED
        BY <2>2, <3>1, FS_EmptySet
    <2>3. CASE s \notin ended
      <3>1. PICK t \in Tokens : root[t] = s /\ tok[t] = "live"
        BY <2>1, <2>3 DEF LiveInv
      <3>2. ASSUME NEW u \in Live
            PROVE  u = t
        <4>1. u \in Tokens /\ u <= t /\ t <= u
          BY <2>1, <3>1, <3>2 DEF LiveInv, Session
        <4>2. QED
          BY <4>1 DEF Tokens
      <3>3. Live = {t}
        BY <3>1, <3>2 DEF Session
      <3>4. QED
        BY <2>3, <3>3, FS_Singleton
    <2>4. QED
      BY <2>2, <2>3
  <1>2. QED
    BY <1>1, SessionInductive, PTL

\* However many exchanges present a code: it buys one session, and is consumed
\* exactly when it has.
THEOREM CodeSpentOnce == SessionSpec => []CodeBuysOneSession
  <1>1. SessionInv => CodeBuysOneSession
    <2>. SUFFICES ASSUME SessionInv, NEW k \in Codes
                  PROVE  Cardinality({s \in Sessions : app[s] = k}) =
                           (IF code[k] = "consumed" THEN 1 ELSE 0)
      BY DEF CodeBuysOneSession
    <2>. DEFINE Bought == {s \in Sessions : app[s] = k}
    <2>1. CodeInv /\ k # Nil
      BY IdentityAssumption DEF SessionInv, IdentityInv, TableInv
    <2>2. CASE code[k] = "consumed"
      <3>1. PICK s \in Tokens : root[s] = s /\ app[s] = k
        BY <2>1, <2>2 DEF CodeInv
      <3>2. Bought = {s}
        BY <2>1, <3>1 DEF CodeInv, Sessions
      <3>3. QED
        BY <2>2, <3>2, FS_Singleton
    <2>3. CASE code[k] # "consumed"
      <3>1. Bought = {}
        BY <2>1, <2>3 DEF CodeInv, Sessions
      <3>2. QED
        BY <2>3, <3>1, FS_EmptySet
    <2>4. QED
      BY <2>2, <2>3
  <1>2. QED
    BY <1>1, SessionInductive, PTL

\* In whatever order answers arrive: the jar never goes back to an older token
\* of the session it holds.
THEOREM JarNeverGoesBack == SessionSpec => JarMovesForward
  <1>1. SessionInv /\ [BrowserNext]_sessionVars =>
          [jar # 0 /\ jar' # 0 /\ root[jar] = root'[jar'] => jar' >= jar]_sessionVars
    BY NextSession
  <1>2. QED
    BY <1>1, SessionInductive, PTL DEF SessionSpec, JarMovesForward

-----------------------------------------------------------------------------
(* Row locks and the pool. *)

UnderWay(c) == at[c] \notin {"idle", "ok", "failed"}

\* The condition under which the next statement of a call does not wait.
Ready(c) ==
  \/ at[c] = "commit"
  \/ at[c] = "insert" /\ NextToken \in Tokens
  \/ at[c] = "claim" /\ ~ Locked(held[c])
  \/ at[c] = "locks" /\ \A t \in rows[c] : ~ Locked(t)
  \/ at[c] \in {"connect", "update", "revoke"} /\ ClientFree
  \/ at[c] = "issue" /\ ClientFree /\ NextToken \in Tokens

\* Calls that may have inserted a token.
Spent == {c \in Calls : at[c] \in {"commit", "ok", "failed"}}

\* A call inserts one token at most, so the numbers last as long as the calls.
CountInv == \A t \in Inserted : t <= 1 + Cardinality(Spent)

LEMMA CallsFinite == IsFiniteSet(Calls) /\ Cardinality(Calls) = MaxCalls
  BY FS_Interval, IdentityAssumption DEF Calls

LEMMA SpentFinite ==
  /\ IsFiniteSet(Spent) /\ Cardinality(Spent) \in Nat
  /\ IsFiniteSet(Spent') /\ Cardinality(Spent') \in Nat
  BY CallsFinite, FS_Subset, FS_CardinalityType DEF Spent

LEMMA CountKept ==
  ASSUME CountInv, IdentityInv, Spent \subseteq Spent', Inserted' \subseteq Inserted
  PROVE  CountInv'
  <1>1. Cardinality(Spent) <= Cardinality(Spent')
    BY SpentFinite, FS_Subset
  <1>2. \A t \in Inserted : t \in Int
    BY NewestToken DEF Tokens
  <1>3. QED
    BY <1>1, <1>2, SpentFinite DEF CountInv

LEMMA CountOneMore ==
  ASSUME CountInv, IdentityInv, NEW c \in Spent' \ Spent, Spent \subseteq Spent',
         Inserted' \subseteq Inserted \cup {NextToken}
  PROVE  CountInv'
  <1>1. Cardinality(Spent \cup {c}) = Cardinality(Spent) + 1
    BY SpentFinite, FS_AddElement
  <1>2. Cardinality(Spent \cup {c}) <= Cardinality(Spent')
    BY SpentFinite, FS_Subset
  <1>. DEFINE n == Cardinality(Spent)
              m == Cardinality(Spent')
  <1>3. n \in Nat /\ m \in Nat /\ n + 1 <= m
    BY <1>1, <1>2, SpentFinite
  <1>4. /\ NextToken \in Nat /\ NextToken - 1 <= 1 + n
        /\ \A t \in Inserted : t \in Nat /\ t <= 1 + n
    BY NewestToken DEF CountInv, Tokens
  <1>. HIDE DEF n, m, NextToken, Inserted
  <1>5. \A t \in Inserted' : t <= 1 + m
    BY <1>3, <1>4
  <1>6. QED
    BY <1>5 DEF CountInv, m

LEMMA BeginCounts ==
  ASSUME IdentityInv, CountInv, NEW c \in Calls, NEW operation, NEW presented,
         NEW where \in {"connect", "failed", "issue", "revoke", "update"},
         Begin(c, operation, presented, where)
  PROVE  CountInv'
  <1>1. at[c] = "idle" /\ at' = [at EXCEPT ![c] = where] /\ tok' = tok /\ made' = made
    BY DEF Begin, tables
  <1>2. at \in [Calls -> Places]
    BY DEF IdentityInv, CallTypes
  <1>3. Spent \subseteq Spent'
    BY <1>1, <1>2 DEF Spent
  <1>4. Inserted' \subseteq Inserted
    BY <1>1, <1>2 DEF Inserted
  <1>5. QED
    BY <1>3, <1>4, CountKept

LEMMA ServeCounts ==
  ASSUME IdentityInv, CountInv, NEW c \in Calls, Serve(c) \/ Fails(c)
  PROVE  CountInv'
  <1>1. /\ at \in [Calls -> Places] /\ made \in [Calls -> 0..MaxTokens]
        /\ tok \in [Tokens -> {"none", "live", "revoked"}]
        /\ CallOK(c)
    BY DEF IdentityInv, CallTypes, CallInv, TableInv, RowTypes
  <1>2. CASE Connect(c) \/ Claim(c) \/ Update(c) \/ StartRevoke(c)
    <2>1. /\ tok' = tok /\ made' = made
          /\ at[c] \notin {"commit", "ok", "failed"}
          /\ \E where \in {"claim", "insert", "failed", "ok", "revoke", "locks"} :
               at' = [at EXCEPT ![c] = where]
      BY <1>2 DEF Connect, Claim, Update, StartRevoke, Goto, End, tables
    <2>2. Spent \subseteq Spent' /\ Inserted' \subseteq Inserted
      BY <1>1, <2>1 DEF Spent, Inserted
    <2>3. QED
      BY <2>2, CountKept
  <1>3. CASE Insert(c)
    <2>1. /\ tok' = tok /\ made' = [made EXCEPT ![c] = NextToken] /\ at[c] = "insert"
          /\ at' = [at EXCEPT ![c] = "commit"]
      BY <1>3 DEF Insert, Goto, tables
    <2>2. Spent \subseteq Spent' /\ c \in Spent' \ Spent
      BY <1>1, <2>1 DEF Spent
    <2>3. Inserted' \subseteq Inserted \cup {NextToken}
      <3>. HIDE DEF NextToken
      <3>. QED
        BY <1>1, <2>1 DEF Inserted
    <2>4. QED
      BY <2>2, <2>3, CountOneMore
  <1>4. CASE Issue(c)
    <2>1. /\ tok' = [tok EXCEPT ![NextToken] = "live"] /\ at[c] = "issue"
          /\ made' = [made EXCEPT ![c] = NextToken] /\ at' = [at EXCEPT ![c] = "ok"]
      BY <1>4 DEF Issue, Goto
    <2>2. Spent \subseteq Spent' /\ c \in Spent' \ Spent
      BY <1>1, <2>1 DEF Spent
    <2>3. Inserted' \subseteq Inserted \cup {NextToken}
      <3>. HIDE DEF NextToken
      <3>. QED
        BY <1>1, <2>1 DEF Inserted
    <2>4. QED
      BY <2>2, <2>3, CountOneMore
  <1>5. CASE Commit(c)
    <2>1. /\ at[c] = "commit" /\ made[c] \in Tokens
          /\ \E where \in {"ok", "failed"} : at' = [at EXCEPT ![c] = where]
          /\ made' = made \/ made' = [made EXCEPT ![c] = 0]
      BY <1>1, <1>5 DEF Commit, End, Goto, CallOK
    <2>2. Spent \subseteq Spent'
      BY <1>1, <2>1 DEF Spent
    <2>3. \A t \in Tokens : tok'[t] # "none" => tok[t] # "none" \/ t = made[c]
      <3>1. CASE Rotated(c)
        <4>1. op[c] = "refresh" /\ tok' = [tok EXCEPT ![held[c]] = "revoked", ![made[c]] = "live"]
          BY <3>1 DEF Rotated
        <4>2. held[c] \in Tokens /\ tok[held[c]] = "live"
          BY <1>1, <2>1, <4>1, IdentityAssumption
          DEF CallOK, Claimed, Claiming, Presents, Tokens
        <4>3. QED
          BY <1>1, <2>1, <4>1, <4>2
      <3>2. CASE Redeemed(c)
        BY <1>1, <2>1, <3>2 DEF Redeemed
      <3>3. QED
        BY <1>5, <3>1, <3>2 DEF Commit
    <2>4. Inserted' \subseteq Inserted
      BY <1>1, <2>1, <2>3 DEF Inserted
    <2>5. QED
      BY <2>2, <2>4, CountKept
  <1>6. CASE EndRevoke(c)
    <2>1. /\ at[c] = "locks" /\ at' = [at EXCEPT ![c] = "ok"] /\ made' = made
          /\ \A t \in Tokens : tok'[t] # "none" => tok[t] # "none"
      BY <1>1, <1>6 DEF EndRevoke, End, Goto
    <2>2. Spent \subseteq Spent' /\ Inserted' \subseteq Inserted
      BY <1>1, <2>1 DEF Spent, Inserted
    <2>3. QED
      BY <2>2, CountKept
  <1>7. CASE Fails(c)
    <2>1. /\ tok' = tok /\ at' = [at EXCEPT ![c] = "failed"] /\ made' = [made EXCEPT ![c] = 0]
      BY <1>7 DEF Fails, End, Goto, tables
    <2>2. Spent \subseteq Spent' /\ Inserted' \subseteq Inserted
      BY <1>1, <2>1 DEF Spent, Inserted
    <2>3. QED
      BY <2>2, CountKept
  <1>8. QED
    BY <1>2, <1>3, <1>4, <1>5, <1>6, <1>7 DEF Serve

LEMMA NextCount == SessionInv /\ CountInv /\ [BrowserNext]_sessionVars => CountInv'
  <1>. SUFFICES ASSUME SessionInv, CountInv, [BrowserNext]_sessionVars PROVE CountInv'
    OBVIOUS
  <1>1. IdentityInv
    BY DEF SessionInv
  <1>2. ASSUME UNCHANGED <<at, tok, made>>
        PROVE  CountInv'
    BY <1>2 DEF CountInv, Inserted, Spent
  <1>3. ASSUME NEW c \in Calls, Send(c) \/ Elsewhere(c)
        PROVE  CountInv'
    <2>1. \E operation, presented :
            \E where \in {"connect", "failed", "issue", "revoke", "update"} :
              Begin(c, operation, presented, where)
      BY <1>3
      DEF Send, Navigate, Post, Login, Logout, Elsewhere, OAuthCall, AdminCall, CallRefresh,
          CallExchange, CallDropApp, CallLogin, CallLogout, CallPassword, CallSetActive
    <2>2. QED
      BY <1>1, <2>1, BeginCounts
  <1>4. ASSUME NEW c \in Calls, Receive(c) \/ GiveUp(c) \/ AnswerLost(c)
        PROVE  CountInv'
    BY <1>2, <1>4 DEF Receive, GiveUp, AnswerLost, identity, tables, calls
  <1>5. ASSUME NEW c \in Calls, Serve(c) \/ Fails(c)
        PROVE  CountInv'
    BY <1>1, <1>5, ServeCounts
  <1>6. ASSUME (\E k \in Codes : IssueCode(k)) \/ Age \/ UNCHANGED sessionVars
        PROVE  CountInv'
    BY <1>2, <1>6 DEF IssueCode, Age, sessionVars, identity, tables, calls
  <1>7. QED
    BY <1>3, <1>4, <1>5, <1>6 DEF BrowserNext

LEMMA InitCount == BrowserInit => CountInv
  <1>. SUFFICES ASSUME BrowserInit PROVE CountInv
    OBVIOUS
  <1>1. Inserted = {1} /\ Spent = {}
    BY IdentityAssumption DEF BrowserInit, IdentityInit, Inserted, Spent, Tokens
  <1>2. QED
    BY <1>1, FS_EmptySet DEF CountInv

\* NoStandstill without ENABLED: with a pool of any size, as long as a call is
\* under way some call does not wait.  A claim's holder never waits for a row
\* and has its pooled client already; so if all that hold a row are gone, those
\* that wait for rows go on, and when they are gone too the pool is free.
THEOREM SomebodyGoesOn ==
  PoolMax \in Nat \ {0} /\ MaxCalls < MaxTokens =>
    (SessionSpec => []((\E c \in Calls : UnderWay(c)) => \E c \in Calls : Ready(c)))
  <1>. SUFFICES ASSUME PoolMax \in Nat \ {0}, MaxCalls < MaxTokens
                PROVE  SessionSpec => []((\E c \in Calls : UnderWay(c)) => \E c \in Calls : Ready(c))
    OBVIOUS
  <1>1. SessionInv /\ CountInv =>
          ((\E c \in Calls : UnderWay(c)) => \E c \in Calls : Ready(c))
    <2>. SUFFICES ASSUME SessionInv, CountInv, NEW c \in Calls, UnderWay(c),
                         \A d \in Calls : ~ Ready(d)
                  PROVE  FALSE
      OBVIOUS
    <2>1. IdentityInv /\ at \in [Calls -> Places]
      BY DEF SessionInv, IdentityInv, CallTypes
    <2>2. ASSUME NEW d \in Calls, at[d] \in {"insert", "issue"}
          PROVE  NextToken \in Tokens
      <3>. DEFINE n == Cardinality(Spent)
      <3>1. Spent \subseteq Calls /\ Spent # Calls
        BY <2>2 DEF Spent
      <3>2. n <= MaxCalls /\ n # MaxCalls
        BY <3>1, CallsFinite, FS_Subset
      <3>3. /\ n \in Nat /\ NextToken \in Nat \ {0} /\ NextToken - 1 <= 1 + n
        BY <2>1, NewestToken, SpentFinite DEF CountInv
      <3>. HIDE DEF n, NextToken
      <3>4. NextToken \in 1..MaxTokens
        BY <3>2, <3>3, IdentityAssumption
      <3>5. QED
        BY <3>4 DEF Tokens
    <2>3. \A d \in Calls : at[d] \notin {"insert", "commit"}
      BY <2>2 DEF Ready
    <2>4. \A row : ~ Locked(row)
      BY <2>3 DEF Locked
    <2>5. \A d \in Calls : at[d] \notin {"claim", "locks"}
      BY <2>4 DEF Ready
    <2>6. ClientFree
      <3>1. Pooled = {}
        BY <2>3, <2>5 DEF Pooled, InTransaction
      <3>2. QED
        BY <3>1, FS_EmptySet DEF ClientFree
    <2>7. at[c] \notin {"connect", "update", "revoke", "issue"}
      BY <2>2, <2>6 DEF Ready
    <2>8. QED
      BY <2>1, <2>3, <2>5, <2>7 DEF UnderWay, Places
  <1>2. SessionSpec => []CountInv
    BY SessionInductive, InitCount, NextCount, PTL DEF SessionSpec
  <1>3. QED
    BY <1>1, <1>2, SessionInductive, PTL

-----------------------------------------------------------------------------
(* The four services side by side. *)

LEMMA SideBySide == ServicesSpec => SessionSpec /\ AlertSpec /\ AdminSpec /\ BackfillSpec
  <1>1. ServicesInit => BrowserInit /\ AlertInit /\ AdminInit /\ BackfillInit
    BY DEF ServicesInit
  <1>2. [ServicesNext]_serviceVars => /\ [BrowserNext]_sessionVars
                                      /\ [AlertNext]_alertVars
                                      /\ [AdminNext]_adminVars
                                      /\ [BackfillNext]_backfillVars
    BY DEF ServicesNext, serviceVars
  <1>3. QED
    BY <1>1, <1>2, PTL DEF ServicesSpec, SessionSpec, AlertSpec, AdminSpec, BackfillSpec

\* Every theorem about one of the four services holds of Services, so a type
\* correct state is reached whichever of them a behaviour is about.
THEOREM ServicesTypeCorrect == ServicesSpec => []ServicesTypeOK
  <1>. DEFINE SubjectOK == subject \in {"sessions", "administrators", "alerts", "backfill"}
  <1>1. ServicesInit => SubjectOK
    BY DEF ServicesInit
  <1>2. SubjectOK /\ [ServicesNext]_serviceVars => SubjectOK'
    BY DEF ServicesNext, serviceVars
  <1>3. SubjectOK /\ BrowserTypeOK /\ AlertTypeOK /\ AdminTypeOK /\ BackfillTypeOK => ServicesTypeOK
    BY DEF ServicesTypeOK
  <1>. HIDE DEF SubjectOK
  <1>4. QED
    BY <1>1, <1>2, <1>3, SideBySide, SessionTypeCorrect, AlertTypeCorrect, AdminTypeCorrect,
       BackfillTypeCorrect, PTL
    DEF ServicesSpec
===============================================================================
