---------------------------- MODULE AlertFanout ----------------------------
(***************************************************************************)
(* EmitAlert of xstockstrat-notify with everything that hangs on it: the   *)
(* row in notify.alerts, the StreamAlerts subscribers, and the two side    *)
(* channels, the Slack and mail fan-out and Web Push.                      *)
(*                                                                         *)
(* One Node process: a step is what runs between two awaits.  Its pool has *)
(* one client, so statements run in the order they were issued, and the    *)
(* handlers that wait for them resume in that order.  Alerts carry no text *)
(* but the key the fan-out deduplicates by.                                *)
(***************************************************************************)
EXTENDS Naturals, Sequences, FiniteSets, SequencesExt

CONSTANTS
  Alerts,      \* EmitAlert calls, each made once
  Streams,     \* StreamAlerts calls, each made once
  Endpoints,   \* push endpoints of the users an alert is for
  MaxMishaps   \* bound: crashes, failed statements, sends and writes

ASSUME AlertAssumption == MaxMishaps \in Nat

VARIABLES
  created,     \* alerts in the order of created_at
  quiet,       \* alerts the severity or conviction gate holds back
  alike,       \* both channels see one content: the alerts share a dedup key
  stored,      \* notify.alerts
  pushTable,   \* endpoints in notify.push_subscriptions
  gone,        \* endpoints the push service has dropped
  statements,  \* statements issued to the pool and not run
  results,     \* statements run whose handler has not resumed
  emit,        \* a call: "none", "insert", "answered", "failed"
  stream,      \* a StreamAlerts call: "none", "open", "closed"
  owed, got,   \* alerts emitted since it opened; what was written to it
  fan,         \* "none", "due", "slack", "mail", "over"
  push,        \* "none", "due", "rows", "send", "prune", "over"
  targets,     \* endpoints the push has still to send to
  doomed,      \* the endpoint it is about to delete
  dedup,       \* keys in the dedup map, inside the window
  sends,       \* sends of a key since its window opened
  mishaps

alertCalls == <<created, quiet, alike, emit>>
database == <<stored, pushTable, gone>>
pool == <<statements, results>>
fanout == <<fan, dedup, sends>>
webPush == <<push, targets, doomed>>
subscribers == <<stream, owed, got>>
alertVars == <<alertCalls, database, pool, fanout, webPush, subscribers, mishaps>>

Key(e) == IF alike THEN "shared" ELSE e
Keys == Alerts \cup {"shared"}

Statements == {"insert", "rows", "prune"} \X Alerts

AlertTypeOK ==
  /\ created \in Seq(Alerts) /\ IsInjective(created)
  /\ quiet \subseteq Alerts /\ alike \in BOOLEAN
  /\ stored \subseteq ToSet(created)
  /\ pushTable \subseteq Endpoints /\ gone \subseteq Endpoints
  /\ statements \in Seq(Statements) /\ results \in Seq(Statements)
  /\ emit \in [Alerts -> {"none", "insert", "answered", "failed"}]
  /\ stream \in [Streams -> {"none", "open", "closed"}]
  /\ \A s \in Streams : owed[s] \subseteq ToSet(created) /\ got[s] \in Seq(stored)
  /\ fan \in [Alerts -> {"none", "due", "slack", "mail", "over"}]
  /\ push \in [Alerts -> {"none", "due", "rows", "send", "prune", "over"}]
  /\ targets \in [Alerts -> SUBSET Endpoints] /\ doomed \in [Alerts -> SUBSET gone]
  /\ dedup \subseteq Keys
  /\ sends \in [Keys -> Nat]
  /\ mishaps \in 0..MaxMishaps

AlertInit ==
  /\ created = <<>> /\ quiet \in {{}} \cup {{e} : e \in Alerts} /\ alike \in BOOLEAN
  /\ stored = {} /\ pushTable = Endpoints /\ gone = {}
  /\ statements = <<>> /\ results = <<>>
  /\ emit = [e \in Alerts |-> "none"]
  /\ stream = [s \in Streams |-> "none"]
  /\ owed = [s \in Streams |-> {}]
  /\ got = [s \in Streams |-> <<>>]
  /\ fan = [e \in Alerts |-> "none"]
  /\ push = [e \in Alerts |-> "none"]
  /\ targets = [e \in Alerts |-> {}] /\ doomed = targets
  /\ dedup = {}
  /\ sends = [k \in Keys |-> 0]
  /\ mishaps = 0

Mishap ==
  /\ mishaps < MaxMishaps
  /\ mishaps' = mishaps + 1

-----------------------------------------------------------------------------
(* EmitAlert and StreamAlerts. *)

\* Mutant: the newest statement runs first.
MutEnqueueFirst(kind, e) == statements' = <<<<kind, e>>>> \o statements

Enqueue(kind, e) == statements' = Append(statements, <<kind, e>>)

EmitAlert(e) ==
  /\ emit[e] = "none"
  /\ emit' = [emit EXCEPT ![e] = "insert"]
  /\ created' = Append(created, e)
  /\ owed' = [s \in Streams |-> IF stream[s] = "open" THEN owed[s] \cup {e} ELSE owed[s]]
  /\ Enqueue("insert", e)
  /\ UNCHANGED <<quiet, alike, database, results, fanout, webPush, stream, got, mishaps>>

Subscribe(s) ==
  /\ stream[s] = "none"
  /\ stream' = [stream EXCEPT ![s] = "open"]
  /\ UNCHANGED <<alertCalls, database, pool, fanout, webPush, owed, got, mishaps>>

\* cancelled or error.
Disconnect(s) ==
  /\ stream[s] = "open"
  /\ Mishap
  /\ stream' = [stream EXCEPT ![s] = "closed"]
  /\ UNCHANGED <<alertCalls, database, pool, fanout, webPush, owed, got>>

\* The head of the queue runs in the database.
RunStatement ==
  /\ statements # <<>>
  /\ LET kind == Head(statements)[1]
         e == Head(statements)[2]
     IN /\ stored' = IF kind = "insert" THEN stored \cup {e} ELSE stored
        /\ targets' = IF kind = "rows" THEN [targets EXCEPT ![e] = pushTable] ELSE targets
        /\ pushTable' = IF kind = "prune" THEN pushTable \ doomed[e] ELSE pushTable
  /\ statements' = Tail(statements)
  /\ results' = Append(results, Head(statements))
  /\ UNCHANGED <<alertCalls, gone, fanout, push, doomed, subscribers, mishaps>>

\* It fails: EmitAlert answers with an error, a dispatch ends.
StatementFails ==
  /\ statements # <<>>
  /\ Mishap
  /\ LET kind == Head(statements)[1]
         e == Head(statements)[2]
     IN /\ emit' = IF kind = "insert" THEN [emit EXCEPT ![e] = "failed"] ELSE emit
        /\ push' = CASE kind = "insert" -> push
                     [] kind = "rows" -> [push EXCEPT ![e] = "over"]
                     [] OTHER -> [push EXCEPT ![e] = "send"]
        /\ doomed' = IF kind = "prune" THEN [doomed EXCEPT ![e] = {}] ELSE doomed
  /\ statements' = Tail(statements)
  /\ UNCHANGED <<created, quiet, alike, database, results, fanout, targets, subscribers>>

\* EmitAlert resumes: every matching stream is written to, or evicted; the
\* caller is answered; both dispatches are put off to microtasks.
Announced(e, broken) ==
  /\ got' = [s \in Streams |->
               IF stream[s] = "open" /\ s \notin broken THEN Append(got[s], e) ELSE got[s]]
  /\ stream' = [s \in Streams |-> IF s \in broken THEN "closed" ELSE stream[s]]
  /\ emit' = [emit EXCEPT ![e] = "answered"]
  /\ fan' = [fan EXCEPT ![e] = "due"]
  /\ push' = [push EXCEPT ![e] = "due"]
  /\ UNCHANGED <<owed, targets, doomed>>

Resume ==
  /\ results # <<>>
  /\ LET kind == Head(results)[1]
         e == Head(results)[2]
     IN \/ /\ kind = "insert"
           /\ \/ Announced(e, {}) /\ UNCHANGED mishaps
              \/ \E s \in Streams : stream[s] = "open" /\ Announced(e, {s}) /\ Mishap
        \/ /\ kind # "insert"
           /\ push' = [push EXCEPT ![e] = "send"]
           /\ doomed' = [doomed EXCEPT ![e] = {}]
           /\ UNCHANGED <<targets, emit, fan, subscribers, mishaps>>
  /\ results' = Tail(results)
  /\ UNCHANGED <<created, quiet, alike, database, statements, dedup, sends>>

-----------------------------------------------------------------------------
(* FanoutDispatcher.dispatch: the gates, the dedup check and its entry are *)
(* one step; Slack and mail are awaited one after the other.               *)

Suppressed(e) == e \in quiet \/ Key(e) \in dedup

\* Mutant: the key is recorded when the mail is under way.
MutDispatchRecordsLate(e) ==
  /\ fan[e] \in {"due", "slack"} /\ ~(fan[e] = "due" /\ Suppressed(e))
  /\ fan' = [fan EXCEPT ![e] = IF fan[e] = "due" THEN "slack" ELSE "mail"]
  /\ dedup' = IF fan[e] = "slack" THEN dedup \cup {Key(e)} ELSE dedup
  /\ sends' = IF fan[e] = "due" THEN [sends EXCEPT ![Key(e)] = @ + 1] ELSE sends
  /\ UNCHANGED <<alertCalls, database, pool, webPush, subscribers, mishaps>>

Dispatch(e) ==
  /\ fan[e] = "due"
  /\ IF Suppressed(e)
     THEN fan' = [fan EXCEPT ![e] = "over"] /\ UNCHANGED <<dedup, sends>>
     ELSE /\ fan' = [fan EXCEPT ![e] = "slack"]
          /\ dedup' = dedup \cup {Key(e)}
          /\ sends' = [sends EXCEPT ![Key(e)] = @ + 1]
  /\ UNCHANGED <<alertCalls, database, pool, webPush, subscribers, mishaps>>

\* sendSlack and sendSendgrid swallow every failure.
ChannelDone(e) ==
  /\ fan[e] \in {"slack", "mail"}
  /\ fan' = [fan EXCEPT ![e] = IF fan[e] = "slack" THEN "mail" ELSE "over"]
  /\ UNCHANGED <<alertCalls, database, pool, dedup, sends, webPush, subscribers, mishaps>>

\* dedup_window_seconds pass; the next dispatch sweeps the key.
WindowEnds(k) ==
  /\ k \in dedup
  /\ dedup' = dedup \ {k}
  /\ sends' = [sends EXCEPT ![k] = 0]
  /\ UNCHANGED <<alertCalls, database, pool, fan, webPush, subscribers, mishaps>>

-----------------------------------------------------------------------------
(* WebPushDispatcher.dispatch: the audience, then one send after another.  *)

PushDispatch(e) ==
  /\ push[e] = "due"
  /\ IF e \in quiet
     THEN push' = [push EXCEPT ![e] = "over"] /\ UNCHANGED statements
     ELSE push' = [push EXCEPT ![e] = "rows"] /\ Enqueue("rows", e)
  /\ UNCHANGED <<alertCalls, database, results, fanout, targets, doomed, subscribers, mishaps>>

\* listAdminUserIds fails, or there is no administrator.
NoAudience(e) ==
  /\ push[e] = "due"
  /\ Mishap
  /\ push' = [push EXCEPT ![e] = "over"]
  /\ UNCHANGED <<alertCalls, database, pool, fanout, targets, doomed, subscribers>>

SendPush(e) ==
  /\ push[e] = "send"
  /\ IF targets[e] = {}
     THEN push' = [push EXCEPT ![e] = "over"] /\ UNCHANGED <<targets, doomed, statements>>
     ELSE \E p \in targets[e] :
            /\ targets' = [targets EXCEPT ![e] = @ \ {p}]
            /\ IF p \in gone
               THEN /\ push' = [push EXCEPT ![e] = "prune"]
                    /\ doomed' = [doomed EXCEPT ![e] = {p}]
                    /\ Enqueue("prune", e)
               ELSE UNCHANGED <<push, doomed, statements>>
  /\ UNCHANGED <<alertCalls, database, results, fanout, subscribers, mishaps>>

EndpointGone(p) ==
  /\ p \notin gone
  /\ gone' = gone \cup {p}
  /\ UNCHANGED <<alertCalls, stored, pushTable, pool, fanout, webPush, subscribers, mishaps>>

-----------------------------------------------------------------------------
\* A restart forgets the queue, the streams, the dedup map and the microtasks.
Restart ==
  /\ Mishap
  /\ statements' = <<>> /\ results' = <<>>
  /\ emit' = [e \in Alerts |-> IF emit[e] = "insert" THEN "failed" ELSE emit[e]]
  /\ stream' = [s \in Streams |-> IF stream[s] = "open" THEN "closed" ELSE stream[s]]
  /\ fan' = [e \in Alerts |-> IF fan[e] = "none" THEN "none" ELSE "over"]
  /\ push' = [e \in Alerts |-> IF push[e] = "none" THEN "none" ELSE "over"]
  /\ targets' = [e \in Alerts |-> {}] /\ doomed' = targets'
  /\ dedup' = {} /\ sends' = [k \in Keys |-> 0]
  /\ UNCHANGED <<created, quiet, alike, database, owed, got>>

AlertNext ==
  \/ \E e \in Alerts :
       EmitAlert(e) \/ Dispatch(e) \/ ChannelDone(e) \/ PushDispatch(e) \/ NoAudience(e) \/ SendPush(e)
  \/ \E s \in Streams : Subscribe(s) \/ Disconnect(s)
  \/ RunStatement \/ StatementFails \/ Resume \/ Restart
  \/ \E k \in Keys : WindowEnds(k)
  \/ \E p \in Endpoints : EndpointGone(p)

AlertSpec == AlertInit /\ [][AlertNext]_alertVars

-----------------------------------------------------------------------------
(* Properties. *)

\* d has the earlier created_at.
Before(d, e) ==
  \E a, b \in DOMAIN created : a < b /\ created[a] = d /\ created[b] = e

\* A stream carries alerts in the order of their created_at, once each, only
\* alerts that are in the table, and, while it is open, every alert emitted
\* since it opened whose caller was told of success.
StreamInOrder ==
  \A s \in Streams :
    /\ ToSet(got[s]) \subseteq stored
    /\ \A i, j \in DOMAIN got[s] : i < j => Before(got[s][i], got[s][j])
    /\ stream[s] = "open" =>
         \A e \in owed[s] : emit[e] = "answered" => e \in ToSet(got[s])

\* Alerts of one content reach Slack and mail once in a dedup window, also when
\* two are dispatched while the first send is still under way.
OneSendPerWindow == \A k \in Keys : sends[k] <= 1

=============================================================================
