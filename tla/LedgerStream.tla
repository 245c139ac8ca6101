----------------------------- MODULE LedgerStream -----------------------------
(***************************************************************************)
(* StreamEvents of xstockstrat-ledger with everything it depends on: the   *)
(* append path (LedgerAppend), the NOTIFY each commit sends, the           *)
(* EventNotifier with its one LISTEN connection and the queue in which it   *)
(* resolves trimmed rows, a stream per consumer that subscribes, replays   *)
(* and goes live, and the consumer that resumes at its last sequence + 1   *)
(* (consumeEventStream of portfolio).                                      *)
(*                                                                         *)
(* The ledger is one Node process: a step of it is what runs between two   *)
(* awaits.  The loop of drain is cut into one step per row, and Quiet      *)
(* keeps every other step of the process out while the loop runs.  A       *)
(* stream that ended has no further effect, so a consumer has one stream.  *)
(* A cut connection loses any suffix of what was written and not read.     *)
(***************************************************************************)
EXTENDS LedgerAppend, SequencesExt

CONSTANTS
  Big,          \* events whose row is trimmed in the notification
  Consumers,
  Wants,        \* the events a consumer's filter matches
  ReplayBatch,  \* REPLAY_BATCH_SIZE
  MaxFaults     \* bound: drops, broken streams and crashes in a behaviour

ASSUME StreamAssumption ==
  /\ Big \subseteq Calls
  /\ Wants \in [Consumers -> SUBSET Calls]
  /\ ReplayBatch \in Nat \ {0}
  /\ MaxFaults \in Nat

VARIABLES
  conn,          \* the LISTEN connection: "down", "listening", "up"
  connectedOnce,
  wire,          \* notifications sent on it and not yet dispatched
  queue,         \* rows waiting behind a trimmed row, with their subscribers
  resolving,     \* the await of resolveRow: "no", "current", "stale" (other gen)
  phase,         \* a consumer's stream: "none", "subscribed", "replay", "live", "ended"
  maxSeq, cursor, bound, buffer,
  chan,          \* written to the stream and not yet received
  lastSeq,       \* the consumer's last processed sequence
  delivered,     \* history: what the consumer processed, in order
  unheard,       \* history: events whose notification was lost, until the
                 \* streams that missed it have ended
  skipped,       \* history: what open streams had missed when the notifier
                 \* went on without ending them
  faults         \* faults so far

notifier == <<conn, connectedOnce, wire, queue, resolving>>
replayVars == <<cursor, bound>>
streamVars == <<phase, maxSeq, cursor, bound, buffer, chan>>
consumerVars == <<lastSeq, delivered>>
lossVars == <<unheard, skipped>>
vars == <<appendVars, notifier, streamVars, consumerVars, lossVars, faults>>

Open == {"subscribed", "replay", "live"}
Subscribers == {c \in Consumers : phase[c] \in Open}

Matching(a) == {c \in Subscribers : a \in Wants[c]}

Row(a, subs) == [event |-> a, wanted |-> subs # {}, subs |-> subs]

TypeOK ==
  /\ AppendTypeOK
  /\ conn \in {"down", "listening", "up"}
  /\ connectedOnce \in BOOLEAN
  /\ wire \in Seq(Calls)
  /\ queue \in Seq([event : Calls, wanted : BOOLEAN, subs : SUBSET Consumers])
  /\ resolving \in {"no", "current", "stale"}
  /\ phase \in [Consumers -> {"none", "ended"} \cup Open]
  /\ maxSeq \in [Consumers -> Nat]
  /\ cursor \in [Consumers -> Nat]
  /\ bound \in [Consumers -> Nat]
  /\ buffer \in [Consumers -> Seq(Calls)]
  /\ chan \in [Consumers -> Seq(Calls)]
  /\ lastSeq \in [Consumers -> Nat]
  /\ delivered \in [Consumers -> Seq(Calls)]
  /\ unheard \in SUBSET Calls
  /\ skipped \in [Consumers -> SUBSET Calls]
  /\ faults \in 0..MaxFaults
  /\ conn = "down" => wire = <<>>
  /\ resolving = "current" => queue # <<>> /\ Head(queue).wanted

(* start() awaits one attempt to connect, best-effort: the server binds    *)
(* whether it succeeded or a retry is due.                                 *)
Started(state, once) == state \in {"up", "down"} /\ once = (state = "up")

Init ==
  /\ AppendInit
  /\ Started(conn, connectedOnce)
  /\ wire = <<>>
  /\ queue = <<>>
  /\ resolving = "no"
  /\ phase = [c \in Consumers |-> "none"]
  /\ maxSeq = [c \in Consumers |-> 0]
  /\ cursor = [c \in Consumers |-> 0]
  /\ bound = [c \in Consumers |-> 0]
  /\ buffer = [c \in Consumers |-> <<>>]
  /\ chan = [c \in Consumers |-> <<>>]
  /\ lastSeq = [c \in Consumers |-> 0]
  /\ delivered = [c \in Consumers |-> <<>>]
  /\ unheard = {}
  /\ skipped = [c \in Consumers |-> {}]
  /\ faults = 0

Fault == faults < MaxFaults /\ faults' = faults + 1

(* The streams that go on without a notification lost so far: they miss     *)
(* what their replay did not read.                                         *)
PassOver(open) ==
  skipped' = [c \in Consumers |->
                IF c \in open /\ phase[c] \in {"replay", "live"}
                THEN skipped[c] \cup {a \in unheard \cap Wants[c] : seqOf[a] > bound[c]}
                ELSE skipped[c]]

(* The drain loop is not running, or is suspended in resolveRow. *)
Quiet == queue = <<>> \/ resolving # "no"

-------------------------------------------------------------------------------
(* Streams end: what was written may be cut short, the subscription is     *)
(* released, and rows that wait in the queue no longer reach it.           *)
EndStreams(ended) ==
  /\ phase' = [c \in Consumers |-> IF c \in ended THEN "ended" ELSE phase[c]]
  /\ buffer' = [c \in Consumers |-> IF c \in ended THEN <<>> ELSE buffer[c]]
  /\ \E kept \in [ended -> 0..Cardinality(Calls)] :
       chan' = [c \in Consumers |->
                  IF c \in ended
                  THEN SubSeq(chan[c], 1, Min({kept[c], Len(chan[c])}))
                  ELSE chan[c]]
  /\ UNCHANGED <<maxSeq, replayVars>>

Without(rows, ended) ==
  [i \in DOMAIN rows |-> [rows[i] EXCEPT !.subs = @ \ ended]]

\* Mutant: a live stream writes a row it has already written.
MutNoDedup(a, subs) ==
  LET written == {c \in subs : phase[c] = "live"}
  IN  /\ chan' = [c \in Consumers |->
                    IF c \in written THEN Append(chan[c], a) ELSE chan[c]]
      /\ maxSeq' = [c \in Consumers |->
                      IF c \in written THEN seqOf[a] ELSE maxSeq[c]]
      /\ buffer' = [c \in Consumers |->
                      IF c \in subs /\ phase[c] # "live"
                      THEN Append(buffer[c], a) ELSE buffer[c]]
      /\ UNCHANGED <<phase, replayVars>>

(* onEvent of every subscriber in subs. *)
FanOut(a, subs) ==
  LET written == {c \in subs : phase[c] = "live" /\ seqOf[a] > maxSeq[c]}
  IN  /\ chan' = [c \in Consumers |->
                    IF c \in written THEN Append(chan[c], a) ELSE chan[c]]
      /\ maxSeq' = [c \in Consumers |->
                      IF c \in written THEN seqOf[a] ELSE maxSeq[c]]
      /\ buffer' = [c \in Consumers |->
                      IF c \in subs /\ phase[c] # "live"
                      THEN Append(buffer[c], a) ELSE buffer[c]]
      /\ UNCHANGED <<phase, replayVars>>

(* onGap of every subscriber in subs, and the shift of the queue. *)
Gap(subs) ==
  /\ EndStreams(subs)
  /\ queue' = Without(Tail(queue), subs)

-------------------------------------------------------------------------------
(* A step of the append path; a commit notifies the LISTEN connection. *)
AppendStep ==
  /\ Quiet
  /\ AppendNext
  /\ LET news == IF committed' = committed THEN <<>> ELSE <<Last(committed')>>
     IN  IF conn = "down" THEN unheard' = unheard \cup ToSet(news) /\ UNCHANGED wire
                          ELSE wire' = wire \o news /\ UNCHANGED unheard
  /\ UNCHANGED <<conn, connectedOnce, queue, resolving, streamVars, consumerVars, skipped, faults>>

\* Mutant: a full row does not wait behind a trimmed one.
MutOvertake ==
  /\ Quiet
  /\ wire # <<>>
  /\ wire' = Tail(wire)
  /\ PassOver(Matching(Head(wire)))
  /\ LET a == Head(wire)
     IN  \/ /\ a \notin Big
            /\ FanOut(a, Matching(a))
            /\ UNCHANGED queue
         \/ /\ a \in Big
            /\ queue' = Append(queue, Row(a, Matching(a)))
            /\ UNCHANGED streamVars
  /\ UNCHANGED <<appendVars, conn, connectedOnce, resolving, consumerVars, unheard, faults>>

(* dispatch: fan out at once, or wait behind the rows being resolved. *)
Dispatch ==
  /\ Quiet
  /\ wire # <<>>
  /\ wire' = Tail(wire)
  /\ PassOver(Matching(Head(wire)))
  /\ LET a == Head(wire)
     IN  \/ /\ queue = <<>> /\ resolving = "no" /\ a \notin Big
            /\ FanOut(a, Matching(a))
            /\ UNCHANGED queue
         \/ /\ ~(queue = <<>> /\ resolving = "no" /\ a \notin Big)
            /\ queue' = Append(queue, Row(a, Matching(a)))
            /\ UNCHANGED streamVars
  /\ UNCHANGED <<appendVars, conn, connectedOnce, resolving, consumerVars, unheard, faults>>

(* One turn of the loop of drain, up to its await. *)
DrainNext ==
  /\ ~Quiet
  /\ LET row == Head(queue)
     IN  \/ /\ row.event \notin Big
            /\ FanOut(row.event, row.subs)
            /\ queue' = Tail(queue)
            /\ UNCHANGED resolving
         \/ /\ row.event \in Big /\ ~row.wanted
            /\ queue' = Tail(queue)
            /\ UNCHANGED <<resolving, streamVars>>
         \/ /\ row.event \in Big /\ row.wanted /\ conn = "up"
            /\ resolving' = "current"
            /\ UNCHANGED <<queue, streamVars>>
         \/ /\ row.event \in Big /\ row.wanted /\ conn # "up"
            /\ Gap(row.subs)
            /\ UNCHANGED resolving
  /\ UNCHANGED <<appendVars, conn, connectedOnce, wire, consumerVars, lossVars, faults>>

(* resolveRow returns the full row, which the commit made visible before    *)
(* it sent the notification.                                               *)
Resolved ==
  /\ resolving = "current"
  /\ conn = "up"
  /\ FanOut(Head(queue).event, Head(queue).subs)
  /\ queue' = Tail(queue)
  /\ resolving' = "no"
  /\ UNCHANGED <<appendVars, conn, connectedOnce, wire, consumerVars, lossVars, faults>>

(* The connection is gone, and with it what was on the wire. *)
Disconnect ==
  /\ conn' = "down"
  /\ wire' = <<>>
  /\ unheard' = unheard \cup ToSet(wire)

(* It throws; a query read timeout also ends the LISTEN connection. *)
ResolveFails ==
  /\ resolving = "current"
  /\ Gap(Head(queue).subs)
  /\ resolving' = "no"
  /\ \/ UNCHANGED <<conn, wire, unheard>>
     \/ conn = "up" /\ Disconnect
  /\ UNCHANGED <<appendVars, connectedOnce, consumerVars, skipped, faults>>

(* It returns to a loop whose generation has passed. *)
ResolveStale ==
  /\ resolving = "stale"
  /\ resolving' = "no"
  /\ UNCHANGED <<appendVars, conn, connectedOnce, wire, queue, streamVars, consumerVars, lossVars, faults>>

(* The error and end handlers. *)
Drop ==
  /\ Fault
  /\ Quiet
  /\ conn # "down"
  /\ Disconnect
  /\ UNCHANGED <<appendVars, connectedOnce, queue, resolving, streamVars, consumerVars, skipped>>

(* PostgreSQL executes LISTEN.  From here on it sends notifications, and   *)
(* the notification handler is registered already: it dispatches those     *)
(* that arrive with or before the ReadyForQuery that lets connect go on.   *)
Listen ==
  /\ Quiet
  /\ conn = "down"
  /\ conn' = "listening"
  /\ UNCHANGED <<appendVars, connectedOnce, wire, queue, resolving, streamVars, consumerVars, lossVars, faults>>

\* Mutant: a reconnect does not tell the subscribers.
MutSilentReconnect ==
  /\ Quiet
  /\ conn = "listening"
  /\ conn' = "up"
  /\ connectedOnce' = TRUE
  /\ queue' = <<>>
  /\ resolving' = IF resolving = "no" THEN "no" ELSE "stale"
  /\ unheard' = {}
  /\ IF connectedOnce THEN UNCHANGED skipped ELSE PassOver(Subscribers)
  /\ UNCHANGED <<appendVars, wire, streamVars, consumerVars, faults>>

\* Mutant: a reconnect clears the queue under a drain of the old generation.
MutSameGeneration ==
  /\ Quiet
  /\ conn = "listening"
  /\ conn' = "up"
  /\ connectedOnce' = TRUE
  /\ queue' = <<>>
  /\ unheard' = {}
  /\ \/ connectedOnce /\ EndStreams(Subscribers) /\ UNCHANGED skipped
     \/ ~connectedOnce /\ PassOver(Subscribers) /\ UNCHANGED streamVars
  /\ UNCHANGED <<appendVars, wire, resolving, consumerVars, faults>>

(* connect goes on after its await: a new generation, and after the first  *)
(* connection onReconnect ends every stream.                               *)
Connected ==
  /\ Quiet
  /\ conn = "listening"
  /\ conn' = "up"
  /\ connectedOnce' = TRUE
  /\ queue' = <<>>
  /\ resolving' = IF resolving = "no" THEN "no" ELSE "stale"
  /\ unheard' = {}
  /\ \/ connectedOnce /\ EndStreams(Subscribers) /\ UNCHANGED skipped
     \/ ~connectedOnce /\ PassOver(Subscribers) /\ UNCHANGED streamVars
  /\ UNCHANGED <<appendVars, wire, consumerVars, faults>>

-------------------------------------------------------------------------------
\* Mutant: the requested first sequence is taken for the last one seen.
MutResumeAfter(c) ==
  /\ Quiet
  /\ phase[c] = "none"
  /\ phase' = [phase EXCEPT ![c] = "subscribed"]
  /\ maxSeq' = [maxSeq EXCEPT ![c] = IF lastSeq[c] = 0 THEN 0 ELSE lastSeq[c] + 1]
  /\ UNCHANGED <<appendVars, notifier, replayVars, buffer, chan, consumerVars, lossVars, faults>>

(* streamEvents: subscribe first. *)
OpenStream(c) ==
  /\ Quiet
  /\ phase[c] = "none"
  /\ phase' = [phase EXCEPT ![c] = "subscribed"]
  /\ maxSeq' = [maxSeq EXCEPT ![c] = lastSeq[c]]
  /\ UNCHANGED <<appendVars, notifier, replayVars, buffer, chan, consumerVars, lossVars, faults>>

ReadBound(c) ==
  /\ Quiet
  /\ phase[c] = "subscribed"
  /\ ConnectionFree
  /\ phase' = [phase EXCEPT ![c] = "replay"]
  /\ bound' = [bound EXCEPT ![c] = Max({0} \cup {seqOf[a] : a \in Committed})]
  /\ cursor' = [cursor EXCEPT ![c] = maxSeq[c]]
  /\ UNCHANGED <<appendVars, notifier, maxSeq, buffer, chan, consumerVars, lossVars, faults>>

(* Rows in the order of their sequence numbers. *)
InSequence(rows) ==
  CHOOSE s \in SetToSeqs(rows) : \A i, j \in DOMAIN s : i < j => seqOf[s[i]] < seqOf[s[j]]

(* The rows of one replay query. *)
Batch(c) ==
  LET sorted == InSequence({a \in Committed \cap Wants[c] :
                              seqOf[a] > cursor[c] /\ seqOf[a] <= bound[c]})
  IN  SubSeq(sorted, 1, Min({ReplayBatch, Len(sorted)}))

(* What a stream that has written up to `max` writes of buffered rows: a    *)
(* row above `max` and above every row in front of it.                     *)
Fresh(rows, max) ==
  InSequence({rows[i] : i \in {k \in DOMAIN rows :
                 /\ seqOf[rows[k]] > max
                 /\ \A j \in 1..(k - 1) : seqOf[rows[j]] < seqOf[rows[k]]}})

(* The highest sequence written, after these rows too. *)
Reached(rows, max) ==
  IF rows = <<>> THEN max ELSE Max({max, seqOf[Last(rows)]})

(* A batch is written; after the last one the buffer is flushed and the    *)
(* stream goes live in the same synchronous block.                         *)
ReadBatch(c) ==
  LET rows == Batch(c)
      reached == Reached(rows, maxSeq[c])
      flushed == Fresh(buffer[c], reached)
      more == Len(rows) = ReplayBatch
  IN  /\ Quiet
      /\ phase[c] = "replay"
      /\ ConnectionFree
      /\ phase' = IF more THEN phase ELSE [phase EXCEPT ![c] = "live"]
      /\ cursor' = IF more THEN [cursor EXCEPT ![c] = seqOf[Last(rows)]] ELSE cursor
      /\ maxSeq' = [maxSeq EXCEPT ![c] = IF more THEN reached ELSE Reached(flushed, reached)]
      /\ buffer' = IF more THEN buffer ELSE [buffer EXCEPT ![c] = <<>>]
      /\ chan' = [chan EXCEPT ![c] = @ \o rows \o (IF more THEN <<>> ELSE flushed)]
      /\ UNCHANGED <<appendVars, notifier, bound, consumerVars, lossVars, faults>>

(* A replay query fails, or the client or the transport gives the stream   *)
(* up: cleanup and destroy.                                                *)
BreakStream(c) ==
  /\ Fault
  /\ Quiet
  /\ phase[c] \in Open
  /\ EndStreams({c})
  /\ queue' = Without(queue, {c})
  /\ UNCHANGED <<appendVars, conn, connectedOnce, wire, resolving, consumerVars, lossVars>>

(* The ledger process dies and starts again. *)
Crash ==
  /\ Fault
  /\ CrashCalls
  /\ Started(conn', connectedOnce')
  /\ unheard' = {}
  /\ wire' = <<>>
  /\ queue' = <<>>
  /\ resolving' = "no"
  /\ EndStreams(Subscribers)
  /\ UNCHANGED <<consumerVars, skipped>>

-------------------------------------------------------------------------------
(* The consumer handles an event and advances its cursor. *)
Receive(c) ==
  /\ chan[c] # <<>>
  /\ chan' = [chan EXCEPT ![c] = Tail(@)]
  /\ delivered' = [delivered EXCEPT ![c] = Append(@, Head(chan[c]))]
  /\ lastSeq' = [lastSeq EXCEPT ![c] = Max({@, seqOf[Head(chan[c])]})]
  /\ UNCHANGED <<appendVars, notifier, phase, maxSeq, replayVars, buffer, lossVars, faults>>

(* Its handler fails: it leaves the stream with the cursor where it was. *)
HandleFails(c) ==
  /\ Fault
  /\ chan[c] # <<>>
  /\ chan' = [chan EXCEPT ![c] = <<>>]
  /\ phase' = [phase EXCEPT ![c] = "none"]
  /\ buffer' = [buffer EXCEPT ![c] = <<>>]
  /\ queue' = Without(queue, {c})
  /\ UNCHANGED <<appendVars, conn, connectedOnce, wire, resolving, maxSeq, replayVars, consumerVars, lossVars>>

(* It reads the end of the stream, and will ask for the next sequence. *)
ReadEnd(c) ==
  /\ phase[c] = "ended"
  /\ chan[c] = <<>>
  /\ phase' = [phase EXCEPT ![c] = "none"]
  /\ UNCHANGED <<appendVars, notifier, maxSeq, replayVars, buffer, chan, consumerVars, lossVars, faults>>

NotifierStep == Dispatch \/ DrainNext \/ Resolved \/ ResolveFails \/ ResolveStale

StreamStep(c) == OpenStream(c) \/ ReadBound(c) \/ ReadBatch(c)

ConsumerStep(c) == Receive(c) \/ ReadEnd(c)

Next ==
  \/ AppendStep
  \/ NotifierStep
  \/ Drop \/ Listen \/ Connected
  \/ \E c \in Consumers :
       StreamStep(c) \/ BreakStream(c) \/ ConsumerStep(c) \/ HandleFails(c)
  \/ Crash

Spec == Init /\ [][Next]_vars

(* The server answers a statement while calls wait for one, the notifier    *)
(* and the reconnect timer run, and consumers retry for ever.  The calls   *)
(* are finitely many, so nothing need be said of who is served first.      *)
Fairness ==
  /\ WF_vars(AppendStep /\ \E a \in Calls : at[a] \in OnConnection /\ at'[a] # at[a])
  /\ WF_vars(NotifierStep)
  /\ WF_vars(Listen \/ Connected)
  /\ \A c \in Consumers : WF_vars(StreamStep(c)) /\ WF_vars(ConsumerStep(c))

FairSpec == Spec /\ Fairness

-------------------------------------------------------------------------------
Late(a) ==
  \E i, j \in DOMAIN committed :
    i < j /\ committed[j] = a /\ seqOf[committed[i]] > seqOf[a]

Seen(c) == {delivered[c][i] : i \in DOMAIN delivered[c]}

(* No consumer processes an event twice or out of sequence order, however   *)
(* replay, buffer, live rows and resumed streams overlap.                  *)
InOrder ==
  \A c \in Consumers : \A i, j \in DOMAIN delivered[c] :
    i < j => seqOf[delivered[c][i]] < seqOf[delivered[c][j]]

(* A consumer never moves past an event it asked for: the cursor it resumes *)
(* from would hide the event for ever.  Excepted are rows that commit after *)
(* a higher sequence (LEDGER-9), and the notifications a stream lost while *)
(* it was open and the notifier then went on without ending it: a first    *)
(* LISTEN that came late, or rows dispatched before connect resumed.       *)
NoGap ==
  \A c \in Consumers : \A a \in Committed \cap Wants[c] :
    seqOf[a] <= lastSeq[c] => a \in Seen(c) \cup skipped[c] \/ Late(a)

(* A live stream with nothing under way has delivered everything else:     *)
(* there is no event that only a later reconnect would bring.              *)
CaughtUp ==
  \A c \in Consumers :
    phase[c] = "live" /\ conn = "up" /\ wire = <<>> /\ queue = <<>> /\ chan[c] = <<>>
      => \A a \in Committed \cap Wants[c] : a \in Seen(c) \cup skipped[c] \/ Late(a)

(* Notifications that were lost are replayed (the comment of onReconnect): *)
(* the cursor of a consumer passes no event it asked for but the late ones. *)
GapReplayed ==
  \A c \in Consumers : \A a \in Committed \cap Wants[c] :
    seqOf[a] <= lastSeq[c] => a \in Seen(c) \/ Late(a)

(* The whole pipeline is the abstract feed: every step publishes an event,  *)
(* gives one up or delivers the next one, and what is committed and not    *)
(* given up is delivered.  An event that commits late is given up.         *)
GivenUp(c) == skipped[c] \cup {a \in Committed : Late(a)}
Feed == INSTANCE EventFeed WITH Events <- Calls, log <- committed,
                                skipped <- [c \in Consumers |-> GivenUp(c)]
FeedSpec == Feed!Spec
===============================================================================
