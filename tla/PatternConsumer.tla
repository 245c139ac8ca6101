--------------------------- MODULE PatternConsumer ---------------------------
(***************************************************************************)
(* The ledger consumer of the analysis service that captures a snapshot    *)
(* for every order event and attributes the result of every closed         *)
(* position to the snapshots of its window (pnl_pattern_consumer.py).  One *)
(* instance reads one stream in the order of the ledger, commits what an   *)
(* event means together with the cursor, retries an attempt that fails,    *)
(* reconnects when it goes on failing and parks the event at last.         *)
(*                                                                         *)
(* An event is its position in the ledger: a kind, an identity (user,      *)
(* account, symbol and mode, the "position id") and a flaw.  "open" stands *)
(* for order.created, filled and partially_filled with an owner, "snap"    *)
(* for an order event that opens no window, "close" for                    *)
(* portfolio.position.closed, "other" for the events that only move the    *)
(* cursor, the consumer's own among them.  An event with a flaw fails      *)
(* every attempt: a "poison" one with an error of the allow-list, a        *)
(* "stuck" one with any other.  Snapshots carry one factor.                *)
(***************************************************************************)
EXTENDS Naturals, Sequences, FiniteSets

CONSTANTS
  Keys,         \* position identities
  NoKey,        \* the identity of an event that has none
  Produced,     \* the events the services append
  Attempts,     \* _EVENT_MAX_ATTEMPTS
  MaxReplays,   \* _REPLAY_ESCALATE_AFTER
  MaxLog,       \* bound: events in the ledger
  MaxFaults     \* bound: transient failures, cut streams and restarts

ASSUME ConsumerAssumption ==
  /\ Attempts \in Nat \ {0}
  /\ MaxReplays \in Nat \ {0}
  /\ MaxLog \in Nat
  /\ MaxFaults \in Nat
  /\ NoKey \notin Keys

VARIABLES
  log,          \* the ledger
  cursor,       \* ledger_stream_cursor.last_sequence
  snapshots,    \* order_snapshots: the events captured
  windows,      \* pnl_positions: rows in the order of their ids
  samples,      \* pnl_pattern_samples: rows in the order of their ids
  parked,       \* the events the consumer logged as parked
  stage,           \* what the consumer is about to do
  pos,          \* the event it received last on this stream
  attempt,      \* of _process_with_retry
  replaySeq,    \* _replay_seq, 0 for None
  replayCount,  \* _replay_count
  runs,         \* history: how often each event exhausted its attempts,
                \* counted up to MaxReplays
  faults        \* how many transient failures there were

ledger == <<log>>
tables == <<cursor, snapshots, windows, samples>>
replay == <<replaySeq, replayCount>>
consumerVars == <<log, cursor, snapshots, windows, samples, parked, stage, pos, attempt,
          replaySeq, replayCount, runs, faults>>

Event == [kind : {"open", "snap", "close"}, key : Keys, flaw : {"none", "poison", "stuck"}, of : {0}]
           \cup [kind : {"other"}, key : {NoKey}, flaw : {"none"}, of : 0..MaxLog]
ASSUME ProducedAssumption == \A e \in Produced : e \in Event /\ e.of = 0
Window == [key : Keys, open : 1..MaxLog, close : 0..MaxLog]
Sample == [close : 1..MaxLog, from : 1..MaxLog]

ConsumerInit ==
  /\ log = <<>> /\ cursor = 0
  /\ snapshots = {} /\ windows = <<>> /\ samples = <<>> /\ parked = {}
  /\ stage = "down" /\ pos = 0 /\ attempt = 1
  /\ replaySeq = 0 /\ replayCount = 0
  /\ runs = [n \in 1..MaxLog |-> 0]
  /\ faults = 0

-----------------------------------------------------------------------------
(* External: the services append to the ledger.  The audit events the      *)
(* consumer emits after a commit, best effort, are among the "other" ones. *)
Produce ==
  /\ Len(log) < MaxLog
  /\ \E e \in Produced : log' = Append(log, e)
  /\ UNCHANGED <<tables, parked, stage, pos, attempt, replay, runs, faults>>

(* run_forever reads the cursor and opens the stream there.  The ledger    *)
(* takes from_sequence inclusively, so the event of the cursor comes again.*)
(* A failure here only repeats the step.                                   *)
Connect ==
  /\ stage = "down"
  /\ stage' = "stream"
  /\ pos' = IF cursor = 0 THEN 0 ELSE cursor - 1
  /\ UNCHANGED <<ledger, tables, parked, attempt, replay, runs, faults>>

Receive ==
  /\ stage = "stream" /\ pos < Len(log)
  /\ pos' = pos + 1
  /\ attempt' = 1
  /\ stage' = "work"
  /\ UNCHANGED <<ledger, tables, parked, replay, runs, faults>>

-----------------------------------------------------------------------------
(* What one event means to the tables: one transaction, the cursor in it.  *)

OpenRows(k) == {i \in DOMAIN windows : windows[i].key = k /\ windows[i].close = 0}

SnapshotsOf(k) == {n \in snapshots : log[n].key = k}

Earliest(S) == CHOOSE n \in S : \A m \in S : n <= m

(* Mutant: no index keeps an identity from having two open windows.        *)
MutCapture(n) ==
  /\ log[n].kind \in {"open", "snap"}
  /\ snapshots' = snapshots \cup {n}
  /\ windows' = IF log[n].kind = "open"
                THEN Append(windows, [key |-> log[n].key, open |-> n, close |-> 0])
                ELSE windows
  /\ UNCHANGED samples

Capture(n) ==
  /\ log[n].kind \in {"open", "snap"}
  /\ snapshots' = snapshots \cup {n}
  /\ windows' = IF log[n].kind = "open" /\ OpenRows(log[n].key) = {}
                THEN Append(windows, [key |-> log[n].key, open |-> n, close |-> 0])
                ELSE windows
  /\ UNCHANGED samples

(* The samples of the sealed row are built from every snapshot with its    *)
(* position id, the entry value being that of the oldest.                  *)
Seal(n) ==
  /\ log[n].kind = "close"
  /\ windows' = [i \in DOMAIN windows |->
                   IF i \in OpenRows(log[n].key) THEN [windows[i] EXCEPT !.close = n]
                                                 ELSE windows[i]]
  /\ samples' = IF OpenRows(log[n].key) # {} /\ SnapshotsOf(log[n].key) # {}
                THEN Append(samples, [close |-> n, from |-> Earliest(SnapshotsOf(log[n].key))])
                ELSE samples
  /\ UNCHANGED snapshots

PassOver(n) == log[n].kind = "other" /\ UNCHANGED <<snapshots, windows, samples>>

AdvanceTo(n) == cursor' = IF cursor < n THEN n ELSE cursor

Process(n) ==
  /\ cursor < n
  /\ log[n].flaw = "none"
  /\ Capture(n) \/ Seal(n) \/ PassOver(n)
  /\ AdvanceTo(n)

-----------------------------------------------------------------------------
Fault == faults < MaxFaults /\ faults' = faults + 1

(* Mutant: any success forgets the replay, the event of the cursor coming  *)
(* again included.                                                         *)
MutResetsReplay(n) == replaySeq # 0

(* The event is done; a success at or past the event being replayed        *)
(* forgets the replay, the event of the cursor coming again does not.      *)
ResetsReplay(n) == replaySeq # 0 /\ n >= replaySeq

Succeed ==
  /\ stage' = "stream"
  /\ replaySeq' = IF ResetsReplay(pos) THEN 0 ELSE replaySeq
  /\ replayCount' = IF ResetsReplay(pos) THEN 0 ELSE replayCount
  /\ UNCHANGED <<ledger, parked, pos, attempt, runs, faults>>

(* Mutant: the count does not notice that another event is failing.        *)
MutReplays(n) == replayCount + 1

Replays(n) == IF replaySeq = n THEN replayCount + 1 ELSE 1

(* Mutant: an event that exhausted its attempts is logged and left behind. *)
MutFailSkips(error) ==
  /\ \/ /\ attempt < Attempts
        /\ attempt' = attempt + 1
        /\ UNCHANGED <<stage, runs>>
     \/ /\ attempt >= Attempts
        /\ runs' = [runs EXCEPT ![pos] = IF @ < MaxReplays THEN @ + 1 ELSE @]
        /\ stage' = "stream"
        /\ UNCHANGED attempt
  /\ UNCHANGED <<ledger, parked, pos, replay>>

(* An attempt failed.  When it was the last, a poisoned event is parked;   *)
(* any other error is raised, which cuts the stream, until the event has   *)
(* exhausted its attempts MaxReplays times on end and the database is      *)
(* probed.                                                                 *)
Fail(error) ==
  /\ \/ /\ attempt < Attempts
        /\ attempt' = attempt + 1
        /\ UNCHANGED <<stage, replay, runs>>
     \/ /\ attempt >= Attempts
        /\ runs' = [runs EXCEPT ![pos] = IF @ < MaxReplays THEN @ + 1 ELSE @]
        /\ UNCHANGED attempt
        /\ \/ error = "poison" /\ stage' = "park" /\ UNCHANGED replay
           \/ /\ error # "poison"
              /\ replaySeq' = pos
              /\ replayCount' = Replays(pos)
              /\ stage' = IF Replays(pos) >= MaxReplays THEN "probe" ELSE "down"
  /\ UNCHANGED <<ledger, parked, pos>>

AlreadyDone ==
  /\ stage = "work" /\ pos <= cursor
  /\ Succeed
  /\ UNCHANGED tables

Apply == stage = "work" /\ Process(pos) /\ Succeed

(* The commit is lost on its way back, or the count that follows the       *)
(* commit of a close fails: the attempt failed, the data is written.       *)
ApplyUnseen == stage = "work" /\ Fault /\ Process(pos) /\ Fail("transient")

Rejected ==
  /\ stage = "work" /\ cursor < pos /\ log[pos].flaw # "none"
  /\ Fail(log[pos].flaw)
  /\ UNCHANGED <<tables, faults>>

(* A read of the cursor or the transaction fails or times out.             *)
Unavailable ==
  /\ stage = "work" /\ Fault
  /\ Fail("transient")
  /\ UNCHANGED tables

-----------------------------------------------------------------------------
Probe ==
  /\ stage = "probe"
  /\ \/ stage' = "park" /\ UNCHANGED faults
     \/ stage' = "down" /\ Fault
  /\ UNCHANGED <<ledger, tables, parked, pos, attempt, replay, runs>>

Announced == {log[i].of : i \in DOMAIN log} \ {0}

(* External: the ledger appends an event once per idempotency key.         *)
AppendParked(n) ==
  IF n \in Announced \/ Len(log) >= MaxLog THEN UNCHANGED log
  ELSE log' = Append(log, [kind |-> "other", key |-> NoKey, flaw |-> "none", of |-> n])

(* _park logs, then emits event_parked with the sequence as its key; the   *)
(* emit is best effort and may be lost.                                    *)
Park ==
  /\ stage = "park"
  /\ parked' = parked \cup {pos}
  /\ AppendParked(pos) \/ UNCHANGED log
  /\ stage' = "advance"
  /\ UNCHANGED <<tables, pos, attempt, replay, runs, faults>>

(* ... and then moves the cursor past the event; an error here is raised   *)
(* and leaves the replay pair alone, whether the row was written or not.   *)
ParkAdvance ==
  /\ stage = "advance"
  /\ \/ /\ AdvanceTo(pos) /\ stage' = "stream" /\ UNCHANGED faults
        /\ replaySeq' = 0 /\ replayCount' = 0
     \/ /\ Fault /\ stage' = "down" /\ UNCHANGED replay
        /\ AdvanceTo(pos) \/ UNCHANGED cursor
  /\ UNCHANGED <<ledger, snapshots, windows, samples, parked, pos, attempt, runs>>

CutStream ==
  /\ stage = "stream" /\ Fault
  /\ stage' = "down"
  /\ UNCHANGED <<ledger, tables, parked, pos, attempt, replay, runs>>

(* The process restarts at any point: the tables stay.                     *)
RestartConsumer ==
  /\ Fault
  /\ stage' = "down" /\ pos' = 0 /\ attempt' = 1
  /\ replaySeq' = 0 /\ replayCount' = 0
  /\ UNCHANGED <<ledger, tables, parked, runs>>

Step ==
  \/ Connect \/ Receive \/ AlreadyDone \/ Apply \/ ApplyUnseen \/ Rejected
  \/ Unavailable \/ Probe \/ Park \/ ParkAdvance \/ CutStream

ConsumerNext == Produce \/ Step \/ RestartConsumer

(* The loop never exits, and failures that come from outside end.          *)
ConsumerSpec == ConsumerInit /\ [][ConsumerNext]_consumerVars /\ WF_consumerVars(Step)

-----------------------------------------------------------------------------
(* Every variable has its type.                                            *)
ConsumerTypeOK ==
  /\ log \in Seq(Event) /\ Len(log) <= MaxLog
  /\ cursor \in 0..MaxLog
  /\ snapshots \subseteq 1..MaxLog
  /\ windows \in Seq(Window)
  /\ samples \in Seq(Sample)
  /\ parked \subseteq 1..MaxLog
  /\ stage \in {"down", "stream", "work", "probe", "park", "advance"}
  /\ pos \in 0..MaxLog
  /\ attempt \in 1..Attempts
  /\ replaySeq \in 0..MaxLog /\ replayCount \in Nat
  /\ runs \in [1..MaxLog -> 0..MaxReplays]
  /\ faults \in 0..MaxFaults

(* The window is open when the consumer is at event n.                     *)
Spans(w, n) == w.open <= n /\ (w.close = 0 \/ n < w.close)

(* No event at or below the cursor is lost: unless it was logged as        *)
(* parked, an order event has its snapshot, one that opens a position lies *)
(* in a window of its identity, and a close has left none open.            *)
NothingSkipped ==
  \A n \in 1..cursor : n \notin parked =>
    /\ log[n].kind \in {"open", "snap"} => n \in snapshots
    /\ log[n].kind = "open" =>
         \E i \in DOMAIN windows : windows[i].key = log[n].key /\ Spans(windows[i], n)
    /\ log[n].kind = "close" =>
         ~ \E i \in DOMAIN windows : windows[i].key = log[n].key /\ Spans(windows[i], n)

(* Whatever is redelivered, retried or restarted, the windows of one       *)
(* identity follow each other without an overlap, each closed by a close   *)
(* of the identity that came after its opening.                            *)
WindowsInOrder ==
  \A i \in DOMAIN windows :
    /\ windows[i].close # 0 =>
         /\ windows[i].open < windows[i].close
         /\ log[windows[i].close].kind = "close" /\ log[windows[i].close].key = windows[i].key
    /\ \A j \in DOMAIN windows : i < j /\ windows[i].key = windows[j].key =>
         windows[i].close # 0 /\ windows[i].close < windows[j].open

(* A close is attributed once, although nothing in the table forbids a     *)
(* second row.                                                             *)
AttributedOnce ==
  \A i, j \in DOMAIN samples : samples[i].close = samples[j].close => i = j

(* What the tables say of a position is what happened to it: its windows   *)
(* in order, each closed and attributed by one close.                      *)
PositionsInOrder == WindowsInOrder /\ AttributedOnce

(* An event is parked only when it is poisoned or has exhausted its        *)
(* attempts MaxReplays times: an outage of the database, a reconnect or    *)
(* the failures of another event never spend its replays.                  *)
ParkIsEarned ==
  \A n \in parked : log[n].flaw = "poison" \/ runs[n] >= MaxReplays

(* A parked event is announced in the ledger at most once, however often   *)
(* the cursor could not be moved past it.                                  *)
AnnouncedOnce ==
  \A i, j \in DOMAIN log : log[i].of # 0 /\ log[i].of = log[j].of => i = j

(* Giving up on an event is its own fault and is told once.                *)
ParksAreEarned == ParkIsEarned /\ AnnouncedOnce

(* The consumer is one of the ledger's: it takes the events one by one, in *)
(* order, once; none is given up for it.                                   *)
Upto(n) == [i \in 1..n |-> i]

Feed == INSTANCE EventFeed WITH
  Events <- 1..MaxLog, Consumers <- {"pnl_pattern"}, Wants <- [c \in {"pnl_pattern"} |-> 1..MaxLog],
  log <- Upto(Len(log)), delivered <- [c \in {"pnl_pattern"} |-> Upto(cursor)],
  skipped <- [c \in {"pnl_pattern"} |-> {}]

FeedSteps == Feed!Init /\ [][Feed!Next]_(Feed!vars)

(* ... and it passes every event at last, the flawed ones included: no     *)
(* event stops the consumer for good.                                      *)
ConsumerKeepsUp == Feed!Spec
==============================================================================
