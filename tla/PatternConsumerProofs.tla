------------------------ MODULE PatternConsumerProofs ------------------------
(***************************************************************************)
(* Proofs about PatternConsumer for every set of identities, every number  *)
(* of attempts and replays, and every length of the ledger.                *)
(***************************************************************************)
EXTENDS PatternConsumer, WellFoundedInduction, TLAPS

Places == {"work", "probe", "park", "advance"}

\* The cursor lies in the ledger, and an event in hand is the one after it
\* or one that comes again.
PlaceInv ==
  /\ cursor <= Len(log)
  /\ stage = "stream" => pos <= cursor
  /\ stage \in Places => pos \in 1..(cursor + 1) /\ pos <= Len(log)
  /\ parked \subseteq 1..Len(log)
  /\ stage = "advance" => pos \in parked

\* The rows come from events the cursor has passed.
RowInv ==
  /\ snapshots \subseteq 1..cursor
  /\ \A i \in DOMAIN windows : windows[i].open \in 1..cursor /\ windows[i].close \in 0..cursor
  /\ \A i \in DOMAIN samples : samples[i].close \in 1..cursor

\* The replays counted for an event were exhausted attempts of that event.
ReplayInv ==
  /\ replaySeq # 0 => runs[replaySeq] >= MaxReplays \/ replayCount <= runs[replaySeq]
  /\ stage = "probe" => runs[pos] >= MaxReplays
  /\ stage \in {"park", "advance"} => log[pos].flaw = "poison" \/ runs[pos] >= MaxReplays

Promises ==
  NothingSkipped /\ WindowsInOrder /\ AttributedOnce /\ ParkIsEarned /\ AnnouncedOnce

CInv == ConsumerTypeOK /\ PlaceInv /\ RowInv /\ ReplayInv /\ Promises

-----------------------------------------------------------------------------
(* Events and the ledger. *)

LEMMA EventKeys ==
  ASSUME NEW e \in Event, e.kind \in {"open", "snap", "close"}
  PROVE  e.key \in Keys
  BY DEF Event

LEMMA AnnouncementIsEvent ==
  ASSUME NEW n \in 0..MaxLog
  PROVE  [kind |-> "other", key |-> NoKey, flaw |-> "none", of |-> n] \in Event
  BY DEF Event

\* The ledger only grows, by one event at most.
Grown ==
  \/ log' = log
  \/ /\ Len(log) < MaxLog
     /\ \E e \in Event : log' = Append(log, e)

LEMMA GrownFacts ==
  ASSUME ConsumerTypeOK, Grown
  PROVE  /\ log' \in Seq(Event) /\ Len(log') <= MaxLog
         /\ Len(log) \in Nat /\ Len(log') \in Nat /\ Len(log) <= Len(log')
         /\ DOMAIN log = 1..Len(log)
         /\ \A n \in 1..Len(log) : log'[n] = log[n] /\ log[n] \in Event
  <1>1. log \in Seq(Event) /\ Len(log) <= MaxLog
    BY DEF ConsumerTypeOK
  <1>2. CASE log' = log
    BY <1>1, <1>2
  <1>3. ASSUME NEW e \in Event, log' = Append(log, e), Len(log) < MaxLog
        PROVE  /\ log' \in Seq(Event) /\ Len(log') = Len(log) + 1
               /\ \A n \in 1..Len(log) : log'[n] = log[n]
    BY <1>1, <1>3
  <1>4. QED
    BY <1>1, <1>2, <1>3, ConsumerAssumption DEF Grown, ConsumerAssumption

LEMMA NextGrows == ASSUME ConsumerTypeOK, PlaceInv, ConsumerNext  PROVE Grown
  <1>1. CASE Produce
    BY <1>1, ProducedAssumption DEF Produce, Grown
  <1>2. CASE Park
    <2>1. CASE log' = Append(log, [kind |-> "other", key |-> NoKey, flaw |-> "none", of |-> pos])
               /\ ~(Len(log) >= MaxLog)
      <3>1. [kind |-> "other", key |-> NoKey, flaw |-> "none", of |-> pos] \in Event
        BY AnnouncementIsEvent DEF ConsumerTypeOK
      <3>2. Len(log) \in Nat
        BY DEF ConsumerTypeOK
      <3>3. QED
        BY <2>1, <3>1, <3>2, ConsumerAssumption DEF Grown, ConsumerAssumption
    <2>2. QED
      BY <1>2, <2>1 DEF Park, AppendParked, Grown
  <1>3. CASE RestartConsumer \/ (Step /\ ~Park)
    BY <1>3 DEF RestartConsumer, Step, Connect, Receive, AlreadyDone, Apply, ApplyUnseen, Rejected,
                Unavailable, Probe, ParkAdvance, CutStream, Succeed, Fail, ledger, Grown
  <1>4. QED
    BY <1>1, <1>2, <1>3 DEF ConsumerNext, Step

-----------------------------------------------------------------------------
(* The rows. *)

\* The rows are left alone and the cursor stays, or passes a parked event.
Calm ==
  /\ UNCHANGED <<snapshots, windows, samples>>
  /\ parked \subseteq parked'
  /\ cursor' = cursor \/ (cursor' = cursor + 1 /\ cursor' \in parked')

Tables ==
  /\ cursor \in 0..MaxLog
  /\ snapshots \subseteq 1..MaxLog
  /\ windows \in Seq(Window)
  /\ samples \in Seq(Sample)
  /\ RowInv /\ NothingSkipped /\ WindowsInOrder /\ AttributedOnce

\* One event is applied.
Applied == parked' = parked /\ Process(cursor + 1)

LEMMA CalmKeeps ==
  ASSUME CInv, Grown, Calm, cursor' <= Len(log)
  PROVE  Tables'
  <1>1. /\ log' \in Seq(Event) /\ Len(log') <= MaxLog
        /\ Len(log) \in Nat /\ Len(log') \in Nat /\ Len(log) <= Len(log')
        /\ \A n \in 1..Len(log) : log'[n] = log[n] /\ log[n] \in Event
    BY GrownFacts DEF CInv
  <1>2. /\ cursor \in Nat /\ cursor <= Len(log) /\ cursor' \in cursor..cursor + 1
        /\ MaxLog \in Nat
    BY ConsumerAssumption DEF CInv, ConsumerTypeOK, PlaceInv, Calm, ConsumerAssumption
  <1>3. cursor' \in 0..MaxLog /\ cursor' <= Len(log)
    BY <1>1, <1>2
  <1>4. RowInv'
    BY <1>2 DEF CInv, RowInv, Calm
  <1>5. NothingSkipped'
    <2>1. SUFFICES ASSUME NEW n \in 1..cursor', n \notin parked'
                   PROVE  /\ log'[n].kind \in {"open", "snap"} => n \in snapshots
                          /\ log'[n].kind = "open" =>
                               \E i \in DOMAIN windows :
                                 windows[i].key = log'[n].key /\ Spans(windows[i], n)
                          /\ log'[n].kind = "close" =>
                               ~ \E i \in DOMAIN windows :
                                   windows[i].key = log'[n].key /\ Spans(windows[i], n)
      BY DEF NothingSkipped, Calm, Spans
    <2>2. n \in 1..cursor /\ n \notin parked
      BY <2>1, <1>2 DEF Calm
    <2>3. log'[n] = log[n]
      BY <1>1, <1>2, <2>2
    <2>4. QED
      BY <2>2, <2>3 DEF CInv, Promises, NothingSkipped
  <1>6. WindowsInOrder'
    <2>1. \A i \in DOMAIN windows : windows[i].close # 0 => log'[windows[i].close] = log[windows[i].close]
      BY <1>1, <1>2 DEF CInv, RowInv
    <2>2. QED
      BY <2>1 DEF CInv, Promises, WindowsInOrder, Calm
  <1>7. AttributedOnce'
    BY DEF CInv, Promises, AttributedOnce, Calm
  <1>8. QED
    BY <1>3, <1>4, <1>5, <1>6, <1>7 DEF CInv, ConsumerTypeOK, Tables, Calm

\* What holds before an event is applied, in the form its proofs use it.
LEMMA BeforeApplying ==
  ASSUME CInv
  PROVE  /\ log \in Seq(Event) /\ Len(log) \in Nat /\ Len(log) <= MaxLog
         /\ cursor \in Nat /\ MaxLog \in Nat
         /\ windows \in Seq(Window) /\ DOMAIN windows = 1..Len(windows) /\ Len(windows) \in Nat
         /\ \A i \in DOMAIN windows :
              /\ windows[i] \in Window
              /\ windows[i].open \in 1..cursor /\ windows[i].close \in 0..cursor
  <1>1. log \in Seq(Event) /\ Len(log) <= MaxLog /\ cursor \in 0..MaxLog /\ windows \in Seq(Window)
    BY DEF CInv, ConsumerTypeOK
  <1>2. MaxLog \in Nat
    BY ConsumerAssumption DEF ConsumerAssumption
  <1>3. QED
    BY <1>1, <1>2 DEF CInv, RowInv

\* A snapshot, and a window where none is open.
LEMMA CaptureKeeps ==
  ASSUME CInv, cursor < Len(log), log' = log, parked' = parked, cursor' = cursor + 1,
         Capture(cursor + 1)
  PROVE  Tables'
  <1>. DEFINE n == cursor + 1
              k == log[n].key
              row == [key |-> k, open |-> n, close |-> 0]
  <1>1. /\ log \in Seq(Event) /\ Len(log) \in Nat /\ Len(log) <= MaxLog
        /\ cursor \in Nat /\ MaxLog \in Nat
        /\ windows \in Seq(Window) /\ DOMAIN windows = 1..Len(windows) /\ Len(windows) \in Nat
        /\ \A i \in DOMAIN windows :
             /\ windows[i] \in Window
             /\ windows[i].open \in 1..cursor /\ windows[i].close \in 0..cursor
    BY BeforeApplying
  <1>2. /\ n \in 1..Len(log) /\ n \in 1..MaxLog /\ cursor' = n /\ cursor < n
        /\ log[n] \in Event /\ n \in Nat
    BY <1>1
  <1>3. /\ log[n].kind \in {"open", "snap"}
        /\ snapshots' = snapshots \cup {n} /\ samples' = samples
        /\ \/ windows' = windows
           \/ windows' = Append(windows, row) /\ log[n].kind = "open" /\ OpenRows(k) = {}
        /\ log[n].kind = "open" /\ OpenRows(k) = {} => windows' = Append(windows, row)
    BY DEF Capture
  <1>4. k \in Keys /\ row \in Window
    BY <1>1, <1>2, <1>3, EventKeys DEF Window
  <1>. HIDE DEF n, k, row
  <1>5. /\ windows' \in Seq(Window) /\ DOMAIN windows \subseteq DOMAIN windows'
        /\ \A i \in DOMAIN windows : windows'[i] = windows[i]
        /\ \A i \in DOMAIN windows' \ DOMAIN windows :
             windows'[i] = row /\ i = Len(windows) + 1 /\ OpenRows(k) = {}
    <2>1. CASE windows' = windows
      BY <1>1, <2>1
    <2>2. CASE windows' = Append(windows, row) /\ OpenRows(k) = {}
      <3>1. /\ windows' \in Seq(Window) /\ DOMAIN windows' = 1..Len(windows) + 1
            /\ \A i \in 1..Len(windows) : windows'[i] = windows[i]
            /\ windows'[Len(windows) + 1] = row
        BY <1>1, <1>4, <2>2
      <3>2. QED
        BY <1>1, <2>2, <3>1
    <2>3. QED
      BY <1>3, <2>1, <2>2
  <1>6. row.key = k /\ row.open = n /\ row.close = 0
    BY DEF row
  <1>7. RowInv'
    <2>1. snapshots' \subseteq 1..cursor'
      BY <1>1, <1>2, <1>3 DEF CInv, RowInv
    <2>2. ASSUME NEW i \in DOMAIN windows'
          PROVE  windows'[i].open \in 1..cursor' /\ windows'[i].close \in 0..cursor'
      BY <1>1, <1>2, <1>5, <1>6
    <2>3. \A i \in DOMAIN samples' : samples'[i].close \in 1..cursor'
      BY <1>1, <1>2, <1>3 DEF CInv, RowInv
    <2>4. QED
      BY <2>1, <2>2, <2>3 DEF RowInv
  <1>8. NothingSkipped'
    <2>1. SUFFICES ASSUME NEW m \in 1..cursor', m \notin parked
                   PROVE  /\ log[m].kind \in {"open", "snap"} => m \in snapshots'
                          /\ log[m].kind = "open" =>
                               \E i \in DOMAIN windows' :
                                 windows'[i].key = log[m].key /\ Spans(windows'[i], m)
                          /\ log[m].kind = "close" =>
                               ~ \E i \in DOMAIN windows' :
                                   windows'[i].key = log[m].key /\ Spans(windows'[i], m)
      BY DEF NothingSkipped, Spans
    <2>2. CASE m = n
      <3>1. m \in snapshots' /\ log[m].kind # "close"
        BY <1>3, <2>2
      <3>2. ASSUME log[m].kind = "open"
            PROVE  \E i \in DOMAIN windows' :
                     windows'[i].key = log[m].key /\ Spans(windows'[i], m)
        <4>1. CASE OpenRows(k) = {}
          <5>1. windows' = Append(windows, row)
            BY <1>3, <2>2, <3>2, <4>1
          <5>2. Len(windows) + 1 \in DOMAIN windows' /\ windows'[Len(windows) + 1] = row
            BY <1>1, <1>4, <5>1
          <5>3. QED
            BY <1>2, <1>6, <2>2, <5>2 DEF Spans, k
        <4>2. CASE OpenRows(k) # {}
          <5>1. PICK i \in DOMAIN windows : windows[i].key = k /\ windows[i].close = 0
            BY <4>2 DEF OpenRows
          <5>2. QED
            BY <1>1, <1>2, <1>5, <2>2, <5>1 DEF Spans, k
        <4>3. QED
          BY <4>1, <4>2
      <3>3. QED
        BY <3>1, <3>2
    <2>3. CASE m # n
      <3>1. m \in 1..cursor
        BY <1>1, <1>2, <2>3
      <3>2. log[m].kind \in {"open", "snap"} => m \in snapshots'
        BY <1>3, <2>1, <3>1 DEF CInv, Promises, NothingSkipped
      <3>3. ASSUME log[m].kind = "open"
            PROVE  \E i \in DOMAIN windows' :
                     windows'[i].key = log[m].key /\ Spans(windows'[i], m)
        <4>1. PICK i \in DOMAIN windows : windows[i].key = log[m].key /\ Spans(windows[i], m)
          BY <2>1, <3>1, <3>3 DEF CInv, Promises, NothingSkipped
        <4>2. QED
          BY <1>5, <4>1
      <3>4. ASSUME log[m].kind = "close", NEW i \in DOMAIN windows',
                   windows'[i].key = log[m].key, Spans(windows'[i], m)
            PROVE  FALSE
        <4>1. CASE i \in DOMAIN windows
          BY <1>5, <2>1, <3>1, <3>4, <4>1 DEF CInv, Promises, NothingSkipped
        <4>2. CASE i \notin DOMAIN windows
          <5>1. windows'[i].open = n
            BY <1>5, <1>6, <4>2
          <5>2. QED
            BY <1>1, <1>2, <3>1, <3>4, <5>1 DEF Spans
        <4>3. QED
          BY <4>1, <4>2
      <3>5. QED
        BY <3>2, <3>3, <3>4
    <2>4. QED
      BY <2>2, <2>3
  <1>9. WindowsInOrder'
    <2>1. ASSUME NEW i \in DOMAIN windows', windows'[i].close # 0
          PROVE  /\ windows'[i].open < windows'[i].close
                 /\ log[windows'[i].close].kind = "close"
                 /\ log[windows'[i].close].key = windows'[i].key
      BY <1>5, <1>6, <2>1 DEF CInv, Promises, WindowsInOrder
    <2>2. ASSUME NEW i \in DOMAIN windows', NEW j \in DOMAIN windows', i < j,
                 windows'[i].key = windows'[j].key
          PROVE  windows'[i].close # 0 /\ windows'[i].close < windows'[j].open
      <3>1. i \in DOMAIN windows
        <4>1. windows' = windows \/ windows' = Append(windows, row)
          BY <1>3
        <4>2. DOMAIN windows' \subseteq 1..Len(windows) + 1
          BY <1>1, <1>4, <4>1
        <4>3. QED
          BY <1>1, <1>5, <2>2, <4>2
      <3>2. CASE j \in DOMAIN windows
        BY <1>5, <2>2, <3>1, <3>2 DEF CInv, Promises, WindowsInOrder
      <3>3. CASE j \notin DOMAIN windows
        <4>1. windows[i].key = k /\ OpenRows(k) = {} /\ windows'[j].open = n
          BY <1>5, <1>6, <2>2, <3>1, <3>3
        <4>2. windows[i].close # 0
          BY <3>1, <4>1 DEF OpenRows
        <4>3. QED
          BY <1>1, <1>2, <1>5, <3>1, <4>1, <4>2
      <3>4. QED
        BY <3>2, <3>3
    <2>3. QED
      BY <2>1, <2>2 DEF WindowsInOrder
  <1>10. AttributedOnce'
    BY <1>3 DEF CInv, Promises, AttributedOnce
  <1>11. /\ cursor' \in 0..MaxLog /\ snapshots' \subseteq 1..MaxLog
         /\ samples' \in Seq(Sample)
    BY <1>1, <1>2, <1>3 DEF CInv, ConsumerTypeOK
  <1>12. QED
    BY <1>5, <1>7, <1>8, <1>9, <1>10, <1>11 DEF Tables

\* The oldest of some events is one of them.
LEMMA EarliestIsOne ==
  ASSUME NEW S \in SUBSET Nat, S # {}
  PROVE  Earliest(S) \in S
  <1>. DEFINE Before == {ss \in Nat \X Nat : ss[1] < ss[2]}
  <1>1. IsWellFoundedOn(Before, Nat)
    BY NatLessThanWellFounded DEF OpToRel
  <1>2. PICK n \in S : \A m \in S : ~ (<<m, n>> \in Before)
    <2>. HIDE DEF Before
    <2>. QED
      BY <1>1, WFMin
  <1>3. ASSUME NEW m \in S
        PROVE  n <= m
    <2>1. m \in Nat /\ n \in Nat
      OBVIOUS
    <2>2. ~ (m < n)
      BY <1>2, <2>1
    <2>3. QED
      BY <2>1, <2>2
  <1>4. QED
    BY <1>2, <1>3 DEF Earliest

\* A close seals the open window and attributes its result.
LEMMA SealKeeps ==
  ASSUME CInv, cursor < Len(log), log' = log, parked' = parked, cursor' = cursor + 1,
         Seal(cursor + 1)
  PROVE  Tables'
  <1>. DEFINE n == cursor + 1
              k == log[n].key
              S == SnapshotsOf(k)
              row == [close |-> n, from |-> Earliest(S)]
  <1>1. /\ log \in Seq(Event) /\ Len(log) \in Nat /\ Len(log) <= MaxLog
        /\ cursor \in Nat /\ MaxLog \in Nat
        /\ windows \in Seq(Window) /\ DOMAIN windows = 1..Len(windows) /\ Len(windows) \in Nat
        /\ \A i \in DOMAIN windows :
             /\ windows[i] \in Window
             /\ windows[i].open \in 1..cursor /\ windows[i].close \in 0..cursor
    BY BeforeApplying
  <1>2. /\ n \in 1..Len(log) /\ n \in 1..MaxLog /\ cursor' = n /\ cursor < n
        /\ log[n] \in Event /\ n \in Nat
    BY <1>1
  <1>3. /\ log[n].kind = "close" /\ snapshots' = snapshots
        /\ windows' = [i \in DOMAIN windows |->
                         IF i \in OpenRows(k) THEN [windows[i] EXCEPT !.close = n] ELSE windows[i]]
        /\ samples' = samples \/ (samples' = Append(samples, row) /\ S # {})
    BY DEF Seal
  <1>4. S # {} => row \in Sample
    <2>1. snapshots \in SUBSET (1..MaxLog)
      BY DEF CInv, ConsumerTypeOK
    <2>2. S \subseteq snapshots
      BY DEF SnapshotsOf
    <2>. HIDE DEF S
    <2>3. S \in SUBSET Nat /\ S \subseteq 1..MaxLog
      BY <2>1, <2>2
    <2>4. S # {} => Earliest(S) \in 1..MaxLog
      BY <2>3, EarliestIsOne
    <2>5. QED
      BY <1>2, <2>4 DEF Sample
  <1>5. row.close = n
    OBVIOUS
  <1>. HIDE DEF n, k, S, row
  <1>6. /\ DOMAIN windows' = DOMAIN windows
        /\ \A i \in DOMAIN windows :
             /\ windows'[i] \in Window
             /\ windows'[i].key = windows[i].key /\ windows'[i].open = windows[i].open
             /\ \/ windows'[i].close = n /\ windows[i].close = 0 /\ windows[i].key = k
                \/ /\ windows'[i].close = windows[i].close
                   /\ ~(windows[i].close = 0 /\ windows[i].key = k)
    <2>1. DOMAIN windows' = DOMAIN windows
      BY <1>3
    <2>2. ASSUME NEW i \in DOMAIN windows
          PROVE  /\ windows'[i] \in Window
                 /\ windows'[i].key = windows[i].key /\ windows'[i].open = windows[i].open
                 /\ \/ windows'[i].close = n /\ windows[i].close = 0 /\ windows[i].key = k
                    \/ /\ windows'[i].close = windows[i].close
                       /\ ~(windows[i].close = 0 /\ windows[i].key = k)
      <3>1. windows[i] \in Window
        BY <1>1
      <3>2. CASE i \in OpenRows(k)
        <4>1. windows'[i] = [windows[i] EXCEPT !.close = n]
          BY <1>3, <3>2
        <4>2. QED
          BY <1>2, <3>1, <3>2, <4>1 DEF Window, OpenRows
      <3>3. CASE i \notin OpenRows(k)
        <4>1. windows'[i] = windows[i]
          BY <1>3, <3>3
        <4>2. QED
          BY <3>1, <3>3, <4>1 DEF OpenRows
      <3>4. QED
        BY <3>2, <3>3
    <2>3. QED
      BY <2>1, <2>2
  <1>7. windows' \in Seq(Window)
    <2>1. windows' = [i \in 1..Len(windows) |-> windows'[i]]
      BY <1>1, <1>3
    <2>2. \A i \in 1..Len(windows) : windows'[i] \in Window
      BY <1>1, <1>6
    <2>3. windows' \in [1..Len(windows) -> Window]
      BY <2>1, <2>2
    <2>4. QED
      BY <1>1, <2>3
  <1>8. /\ samples' \in Seq(Sample)
        /\ DOMAIN samples \subseteq DOMAIN samples'
        /\ \A i \in DOMAIN samples : samples'[i] = samples[i] /\ samples[i].close \in 1..cursor
        /\ \A i \in DOMAIN samples' \ DOMAIN samples :
             samples'[i].close = n /\ i = Len(samples) + 1
    <2>1. samples \in Seq(Sample) /\ \A i \in DOMAIN samples : samples[i].close \in 1..cursor
      BY DEF CInv, ConsumerTypeOK, RowInv
    <2>2. CASE samples' = samples
      BY <2>1, <2>2
    <2>3. CASE samples' = Append(samples, row) /\ S # {}
      <3>1. /\ samples' \in Seq(Sample) /\ DOMAIN samples = 1..Len(samples)
            /\ Len(samples) \in Nat /\ DOMAIN samples' = 1..Len(samples) + 1
            /\ \A i \in 1..Len(samples) : samples'[i] = samples[i]
            /\ samples'[Len(samples) + 1] = row
        BY <1>4, <2>1, <2>3
      <3>2. QED
        BY <1>5, <2>1, <3>1
    <2>4. QED
      BY <1>3, <2>2, <2>3
  <1>9. RowInv'
    <2>1. snapshots' \subseteq 1..cursor'
      BY <1>1, <1>2, <1>3 DEF CInv, RowInv
    <2>2. ASSUME NEW i \in DOMAIN windows'
          PROVE  windows'[i].open \in 1..cursor' /\ windows'[i].close \in 0..cursor'
      BY <1>1, <1>2, <1>6
    <2>3. ASSUME NEW i \in DOMAIN samples'
          PROVE  samples'[i].close \in 1..cursor'
      BY <1>1, <1>2, <1>8
    <2>4. QED
      BY <2>1, <2>2, <2>3 DEF RowInv
  <1>10. NothingSkipped'
    <2>1. SUFFICES ASSUME NEW m \in 1..cursor', m \notin parked
                   PROVE  /\ log[m].kind \in {"open", "snap"} => m \in snapshots
                          /\ log[m].kind = "open" =>
                               \E i \in DOMAIN windows' :
                                 windows'[i].key = log[m].key /\ Spans(windows'[i], m)
                          /\ log[m].kind = "close" =>
                               ~ \E i \in DOMAIN windows' :
                                   windows'[i].key = log[m].key /\ Spans(windows'[i], m)
      BY <1>3 DEF NothingSkipped, Spans
    <2>2. CASE m = n
      <3>1. ASSUME NEW i \in DOMAIN windows', windows'[i].key = k, Spans(windows'[i], n)
            PROVE  FALSE
        BY <1>1, <1>2, <1>6, <3>1 DEF Spans
      <3>2. QED
        BY <1>3, <2>2, <3>1 DEF k
    <2>3. CASE m # n
      <3>1. m \in 1..cursor
        BY <1>1, <1>2, <2>3
      <3>2. ASSUME NEW i \in DOMAIN windows
            PROVE  /\ windows'[i].key = windows[i].key
                   /\ Spans(windows'[i], m) <=> Spans(windows[i], m)
        BY <1>1, <1>2, <1>6, <3>1 DEF Spans
      <3>3. QED
        BY <1>6, <2>1, <3>1, <3>2 DEF CInv, Promises, NothingSkipped
    <2>4. QED
      BY <2>2, <2>3
  <1>11. WindowsInOrder'
    <2>1. ASSUME NEW i \in DOMAIN windows, windows'[i].close # 0
          PROVE  /\ windows'[i].open < windows'[i].close
                 /\ log[windows'[i].close].kind = "close"
                 /\ log[windows'[i].close].key = windows'[i].key
      <3>1. CASE windows'[i].close = n /\ windows[i].key = k
        BY <1>1, <1>2, <1>3, <1>6, <3>1 DEF k
      <3>2. CASE windows'[i].close = windows[i].close
        BY <1>6, <2>1, <3>2 DEF CInv, Promises, WindowsInOrder
      <3>3. QED
        BY <1>6, <3>1, <3>2
    <2>2. ASSUME NEW i \in DOMAIN windows, NEW j \in DOMAIN windows, i < j,
                 windows'[i].key = windows'[j].key
          PROVE  windows'[i].close # 0 /\ windows'[i].close < windows'[j].open
      <3>1. windows[i].close # 0 /\ windows[i].close < windows[j].open
        BY <1>6, <2>2 DEF CInv, Promises, WindowsInOrder
      <3>2. QED
        BY <1>6, <3>1
    <2>3. QED
      BY <1>3, <1>6, <2>1, <2>2 DEF WindowsInOrder
  <1>12. AttributedOnce'
    <2>1. ASSUME NEW i \in DOMAIN samples', NEW j \in DOMAIN samples',
                 samples'[i].close = samples'[j].close
          PROVE  i = j
      <3>1. CASE i \in DOMAIN samples /\ j \in DOMAIN samples
        BY <1>8, <2>1, <3>1 DEF CInv, Promises, AttributedOnce
      <3>2. CASE i \notin DOMAIN samples /\ j \notin DOMAIN samples
        BY <1>8, <2>1, <3>2
      <3>3. CASE i \in DOMAIN samples <=> j \notin DOMAIN samples
        BY <1>1, <1>2, <1>8, <2>1, <3>3
      <3>4. QED
        BY <3>1, <3>2, <3>3
    <2>2. QED
      BY <2>1 DEF AttributedOnce
  <1>13. cursor' \in 0..MaxLog /\ snapshots' \subseteq 1..MaxLog
    BY <1>1, <1>2, <1>3 DEF CInv, ConsumerTypeOK
  <1>14. QED
    BY <1>7, <1>8, <1>9, <1>10, <1>11, <1>12, <1>13 DEF Tables

LEMMA PassOverKeeps ==
  ASSUME CInv, cursor < Len(log), log' = log, parked' = parked, cursor' = cursor + 1,
         PassOver(cursor + 1)
  PROVE  Tables'
  <1>1. /\ log[cursor + 1].kind = "other" /\ snapshots' = snapshots
        /\ windows' = windows /\ samples' = samples
    BY DEF PassOver
  <1>2. cursor \in Nat /\ MaxLog \in Nat /\ Len(log) \in Nat /\ Len(log) <= MaxLog
    BY BeforeApplying
  <1>3. RowInv' /\ WindowsInOrder' /\ AttributedOnce'
    BY <1>1, <1>2 DEF CInv, Promises, RowInv, WindowsInOrder, AttributedOnce
  <1>4. NothingSkipped'
    <2>1. \A m \in 1..cursor' : m \in 1..cursor \/ log[m].kind = "other"
      BY <1>1, <1>2
    <2>2. QED
      BY <1>1, <2>1 DEF CInv, Promises, NothingSkipped, Spans
  <1>5. QED
    BY <1>1, <1>2, <1>3, <1>4 DEF CInv, ConsumerTypeOK, Tables

LEMMA ProcessKeeps ==
  ASSUME CInv, Process(pos), pos \in 1..(cursor + 1), pos <= Len(log),
         log' = log, parked' = parked
  PROVE  Tables' /\ cursor' = pos /\ pos = cursor + 1
  <1>1. cursor \in Nat /\ Len(log) \in Nat
    BY BeforeApplying
  <1>2. pos = cursor + 1 /\ cursor' = cursor + 1 /\ cursor < Len(log)
    BY <1>1 DEF Process, AdvanceTo
  <1>3. Capture(cursor + 1) \/ Seal(cursor + 1) \/ PassOver(cursor + 1)
    BY <1>2 DEF Process
  <1>4. QED
    BY <1>2, <1>3, CaptureKeeps, SealKeeps, PassOverKeeps

-----------------------------------------------------------------------------
(* The consumer itself. *)

ControlTypes ==
  /\ parked \subseteq 1..MaxLog
  /\ stage \in {"down", "stream", "work", "probe", "park", "advance"}
  /\ pos \in 0..MaxLog
  /\ attempt \in 1..Attempts
  /\ replaySeq \in 0..MaxLog /\ replayCount \in Nat
  /\ runs \in [1..MaxLog -> 0..MaxReplays]
  /\ faults \in 0..MaxFaults

Control == ControlTypes /\ PlaceInv /\ ReplayInv /\ ParkIsEarned

LEMMA Numbers ==
  ASSUME CInv
  PROVE  /\ Attempts \in Nat \ {0} /\ MaxReplays \in Nat \ {0} /\ MaxLog \in Nat /\ MaxFaults \in Nat
         /\ Len(log) \in Nat /\ Len(log) <= MaxLog /\ cursor \in 0..Len(log)
         /\ ControlTypes
  BY BeforeApplying, ConsumerAssumption DEF ConsumerAssumption, CInv, PlaceInv, ConsumerTypeOK, ControlTypes

LEMMA FaultCounts == ASSUME CInv, Fault  PROVE faults' \in 0..MaxFaults
  BY Numbers DEF Fault, ControlTypes

\* A failed attempt: what it may do to the counters and where it leads.
LEMMA FailFacts ==
  ASSUME CInv, stage = "work", NEW error, Fail(error)
  PROVE  /\ log' = log /\ parked' = parked /\ pos' = pos /\ pos \in 1..Len(log)
         /\ attempt' \in 1..Attempts /\ runs' \in [1..MaxLog -> 0..MaxReplays]
         /\ replaySeq' \in 0..MaxLog /\ replayCount' \in Nat
         /\ stage' \in {"work", "down", "park", "probe"}
         /\ \A m \in 1..MaxLog : runs[m] <= runs'[m]
         /\ replaySeq' # 0 => runs'[replaySeq'] >= MaxReplays \/ replayCount' <= runs'[replaySeq']
         /\ stage' = "probe" => runs'[pos] >= MaxReplays
         /\ stage' = "park" => error = "poison"
  <1>1. /\ Attempts \in Nat \ {0} /\ MaxReplays \in Nat \ {0} /\ MaxLog \in Nat
        /\ Len(log) \in Nat /\ Len(log) <= MaxLog /\ cursor \in 0..Len(log)
        /\ attempt \in 1..Attempts /\ runs \in [1..MaxLog -> 0..MaxReplays]
        /\ replaySeq \in 0..MaxLog /\ replayCount \in Nat
    BY Numbers DEF ControlTypes
  <1>2. log' = log /\ parked' = parked /\ pos' = pos
    BY DEF Fail, ledger
  <1>3. pos \in 1..Len(log) /\ pos \in 1..MaxLog
    BY <1>1 DEF CInv, PlaceInv, Places
  <1>4. replaySeq # 0 => runs[replaySeq] >= MaxReplays \/ replayCount <= runs[replaySeq]
    BY DEF CInv, ReplayInv
  <1>5. CASE attempt < Attempts /\ attempt' = attempt + 1 /\ UNCHANGED <<stage, replay, runs>>
    BY <1>1, <1>2, <1>3, <1>4, <1>5 DEF replay
  <1>6. CASE /\ runs' = [runs EXCEPT ![pos] = IF @ < MaxReplays THEN @ + 1 ELSE @]
             /\ UNCHANGED attempt
             /\ error = "poison" /\ stage' = "park" /\ UNCHANGED replay
    BY <1>1, <1>2, <1>3, <1>4, <1>6 DEF replay
  <1>7. CASE /\ runs' = [runs EXCEPT ![pos] = IF @ < MaxReplays THEN @ + 1 ELSE @]
             /\ UNCHANGED attempt
             /\ replaySeq' = pos
             /\ replayCount' = Replays(pos)
             /\ stage' = IF Replays(pos) >= MaxReplays THEN "probe" ELSE "down"
    <2>1. Replays(pos) \in Nat
      BY <1>1 DEF Replays
    <2>2. runs' \in [1..MaxLog -> 0..MaxReplays] /\ \A m \in 1..MaxLog : runs[m] <= runs'[m]
      BY <1>1, <1>3, <1>7
    <2>3. runs'[pos] = IF runs[pos] < MaxReplays THEN runs[pos] + 1 ELSE runs[pos]
      BY <1>1, <1>3, <1>7
    <2>4. runs'[pos] >= MaxReplays \/ Replays(pos) <= runs'[pos]
      BY <1>1, <1>3, <1>4, <2>3 DEF Replays
    <2>5. stage' = "probe" => runs'[pos] >= MaxReplays
      BY <1>1, <1>3, <1>7, <2>1, <2>2, <2>4
    <2>6. QED
      BY <1>1, <1>2, <1>3, <1>7, <2>1, <2>2, <2>4, <2>5
  <1>8. QED
    BY <1>5, <1>6, <1>7 DEF Fail

LEMMA WiderRange ==
  ASSUME NEW a \in Nat, NEW b \in Nat, a <= b, NEW n \in 1..(a + 1)
  PROVE  n \in 1..(b + 1)
  OBVIOUS

\* After a failure, whatever it left in the tables.
LEMMA FailKeeps ==
  ASSUME CInv, stage = "work", NEW error, Fail(error), faults' \in 0..MaxFaults,
         error = "poison" => log[pos].flaw = "poison",
         cursor' \in cursor..Len(log)
  PROVE  Control' /\ AnnouncedOnce'
  <1>1. /\ log' = log /\ parked' = parked /\ pos' = pos /\ pos \in 1..Len(log)
        /\ attempt' \in 1..Attempts /\ runs' \in [1..MaxLog -> 0..MaxReplays]
        /\ replaySeq' \in 0..MaxLog /\ replayCount' \in Nat
        /\ stage' \in {"work", "down", "park", "probe"}
        /\ \A m \in 1..MaxLog : runs[m] <= runs'[m]
        /\ replaySeq' # 0 => runs'[replaySeq'] >= MaxReplays \/ replayCount' <= runs'[replaySeq']
        /\ stage' = "probe" => runs'[pos] >= MaxReplays
        /\ stage' = "park" => error = "poison"
    BY FailFacts
  <1>2. /\ MaxReplays \in Nat /\ MaxLog \in Nat /\ Len(log) \in Nat /\ Len(log) <= MaxLog
        /\ cursor \in 0..Len(log) /\ runs \in [1..MaxLog -> 0..MaxReplays]
        /\ parked \subseteq 1..MaxLog /\ pos \in 0..MaxLog
    BY Numbers DEF ControlTypes
  <1>3. ControlTypes'
    BY <1>1, <1>2 DEF ControlTypes
  <1>4. PlaceInv'
    <2>1. pos \in 1..(cursor + 1) /\ parked \subseteq 1..Len(log)
      BY DEF CInv, PlaceInv, Places
    <2>2. cursor' \in Nat /\ cursor <= cursor' /\ cursor' <= Len(log)
      BY <1>2
    <2>3. pos \in 1..Len(log) /\ cursor \in 0..Len(log) /\ Len(log) \in Nat
      BY <1>1, <1>2
    <2>4. pos \in 1..(cursor' + 1) /\ pos <= Len(log)
      <3>1. cursor \in Nat /\ pos <= Len(log)
        BY <2>3
      <3>2. QED
        BY <2>1, <2>2, <3>1, WiderRange
    <2>5. QED
      BY <1>1, <2>1, <2>2, <2>4 DEF PlaceInv
  <1>5. ReplayInv'
    BY <1>1 DEF ReplayInv
  <1>6. ParkIsEarned'
    <2>1. ASSUME NEW m \in parked
          PROVE  log[m].flaw = "poison" \/ runs'[m] >= MaxReplays
      <3>1. log[m].flaw = "poison" \/ runs[m] >= MaxReplays
        BY DEF CInv, Promises, ParkIsEarned
      <3>2. m \in 1..MaxLog /\ runs[m] \in Nat /\ runs'[m] \in Nat /\ runs[m] <= runs'[m]
        BY <1>1, <1>2
      <3>3. QED
        BY <1>2, <3>1, <3>2
    <2>2. QED
      BY <1>1, <2>1 DEF ParkIsEarned
  <1>7. AnnouncedOnce'
    BY <1>1 DEF CInv, Promises, AnnouncedOnce
  <1>8. QED
    BY <1>3, <1>4, <1>5, <1>6, <1>7 DEF Control

\* The event in hand was applied, or turns out to have been before.
LEMMA SucceedKeeps ==
  ASSUME CInv, stage = "work", Succeed, faults' = faults, cursor' \in cursor..Len(log), pos <= cursor'
  PROVE  Control' /\ AnnouncedOnce'
  <1>1. /\ log' = log /\ parked' = parked /\ pos' = pos /\ attempt' = attempt /\ runs' = runs
        /\ stage' = "stream"
        /\ \/ replaySeq' = replaySeq /\ replayCount' = replayCount
           \/ replaySeq' = 0 /\ replayCount' = 0
    BY DEF Succeed, ledger
  <1>2. ControlTypes'
    BY <1>1, Numbers DEF ControlTypes
  <1>3. PlaceInv'
    BY <1>1, Numbers DEF CInv, PlaceInv, Places
  <1>4. ReplayInv'
    BY <1>1 DEF CInv, ReplayInv
  <1>5. ParkIsEarned' /\ AnnouncedOnce'
    BY <1>1 DEF CInv, Promises, ParkIsEarned, AnnouncedOnce
  <1>6. QED
    BY <1>2, <1>3, <1>4, <1>5 DEF Control

\* The steps that leave the ledger, the parked events and the history alone
\* and come to a place that asks for nothing more.
LEMMA MoveKeeps ==
  ASSUME CInv, UNCHANGED <<log, cursor, parked, runs>>,
         stage' \in {"down", "stream", "work"}, pos' \in 0..MaxLog, attempt' \in 1..Attempts,
         stage' = "stream" => pos' <= cursor,
         stage' = "work" => pos' \in 1..(cursor + 1) /\ pos' <= Len(log),
         \/ replaySeq' = replaySeq /\ replayCount' = replayCount
         \/ replaySeq' = 0 /\ replayCount' = 0,
         faults' \in 0..MaxFaults
  PROVE  Control' /\ AnnouncedOnce'
  <1>1. ControlTypes'
    BY Numbers DEF ControlTypes
  <1>2. PlaceInv'
    BY DEF CInv, PlaceInv, Places
  <1>3. ReplayInv'
    BY DEF CInv, ReplayInv
  <1>4. ParkIsEarned' /\ AnnouncedOnce'
    BY DEF CInv, Promises, ParkIsEarned, AnnouncedOnce
  <1>5. QED
    BY <1>1, <1>2, <1>3, <1>4 DEF Control

LEMMA ProduceKeeps ==
  ASSUME CInv, Produce, Grown
  PROVE  Control' /\ AnnouncedOnce'
  <1>1. PICK e \in Event : e.of = 0 /\ log' = Append(log, e)
    BY ProducedAssumption DEF Produce
  <1>2. UNCHANGED <<cursor, parked, stage, pos, attempt, replaySeq, replayCount, runs, faults>>
    BY DEF Produce, tables, replay
  <1>3. /\ Len(log) \in Nat /\ Len(log') \in Nat /\ Len(log) <= Len(log')
        /\ \A n \in 1..Len(log) : log'[n] = log[n]
    BY GrownFacts DEF CInv
  <1>4. ControlTypes'
    BY <1>2, Numbers DEF ControlTypes
  <1>5. PlaceInv'
    BY <1>2, <1>3, Numbers DEF CInv, PlaceInv, ControlTypes
  <1>6. ReplayInv'
    <2>1. stage \in {"park", "advance"} => log'[pos] = log[pos]
      BY <1>3, Numbers DEF CInv, PlaceInv, Places, ControlTypes
    <2>2. QED
      BY <1>2, <2>1 DEF CInv, ReplayInv
  <1>7. ParkIsEarned'
    <2>1. \A n \in parked : log'[n] = log[n]
      BY <1>3 DEF CInv, PlaceInv
    <2>2. QED
      BY <1>2, <2>1 DEF CInv, Promises, ParkIsEarned
  <1>8. AnnouncedOnce'
    <2>1. \A i \in DOMAIN log' : (i \in DOMAIN log /\ log'[i] = log[i]) \/ log'[i].of = 0
      BY <1>1 DEF CInv, ConsumerTypeOK
    <2>2. QED
      BY <2>1 DEF CInv, Promises, AnnouncedOnce
  <1>9. QED
    BY <1>4, <1>5, <1>6, <1>7, <1>8 DEF Control

LEMMA ParkKeeps ==
  ASSUME CInv, Park, Grown
  PROVE  Control' /\ AnnouncedOnce'
  <1>1. /\ stage = "park" /\ stage' = "advance" /\ parked' = parked \cup {pos}
        /\ UNCHANGED <<cursor, pos, attempt, replaySeq, replayCount, runs, faults>>
    BY DEF Park, tables, replay
  <1>2. /\ Len(log) \in Nat /\ Len(log') \in Nat /\ Len(log) <= Len(log')
        /\ \A n \in 1..Len(log) : log'[n] = log[n]
    BY GrownFacts DEF CInv
  <1>3. pos \in 1..Len(log) /\ pos \in 1..(cursor + 1) /\ pos \in 1..MaxLog
    BY <1>1, Numbers DEF CInv, PlaceInv, Places
  <1>4. ControlTypes'
    BY <1>1, <1>3, Numbers DEF ControlTypes
  <1>5. PlaceInv'
    BY <1>1, <1>2, <1>3, Numbers DEF CInv, PlaceInv, Places
  <1>6. ReplayInv'
    BY <1>1, <1>2, <1>3 DEF CInv, ReplayInv
  <1>7. ParkIsEarned'
    <2>1. \A n \in parked' : log'[n] = log[n]
      BY <1>1, <1>2, <1>3 DEF CInv, PlaceInv
    <2>2. QED
      BY <1>1, <2>1 DEF CInv, Promises, ParkIsEarned, ReplayInv
  <1>8. AnnouncedOnce'
    <2>1. CASE log' = log
      BY <2>1 DEF CInv, Promises, AnnouncedOnce
    <2>2. CASE /\ pos \notin Announced
               /\ log' = Append(log, [kind |-> "other", key |-> NoKey, flaw |-> "none", of |-> pos])
      <3>1. \A i \in DOMAIN log : log[i].of # pos
        BY <1>3, <2>2 DEF Announced
      <3>2. \A i \in DOMAIN log' : \/ i \in DOMAIN log /\ log'[i] = log[i]
                                   \/ i = Len(log) + 1 /\ log'[i].of = pos
        BY <2>2 DEF CInv, ConsumerTypeOK
      <3>3. QED
        BY <3>1, <3>2 DEF CInv, Promises, AnnouncedOnce
    <2>3. QED
      BY <2>1, <2>2 DEF Park, AppendParked
  <1>9. QED
    BY <1>4, <1>5, <1>6, <1>7, <1>8 DEF Control

LEMMA ParkAdvanceKeeps ==
  ASSUME CInv, ParkAdvance
  PROVE  Control' /\ AnnouncedOnce' /\ Calm /\ cursor' <= Len(log)
  <1>1. /\ stage = "advance" /\ stage' \in {"stream", "down"}
        /\ UNCHANGED <<log, snapshots, windows, samples, parked, pos, attempt, runs>>
        /\ AdvanceTo(pos) \/ cursor' = cursor
        /\ stage' = "stream" => AdvanceTo(pos)
        /\ \/ replaySeq' = replaySeq /\ replayCount' = replayCount
           \/ replaySeq' = 0 /\ replayCount' = 0
        /\ faults' = faults \/ Fault
    BY DEF ParkAdvance, ledger, replay
  <1>2. pos \in 1..(cursor + 1) /\ pos <= Len(log) /\ pos \in parked /\ pos \in 0..MaxLog
    BY <1>1, Numbers DEF CInv, PlaceInv, Places, ControlTypes
  <1>3. /\ cursor' = cursor \/ (cursor' = cursor + 1 /\ cursor' = pos)
        /\ stage' = "stream" => pos <= cursor'
        /\ cursor' \in cursor..Len(log)
    BY <1>1, <1>2, Numbers DEF AdvanceTo
  <1>4. Calm
    BY <1>1, <1>2, <1>3 DEF Calm
  <1>5. ControlTypes'
    BY <1>1, Numbers, FaultCounts DEF ControlTypes
  <1>6. PlaceInv'
    BY <1>1, <1>3, Numbers DEF CInv, PlaceInv, Places
  <1>7. ReplayInv' /\ ParkIsEarned' /\ AnnouncedOnce'
    BY <1>1 DEF CInv, Promises, ReplayInv, ParkIsEarned, AnnouncedOnce
  <1>8. QED
    BY <1>3, <1>4, <1>5, <1>6, <1>7, Numbers DEF Control

\* The steps that read and wait.
LEMMA MovesKeep ==
  ASSUME CInv, Connect \/ Receive \/ CutStream \/ RestartConsumer
  PROVE  Control' /\ AnnouncedOnce' /\ Calm /\ cursor' = cursor
  <1>1. UNCHANGED <<log, cursor, parked, runs, snapshots, windows, samples>>
    BY DEF Connect, Receive, CutStream, RestartConsumer, ledger, tables
  <1>2. Calm
    BY <1>1 DEF Calm
  <1>3. \/ replaySeq' = replaySeq /\ replayCount' = replayCount
        \/ replaySeq' = 0 /\ replayCount' = 0
    BY DEF Connect, Receive, CutStream, RestartConsumer, replay
  <1>4. faults' \in 0..MaxFaults
    BY Numbers, FaultCounts DEF Connect, Receive, CutStream, RestartConsumer, ControlTypes
  <1>5. CASE Connect
    <2>1. stage' = "stream" /\ pos' \in 0..MaxLog /\ pos' <= cursor /\ attempt' \in 1..Attempts
      BY <1>5, Numbers DEF Connect, ControlTypes
    <2>2. QED
      BY <1>1, <1>2, <1>3, <1>4, <2>1, MoveKeeps
  <1>6. CASE Receive
    <2>1. /\ stage' = "work" /\ pos' \in 0..MaxLog /\ pos' \in 1..(cursor + 1) /\ pos' <= Len(log)
          /\ attempt' \in 1..Attempts
      <3>1. /\ stage = "stream" /\ pos < Len(log)
            /\ pos' = pos + 1 /\ attempt' = 1 /\ stage' = "work"
        BY <1>6 DEF Receive
      <3>2. pos <= cursor /\ pos \in 0..MaxLog /\ cursor \in 0..Len(log)
        BY <3>1, Numbers DEF ControlTypes, CInv, PlaceInv
      <3>3. MaxLog \in Nat /\ Len(log) \in Nat /\ Len(log) <= MaxLog /\ Attempts \in Nat \ {0}
        BY Numbers
      <3>4. QED
        BY <3>1, <3>2, <3>3
    <2>2. QED
      BY <1>1, <1>2, <1>3, <1>4, <2>1, MoveKeeps
  <1>7. CASE CutStream \/ RestartConsumer
    <2>1. stage' = "down" /\ pos' \in 0..MaxLog /\ attempt' \in 1..Attempts
      BY <1>7, Numbers DEF CutStream, RestartConsumer, ControlTypes
    <2>2. QED
      BY <1>1, <1>2, <1>3, <1>4, <2>1, MoveKeeps
  <1>8. QED
    BY <1>5, <1>6, <1>7

LEMMA ProbeKeeps ==
  ASSUME CInv, Probe
  PROVE  Control' /\ AnnouncedOnce' /\ Calm /\ cursor' = cursor
  <1>1. /\ stage = "probe" /\ stage' \in {"park", "down"}
        /\ UNCHANGED <<log, cursor, parked, runs, snapshots, windows, samples>>
        /\ UNCHANGED <<pos, attempt, replaySeq, replayCount>>
        /\ faults' = faults \/ Fault
    BY DEF Probe, ledger, tables, replay
  <1>2. ControlTypes'
    BY <1>1, Numbers, FaultCounts DEF ControlTypes
  <1>3. PlaceInv' /\ ReplayInv' /\ ParkIsEarned' /\ AnnouncedOnce'
    BY <1>1 DEF CInv, Promises, PlaceInv, Places, ReplayInv, ParkIsEarned, AnnouncedOnce
  <1>4. QED
    BY <1>1, <1>2, <1>3 DEF Control, Calm

-----------------------------------------------------------------------------
(* Together. *)

LEMMA AllKept ==
  ASSUME CInv, Grown, Control', AnnouncedOnce', Tables'
  PROVE  CInv'
  BY GrownFacts DEF CInv, ConsumerTypeOK, Control, ControlTypes, Tables, Promises

LEMMA InitConsumer == ConsumerInit => CInv
  <1>1. SUFFICES ASSUME ConsumerInit
                 PROVE  CInv
    OBVIOUS
  <1>2. ConsumerTypeOK
    BY <1>1, ConsumerAssumption DEF ConsumerAssumption, ConsumerInit, ConsumerTypeOK
  <1>3. PlaceInv /\ RowInv /\ ReplayInv
    BY <1>1 DEF ConsumerInit, PlaceInv, Places, RowInv, ReplayInv
  <1>4. Promises
    BY <1>1 DEF ConsumerInit, Promises, NothingSkipped, WindowsInOrder, AttributedOnce, ParkIsEarned,
                AnnouncedOnce
  <1>5. QED
    BY <1>2, <1>3, <1>4 DEF CInv

\* What a step does to the cursor, besides keeping the invariant.
Passes == cursor' = cursor \/ (cursor' = cursor + 1 /\ cursor' <= Len(log) /\ log' = log)

LEMMA StepKeeps ==
  ASSUME CInv, ConsumerNext
  PROVE  CInv' /\ Passes
  <1>1. Grown
    BY NextGrows DEF CInv
  <1>2. cursor <= Len(log) /\ cursor \in Nat /\ Len(log) \in Nat
    BY Numbers
  <1>3. CASE Produce
    <2>1. Calm /\ cursor' = cursor
      BY <1>3 DEF Produce, tables, Calm
    <2>2. QED
      BY <1>1, <1>2, <1>3, <2>1, ProduceKeeps, CalmKeeps, AllKept DEF Passes
  <1>4. CASE Park
    <2>1. Calm /\ cursor' = cursor
      BY <1>4 DEF Park, tables, Calm
    <2>2. QED
      BY <1>1, <1>2, <1>4, <2>1, ParkKeeps, CalmKeeps, AllKept DEF Passes
  <1>5. CASE ParkAdvance
    <2>1. log' = log /\ (cursor' = cursor \/ cursor' = cursor + 1)
      BY <1>5, ParkAdvanceKeeps DEF ParkAdvance, ledger, Calm
    <2>2. QED
      BY <1>1, <1>5, <2>1, ParkAdvanceKeeps, CalmKeeps, AllKept DEF Passes
  <1>6. CASE Connect \/ Receive \/ CutStream \/ RestartConsumer
    BY <1>1, <1>2, <1>6, MovesKeep, CalmKeeps, AllKept DEF Passes
  <1>7. CASE Probe
    BY <1>1, <1>2, <1>7, ProbeKeeps, CalmKeeps, AllKept DEF Passes
  <1>8. CASE AlreadyDone
    <2>1. /\ stage = "work" /\ pos <= cursor /\ Succeed /\ cursor' = cursor /\ faults' = faults
          /\ UNCHANGED <<snapshots, windows, samples, parked>>
      BY <1>8 DEF AlreadyDone, Succeed, tables
    <2>2. Control' /\ AnnouncedOnce'
      BY <1>2, <2>1, SucceedKeeps
    <2>3. Calm
      BY <2>1 DEF Calm
    <2>4. QED
      BY <1>1, <1>2, <2>1, <2>2, <2>3, CalmKeeps, AllKept DEF Passes
  <1>9. CASE Rejected \/ Unavailable
    <2>1. PICK error \in {"none", "poison", "stuck", "transient"} :
            /\ stage = "work" /\ Fail(error)
            /\ error = "poison" => log[pos].flaw = "poison"
      <3>1. CASE Unavailable
        BY <3>1 DEF Unavailable
      <3>2. CASE Rejected
        <4>1. pos \in 1..Len(log) /\ log[pos] \in Event
          BY <3>2, Numbers DEF Rejected, CInv, ConsumerTypeOK, PlaceInv, Places
        <4>2. log[pos].flaw \in {"none", "poison", "stuck"}
          BY <4>1 DEF Event
        <4>3. QED
          BY <3>2, <4>2 DEF Rejected
      <3>3. QED
        BY <1>9, <3>1, <3>2
    <2>2. UNCHANGED <<cursor, snapshots, windows, samples>> /\ faults' \in 0..MaxFaults
      BY <1>9, Numbers, FaultCounts DEF Rejected, Unavailable, tables, ControlTypes
    <2>3. Control' /\ AnnouncedOnce'
      BY <1>2, <2>1, <2>2, FailKeeps
    <2>4. Calm
      BY <2>1, <2>2 DEF Calm, Fail
    <2>5. QED
      BY <1>1, <1>2, <2>2, <2>3, <2>4, CalmKeeps, AllKept DEF Passes
  <1>10. CASE Apply
    <2>1. /\ stage = "work" /\ Process(pos) /\ Succeed
          /\ log' = log /\ parked' = parked /\ faults' = faults
      BY <1>10 DEF Apply, Succeed, ledger
    <2>2. pos \in 1..(cursor + 1) /\ pos <= Len(log)
      BY <2>1 DEF CInv, PlaceInv, Places
    <2>3. Tables' /\ cursor' = pos /\ pos = cursor + 1
      BY <2>1, <2>2, ProcessKeeps
    <2>4. Control' /\ AnnouncedOnce'
      BY <1>2, <2>1, <2>2, <2>3, SucceedKeeps
    <2>5. QED
      BY <1>1, <2>1, <2>2, <2>3, <2>4, AllKept DEF Passes
  <1>11. CASE ApplyUnseen
    <2>1. /\ stage = "work" /\ Process(pos) /\ Fail("transient")
          /\ log' = log /\ parked' = parked /\ faults' \in 0..MaxFaults
      BY <1>11, FaultCounts DEF ApplyUnseen, Fail, ledger
    <2>2. pos \in 1..(cursor + 1) /\ pos <= Len(log)
      BY <2>1 DEF CInv, PlaceInv, Places
    <2>3. Tables' /\ cursor' = pos /\ pos = cursor + 1
      BY <2>1, <2>2, ProcessKeeps
    <2>4. Control' /\ AnnouncedOnce'
      BY <1>2, <2>1, <2>2, <2>3, FailKeeps
    <2>5. QED
      BY <1>1, <2>1, <2>2, <2>3, <2>4, AllKept DEF Passes
  <1>12. QED
    BY <1>3, <1>4, <1>5, <1>6, <1>7, <1>8, <1>9, <1>10, <1>11 DEF ConsumerNext, Step

LEMMA NextConsumer == CInv /\ [ConsumerNext]_consumerVars => CInv'
  <1>1. SUFFICES ASSUME CInv, [ConsumerNext]_consumerVars
                 PROVE  CInv'
    OBVIOUS
  <1>2. CASE ConsumerNext
    BY <1>1, <1>2, StepKeeps
  <1>3. CASE UNCHANGED consumerVars
    BY <1>1, <1>3 DEF consumerVars, CInv, ConsumerTypeOK, PlaceInv, Places, RowInv, ReplayInv, Promises,
         NothingSkipped, Spans, WindowsInOrder, AttributedOnce, ParkIsEarned, AnnouncedOnce
  <1>4. QED
    BY <1>1, <1>2, <1>3

\* The invariant holds of every behaviour.
THEOREM ConsumerInductive == ConsumerSpec => []CInv
  <1>1. QED
    BY InitConsumer, NextConsumer, PTL DEF ConsumerSpec

\* Every variable has its type.
THEOREM ConsumerTypeCorrect == ConsumerSpec => []ConsumerTypeOK
  <1>1. CInv => ConsumerTypeOK
    BY DEF CInv
  <1>2. QED
    BY <1>1, ConsumerInductive, PTL

\* No event at or below the cursor is lost: what is not parked is in the
\* tables, whatever is retried, redelivered, cut or restarted.
THEOREM NoEventSkipped == ConsumerSpec => []NothingSkipped
  <1>1. CInv => NothingSkipped
    BY DEF CInv, Promises
  <1>2. QED
    BY <1>1, ConsumerInductive, PTL

\* The windows of an identity follow each other, and a close is attributed
\* once, whatever is redelivered, retried or restarted.
THEOREM PositionsFollow == ConsumerSpec => []PositionsInOrder
  <1>1. CInv => PositionsInOrder
    BY DEF CInv, Promises, PositionsInOrder
  <1>2. QED
    BY <1>1, ConsumerInductive, PTL

\* Only a poisoned event, or one that exhausted its own replays, is parked,
\* and it is announced once.
THEOREM ParkedForItself == ConsumerSpec => []ParksAreEarned
  <1>1. CInv => ParksAreEarned
    BY DEF CInv, Promises, ParksAreEarned
  <1>2. QED
    BY <1>1, ConsumerInductive, PTL

-----------------------------------------------------------------------------
(* The consumer as one of the ledger's: its cursor takes the events one by  *)
(* one.                                                                     *)

LEMMA UptoGrows ==
  ASSUME NEW n \in Nat
  PROVE  /\ Upto(n) \in Seq(Nat) /\ DOMAIN Upto(n) = 1..n
         /\ Append(Upto(n), n + 1) = Upto(n + 1)
  <1>1. Upto(n) \in Seq(Nat) /\ Len(Upto(n)) = n /\ DOMAIN Upto(n) = 1..n
    BY DEF Upto
  <1>2. /\ DOMAIN Append(Upto(n), n + 1) = 1..(n + 1)
        /\ \A i \in 1..(n + 1) : Append(Upto(n), n + 1)[i] = i
    BY <1>1 DEF Upto
  <1>3. Append(Upto(n), n + 1) = [i \in 1..(n + 1) |-> i]
    BY <1>1, <1>2
  <1>4. QED
    BY <1>1, <1>3 DEF Upto

LEMMA PublishStep ==
  ASSUME CInv, Len(log) < MaxLog, Len(log') = Len(log) + 1, cursor' = cursor
  PROVE  Feed!Publish(Len(log) + 1)
  <1>1. Len(log) \in Nat
    BY Numbers
  <1>2. /\ DOMAIN Upto(Len(log)) = 1..Len(log)
        /\ Append(Upto(Len(log)), Len(log) + 1) = Upto(Len(log'))
    BY <1>1, UptoGrows
  <1>3. \A i \in 1..Len(log) : Upto(Len(log))[i] # Len(log) + 1
    BY <1>1 DEF Upto
  <1>4. Len(log) + 1 \notin Feed!Logged
    BY <1>2, <1>3 DEF Feed!Logged
  <1>5. Feed!Skip
    BY DEF Feed!Skip
  <1>6. QED
    BY <1>2, <1>4, <1>5 DEF Feed!Publish

LEMMA DeliverStep ==
  ASSUME CInv, log' = log, cursor' = cursor + 1, cursor' <= Len(log)
  PROVE  Feed!DeliverNext("pnl_pattern")
  <1>. DEFINE D == [c \in {"pnl_pattern"} |-> Upto(cursor)]
  <1>1. cursor \in Nat /\ Len(log) \in Nat /\ Len(log) <= MaxLog /\ MaxLog \in Nat
    BY Numbers
  <1>2. DOMAIN Upto(cursor) = 1..cursor /\ Append(Upto(cursor), cursor + 1) = Upto(cursor')
    BY <1>1, UptoGrows
  <1>3. Feed!Seen("pnl_pattern") = 1..cursor
    <2>1. Feed!Seen("pnl_pattern") = {Upto(cursor)[i] : i \in 1..cursor}
      BY <1>2 DEF Feed!Seen
    <2>2. \A i \in 1..cursor : Upto(cursor)[i] = i
      BY DEF Upto
    <2>3. QED
      BY <2>1, <2>2
  <1>4. /\ cursor + 1 \in DOMAIN Upto(Len(log)) /\ Upto(Len(log))[cursor + 1] = cursor + 1
        /\ \A j \in 1..((cursor + 1) - 1) : Upto(Len(log))[j] = j /\ j \in 1..cursor
    BY <1>1 DEF Upto
  <1>5. cursor + 1 \in (1..MaxLog) \ (1..cursor)
    BY <1>1
  <1>6. [c \in {"pnl_pattern"} |-> Upto(cursor')] =
          [D EXCEPT !["pnl_pattern"] = Append(@, cursor + 1)]
    BY <1>2
  <1>7. Upto(Len(log')) = Upto(Len(log))
    OBVIOUS
  <1>8. QED
    BY <1>3, <1>4, <1>5, <1>6, <1>7 DEF Feed!DeliverNext, Feed!Hand

LEMMA FeedStep ==
  ASSUME CInv, [ConsumerNext]_consumerVars
  PROVE  [Feed!Next]_(Feed!vars)
  <1>1. CASE UNCHANGED consumerVars
    BY <1>1 DEF consumerVars, Feed!vars
  <1>2. CASE ConsumerNext
    <2>1. Grown /\ Passes
      BY <1>2, NextGrows, StepKeeps DEF CInv
    <2>2. CASE log' = log /\ cursor' = cursor
      BY <2>2 DEF Feed!vars
    <2>3. CASE log' # log
      <3>1. /\ Len(log) < MaxLog
            /\ \E e \in Event : log' = Append(log, e)
            /\ cursor' = cursor
        BY <2>1, <2>3 DEF Grown, Passes
      <3>2. Len(log') = Len(log) + 1 /\ Len(log) + 1 \in 1..MaxLog
        BY <3>1, Numbers DEF CInv, ConsumerTypeOK
      <3>3. Feed!Publish(Len(log) + 1)
        BY <3>1, <3>2, PublishStep
      <3>4. QED
        BY <3>2, <3>3 DEF Feed!Next
    <2>4. CASE log' = log /\ cursor' # cursor
      <3>1. Feed!DeliverNext("pnl_pattern")
        BY <2>1, <2>4, DeliverStep DEF Passes
      <3>2. QED
        BY <3>1 DEF Feed!Next
    <2>5. QED
      BY <2>2, <2>3, <2>4
  <1>3. QED
    BY <1>1, <1>2

\* The consumer implements the safety part of EventFeed.
THEOREM ConsumerIsFeed == ConsumerSpec => FeedSteps
  <1>1. ConsumerInit => Feed!Init
    <2>1. ConsumerInit => Upto(Len(log)) = <<>> /\ Upto(cursor) = <<>>
      <3>1. Upto(0) = <<>>
        BY DEF Upto
      <3>2. QED
        BY <3>1 DEF ConsumerInit
    <2>2. QED
      BY <2>1 DEF Feed!Init
  <1>2. CInv /\ [ConsumerNext]_consumerVars => [Feed!Next]_(Feed!vars)
    BY FeedStep
  <1>3. QED
    BY <1>1, <1>2, ConsumerInductive, PTL DEF ConsumerSpec, FeedSteps
===============================================================================
