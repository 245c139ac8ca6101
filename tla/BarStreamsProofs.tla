-------------------------- MODULE BarStreamsProofs --------------------------
(***************************************************************************)
(* Proofs about BarStreams for every set of calls and symbols, and every   *)
(* number of session loops and bars.                                       *)
(***************************************************************************)
EXTENDS BarStreams, TLAPS

Places == {"none", "check", "dialling", "connected", "subscribing", "head",
           "reading", "waiting", "giving up", "stopping", "dead"}

\* A loop that was not started is nowhere.
LoopInv ==
  /\ loops \in 0..MaxLoops /\ running \in BOOLEAN
  /\ at \in [Loops -> Places]
  /\ \A l \in Loops : l > loops => at[l] = "none"
  /\ OneLoop

\* The manager's bookkeeping of the feeds.
FeedInv ==
  /\ call \in [BarCalls -> {"idle", "asked", "subscribed", "unsubscribed"}]
  /\ ended \subseteq BarCalls
  /\ closes \in [BarCalls -> Nat]
  /\ ChannelClosedOnce

\* The bars and the sessions they came from.
BarInv ==
  /\ bars \in Seq(Symbols)
  /\ feed \in [BarCalls -> Seq(Nat)]
  /\ attempts \in [Loops -> Nat]
  /\ healthy \in [Loops -> BOOLEAN]
  /\ covered \in [Loops -> SUBSET Symbols]
  /\ FeedIsItsOwn

BarStreamsInv == LoopInv /\ FeedInv /\ BarInv

LEMMA InitStreams == StreamsInit => BarStreamsInv
  <1>1. SUFFICES ASSUME StreamsInit
                 PROVE  BarStreamsInv
    OBVIOUS
  <1>2. LoopInv
    <2>1. MaxLoops \in Nat
      BY StreamsAssumption DEF StreamsAssumption
    <2>2. at \in [Loops -> Places] /\ \A l \in Loops : at[l] = "none"
      BY <1>1 DEF StreamsInit, Places
    <2>3. Live = {}
      BY <2>2 DEF Live
    <2>4. loops = 0 /\ running = FALSE
      BY <1>1 DEF StreamsInit
    <2>5. loops \in 0..MaxLoops /\ running \in BOOLEAN
      <3>1. loops \in 0..MaxLoops
        BY <2>1, <2>4
      <3>2. running \in BOOLEAN
        BY <2>4, Zenon
      <3>3. QED
        BY <3>1, <3>2
    <2>6. OneLoop
      <3>1. ~ running /\ ~ (Live # {})
        BY <2>3, <2>4
      <3>2. \A k, l \in Live : k = l
        BY <2>3
      <3>3. QED
        BY <3>1, <3>2, Zenon DEF OneLoop
    <2>7. \A l \in Loops : l > loops => at[l] = "none"
      BY <2>2
    <2>8. QED
      BY <2>2, <2>5, <2>6, <2>7 DEF LoopInv
  <1>3. FeedInv
    BY <1>1 DEF StreamsInit, FeedInv, ChannelClosedOnce
  <1>4. BarInv
    BY <1>1 DEF StreamsInit, BarInv, FeedIsItsOwn
  <1>5. QED
    BY <1>2, <1>3, <1>4 DEF BarStreamsInv

-----------------------------------------------------------------------------
(* The session loops. *)

LEMMA LoopCalm ==
  ASSUME LoopInv, UNCHANGED <<running, loops, at>>
  PROVE  LoopInv'
  BY DEF LoopInv, OneLoop, Live, Places

\* A loop that is alive moves and stays alive.
LEMMA LoopMoves ==
  ASSUME LoopInv, NEW l \in Loops, at[l] \notin {"none", "dead"},
         NEW place \in Places \ {"none", "dead"}, LoopTo(l, place),
         UNCHANGED <<running, loops>>
  PROVE  LoopInv'
  <1>1. /\ at' = [at EXCEPT ![l] = place] /\ at \in [Loops -> Places]
        /\ at' \in [Loops -> Places]
    BY DEF LoopTo, LoopInv
  <1>2. Live' = Live
    BY <1>1 DEF Live
  <1>3. QED
    BY <1>1, <1>2 DEF LoopInv, OneLoop

\* The loop ends and says so.
LEMMA LoopEnds ==
  ASSUME LoopInv, NEW l \in Loops, at[l] \notin {"none", "dead"},
         LoopTo(l, "dead"), running' = FALSE, loops' = loops
  PROVE  LoopInv'
  <1>1. /\ at' = [at EXCEPT ![l] = "dead"] /\ at \in [Loops -> Places]
        /\ at' \in [Loops -> Places]
    BY DEF LoopTo, LoopInv, Places
  <1>2. l \in Live /\ \A k \in Live : k = l
    BY DEF LoopInv, OneLoop, Live
  <1>3. Live' = {}
    BY <1>1, <1>2 DEF Live
  <1>4. QED
    BY <1>1, <1>3 DEF LoopInv, OneLoop

LEMMA LoopStarts ==
  ASSUME LoopInv, NEW c \in BarCalls, Add(c)
  PROVE  LoopInv'
  <1>1. CASE running
    <2>1. running' = running /\ loops' = loops /\ at' = at
      BY <1>1 DEF Add, LoopInv
    <2>2. QED
      BY <2>1, LoopCalm
  <1>2. CASE ~running
    <2>1. /\ loops < MaxLoops /\ loops' = loops + 1 /\ running' = TRUE
          /\ at' = [at EXCEPT ![loops + 1] = "check"]
      BY <1>2 DEF Add
    <2>2. loops \in Nat /\ MaxLoops \in Nat /\ loops + 1 \in Loops /\ loops' \in 0..MaxLoops
      BY <2>1, StreamsAssumption DEF StreamsAssumption, LoopInv, Loops
    <2>3. at' \in [Loops -> Places] /\ \A l \in Loops : l # loops + 1 => at'[l] = at[l]
      BY <2>1, <2>2 DEF LoopInv, Places
    <2>4. at'[loops + 1] = "check"
      BY <2>1, <2>2 DEF LoopInv
    <2>5. Live = {}
      BY <1>2 DEF LoopInv, OneLoop
    <2>6. Live' = {loops + 1}
      BY <2>2, <2>3, <2>4, <2>5 DEF Live
    <2>7. \A l \in Loops : l > loops' => at'[l] = "none"
      BY <2>1, <2>2, <2>3 DEF LoopInv, Loops
    <2>8. QED
      BY <2>1, <2>2, <2>3, <2>6, <2>7 DEF LoopInv, OneLoop
  <1>3. QED
    BY <1>1, <1>2

LEMMA LoopsKeep ==
  ASSUME LoopInv, NEW l \in Loops, LoopStep(l)
  PROVE  LoopInv'
  <1>1. CASE NobodyLeft(l)
    BY <1>1, LoopMoves DEF NobodyLeft, Places
  <1>2. CASE SomebodyThere(l)
    BY <1>2, LoopMoves DEF SomebodyThere, Places
  <1>3. CASE Stop(l) \/ GiveUp(l)
    BY <1>3, LoopEnds DEF Stop, GiveUp
  <1>4. CASE Dial(l)
    BY <1>4, LoopMoves DEF Dial, Places
  <1>5. CASE Union(l) \/ WriteSubscribe(l)
    BY <1>5, LoopMoves DEF Union, WriteSubscribe, Places
  <1>6. CASE Drop(l)
    <2>1. PICK place \in {"giving up", "waiting"} : LoopTo(l, place)
      BY <1>6 DEF Drop
    <2>2. QED
      BY <1>6, <2>1, LoopMoves DEF Drop, Places
  <1>7. CASE Retry(l)
    BY <1>7, LoopMoves DEF Retry, Places
  <1>8. CASE ReadControl(l) \/ ReadBar(l)
    BY <1>8, LoopMoves DEF ReadControl, ReadBar, Places
  <1>9. QED
    BY <1>1, <1>2, <1>3, <1>4, <1>5, <1>6, <1>7, <1>8 DEF LoopStep

-----------------------------------------------------------------------------
(* The channels of the feeds. *)

LEMMA FeedCalm ==
  ASSUME FeedInv, UNCHANGED callVars
  PROVE  FeedInv'
  BY DEF FeedInv, ChannelClosedOnce, callVars

\* Feeds that are subscribed are closed and removed together.
LEMMA CloseKeeps ==
  ASSUME FeedInv, NEW S \in SUBSET Subscribed, CloseFeeds(S), ended' = ended
  PROVE  FeedInv'
  <1>1. /\ call' \in [BarCalls -> {"idle", "asked", "subscribed", "unsubscribed"}]
        /\ closes' \in [BarCalls -> Nat]
    BY DEF CloseFeeds, FeedInv
  <1>2. ChannelClosedOnce'
    <2>1. ASSUME NEW c \in BarCalls
          PROVE  closes'[c] = IF call'[c] = "unsubscribed" THEN 1 ELSE 0
      <3>1. closes[c] = IF call[c] = "unsubscribed" THEN 1 ELSE 0
        BY DEF FeedInv, ChannelClosedOnce
      <3>2. CASE c \in S
        <4>1. call[c] = "subscribed" /\ call'[c] = "unsubscribed" /\ closes'[c] = closes[c] + 1
          BY <3>2 DEF CloseFeeds, Subscribed
        <4>2. QED
          BY <3>1, <4>1
      <3>3. CASE c \notin S
        BY <3>1, <3>3 DEF CloseFeeds
      <3>4. QED
        BY <3>2, <3>3
    <2>2. QED
      BY <2>1 DEF ChannelClosedOnce
  <1>3. QED
    BY <1>1, <1>2 DEF FeedInv

LEMMA CallsKeep ==
  ASSUME FeedInv, NEW c \in BarCalls, Ask(c) \/ End(c) \/ Add(c) \/ Remove(c) \/ Forward(c)
  PROVE  FeedInv'
  <1>1. CASE Ask(c) \/ Add(c)
    BY <1>1 DEF Ask, Add, FeedInv, ChannelClosedOnce
  <1>2. CASE End(c)
    BY <1>2 DEF End, FeedInv, ChannelClosedOnce
  <1>3. CASE Remove(c)
    <2>1. {c} \in SUBSET Subscribed
      BY <1>3 DEF Remove, Subscribed
    <2>2. QED
      BY <1>3, <2>1, CloseKeeps DEF Remove
  <1>4. CASE Forward(c)
    BY <1>4, FeedCalm DEF Forward
  <1>5. QED
    BY <1>1, <1>2, <1>3, <1>4

LEMMA SessionsKeepCalls ==
  ASSUME FeedInv, NEW l \in Loops, LoopStep(l)
  PROVE  FeedInv'
  <1>1. CASE GiveUp(l)
    BY <1>1, CloseKeeps DEF GiveUp
  <1>2. CASE UNCHANGED callVars
    BY <1>2, FeedCalm
  <1>3. QED
    BY <1>1, <1>2 DEF LoopStep, NobodyLeft, SomebodyThere, Stop, Dial, Union, WriteSubscribe,
                      Drop, Retry, ReadControl, ReadBar

-----------------------------------------------------------------------------
(* The bars. *)

LEMMA BarCalm ==
  ASSUME BarInv, UNCHANGED sent, UNCHANGED session
  PROVE  BarInv'
  BY DEF BarInv, FeedIsItsOwn, sent, session

LEMMA ForwardKeeps ==
  ASSUME BarInv, NEW c \in BarCalls, Forward(c)
  PROVE  BarInv'
  <1>1. /\ feed[c] # <<>> /\ feed[c] \in Seq(Nat)
        /\ feed' = [feed EXCEPT ![c] = Tail(@)] /\ feed \in [BarCalls -> Seq(Nat)]
        /\ UNCHANGED <<bars, attempts, healthy, covered>>
    BY DEF Forward, BarInv, session
  <1>2. Head(feed[c]) \in Nat /\ Tail(feed[c]) \in Seq(Nat)
    BY <1>1
  <1>3. feed' \in [BarCalls -> Seq(Nat)] /\ feed'[c] = Tail(feed[c])
    BY <1>1, <1>2
  <1>4. /\ Len(feed[c]) \in Nat /\ DOMAIN feed[c] = 1..Len(feed[c])
        /\ DOMAIN Tail(feed[c]) = 1..(Len(feed[c]) - 1)
        /\ \A i \in DOMAIN Tail(feed[c]) : Tail(feed[c])[i] = feed[c][i + 1]
    BY <1>1
  <1>5. FeedIsItsOwn'
    <2>1. ASSUME NEW d \in BarCalls, NEW i \in DOMAIN feed'[d]
          PROVE  /\ feed'[d][i] \in DOMAIN bars /\ bars[feed'[d][i]] \in Wants[d]
                 /\ \A j \in DOMAIN feed'[d] : i < j => feed'[d][i] < feed'[d][j]
      <3>1. CASE d = c
        <4>1. \A k \in DOMAIN feed'[d] : feed'[d][k] = feed[d][k + 1] /\ k + 1 \in DOMAIN feed[d]
          <5>1. feed'[d] = Tail(feed[d]) /\ DOMAIN feed'[d] = 1..(Len(feed[d]) - 1)
            BY <1>3, <1>4, <3>1
          <5>2. ASSUME NEW k \in 1..(Len(feed[d]) - 1)
                PROVE  k + 1 \in DOMAIN feed[d] /\ Tail(feed[d])[k] = feed[d][k + 1]
            BY <1>4, <3>1
          <5>3. QED
            BY <5>1, <5>2
        <4>2. i \in Nat /\ \A j \in DOMAIN feed'[d] : j \in Nat /\ (i < j => i + 1 < j + 1)
          BY <1>3, <1>4, <3>1
        <4>3. /\ feed[d][i + 1] \in DOMAIN bars /\ bars[feed[d][i + 1]] \in Wants[d]
              /\ \A j \in DOMAIN feed[d] : i + 1 < j => feed[d][i + 1] < feed[d][j]
          BY <4>1, <2>1 DEF BarInv, FeedIsItsOwn
        <4>4. ASSUME NEW j \in DOMAIN feed'[d], i < j
              PROVE  feed'[d][i] < feed'[d][j]
          <5>1. i + 1 < j + 1 /\ j + 1 \in DOMAIN feed[d]
            BY <4>1, <4>2, <4>4
          <5>2. feed[d][i + 1] < feed[d][j + 1]
            BY <4>3, <5>1
          <5>3. QED
            BY <2>1, <4>1, <5>2
        <4>5. feed'[d][i] = feed[d][i + 1]
          BY <2>1, <4>1
        <4>6. QED
          BY <4>3, <4>4, <4>5
      <3>2. CASE d # c
        <4>1. feed'[d] = feed[d]
          BY <1>1, <3>2
        <4>2. QED
          BY <2>1, <4>1 DEF BarInv, FeedIsItsOwn
      <3>3. QED
        BY <3>1, <3>2
    <2>2. QED
      BY <1>1, <2>1 DEF FeedIsItsOwn
  <1>6. QED
    BY <1>1, <1>3, <1>5 DEF BarInv

LEMMA ReadBarKeeps ==
  ASSUME BarInv, NEW l \in Loops, ReadBar(l)
  PROVE  BarInv'
  <1>1. PICK s \in covered[l], full \in SUBSET BarCalls :
          bars' = Append(bars, s) /\ Fanout(s, full)
    BY DEF ReadBar
  <1>. DEFINE n == Len(bars) + 1
  <1>2. /\ s \in Symbols /\ bars \in Seq(Symbols) /\ Len(bars) \in Nat /\ n \in Nat
        /\ DOMAIN bars = 1..Len(bars)
        /\ feed \in [BarCalls -> Seq(Nat)]
        /\ UNCHANGED <<attempts, healthy, covered>>
    BY <1>1 DEF ReadBar, BarInv, session
  <1>3. /\ bars' \in Seq(Symbols) /\ DOMAIN bars' = 1..n
        /\ \A i \in DOMAIN bars : i \in DOMAIN bars' /\ bars'[i] = bars[i]
        /\ bars'[n] = s
    BY <1>1, <1>2
  <1>. HIDE DEF n
  <1>4. \A c \in BarCalls : \/ feed'[c] = feed[c]
                            \/ feed'[c] = Append(feed[c], n) /\ s \in Wants[c]
    BY <1>1 DEF Fanout, n
  <1>5. feed' \in [BarCalls -> Seq(Nat)]
    BY <1>1, <1>2 DEF Fanout
  <1>6. FeedIsItsOwn'
    <2>1. ASSUME NEW c \in BarCalls, NEW i \in DOMAIN feed'[c]
          PROVE  /\ feed'[c][i] \in DOMAIN bars' /\ bars'[feed'[c][i]] \in Wants[c]
                 /\ \A j \in DOMAIN feed'[c] : i < j => feed'[c][i] < feed'[c][j]
      <3>1. \A j \in DOMAIN feed[c] :
              /\ feed[c][j] \in DOMAIN bars /\ bars[feed[c][j]] \in Wants[c]
              /\ \A k \in DOMAIN feed[c] : j < k => feed[c][j] < feed[c][k]
        BY DEF BarInv, FeedIsItsOwn
      <3>2. CASE feed'[c] = feed[c]
        BY <1>3, <2>1, <3>1, <3>2
      <3>3. CASE feed'[c] = Append(feed[c], n) /\ s \in Wants[c]
        <4>1. /\ Len(feed[c]) \in Nat /\ DOMAIN feed[c] = 1..Len(feed[c])
              /\ DOMAIN feed'[c] = 1..(Len(feed[c]) + 1)
              /\ \A j \in DOMAIN feed[c] : feed'[c][j] = feed[c][j]
              /\ feed'[c][Len(feed[c]) + 1] = n
          BY <1>2, <3>3
        <4>2. \A j \in DOMAIN feed[c] : feed[c][j] \in 1..Len(bars) /\ feed[c][j] < n
          BY <1>2, <3>1 DEF n
        <4>3. CASE i \in DOMAIN feed[c]
          <5>1. feed'[c][i] \in DOMAIN bars' /\ bars'[feed'[c][i]] \in Wants[c]
            BY <1>3, <3>1, <4>1, <4>3
          <5>2. ASSUME NEW j \in DOMAIN feed'[c], i < j
                PROVE  feed'[c][i] < feed'[c][j]
            <6>1. CASE j \in DOMAIN feed[c]
              BY <3>1, <4>1, <4>3, <5>2, <6>1
            <6>2. CASE j \notin DOMAIN feed[c]
              <7>1. j = Len(feed[c]) + 1
                BY <4>1, <6>2
              <7>2. QED
                BY <4>1, <4>2, <4>3, <7>1
            <6>3. QED
              BY <6>1, <6>2
          <5>3. QED
            BY <5>1, <5>2
        <4>4. CASE i \notin DOMAIN feed[c]
          <5>1. i = Len(feed[c]) + 1 /\ feed'[c][i] = n
            BY <4>1, <4>4
          <5>2. n \in DOMAIN bars' /\ bars'[n] \in Wants[c]
            BY <1>2, <1>3, <3>3 DEF n
          <5>3. \A j \in DOMAIN feed'[c] : ~ (i < j)
            BY <4>1, <5>1
          <5>4. QED
            BY <5>1, <5>2, <5>3
        <4>5. QED
          BY <4>3, <4>4
      <3>4. QED
        BY <1>4, <3>2, <3>3
    <2>2. QED
      BY <2>1 DEF FeedIsItsOwn
  <1>7. QED
    BY <1>2, <1>3, <1>5, <1>6 DEF BarInv

LEMMA SessionsKeepBars ==
  ASSUME BarInv, FeedInv, NEW l \in Loops, LoopStep(l)
  PROVE  BarInv'
  <1>1. CASE ReadBar(l)
    BY <1>1, ReadBarKeeps
  <1>2. CASE Dial(l) \/ ReadControl(l)
    BY <1>2 DEF Dial, ReadControl, BarInv, FeedIsItsOwn, sent
  <1>3. CASE Union(l)
    <2>1. UNION {Wants[c] : c \in Subscribed} \subseteq Symbols
      BY StreamsAssumption DEF StreamsAssumption, Subscribed
    <2>2. covered' \in [Loops -> SUBSET Symbols]
      BY <1>3, <2>1 DEF Union, BarInv
    <2>3. QED
      BY <1>3, <2>2 DEF Union, BarInv, FeedIsItsOwn, sent
  <1>4. CASE Drop(l)
    <2>1. /\ UNCHANGED sent /\ UNCHANGED <<healthy, covered>>
          /\ \E failures \in Nat : attempts' = [attempts EXCEPT ![l] = failures]
      <3>1. attempts[l] + 1 \in Nat
        BY DEF BarInv
      <3>2. QED
        BY <1>4, <3>1 DEF Drop
    <2>2. QED
      BY <2>1 DEF BarInv, FeedIsItsOwn, sent
  <1>5. CASE UNCHANGED sent /\ UNCHANGED session
    BY <1>5, BarCalm
  <1>6. QED
    BY <1>1, <1>2, <1>3, <1>4, <1>5
       DEF LoopStep, NobodyLeft, SomebodyThere, Stop, WriteSubscribe, GiveUp, Retry

-----------------------------------------------------------------------------
LEMMA NextStreams == BarStreamsInv /\ [StreamsNext]_streamsVars => BarStreamsInv'
  <1>1. SUFFICES ASSUME BarStreamsInv, [StreamsNext]_streamsVars
                 PROVE  BarStreamsInv'
    OBVIOUS
  <1>2. LoopInv /\ FeedInv /\ BarInv
    BY <1>1 DEF BarStreamsInv
  <1>3. ASSUME NEW c \in BarCalls, Ask(c) \/ End(c) \/ Add(c) \/ Remove(c) \/ Forward(c)
        PROVE  BarStreamsInv'
    <2>1. LoopInv'
      <3>1. CASE Add(c)
        BY <1>2, <3>1, LoopStarts
      <3>2. CASE UNCHANGED <<running, loops, at>>
        BY <1>2, <3>2, LoopCalm
      <3>3. QED
        BY <1>3, <3>1, <3>2 DEF Ask, End, Remove, Forward
    <2>2. FeedInv'
      BY <1>2, <1>3, CallsKeep
    <2>3. BarInv'
      <3>1. CASE Forward(c)
        BY <1>2, <3>1, ForwardKeeps
      <3>2. CASE UNCHANGED sent /\ UNCHANGED session
        BY <1>2, <3>2, BarCalm
      <3>3. QED
        BY <1>3, <3>1, <3>2 DEF Ask, End, Add, Remove
    <2>4. QED
      BY <2>1, <2>2, <2>3 DEF BarStreamsInv
  <1>4. ASSUME NEW l \in Loops, LoopStep(l)
        PROVE  BarStreamsInv'
    BY <1>2, <1>4, LoopsKeep, SessionsKeepCalls, SessionsKeepBars DEF BarStreamsInv
  <1>5. CASE UNCHANGED streamsVars
    <2>1. UNCHANGED <<running, loops, at>> /\ UNCHANGED callVars /\ UNCHANGED sent /\ UNCHANGED session
      BY <1>5 DEF streamsVars, callVars, sent, session
    <2>2. QED
      BY <1>2, <2>1, LoopCalm, FeedCalm, BarCalm DEF BarStreamsInv
  <1>6. QED
    BY <1>1, <1>3, <1>4, <1>5 DEF StreamsNext

\* The invariant holds of every behaviour.
THEOREM StreamsInductive == StreamsSpec => []BarStreamsInv
  <1>1. QED
    BY InitStreams, NextStreams, PTL DEF StreamsSpec

\* Every variable has its type.
THEOREM StreamsTypeCorrect == StreamsSpec => []StreamsTypeOK
  <1>1. BarStreamsInv => StreamsTypeOK
    BY DEF BarStreamsInv, LoopInv, FeedInv, BarInv, StreamsTypeOK, Places
  <1>2. QED
    BY <1>1, StreamsInductive, PTL

\* There is one connection to the vendor at most, whoever comes and goes.
THEOREM OneConnection == StreamsSpec => []OneLoop
  <1>1. BarStreamsInv => OneLoop
    BY DEF BarStreamsInv, LoopInv
  <1>2. QED
    BY <1>1, StreamsInductive, PTL

\* The channel of a feed is closed once, by the manager giving up or by the
\* end of the call.
THEOREM ClosedOnce == StreamsSpec => []ChannelClosedOnce
  <1>1. BarStreamsInv => ChannelClosedOnce
    BY DEF BarStreamsInv, FeedInv
  <1>2. QED
    BY <1>1, StreamsInductive, PTL

\* A feed gets its own bars, once each and in order.
THEOREM OwnFeed == StreamsSpec => []FeedIsItsOwn
  <1>1. BarStreamsInv => FeedIsItsOwn
    BY DEF BarStreamsInv, BarInv
  <1>2. QED
    BY <1>1, StreamsInductive, PTL
=============================================================================
