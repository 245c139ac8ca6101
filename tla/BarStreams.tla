------------------------------ MODULE BarStreams ------------------------------
(***************************************************************************)
(* Live bars of the marketdata service.  A StreamBars call registers a     *)
(* channel with the service and starts a feed for its symbols; the feeds   *)
(* are subscribers of one stream manager, which keeps a single WebSocket   *)
(* to Alpaca (stream.go), and every feed is forwarded to the channels of   *)
(* the calls, where a bar leaves the model.  Quotes go the same way.       *)
(*                                                                         *)
(* The manager's mutex makes one step of each locked section.  Its context *)
(* is never cancelled by the program (streamManager.stop has no caller).   *)
(* A bar is its number; Bars counts those of one behaviour.                *)
(***************************************************************************)
EXTENDS Naturals, Sequences, FiniteSets

CONSTANTS
  BarCalls,     \* StreamBars calls
  Symbols,
  Wants,        \* the symbols a call asks for: [BarCalls -> SUBSET Symbols]
  MaxAttempts,  \* marketdata.stream.max_reconnects
  MaxLoops,     \* bound: session loops started
  MaxBars       \* bound: bars received

ASSUME StreamsAssumption ==
  /\ Wants \in [BarCalls -> (SUBSET Symbols) \ {{}}]   \* "symbols required"
  /\ MaxAttempts \in Nat \ {0}
  /\ MaxLoops \in Nat /\ MaxBars \in Nat

VARIABLES
  call,      \* a call: "idle", "asked", its feed "subscribed", or "unsubscribed"
  ended,     \* the calls whose context is done
  closes,    \* history: how often the channel of a feed was closed
  feed,      \* the channel of each feed
  bars,      \* history: the symbols of the bars received
  running,   \* streamManager.running
  loops,     \* how many session loops were started
  at,        \* where each loop is
  attempts,  \* of each loop
  healthy,   \* whether its session has had the subscription ack
  covered    \* the symbols its session subscribed to

callVars == <<call, ended, closes>>
sent == <<feed, bars>>
session == <<attempts, healthy, covered>>
streamsVars == <<call, ended, closes, feed, bars, running, loops, at, attempts, healthy, covered>>

Loops == 1..MaxLoops

Live == {l \in Loops : at[l] \notin {"none", "dead"}}

Subscribed == {c \in BarCalls : call[c] = "subscribed"}

StreamsInit ==
  /\ call = [c \in BarCalls |-> "idle"] /\ ended = {}
  /\ closes = [c \in BarCalls |-> 0]
  /\ feed = [c \in BarCalls |-> <<>>] /\ bars = <<>>
  /\ running = FALSE /\ loops = 0
  /\ at = [l \in Loops |-> "none"]
  /\ attempts = [l \in Loops |-> 0]
  /\ healthy = [l \in Loops |-> FALSE]
  /\ covered = [l \in Loops |-> {}]

-----------------------------------------------------------------------------
(* Calls and their feeds.                                                  *)

Ask(c) ==
  /\ call[c] = "idle"
  /\ call' = [call EXCEPT ![c] = "asked"]
  /\ UNCHANGED <<ended, closes, sent, running, loops, at, session>>

(* The client goes away, before its feed has started or after.             *)
End(c) ==
  /\ call[c] # "idle" /\ c \notin ended
  /\ ended' = ended \cup {c}
  /\ UNCHANGED <<call, closes, sent, running, loops, at, session>>

(* add: register, and start the loop unless it is running.                 *)
Add(c) ==
  /\ call[c] = "asked"
  /\ call' = [call EXCEPT ![c] = "subscribed"]
  /\ running' = TRUE
  /\ \/ running /\ UNCHANGED <<loops, at>>
     \/ /\ ~running /\ loops < MaxLoops
        /\ loops' = loops + 1
        /\ at' = [at EXCEPT ![loops + 1] = "check"]
  /\ UNCHANGED <<ended, closes, sent, session>>

CloseFeeds(S) ==
  /\ call' = [c \in BarCalls |-> IF c \in S THEN "unsubscribed" ELSE call[c]]
  /\ closes' = [c \in BarCalls |-> IF c \in S THEN closes[c] + 1 ELSE closes[c]]

(* Mutant: the goroutine does not see that the feeds were closed already.  *)
MutRemove(c) ==
  /\ c \in ended /\ call[c] \in {"subscribed", "unsubscribed"} /\ closes[c] < 2
  /\ CloseFeeds({c})
  /\ UNCHANGED <<ended, sent, running, loops, at, session>>

(* The goroutine add leaves behind, unless closeAllLocked came first.      *)
Remove(c) ==
  /\ c \in ended /\ call[c] = "subscribed"
  /\ CloseFeeds({c})
  /\ UNCHANGED <<ended, sent, running, loops, at, session>>

(* The goroutine of StartBarStream takes a bar off its feed, for the       *)
(* channels of the calls.                                                  *)
Forward(c) ==
  /\ feed[c] # <<>>
  /\ feed' = [feed EXCEPT ![c] = Tail(@)]
  /\ UNCHANGED <<callVars, bars, running, loops, at, session>>

-----------------------------------------------------------------------------
(* The session loop: run and connectAndRead.                               *)

LoopTo(l, place) == at' = [at EXCEPT ![l] = place]

(* Mutant: the loop reports itself stopped as soon as it sees nobody.      *)
MutNobodyLeft(l) ==
  /\ at[l] \in {"check", "connected", "head"}
  /\ Subscribed = {}
  /\ LoopTo(l, "stopping")
  /\ running' = FALSE
  /\ UNCHANGED <<callVars, sent, loops, session>>

NobodyLeft(l) ==
  /\ at[l] \in {"check", "connected", "head"}
  /\ Subscribed = {}
  /\ LoopTo(l, "stopping")
  /\ UNCHANGED <<callVars, sent, running, loops, session>>

(* Mutant: the loop goes on reading without a look at the subscribers.     *)
MutSomebodyThere(l) ==
  /\ at[l] \in {"check", "head"}
  /\ at[l] = "check" => Subscribed # {}
  /\ LoopTo(l, IF at[l] = "check" THEN "dialling" ELSE "reading")
  /\ UNCHANGED <<callVars, sent, running, loops, session>>

SomebodyThere(l) ==
  /\ at[l] \in {"check", "head"}
  /\ Subscribed # {}
  /\ LoopTo(l, IF at[l] = "check" THEN "dialling" ELSE "reading")
  /\ UNCHANGED <<callVars, sent, running, loops, session>>

(* A critical section of its own: nobody looks at the subscribers again.   *)
Stop(l) ==
  /\ at[l] = "stopping"
  /\ running' = FALSE
  /\ LoopTo(l, "dead")
  /\ UNCHANGED <<callVars, sent, loops, session>>

Dial(l) ==
  /\ at[l] = "dialling"
  /\ LoopTo(l, "connected")
  /\ healthy' = [healthy EXCEPT ![l] = FALSE]
  /\ UNCHANGED <<callVars, sent, running, loops, attempts, covered>>

Union(l) ==
  /\ at[l] = "connected" /\ Subscribed # {}
  /\ covered' = [covered EXCEPT ![l] = UNION {Wants[c] : c \in Subscribed}]
  /\ LoopTo(l, "subscribing")
  /\ UNCHANGED <<callVars, sent, running, loops, attempts, healthy>>

WriteSubscribe(l) ==
  /\ at[l] = "subscribing"
  /\ LoopTo(l, "head")
  /\ UNCHANGED <<callVars, sent, running, loops, session>>

(* Dialling, a write or a read fails.  An acknowledged session renews the  *)
(* budget of failures.                                                     *)
Drop(l) ==
  /\ at[l] \in {"dialling", "connected", "subscribing", "reading"}
  /\ LET failures == IF at[l] # "dialling" /\ healthy[l] THEN 1 ELSE attempts[l] + 1
     IN /\ attempts' = [attempts EXCEPT ![l] = failures]
        /\ LoopTo(l, IF failures >= MaxAttempts THEN "giving up" ELSE "waiting")
  /\ UNCHANGED <<callVars, sent, running, loops, healthy, covered>>

GiveUp(l) ==
  /\ at[l] = "giving up"
  /\ CloseFeeds(Subscribed)
  /\ running' = FALSE
  /\ LoopTo(l, "dead")
  /\ UNCHANGED <<ended, sent, loops, session>>

Retry(l) ==
  /\ at[l] = "waiting"
  /\ LoopTo(l, "check")
  /\ UNCHANGED <<callVars, sent, running, loops, session>>

(* A frame without a bar: a control message, the ack among them.           *)
ReadControl(l) ==
  /\ at[l] = "reading"
  /\ \E ack \in {healthy[l], TRUE} : healthy' = [healthy EXCEPT ![l] = ack]
  /\ LoopTo(l, "head")
  /\ UNCHANGED <<callVars, sent, running, loops, attempts, covered>>

(* A bar goes to the feeds that asked for its symbol; one that is full     *)
(* loses it.                                                               *)
Fanout(s, full) ==
  feed' = [c \in BarCalls |-> IF c \in Subscribed \ full /\ s \in Wants[c]
                              THEN Append(feed[c], Len(bars) + 1) ELSE feed[c]]

ReadBar(l) ==
  /\ at[l] = "reading" /\ Len(bars) < MaxBars
  /\ \E s \in covered[l], full \in SUBSET BarCalls :
       bars' = Append(bars, s) /\ Fanout(s, full)
  /\ LoopTo(l, "head")
  /\ UNCHANGED <<callVars, running, loops, session>>

LoopStep(l) ==
  \/ NobodyLeft(l) \/ SomebodyThere(l) \/ Stop(l) \/ Dial(l) \/ Union(l)
  \/ WriteSubscribe(l) \/ Drop(l) \/ GiveUp(l) \/ Retry(l) \/ ReadControl(l)
  \/ ReadBar(l)

StreamsNext ==
  \/ \E c \in BarCalls : Ask(c) \/ End(c) \/ Add(c) \/ Remove(c) \/ Forward(c)
  \/ \E l \in Loops : LoopStep(l)

(* Goroutines run; the vendor answers, with a frame or an error.           *)
StreamsFairness ==
  /\ \A c \in BarCalls :
       WF_streamsVars(Add(c)) /\ WF_streamsVars(Remove(c)) /\ WF_streamsVars(Forward(c))
  /\ \A l \in Loops : WF_streamsVars(LoopStep(l))

StreamsSpec == StreamsInit /\ [][StreamsNext]_streamsVars /\ StreamsFairness

-----------------------------------------------------------------------------
(* Every variable has its type.                                            *)
StreamsTypeOK ==
  /\ call \in [BarCalls -> {"idle", "asked", "subscribed", "unsubscribed"}]
  /\ ended \subseteq BarCalls
  /\ closes \in [BarCalls -> Nat]
  /\ bars \in Seq(Symbols)
  /\ feed \in [BarCalls -> Seq(Nat)]
  /\ running \in BOOLEAN /\ loops \in 0..MaxLoops
  /\ at \in [Loops -> {"none", "check", "dialling", "connected", "subscribing", "head",
                       "reading", "waiting", "giving up", "stopping", "dead"}]
  /\ attempts \in [Loops -> Nat]
  /\ healthy \in [Loops -> BOOLEAN]
  /\ covered \in [Loops -> SUBSET Symbols]

(* The vendor allows one connection per account: there is one session loop *)
(* at most, and running says whether there is one.                         *)
OneLoop ==
  /\ \A k, l \in Live : k = l
  /\ running <=> Live # {}

(* The channel of a feed is closed exactly when the feed is removed, and   *)
(* never a second time, whoever removes it: a second close would panic,    *)
(* and so would a bar sent to a closed channel.                            *)
ChannelClosedOnce ==
  \A c \in BarCalls : closes[c] = IF call[c] = "unsubscribed" THEN 1 ELSE 0

(* A feed gets the bars of its own symbols, once each and in order.        *)
FeedIsItsOwn ==
  \A c \in BarCalls : \A i \in DOMAIN feed[c] :
    /\ feed[c][i] \in DOMAIN bars /\ bars[feed[c][i]] \in Wants[c]
    /\ \A j \in DOMAIN feed[c] : i < j => feed[c][i] < feed[c][j]

(* A session nobody is subscribed to any more is closed, as long as the    *)
(* vendor sends it something: the one connection is given back.            *)
ConnectionGivenBack == (Subscribed = {}) ~> (Subscribed # {} \/ ~running)

==============================================================================
