-------------------------- MODULE LedgerStreamProofs --------------------------
(***************************************************************************)
(* Proofs about LedgerStream for every set of calls, consumers and filters *)
(* and every pool size, batch size and number of faults.                   *)
(*                                                                         *)
(* Events travel towards a stream in the order of their commits: what its   *)
(* buffer holds was committed before what waits in the queue, and that      *)
(* before what is on the wire (FlowInv).  A stream writes in the order of   *)
(* sequence numbers instead (PositionAt), and an event that commits under *)
(* a sequence a stream has passed is Late.  Nothing else is passed over     *)
(* (CoverAt) but what a stream missed: of all it asked for, a stream has    *)
(* been told, or will be by the wire, or it is below the bound of its       *)
(* replay, or its notification was lost and its loss still stands, to end   *)
(* the stream or to be counted as skipped (TrackAt).                       *)
(***************************************************************************)
EXTENDS LedgerStream, LedgerAppendProofs, SequenceTheorems, WellFoundedInduction

Drawn == {a \in Calls : at[a] = "inserted"} \cup Committed

SeqInv ==
  /\ nextSeq >= 1
  /\ \A a \in Drawn : seqOf[a] \in 1..(nextSeq - 1)
  /\ \A a, b \in Drawn : seqOf[a] = seqOf[b] => a = b

Before(a, b) ==
  \E i, j \in DOMAIN committed : i < j /\ committed[i] = a /\ committed[j] = b

FlowInv ==
  /\ \A i, j \in DOMAIN wire : i < j => Before(wire[i], wire[j])
  /\ \A i, j \in DOMAIN queue : i < j => Before(queue[i].event, queue[j].event)
  /\ \A i \in DOMAIN queue : \A j \in DOMAIN wire : Before(queue[i].event, wire[j])
  /\ \A c \in Consumers :
       /\ \A i, j \in DOMAIN buffer[c] : i < j => Before(buffer[c][i], buffer[c][j])
       /\ \A i \in DOMAIN buffer[c] :
            /\ \A j \in DOMAIN queue : Before(buffer[c][i], queue[j].event)
            /\ \A j \in DOMAIN wire : Before(buffer[c][i], wire[j])

Rising(s) == \A i, j \in DOMAIN s : i < j => seqOf[s[i]] < seqOf[s[j]]

Asked(c) == Committed \cap Wants[c]

\* What travels is committed, and waits only for streams that asked for it.
QueueInv ==
  /\ \A i \in DOMAIN wire : wire[i] \in Committed
  /\ \A i \in DOMAIN queue :
       /\ queue[i].event \in Committed
       /\ ~queue[i].wanted => queue[i].subs = {}
       /\ \A c \in queue[i].subs : phase[c] \in Open /\ queue[i].event \in Wants[c]

SourceAt(c) ==
  /\ \A i \in DOMAIN buffer[c] : buffer[c][i] \in Asked(c)
  /\ \A i \in DOMAIN chan[c] : chan[c][i] \in Asked(c)
  /\ \A i \in DOMAIN delivered[c] : delivered[c][i] \in Asked(c)
  /\ phase[c] \notin {"subscribed", "replay"} => buffer[c] = <<>>
  /\ phase[c] = "none" => chan[c] = <<>>

PositionAt(c) ==
  /\ Rising(delivered[c]) /\ Rising(chan[c])
  /\ \A i \in DOMAIN delivered[c] : seqOf[delivered[c][i]] <= lastSeq[c]
  /\ \A i \in DOMAIN chan[c] : seqOf[chan[c][i]] > lastSeq[c]
  /\ phase[c] \in Open =>
       /\ lastSeq[c] <= maxSeq[c]
       /\ \A i \in DOMAIN chan[c] : seqOf[chan[c][i]] <= maxSeq[c]
  /\ phase[c] = "replay" => cursor[c] = maxSeq[c]

Marks == {0} \cup {seqOf[a] : a \in Committed}

MarkAt(c) ==
  /\ lastSeq[c] \in Marks
  /\ phase[c] \in Open => maxSeq[c] \in Marks
  /\ phase[c] \in {"replay", "live"} => bound[c] \in Marks

StreamAt(c) == SourceAt(c) /\ PositionAt(c) /\ MarkAt(c)

\* A notification is lost while no connection is up, and the loss is settled
\* when one comes up; before the first there is nothing to resolve.
LossInv ==
  /\ unheard \subseteq Committed
  /\ skipped \in [Consumers -> SUBSET Committed]
  /\ conn = "up" => connectedOnce /\ unheard = {}
  /\ ~connectedOnce => resolving = "no"

StreamInv ==
  /\ IInv /\ SeqInv /\ TypeOK
  /\ QueueInv /\ FlowInv /\ LossInv
  /\ \A c \in Consumers : StreamAt(c)

Got(c) == Seen(c) \cup ToSet(chan[c])

Missed(c, a) == a \in skipped[c] \/ Late(a)

Covered(c, m) == \A a \in Asked(c) : seqOf[a] <= m => a \in Got(c) \/ Missed(c, a)

CoverAt(c) ==
  /\ Covered(c, lastSeq[c])
  /\ \A i \in DOMAIN chan[c] : Covered(c, seqOf[chan[c][i]])
  /\ phase[c] \in Open => Covered(c, maxSeq[c])
  /\ phase[c] = "live" => Covered(c, bound[c])

QueuedIn(rows, c) == {rows[i].event : i \in {k \in DOMAIN rows : c \in rows[k].subs}}
Queued(c) == QueuedIn(queue, c)

\* What a notification has told a stream of and it has not written.
Told(c) == ToSet(buffer[c]) \cup Queued(c)

Known(c, a) ==
  \/ a \in Told(c) \cup Got(c)
  \/ a \in ToSet(wire)
  \/ seqOf[a] <= bound[c]
  \/ Missed(c, a)

\* A stream that has read its bound.
InReplay(c) == phase[c] \in {"replay", "live"}

TrackAt(c) ==
  InReplay(c) =>
    /\ \A a \in Asked(c) : Known(c, a) \/ a \in unheard
    /\ \A b \in Told(c) : \A a \in Asked(c) : Before(a, b) => Known(c, a)

FeedInv == \A c \in Consumers : CoverAt(c) /\ TrackAt(c)

(***************************************************************************)
(* The log grows at its end; what was committed keeps its sequence.        *)
(***************************************************************************)
LogKept == committed' = committed /\ \A a \in Committed : seqOf'[a] = seqOf[a]

LogExtended(a) ==
  /\ a \in Calls \ Committed
  /\ committed' = Append(committed, a)
  /\ seqOf' = seqOf

LEMMA InsertDraws ==
  ASSUME IInv, SeqInv, NEW a \in Calls, Insert(a)
  PROVE  SeqInv' /\ LogKept
  <1>1. a \notin Committed
    BY DEF IInv, LogInv, Insert
  <1>2. at \in [Calls -> Outside \cup OnConnection \cup {"queued"}] /\ seqOf \in [Calls -> Nat]
        /\ nextSeq \in Nat
    BY DEF IInv, AppendTypeOK
  <1>3. Committed' = Committed
    BY DEF Insert, Committed
  <1>4. Drawn' \subseteq Drawn \cup {a}
    BY <1>2, <1>3 DEF Drawn, Insert, Goto
  <1>5. \A b \in Calls \ {a} : seqOf'[b] = seqOf[b]
    BY <1>2 DEF Insert
  <1>6. seqOf'[a] = nextSeq /\ nextSeq' = nextSeq + 1
    BY <1>2 DEF Insert
  <1>7. Committed \subseteq Calls
    BY CommittedCalls DEF IInv
  <1>8. Drawn \subseteq Calls
    BY <1>7 DEF Drawn
  <1>9. a \notin Drawn
    BY <1>1 DEF Drawn, Insert
  <1>10. \A b \in Drawn : seqOf'[b] = seqOf[b] /\ seqOf[b] \in 1..(nextSeq - 1)
    BY <1>5, <1>8, <1>9 DEF SeqInv
  <1>11. \A b \in Drawn' : b = a \/ b \in Drawn
    BY <1>4
  <1>12. nextSeq' >= 1 /\ \A b \in Drawn' : seqOf'[b] \in 1..(nextSeq' - 1)
    BY <1>2, <1>6, <1>10, <1>11 DEF SeqInv
  <1>13. \A b, d \in Drawn' : seqOf'[b] = seqOf'[d] => b = d
    BY <1>2, <1>6, <1>10, <1>11 DEF SeqInv
  <1>14. LogKept
    BY <1>1, <1>5, <1>7 DEF LogKept, Insert
  <1>15. QED
    BY <1>12, <1>13, <1>14 DEF SeqInv

\* A step that draws no number leaves the numbers distinct.
LEMMA NothingDrawn ==
  ASSUME SeqInv, UNCHANGED <<seqOf, nextSeq>>, Drawn' \subseteq Drawn
  PROVE  SeqInv'
  BY DEF SeqInv

LEMMA PublishExtends ==
  ASSUME IInv, SeqInv, NEW a \in Calls, at[a] = "inserted", Publish(a),
         NEW v, Answer(a, v), UNCHANGED <<seqOf, nextSeq>>
  PROVE  SeqInv' /\ LogExtended(a)
  <1>1. AppendTypeOK /\ at \in [Calls -> Outside \cup OnConnection \cup {"queued"}]
    BY DEF IInv, AppendTypeOK
  <1>2. a \notin Committed
    BY DEF IInv, LogInv
  <1>3. committed' = Append(committed, a)
    BY DEF Publish
  <1>4. Committed' = Committed \cup {a}
    BY <1>1, <1>3, LogGrows
  <1>5. Drawn' \subseteq Drawn
    BY <1>1, <1>4 DEF Drawn, Answer, Goto
  <1>6. QED
    BY <1>2, <1>3, <1>5, NothingDrawn DEF LogExtended

LEMMA LogStep ==
  ASSUME IInv, SeqInv, AppendNext
  PROVE  SeqInv' /\ (LogKept \/ \E a \in Calls : LogExtended(a))
  <1>0. at \in [Calls -> Outside \cup OnConnection \cup {"queued"}]
    BY DEF IInv, AppendTypeOK
  <1>1. PICK a \in Calls : Arrive(a) \/ Acquire(a) \/ Statement(a) \/ CommitUnseen(a) \/ Fail(a)
    BY DEF AppendNext
  <1>2. CASE Insert(a)
    BY <1>2, InsertDraws
  <1>3. CASE Commit(a)
    BY <1>3, PublishExtends DEF Commit
  <1>4. CASE CommitUnseen(a)
    BY <1>4, PublishExtends DEF CommitUnseen
  <1>5. ASSUME UNCHANGED <<seqOf, nextSeq, committed>>, NEW p, p # "inserted",
               at' = [at EXCEPT ![a] = p]
        PROVE  SeqInv' /\ LogKept
    <2>1. Drawn' \subseteq Drawn
      BY <1>0, <1>5 DEF Drawn, Committed
    <2>2. QED
      BY <1>5, <2>1, NothingDrawn DEF LogKept
  <1>6. CASE Arrive(a)
    BY <1>5, <1>6 DEF Arrive, Goto
  <1>7. CASE Acquire(a)
    BY <1>5, <1>7 DEF Acquire, Goto
  <1>8. CASE Claim(a)
    BY <1>5, <1>8 DEF Claim, Goto
  <1>9. CASE Duplicate(a)
    BY <1>5, <1>9 DEF Duplicate, Goto
  <1>10. CASE Lookup(a)
    <2>1. UNCHANGED <<seqOf, nextSeq, committed>> /\ at' = [at EXCEPT ![a] = "done"]
      BY <1>10 DEF Lookup, Goto, Answer
    <2>2. QED
      BY <1>5, <2>1
  <1>11. CASE Fail(a)
    BY <1>5, <1>11 DEF Fail, Goto, Answer
  <1>12. QED
    BY <1>1, <1>2, <1>3, <1>4, <1>6, <1>7, <1>8, <1>9, <1>10, <1>11 DEF Statement

LEMMA CrashKeepsLog ==
  ASSUME SeqInv, CrashCalls
  PROVE  SeqInv' /\ LogKept
  <1>1. UNCHANGED <<seqOf, nextSeq, committed>>
    BY DEF CrashCalls
  <1>2. Drawn' \subseteq Drawn
    BY DEF CrashCalls, Drawn, Committed
  <1>3. QED
    BY <1>1, <1>2, NothingDrawn DEF LogKept

\* What is said of a log survives a step that keeps it.
LEMMA LogPersists ==
  ASSUME LogKept
  PROVE  /\ Committed' = Committed /\ Marks' = Marks
         /\ \A a, b : Before(a, b)' <=> Before(a, b)
         /\ \A a : Late(a)' <=> Late(a)
  <1>1. Committed' = Committed
    BY DEF LogKept, Committed
  <1>2. Marks' = Marks
    BY <1>1 DEF LogKept, Marks
  <1>3. \A a, b : Before(a, b)' <=> Before(a, b)
    BY DEF LogKept, Before
  <1>4. \A i \in DOMAIN committed : committed[i] \in Committed
    BY DEF Committed
  <1>5. \A a : Late(a)' <=> Late(a)
    BY <1>4 DEF LogKept, Late
  <1>6. QED
    BY <1>1, <1>2, <1>3, <1>5

\* An event that commits is behind every other one, and Late if its sequence
\* is below that of one of them.
LEMMA LogExtends ==
  ASSUME AppendTypeOK, NEW a, LogExtended(a)
  PROVE  /\ Committed' = Committed \cup {a}
         /\ Committed \subseteq Calls /\ a \notin Committed /\ a \in Calls
         /\ seqOf' = seqOf
         /\ \A b, d : Before(b, d) => Before(b, d)'
         /\ \A b, d \in Committed : Before(b, d)' => Before(b, d)
         /\ \A b : ~Before(a, b)'
         /\ \A b \in Committed : Before(b, a)'
         /\ \A b : Late(b) => Late(b)'
         /\ \A b \in Committed : seqOf[b] > seqOf[a] => Late(a)'
  <1>1. /\ Committed' = Committed \cup {a}
        /\ DOMAIN committed' = 1..(Len(committed) + 1)
        /\ DOMAIN committed = 1..Len(committed) /\ Len(committed) \in Nat
        /\ \A i \in DOMAIN committed : committed'[i] = committed[i]
        /\ committed'[Len(committed) + 1] = a
    BY LogGrows DEF LogExtended
  <1>2. Committed \subseteq Calls /\ a \notin Committed /\ a \in Calls /\ seqOf' = seqOf
    BY CommittedCalls DEF LogExtended
  <1>3. \A b, d : Before(b, d) => Before(b, d)'
    BY <1>1 DEF Before
  <1>4. \A i \in DOMAIN committed' : committed'[i] = a <=> i = Len(committed) + 1
    BY <1>1, <1>2 DEF Committed
  <1>5. \A b, d \in Committed : Before(b, d)' => Before(b, d)
    BY <1>1, <1>2, <1>4 DEF Before
  <1>6. \A b : ~Before(a, b)'
    BY <1>1, <1>4 DEF Before
  <1>7. \A b \in Committed : Before(b, a)'
    <2>1. TAKE b \in Committed
    <2>2. PICK i \in DOMAIN committed : committed[i] = b
      BY DEF Committed
    <2>3. i \in DOMAIN committed' /\ Len(committed) + 1 \in DOMAIN committed'
          /\ i < Len(committed) + 1 /\ committed'[i] = b
      BY <1>1, <2>2
    <2>4. QED
      BY <1>1, <2>3 DEF Before
  <1>8. \A b : Late(b) => Late(b)'
    BY <1>1, <1>2 DEF Late
  <1>9. \A b \in Committed : seqOf[b] > seqOf[a] => Late(a)'
    <2>1. SUFFICES ASSUME NEW b \in Committed, seqOf[b] > seqOf[a] PROVE Late(a)'
      OBVIOUS
    <2>2. PICK i \in DOMAIN committed : committed[i] = b
      BY DEF Committed
    <2>3. i \in DOMAIN committed' /\ Len(committed) + 1 \in DOMAIN committed'
          /\ i < Len(committed) + 1 /\ committed'[i] = b
      BY <1>1, <2>2
    <2>4. QED
      BY <1>1, <1>2, <2>1, <2>3 DEF Late
  <1>10. QED
    BY <1>1, <1>2, <1>3, <1>5, <1>6, <1>7, <1>8, <1>9

(***************************************************************************)
(* Sequences.                                                              *)
(***************************************************************************)
LEMMA MaxOfTwo ==
  ASSUME NEW m \in Nat, NEW n \in Nat
  PROVE  Max({m, n}) = IF m >= n THEN m ELSE n
  <1>1. DEFINE x == IF m >= n THEN m ELSE n
  <1>2. x \in {m, n} /\ \A y \in {m, n} : x >= y
    OBVIOUS
  <1>3. \A z \in {m, n} : (\A y \in {m, n} : z >= y) => z = x
    OBVIOUS
  <1>4. QED
    BY <1>2, <1>3 DEF Max

LEMMA MinOfTwo ==
  ASSUME NEW m \in Nat, NEW n \in Nat
  PROVE  Min({m, n}) = IF m <= n THEN m ELSE n
  <1>1. DEFINE x == IF m <= n THEN m ELSE n
  <1>2. x \in {m, n} /\ \A y \in {m, n} : x =< y
    OBVIOUS
  <1>3. \A z \in {m, n} : (\A y \in {m, n} : z =< y) => z = x
    OBVIOUS
  <1>4. QED
    BY <1>2, <1>3 DEF Min

\* A sequence of n distinct elements of a set of n is all of it.
LEMMA OrderingOfAll ==
  ASSUME NEW S, IsFiniteSet(S), NEW s \in SetToSeqs(S)
  PROVE  /\ s \in Seq(S) /\ Len(s) = Cardinality(S)
         /\ \A a \in S : \E i \in DOMAIN s : s[i] = a
  <1> DEFINE n == Cardinality(S)
  <1>1. n \in Nat
    BY FS_CardinalityType
  <1>2. s \in [1..n -> S] /\ \A i, j \in 1..n : i # j => s[i] # s[j]
    BY DEF SetToSeqs
  <1>3. s \in Seq(S) /\ Len(s) = n
    BY <1>1, <1>2
  <1>4. ASSUME NEW a \in S, \A i \in 1..n : s[i] # a
        PROVE  FALSE
    <2>1. s \in [1..n -> S \ {a}]
      BY <1>2, <1>4
    <2>2. IsFiniteSet(S \ {a}) /\ Cardinality(S \ {a}) = n - 1
      BY FS_RemoveElement
    <2>3. IsFiniteSet(1..n) /\ Cardinality(1..n) = n
      BY <1>1, FS_Interval
    <2>4. \E i, j \in 1..n : i # j /\ s[i] = s[j]
      BY <1>1, <2>1, <2>2, <2>3, FS_PigeonHole
    <2>5. QED
      BY <1>2, <2>4
  <1>5. DOMAIN s = 1..n
    BY <1>2
  <1>6. QED
    BY <1>3, <1>4, <1>5

\* Rows with numbers of their own can be put in the order of the numbers: the
\* row of rank k is the one with k - 1 rows below it.
LEMMA InSequenceSorts ==
  ASSUME NEW S, IsFiniteSet(S), \A a \in S : seqOf[a] \in Nat,
         \A a, b \in S : seqOf[a] = seqOf[b] => a = b
  PROVE  /\ InSequence(S) \in Seq(S)
         /\ Rising(InSequence(S))
         /\ \A a \in S : \E i \in DOMAIN InSequence(S) : InSequence(S)[i] = a
  <1> DEFINE n == Cardinality(S)
             upTo(a) == {b \in S : seqOf[b] <= seqOf[a]}
             rank == [a \in S |-> Cardinality(upTo(a))]
  <1>1. n \in Nat /\ IsFiniteSet(1..n) /\ Cardinality(1..n) = n
    BY FS_CardinalityType, FS_Interval
  <1>2. \A a \in S : IsFiniteSet(upTo(a))
    BY FS_Subset
  <1>3. \A a \in S : rank[a] \in 1..n
    <2>1. TAKE a \in S
    <2>2. upTo(a) \in SUBSET S /\ upTo(a) # {}
      OBVIOUS
    <2>3. rank[a] = Cardinality(upTo(a))
      OBVIOUS
    <2> HIDE DEF rank, upTo
    <2>4. Cardinality(upTo(a)) \in Nat /\ Cardinality(upTo(a)) <= n
          /\ Cardinality(upTo(a)) # 0
      BY <1>2, <2>2, FS_Subset, FS_CardinalityType, FS_EmptySet
    <2>5. QED
      BY <1>1, <2>3, <2>4
  <1>4. rank \in [S -> 1..n]
    <2>1. DOMAIN rank = S /\ rank = [a \in DOMAIN rank |-> rank[a]]
      <3> HIDE DEF upTo
      <3>1. QED
        OBVIOUS
    <2> HIDE DEF rank, n
    <2>2. QED
      BY <1>3, <2>1
  <1>5. \A a, b \in S : seqOf[a] < seqOf[b] => rank[a] < rank[b]
    <2>1. TAKE a, b \in S
    <2>2. HAVE seqOf[a] < seqOf[b]
    <2>3. upTo(a) \in SUBSET upTo(b) /\ b \in upTo(b) /\ b \notin upTo(a)
      BY <2>2
    <2>4. upTo(a) # upTo(b)
      BY <2>3
    <2>5. rank[a] = Cardinality(upTo(a)) /\ rank[b] = Cardinality(upTo(b))
      OBVIOUS
    <2> HIDE DEF upTo, rank, n
    <2>6. Cardinality(upTo(a)) <= Cardinality(upTo(b))
          /\ Cardinality(upTo(a)) # Cardinality(upTo(b))
      BY <1>2, <2>3, <2>4, FS_Subset
    <2>7. QED
      BY <1>1, <1>3, <2>5, <2>6
  <1>6. \A a, b \in S : rank[a] = rank[b] => a = b
    <2>1. \A a, b \in S : a # b => seqOf[a] < seqOf[b] \/ seqOf[b] < seqOf[a]
      OBVIOUS
    <2> HIDE DEF rank, n
    <2>2. QED
      BY <1>1, <1>3, <1>5, <2>1
  <1>7. \A k \in 1..n : \E a \in S : rank[a] = k
    <2>1. SUFFICES ASSUME NEW k \in 1..n, \A a \in S : rank[a] # k
                   PROVE  FALSE
      OBVIOUS
    <2>2. IsFiniteSet((1..n) \ {k}) /\ Cardinality((1..n) \ {k}) = n - 1
      BY <1>1, FS_RemoveElement
    <2>3. rank \in [S -> (1..n) \ {k}]
      BY <1>4, <2>1
    <2>4. \E a, b \in S : a # b /\ rank[a] = rank[b]
      <3> HIDE DEF rank, n
      <3>1. n = Cardinality(S)
        BY DEF n
      <3>2. QED
        BY <1>1, <2>2, <2>3, <3>1, FS_PigeonHole
    <2>5. QED
      BY <1>6, <2>4
  <1> DEFINE s == [k \in 1..n |-> CHOOSE a \in S : rank[a] = k]
  <1> HIDE DEF rank
  <1>8. s \in [1..n -> S] /\ \A k \in 1..n : rank[s[k]] = k
    BY <1>7
  <1>9. \A i, j \in 1..n : i < j => seqOf[s[i]] < seqOf[s[j]]
    <2>1. TAKE i, j \in 1..n
    <2>2. HAVE i < j
    <2>3. s[i] \in S /\ s[j] \in S /\ rank[s[i]] < rank[s[j]]
      BY <1>1, <1>8, <2>2
    <2>4. s[i] # s[j] /\ ~(seqOf[s[j]] < seqOf[s[i]])
      BY <1>1, <1>5, <1>8, <2>2, <2>3
    <2>5. QED
      BY <2>3, <2>4
  <1>10. DOMAIN s = 1..n
    OBVIOUS
  <1>11. s \in SetToSeqs(S)
    <2>1. \A i, j \in 1..n : i # j => s[i] # s[j]
      BY <1>8
    <2>2. QED
      BY <1>8, <2>1 DEF SetToSeqs
  <1>12. \A i, j \in DOMAIN s : i < j => seqOf[s[i]] < seqOf[s[j]]
    BY <1>9, <1>10
  <1> HIDE DEF s
  <1>13. /\ InSequence(S) \in SetToSeqs(S)
         /\ \A i, j \in DOMAIN InSequence(S) :
              i < j => seqOf[InSequence(S)[i]] < seqOf[InSequence(S)[j]]
    BY <1>11, <1>12 DEF InSequence
  <1>14. QED
    BY <1>13, OrderingOfAll DEF Rising

\* A set of numbers that has a member has a least one.
LEMMA LeastNumber ==
  ASSUME NEW T \in SUBSET Nat, T # {}
  PROVE  \E m \in T : \A k \in T : m <= k
  <1>1. IsWellFoundedOn({ss \in Nat \X Nat : ss[1] < ss[2]}, Nat)
    BY NatLessThanWellFounded DEF OpToRel
  <1>2. PICK m \in T : \A k \in T : ~(<<k, m>> \in {ss \in Nat \X Nat : ss[1] < ss[2]})
    BY <1>1, WFMin
  <1>3. \A k \in T : ~(k < m)
    BY <1>2
  <1>4. QED
    BY <1>3

\* Committed events have numbers of their own.
LEMMA CommittedNumbers ==
  ASSUME IInv, SeqInv
  PROVE  /\ Committed \subseteq Calls /\ IsFiniteSet(Committed)
         /\ \A a \in Committed : seqOf[a] \in Nat /\ seqOf[a] >= 1
         /\ \A a, b \in Committed : seqOf[a] = seqOf[b] => a = b
         /\ Marks \subseteq Nat
  <1>1. Committed \subseteq Calls
    BY CommittedCalls DEF IInv
  <1>2. IsFiniteSet(Committed)
    BY <1>1, AppendAssumption, FS_Subset
  <1>3. nextSeq \in Nat
    BY DEF IInv, AppendTypeOK
  <1>4. /\ \A a \in Committed : seqOf[a] \in Nat /\ seqOf[a] >= 1
        /\ \A a, b \in Committed : seqOf[a] = seqOf[b] => a = b
    BY <1>3 DEF SeqInv, Drawn
  <1>5. QED
    BY <1>1, <1>2, <1>4 DEF Marks

\* MAX(sequence) of the log.
LEMMA BoundIsHighest ==
  ASSUME IInv, SeqInv
  PROVE  /\ Max({0} \cup {seqOf[a] : a \in Committed}) \in Marks
         /\ \A a \in Committed : seqOf[a] <= Max({0} \cup {seqOf[b] : b \in Committed})
  <1> DEFINE s == InSequence(Committed)
  <1>1. s \in Seq(Committed) /\ Rising(s) /\ \A a \in Committed : \E i \in DOMAIN s : s[i] = a
    BY CommittedNumbers, InSequenceSorts
  <1>2. \E x \in Marks : \A y \in Marks : x >= y
    <2>1. CASE s = <<>>
      <3>1. Committed = {}
        BY <1>1, <2>1
      <3>2. QED
        BY <3>1 DEF Marks
    <2>2. CASE s # <<>>
      <3> HIDE DEF s
      <3>1. Len(s) \in DOMAIN s /\ \A i \in DOMAIN s : i = Len(s) \/ i < Len(s)
        BY <1>1, <2>2
      <3>2. \A i \in DOMAIN s : s[i] \in Committed
        BY <1>1
      <3>3. \A a \in Committed : seqOf[s[Len(s)]] >= seqOf[a]
        BY <1>1, <3>1, <3>2, CommittedNumbers DEF Rising
      <3>4. seqOf[s[Len(s)]] >= 0 /\ seqOf[s[Len(s)]] \in Marks
        BY <3>1, <3>2, CommittedNumbers DEF Marks
      <3>5. QED
        BY <3>3, <3>4 DEF Marks
    <2>3. QED
      BY <2>1, <2>2
  <1>3. Max(Marks) \in Marks /\ \A y \in Marks : Max(Marks) >= y
    BY <1>2 DEF Max
  <1>4. \A a \in Committed : seqOf[a] \in Marks
    BY DEF Marks
  <1>5. \A a \in Committed : seqOf[a] <= Max(Marks)
    BY <1>3, <1>4, CommittedNumbers
  <1>6. QED
    BY <1>3, <1>5 DEF Marks

(***************************************************************************)
(* Replay queries and the flush of the buffer.                             *)
(***************************************************************************)
\* A replay query returns the first rows after the cursor: with a row, every
\* wanted one below it; all of them when the batch is not full.
LEMMA BatchRows ==
  ASSUME IInv, SeqInv, NEW c \in Consumers, cursor[c] \in Nat, bound[c] \in Nat
  PROVE  /\ Batch(c) \in Seq(Asked(c))
         /\ Rising(Batch(c))
         /\ \A i \in DOMAIN Batch(c) :
              seqOf[Batch(c)[i]] > cursor[c] /\ seqOf[Batch(c)[i]] <= bound[c]
         /\ \A a \in Asked(c) : seqOf[a] > cursor[c] /\ seqOf[a] <= bound[c] =>
              /\ Len(Batch(c)) # ReplayBatch => \E i \in DOMAIN Batch(c) : Batch(c)[i] = a
              /\ \A k \in DOMAIN Batch(c) : seqOf[a] <= seqOf[Batch(c)[k]] =>
                   \E i \in DOMAIN Batch(c) : Batch(c)[i] = a
  <1> DEFINE S == {a \in Asked(c) : seqOf[a] > cursor[c] /\ seqOf[a] <= bound[c]}
             s == InSequence(S)
             n == Min({ReplayBatch, Len(s)})
  <1>1. Batch(c) = SubSeq(s, 1, n)
    BY DEF Batch, Asked
  <1>2. S \subseteq Committed /\ IsFiniteSet(S)
    BY CommittedNumbers, FS_Subset DEF Asked
  <1>3. s \in Seq(S) /\ Rising(s) /\ \A a \in S : \E i \in DOMAIN s : s[i] = a
    <2> HIDE DEF S
    <2>1. \A a \in S : seqOf[a] \in Nat
      BY <1>2, CommittedNumbers
    <2>2. \A a, b \in S : seqOf[a] = seqOf[b] => a = b
      BY <1>2, CommittedNumbers
    <2>3. QED
      BY <1>2, <2>1, <2>2, InSequenceSorts
  <1> HIDE DEF s, S
  <1>4. Len(s) \in Nat /\ DOMAIN s = 1..Len(s) /\ \A i \in DOMAIN s : s[i] \in S
    BY <1>3
  <1>5. n \in Nat /\ n <= Len(s)
    BY <1>4, MinOfTwo, StreamAssumption
  <1>15. n # ReplayBatch => n = Len(s)
    BY <1>4, MinOfTwo, StreamAssumption
  <1> HIDE DEF n
  <1>16. \A i \in 1..n : i \in DOMAIN s
    BY <1>4, <1>5
  <1>6. /\ Batch(c) \in Seq(S) /\ Len(Batch(c)) = n /\ DOMAIN Batch(c) = 1..n
        /\ \A i \in 1..n : Batch(c)[i] = s[i]
    <2>1. \A i \in 1..n : s[i] \in S
      BY <1>4, <1>16
    <2>2. /\ SubSeq(s, 1, n) \in Seq(S)
          /\ Len(SubSeq(s, 1, n)) = n
          /\ \A i \in 1..n : SubSeq(s, 1, n)[i] = s[i]
      BY <1>5, <2>1, SubSeqProperties
    <2>3. DOMAIN SubSeq(s, 1, n) = 1..n
      BY <1>5, <2>2
    <2>4. QED
      BY <1>1, <2>2, <2>3
  <1>7. Rising(Batch(c))
    BY <1>3, <1>6, <1>16 DEF Rising
  <1>8. \A i \in DOMAIN Batch(c) : Batch(c)[i] \in S
    BY <1>4, <1>5, <1>6
  <1>9. Batch(c) \in Seq(Asked(c))
    <2>1. S \subseteq Asked(c)
      BY DEF S
    <2>2. QED
      BY <1>6, <2>1, SeqMonotonic
  <1>10. ASSUME NEW a \in S, Len(Batch(c)) # ReplayBatch
         PROVE  \E i \in DOMAIN Batch(c) : Batch(c)[i] = a
    BY <1>3, <1>4, <1>15, <1>6, <1>10
  <1>11. ASSUME NEW a \in S, NEW k \in DOMAIN Batch(c), seqOf[a] <= seqOf[Batch(c)[k]]
         PROVE  \E i \in DOMAIN Batch(c) : Batch(c)[i] = a
    <2>1. PICK i \in DOMAIN s : s[i] = a
      BY <1>3
    <2>2. k \in 1..n /\ Batch(c)[k] = s[k] /\ k \in DOMAIN s
      BY <1>6, <1>16
    <2>3. seqOf[s[i]] \in Nat /\ seqOf[s[k]] \in Nat
      BY <1>2, <1>4, <2>1, <2>2, CommittedNumbers
    <2>4. ~(k < i)
      BY <1>3, <1>11, <2>1, <2>2, <2>3 DEF Rising
    <2>5. QED
      BY <1>4, <1>6, <1>16, <2>1, <2>2, <2>4
  <1>12. \A i \in DOMAIN Batch(c) :
           seqOf[Batch(c)[i]] > cursor[c] /\ seqOf[Batch(c)[i]] <= bound[c]
    BY <1>8 DEF S
  <1>13. \A a \in Asked(c) : seqOf[a] > cursor[c] /\ seqOf[a] <= bound[c] => a \in S
    BY DEF S
  <1>14. QED
    BY <1>7, <1>9, <1>10, <1>11, <1>12, <1>13

\* A row is written when it is above what was written and above every row in
\* front of it.
LEMMA FreshRows ==
  ASSUME IInv, SeqInv, NEW rows \in Seq(Committed), NEW max \in Nat
  PROVE  /\ Fresh(rows, max) \in Seq(Committed)
         /\ Rising(Fresh(rows, max))
         /\ \A i \in DOMAIN Fresh(rows, max) :
              seqOf[Fresh(rows, max)[i]] > max
              /\ \E k \in DOMAIN rows : Fresh(rows, max)[i] = rows[k]
         /\ \A k \in DOMAIN rows :
              (seqOf[rows[k]] > max /\ \A j \in 1..(k - 1) : seqOf[rows[j]] < seqOf[rows[k]])
                => \E i \in DOMAIN Fresh(rows, max) : Fresh(rows, max)[i] = rows[k]
  <1> DEFINE K == {k \in DOMAIN rows :
                     /\ seqOf[rows[k]] > max
                     /\ \A j \in 1..(k - 1) : seqOf[rows[j]] < seqOf[rows[k]]}
             S == {rows[i] : i \in K}
             s == InSequence(S)
  <1>1. Fresh(rows, max) = s
    BY DEF Fresh
  <1>2. \A k \in DOMAIN rows : rows[k] \in Committed
    OBVIOUS
  <1>3. S \subseteq Committed /\ IsFiniteSet(S)
    BY <1>2, CommittedNumbers, FS_Subset
  <1>4. s \in Seq(S) /\ Rising(s) /\ \A a \in S : \E i \in DOMAIN s : s[i] = a
    <2> HIDE DEF S
    <2>1. \A a \in S : seqOf[a] \in Nat
      BY <1>3, CommittedNumbers
    <2>2. \A a, b \in S : seqOf[a] = seqOf[b] => a = b
      BY <1>3, CommittedNumbers
    <2>3. QED
      BY <1>3, <2>1, <2>2, InSequenceSorts
  <1> HIDE DEF s
  <1>5. \A i \in DOMAIN s : s[i] \in S
    <2> HIDE DEF S
    <2>1. QED
      BY <1>4
  <1>6. s \in Seq(Committed)
    BY <1>3, <1>4, SeqMonotonic
  <1>7. \A i \in DOMAIN s : seqOf[s[i]] > max /\ \E k \in DOMAIN rows : s[i] = rows[k]
    BY <1>5
  <1>8. \A k \in K : \E i \in DOMAIN s : s[i] = rows[k]
    BY <1>4
  <1>9. QED
    BY <1>1, <1>4, <1>6, <1>7, <1>8

\* What rising rows above `max` reach is the highest of them.
LEMMA ReachedHighest ==
  ASSUME IInv, SeqInv, NEW s \in Seq(Committed), Rising(s), NEW max \in Nat
  PROVE  /\ Reached(s, max) \in Nat /\ Reached(s, max) >= max
         /\ \A i \in DOMAIN s : seqOf[s[i]] <= Reached(s, max)
         /\ Reached(s, max) = max \/ \E i \in DOMAIN s : seqOf[s[i]] = Reached(s, max)
         /\ (s # <<>> /\ \A i \in DOMAIN s : seqOf[s[i]] > max)
              => Reached(s, max) = seqOf[Last(s)]
  <1>1. CASE s = <<>>
    BY <1>1 DEF Reached
  <1>2. CASE s # <<>>
    <2>1. /\ Len(s) \in DOMAIN s
          /\ \A i \in DOMAIN s : (i = Len(s) \/ i < Len(s)) /\ s[i] \in Committed
      BY <1>2
    <2>2. \A i \in DOMAIN s : seqOf[s[i]] \in Nat
      BY <2>1, CommittedNumbers
    <2>3. \A i \in DOMAIN s : seqOf[s[i]] <= seqOf[s[Len(s)]]
      BY <2>1, <2>2 DEF Rising
    <2>4. Reached(s, max) = IF max >= seqOf[s[Len(s)]] THEN max ELSE seqOf[s[Len(s)]]
      BY <1>2, <2>1, <2>2, MaxOfTwo DEF Reached, Last
    <2>5. QED
      BY <2>1, <2>2, <2>3, <2>4 DEF Last
  <1>3. QED
    BY <1>1, <1>2

\* After the flush nothing in the buffer is above what was written: of the rows
\* at or above a given one, the first is written.
LEMMA FlushReaches ==
  ASSUME IInv, SeqInv, NEW rows \in Seq(Committed), NEW max \in Nat
  PROVE  \A k \in DOMAIN rows : seqOf[rows[k]] <= Reached(Fresh(rows, max), max)
  <1> DEFINE top == Reached(Fresh(rows, max), max)
  <1>1. Fresh(rows, max) \in Seq(Committed) /\ Rising(Fresh(rows, max))
    BY FreshRows
  <1>2. top \in Nat /\ top >= max
    BY <1>1, ReachedHighest
  <1>3. \A i \in DOMAIN Fresh(rows, max) : seqOf[Fresh(rows, max)[i]] <= top
    BY <1>1, ReachedHighest
  <1> HIDE DEF top
  <1>4. \A k \in DOMAIN rows : rows[k] \in Committed /\ seqOf[rows[k]] \in Nat
    BY CommittedNumbers
  <1>5. SUFFICES ASSUME NEW k \in DOMAIN rows, seqOf[rows[k]] > max
                 PROVE  seqOf[rows[k]] <= top
    BY <1>2, <1>4 DEF top
  <1> DEFINE T == {j \in DOMAIN rows : seqOf[rows[j]] >= seqOf[rows[k]]}
  <1>6. DOMAIN rows \subseteq Nat
    OBVIOUS
  <1>7. T \in SUBSET Nat /\ k \in T
    BY <1>4, <1>6
  <1>8. PICK m \in T : \A j \in T : m <= j
    BY <1>7, LeastNumber
  <1>9. \A j \in 1..(m - 1) : j \in DOMAIN rows /\ j \notin T
    BY <1>8
  <1>10. \A j \in 1..(m - 1) : seqOf[rows[j]] < seqOf[rows[m]]
    BY <1>4, <1>8, <1>9
  <1>11. \E i \in DOMAIN Fresh(rows, max) : Fresh(rows, max)[i] = rows[m]
    <2>1. m \in DOMAIN rows /\ seqOf[rows[m]] >= seqOf[rows[k]]
      BY <1>8
    <2>2. seqOf[rows[m]] > max
      BY <1>4, <1>5, <2>1
    <2>3. QED
      BY <1>10, <2>1, <2>2, FreshRows
  <1>12. QED
    BY <1>2, <1>3, <1>4, <1>8, <1>11

(***************************************************************************)
(* What a step does to one consumer and its stream.                        *)
(***************************************************************************)
TypesAt(c) ==
  /\ phase[c] \in {"none", "ended"} \cup Open
  /\ maxSeq[c] \in Nat /\ cursor[c] \in Nat /\ bound[c] \in Nat /\ lastSeq[c] \in Nat
  /\ buffer[c] \in Seq(Calls) /\ chan[c] \in Seq(Calls) /\ delivered[c] \in Seq(Calls)

\* The log stays as it is, and what was missed stays missed.
LogSame ==
  /\ committed' = committed /\ seqOf' = seqOf
  /\ \A c \in Consumers : skipped[c] \subseteq skipped'[c]

ReplaySame(c) == cursor'[c] = cursor[c] /\ bound'[c] = bound[c]
ConsumerSame(c) == lastSeq'[c] = lastSeq[c] /\ delivered'[c] = delivered[c]

Still(c) ==
  /\ phase'[c] = phase[c] /\ maxSeq'[c] = maxSeq[c]
  /\ buffer'[c] = buffer[c] /\ chan'[c] = chan[c]
  /\ ReplaySame(c) /\ ConsumerSame(c)

Written(c, a) ==
  /\ phase[c] = "live" /\ a \in Asked(c) /\ seqOf[a] > maxSeq[c]
  /\ chan'[c] = Append(chan[c], a) /\ maxSeq'[c] = seqOf[a]
  /\ phase'[c] = phase[c] /\ buffer'[c] = buffer[c]
  /\ ReplaySame(c) /\ ConsumerSame(c)

Held(c, a) ==
  /\ phase[c] \in {"subscribed", "replay"} /\ a \in Asked(c)
  /\ buffer'[c] = Append(buffer[c], a)
  /\ phase'[c] = phase[c] /\ maxSeq'[c] = maxSeq[c] /\ chan'[c] = chan[c]
  /\ ReplaySame(c) /\ ConsumerSame(c)

Ended(c) ==
  /\ phase'[c] = "ended" /\ buffer'[c] = <<>>
  /\ \E n \in 0..Len(chan[c]) : chan'[c] = SubSeq(chan[c], 1, n)
  /\ maxSeq'[c] = maxSeq[c]
  /\ ReplaySame(c) /\ ConsumerSame(c)

Opened(c) ==
  /\ phase[c] = "none" /\ phase'[c] = "subscribed" /\ maxSeq'[c] = lastSeq[c]
  /\ buffer'[c] = buffer[c] /\ chan'[c] = chan[c]
  /\ ReplaySame(c) /\ ConsumerSame(c)

Bounded(c) ==
  /\ phase[c] = "subscribed" /\ phase'[c] = "replay"
  /\ bound'[c] = Max({0} \cup {seqOf[a] : a \in Committed})
  /\ cursor'[c] = maxSeq[c] /\ maxSeq'[c] = maxSeq[c]
  /\ buffer'[c] = buffer[c] /\ chan'[c] = chan[c]
  /\ ConsumerSame(c)

BatchMore(c) ==
  /\ phase[c] = "replay" /\ phase'[c] = "replay" /\ Len(Batch(c)) = ReplayBatch
  /\ cursor'[c] = seqOf[Last(Batch(c))]
  /\ maxSeq'[c] = Reached(Batch(c), maxSeq[c])
  /\ chan'[c] = chan[c] \o Batch(c)
  /\ bound'[c] = bound[c] /\ buffer'[c] = buffer[c]
  /\ ConsumerSame(c)

BatchLast(c) ==
  LET reached == Reached(Batch(c), maxSeq[c])
      flushed == Fresh(buffer[c], reached)
  IN  /\ phase[c] = "replay" /\ phase'[c] = "live" /\ Len(Batch(c)) # ReplayBatch
      /\ maxSeq'[c] = Reached(flushed, reached)
      /\ chan'[c] = chan[c] \o (Batch(c) \o flushed)
      /\ buffer'[c] = <<>>
      /\ ReplaySame(c) /\ ConsumerSame(c)

Received(c) ==
  /\ chan[c] # <<>> /\ chan'[c] = Tail(chan[c])
  /\ delivered'[c] = Append(delivered[c], Head(chan[c]))
  /\ lastSeq'[c] = Max({lastSeq[c], seqOf[Head(chan[c])]})
  /\ phase'[c] = phase[c] /\ maxSeq'[c] = maxSeq[c] /\ buffer'[c] = buffer[c]
  /\ ReplaySame(c)

Abandoned(c) ==
  /\ phase'[c] = "none" /\ chan'[c] = <<>> /\ buffer'[c] = <<>>
  /\ maxSeq'[c] = maxSeq[c]
  /\ ReplaySame(c) /\ ConsumerSame(c)

StreamMove(c) ==
  \/ Still(c) \/ Ended(c) \/ Opened(c) \/ Bounded(c) \/ BatchMore(c) \/ BatchLast(c)
  \/ Received(c) \/ Abandoned(c)
  \/ \E a \in Calls : Written(c, a) \/ Held(c, a)

LEMMA SequenceSteps ==
  ASSUME NEW S, NEW s \in Seq(S)
  PROVE  /\ Len(s) \in Nat /\ DOMAIN s = 1..Len(s) /\ \A i \in DOMAIN s : s[i] \in S
         /\ \A x \in S : /\ Append(s, x) \in Seq(S)
                         /\ DOMAIN Append(s, x) = 1..(Len(s) + 1)
                         /\ \A i \in DOMAIN s : Append(s, x)[i] = s[i]
                         /\ Append(s, x)[Len(s) + 1] = x
         /\ s # <<>> => /\ Tail(s) \in Seq(S) /\ Head(s) = s[1] /\ 1 \in DOMAIN s
                        /\ DOMAIN Tail(s) = 1..(Len(s) - 1)
                        /\ \A i \in DOMAIN Tail(s) : Tail(s)[i] = s[i + 1] /\ i + 1 \in DOMAIN s
         /\ \A n \in 0..Len(s) : /\ SubSeq(s, 1, n) \in Seq(S)
                                 /\ DOMAIN SubSeq(s, 1, n) = 1..n
                                 /\ \A i \in 1..n : SubSeq(s, 1, n)[i] = s[i] /\ i \in DOMAIN s
  <1>1. Len(s) \in Nat /\ DOMAIN s = 1..Len(s) /\ \A i \in DOMAIN s : s[i] \in S
    OBVIOUS
  <1>2. \A x \in S : /\ Append(s, x) \in Seq(S)
                     /\ DOMAIN Append(s, x) = 1..(Len(s) + 1)
                     /\ \A i \in DOMAIN s : Append(s, x)[i] = s[i]
                     /\ Append(s, x)[Len(s) + 1] = x
    OBVIOUS
  <1>3. s # <<>> => /\ Tail(s) \in Seq(S) /\ Head(s) = s[1] /\ 1 \in DOMAIN s
                    /\ DOMAIN Tail(s) = 1..(Len(s) - 1)
                    /\ \A i \in DOMAIN Tail(s) : Tail(s)[i] = s[i + 1] /\ i + 1 \in DOMAIN s
    OBVIOUS
  <1>4. ASSUME NEW n \in 0..Len(s)
        PROVE  /\ SubSeq(s, 1, n) \in Seq(S)
               /\ DOMAIN SubSeq(s, 1, n) = 1..n
               /\ \A i \in 1..n : SubSeq(s, 1, n)[i] = s[i] /\ i \in DOMAIN s
    <2>1. \A i \in 1..n : i \in DOMAIN s /\ s[i] \in S
      BY <1>1
    <2>2. /\ SubSeq(s, 1, n) \in Seq(S)
          /\ Len(SubSeq(s, 1, n)) = n
          /\ \A i \in 1..n : SubSeq(s, 1, n)[i] = s[i]
      BY <2>1, SubSeqProperties
    <2>3. QED
      BY <2>1, <2>2
  <1>5. QED
    BY <1>1, <1>2, <1>3, <1>4

LEMMA SequencesJoined ==
  ASSUME NEW S, NEW s \in Seq(S), NEW t \in Seq(S)
  PROVE  /\ s \o t \in Seq(S)
         /\ DOMAIN (s \o t) = 1..(Len(s) + Len(t))
         /\ \A i \in DOMAIN s : i \in DOMAIN (s \o t) /\ (s \o t)[i] = s[i]
         /\ \A i \in DOMAIN t : i + Len(s) \in DOMAIN (s \o t) /\ (s \o t)[i + Len(s)] = t[i]
         /\ \A i \in DOMAIN (s \o t) :
              \/ i \in DOMAIN s /\ (s \o t)[i] = s[i]
              \/ i - Len(s) \in DOMAIN t /\ i \notin DOMAIN s /\ (s \o t)[i] = t[i - Len(s)]
  BY ConcatProperties

LEMMA Members ==
  \A s, x : x \in ToSet(s) <=> \E i \in DOMAIN s : s[i] = x
  BY DEF ToSet

LEMMA JoinedElements ==
  ASSUME NEW S, NEW s \in Seq(S), NEW t \in Seq(S)
  PROVE  ToSet(s \o t) = ToSet(s) \cup ToSet(t)
  <1>1. \A i \in DOMAIN (s \o t) :
          \/ i \in DOMAIN s /\ (s \o t)[i] = s[i]
          \/ i - Len(s) \in DOMAIN t /\ (s \o t)[i] = t[i - Len(s)]
    BY SequencesJoined
  <1>2. \A i \in DOMAIN s : i \in DOMAIN (s \o t) /\ (s \o t)[i] = s[i]
    BY SequencesJoined
  <1>3. \A i \in DOMAIN t : i + Len(s) \in DOMAIN (s \o t) /\ (s \o t)[i + Len(s)] = t[i]
    BY SequencesJoined
  <1> DEFINE u == s \o t
  <1> HIDE DEF u
  <1>4. ASSUME NEW x \in ToSet(u)
        PROVE  x \in ToSet(s) \cup ToSet(t)
    <2>1. PICK i \in DOMAIN u : u[i] = x
      BY <1>4, Members
    <2>2. CASE i \in DOMAIN s /\ u[i] = s[i]
      BY <2>1, <2>2 DEF ToSet
    <2>3. CASE i - Len(s) \in DOMAIN t /\ u[i] = t[i - Len(s)]
      BY <2>1, <2>3 DEF ToSet
    <2>4. QED
      BY <1>1, <2>1, <2>2, <2>3 DEF u
  <1>5. ASSUME NEW x \in ToSet(s)
        PROVE  x \in ToSet(u)
    <2>1. PICK i \in DOMAIN s : s[i] = x
      BY <1>5, Members
    <2>2. i \in DOMAIN u /\ u[i] = x
      BY <1>2, <2>1 DEF u
    <2>3. QED
      BY <2>2 DEF ToSet
  <1>6. ASSUME NEW x \in ToSet(t)
        PROVE  x \in ToSet(u)
    <2>1. PICK i \in DOMAIN t : t[i] = x
      BY <1>6, Members
    <2>2. i + Len(s) \in DOMAIN u /\ u[i + Len(s)] = x
      BY <1>3, <2>1 DEF u
    <2>3. QED
      BY <2>2 DEF ToSet
  <1>7. QED
    BY <1>4, <1>5, <1>6 DEF u

LEMMA AppendedElements ==
  ASSUME NEW S, NEW s \in Seq(S), NEW x \in S
  PROVE  ToSet(Append(s, x)) = ToSet(s) \cup {x}
  <1>1. /\ DOMAIN s = 1..Len(s) /\ Len(s) \in Nat
        /\ DOMAIN Append(s, x) = 1..(Len(s) + 1)
        /\ \A i \in DOMAIN s : Append(s, x)[i] = s[i]
        /\ Append(s, x)[Len(s) + 1] = x
    BY SequenceSteps
  <1> DEFINE u == Append(s, x)
  <1> HIDE DEF u
  <1>2. /\ \A i \in DOMAIN u : (i \in DOMAIN s /\ u[i] = s[i]) \/ u[i] = x
        /\ \A i \in DOMAIN s : i \in DOMAIN u /\ u[i] = s[i]
        /\ \E i \in DOMAIN u : u[i] = x
    BY <1>1 DEF u
  <1>3. ToSet(u) = ToSet(s) \cup {x}
    BY <1>2 DEF ToSet
  <1>4. QED
    BY <1>3 DEF u

\* How sequences of committed events stay in the order of their numbers.
LEMMA RisingSteps ==
  ASSUME IInv, SeqInv, NEW s \in Seq(Committed), Rising(s)
  PROVE  /\ \A x \in Committed :
              (\A i \in DOMAIN s : seqOf[s[i]] < seqOf[x]) => Rising(Append(s, x))
         /\ s # <<>> => Rising(Tail(s)) /\ \A i \in DOMAIN Tail(s) : seqOf[Head(s)] < seqOf[Tail(s)[i]]
         /\ \A n \in 0..Len(s) : Rising(SubSeq(s, 1, n))
         /\ \A t \in Seq(Committed) : \A m \in Nat :
              /\ Rising(t)
              /\ \A i \in DOMAIN s : seqOf[s[i]] <= m
              /\ \A i \in DOMAIN t : seqOf[t[i]] > m
              => Rising(s \o t)
  <1>1. Len(s) \in Nat /\ DOMAIN s = 1..Len(s) /\ \A i \in DOMAIN s : s[i] \in Committed
    BY SequenceSteps
  <1>2. \A i \in DOMAIN s : seqOf[s[i]] \in Nat
    BY <1>1, CommittedNumbers
  <1>3. ASSUME NEW x \in Committed, \A i \in DOMAIN s : seqOf[s[i]] < seqOf[x]
        PROVE  Rising(Append(s, x))
    <2>1. /\ DOMAIN Append(s, x) = 1..(Len(s) + 1)
          /\ \A i \in DOMAIN s : Append(s, x)[i] = s[i]
          /\ Append(s, x)[Len(s) + 1] = x
      BY SequenceSteps
    <2>2. QED
      BY <1>1, <1>3, <2>1 DEF Rising
  <1>4. ASSUME s # <<>>
        PROVE  Rising(Tail(s)) /\ \A i \in DOMAIN Tail(s) : seqOf[Head(s)] < seqOf[Tail(s)[i]]
    <2>1. /\ Head(s) = s[1] /\ 1 \in DOMAIN s /\ DOMAIN Tail(s) = 1..(Len(s) - 1)
          /\ \A i \in DOMAIN Tail(s) : Tail(s)[i] = s[i + 1] /\ i + 1 \in DOMAIN s
      BY <1>4, SequenceSteps
    <2>2. QED
      BY <1>1, <2>1 DEF Rising
  <1>5. ASSUME NEW n \in 0..Len(s)
        PROVE  Rising(SubSeq(s, 1, n))
    <2>1. DOMAIN SubSeq(s, 1, n) = 1..n /\ \A i \in 1..n : SubSeq(s, 1, n)[i] = s[i] /\ i \in DOMAIN s
      BY SequenceSteps
    <2>2. QED
      BY <2>1 DEF Rising
  <1>6. ASSUME NEW t \in Seq(Committed), NEW m \in Nat, Rising(t),
               \A i \in DOMAIN s : seqOf[s[i]] <= m,
               \A i \in DOMAIN t : seqOf[t[i]] > m
        PROVE  Rising(s \o t)
    <2>1. \A i \in DOMAIN (s \o t) :
            \/ i \in DOMAIN s /\ (s \o t)[i] = s[i]
            \/ i - Len(s) \in DOMAIN t /\ i \notin DOMAIN s /\ (s \o t)[i] = t[i - Len(s)]
      BY SequencesJoined
    <2>2. /\ DOMAIN (s \o t) = 1..(Len(s) + Len(t)) /\ Len(t) \in Nat
          /\ DOMAIN t = 1..Len(t) /\ \A i \in DOMAIN t : t[i] \in Committed
      BY SequencesJoined, SequenceSteps
    <2>3. \A i \in DOMAIN t : seqOf[t[i]] \in Nat
      BY <2>2, CommittedNumbers
    <2>4. SUFFICES ASSUME NEW i \in DOMAIN (s \o t), NEW j \in DOMAIN (s \o t), i < j
                   PROVE  seqOf[(s \o t)[i]] < seqOf[(s \o t)[j]]
      BY DEF Rising
    <2>5. CASE i \in DOMAIN s /\ j \in DOMAIN s
      BY <1>1, <2>1, <2>4, <2>5 DEF Rising
    <2>6. CASE i \in DOMAIN s /\ j \notin DOMAIN s
      BY <1>2, <1>6, <2>1, <2>3, <2>6
    <2>7. CASE i \notin DOMAIN s
      <3>1. j \notin DOMAIN s
        BY <1>1, <2>2, <2>4, <2>7
      <3>2. i - Len(s) \in DOMAIN t /\ j - Len(s) \in DOMAIN t /\ i - Len(s) < j - Len(s)
        BY <1>1, <2>1, <2>2, <2>4, <2>7, <3>1
      <3>3. QED
        BY <1>6, <2>1, <2>7, <3>1, <3>2 DEF Rising
    <2>8. QED
      BY <2>5, <2>6, <2>7
  <1>7. QED
    BY <1>3, <1>4, <1>5, <1>6

LEMMA AskedSequences ==
  ASSUME NEW c \in Consumers, TypesAt(c), SourceAt(c)
  PROVE  /\ buffer[c] \in Seq(Asked(c)) /\ buffer[c] \in Seq(Committed)
         /\ chan[c] \in Seq(Asked(c)) /\ chan[c] \in Seq(Committed)
         /\ delivered[c] \in Seq(Asked(c)) /\ delivered[c] \in Seq(Committed)
  <1>1. ASSUME NEW s \in Seq(Calls), \A i \in DOMAIN s : s[i] \in Asked(c)
        PROVE  s \in Seq(Asked(c)) /\ s \in Seq(Committed)
    <2>1. Len(s) \in Nat /\ s \in [1..Len(s) -> Asked(c)]
      BY <1>1
    <2>2. Asked(c) \subseteq Committed
      BY DEF Asked
    <2>3. QED
      BY <2>1, <2>2
  <1>2. QED
    BY <1>1 DEF TypesAt, SourceAt

LEMMA LogSameFacts ==
  ASSUME LogSame
  PROVE  /\ Committed' = Committed /\ Marks' = Marks /\ seqOf' = seqOf
         /\ \A c : Asked(c)' = Asked(c)
         /\ \A a, b : Before(a, b)' <=> Before(a, b)
         /\ \A c \in Consumers : \A a : Missed(c, a) => Missed(c, a)'
         /\ \A s : Rising(s)' <=> Rising(s)
  <1>1. \A a : Late(a)' <=> Late(a)
    BY DEF LogSame, Late
  <1>2. \A c \in Consumers : \A a : Missed(c, a) => Missed(c, a)'
    BY <1>1 DEF LogSame, Missed
  <1>3. QED
    BY <1>2 DEF LogSame, Committed, Marks, Asked, Before, Rising

(***************************************************************************)
(* Every move keeps what is said of the stream.                            *)
(***************************************************************************)
LEMMA StillKeeps ==
  ASSUME NEW c \in Consumers, IInv, SeqInv, TypesAt(c), StreamAt(c), Still(c),
         Committed \subseteq Committed', \A a \in Committed : seqOf'[a] = seqOf[a]
  PROVE  StreamAt(c)'
  <1>1. SourceAt(c)'
    BY DEF StreamAt, SourceAt, Still, ConsumerSame, Asked
  <1>2. buffer[c] \in Seq(Committed) /\ chan[c] \in Seq(Committed) /\ delivered[c] \in Seq(Committed)
    BY AskedSequences DEF StreamAt
  <1>3. /\ \A i \in DOMAIN chan[c] : seqOf'[chan[c][i]] = seqOf[chan[c][i]]
        /\ \A i \in DOMAIN delivered[c] : seqOf'[delivered[c][i]] = seqOf[delivered[c][i]]
    BY <1>2
  <1>4. PositionAt(c)'
    BY <1>3 DEF StreamAt, PositionAt, Rising, Still, ConsumerSame, ReplaySame
  <1>5. Marks \subseteq Marks'
    BY DEF Marks
  <1>6. MarkAt(c)'
    BY <1>5 DEF StreamAt, MarkAt, Still, ConsumerSame, ReplaySame
  <1>7. QED
    BY <1>1, <1>4, <1>6 DEF StreamAt

LEMMA WrittenKeeps ==
  ASSUME NEW c \in Consumers, IInv, SeqInv, TypesAt(c), StreamAt(c), LogSame,
         NEW a \in Calls, Written(c, a)
  PROVE  StreamAt(c)'
  <1>1. chan[c] \in Seq(Asked(c)) /\ chan[c] \in Seq(Committed)
    BY AskedSequences DEF StreamAt
  <1>2. a \in Asked(c) /\ a \in Committed /\ seqOf[a] \in Nat /\ seqOf[a] > maxSeq[c]
    BY CommittedNumbers DEF Written, Asked
  <1>3. /\ DOMAIN chan[c] = 1..Len(chan[c]) /\ Len(chan[c]) \in Nat
        /\ DOMAIN chan'[c] = 1..(Len(chan[c]) + 1)
        /\ \A i \in DOMAIN chan[c] : chan'[c][i] = chan[c][i]
        /\ chan'[c][Len(chan[c]) + 1] = a
    BY <1>1, <1>2, SequenceSteps DEF Written
  <1>4. \A i \in DOMAIN chan'[c] : i \in DOMAIN chan[c] \/ chan'[c][i] = a
    BY <1>3
  <1>5. SourceAt(c)'
    BY <1>2, <1>3, <1>4, LogSameFacts DEF StreamAt, SourceAt, Written, ConsumerSame
  <1>6. /\ maxSeq[c] \in Nat /\ lastSeq[c] \in Nat /\ lastSeq[c] <= maxSeq[c]
        /\ \A i \in DOMAIN chan[c] : seqOf[chan[c][i]] <= maxSeq[c] /\ seqOf[chan[c][i]] \in Nat
                                     /\ seqOf[chan[c][i]] > lastSeq[c]
    BY <1>1, CommittedNumbers DEF StreamAt, PositionAt, TypesAt, Written, Open
  <1>7. Rising(chan'[c])
    <2>1. \A i \in DOMAIN chan[c] : seqOf[chan[c][i]] < seqOf[a]
      BY <1>2, <1>6
    <2>2. QED
      BY <1>1, <1>2, <2>1, RisingSteps DEF Written, StreamAt, PositionAt
  <1>8. \A i \in DOMAIN chan'[c] : seqOf[chan'[c][i]] > lastSeq[c] /\ seqOf[chan'[c][i]] <= seqOf[a]
    BY <1>2, <1>3, <1>4, <1>6
  <1>9. PositionAt(c)'
    BY <1>2, <1>6, <1>7, <1>8, LogSameFacts
    DEF StreamAt, PositionAt, Written, ConsumerSame, ReplaySame
  <1>10. MarkAt(c)'
    <2>1. seqOf[a] \in Marks
      BY <1>2 DEF Marks
    <2>2. QED
      BY <2>1, LogSameFacts DEF StreamAt, MarkAt, Written, ConsumerSame, ReplaySame
  <1>11. QED
    BY <1>5, <1>9, <1>10 DEF StreamAt

LEMMA HeldKeeps ==
  ASSUME NEW c \in Consumers, IInv, SeqInv, TypesAt(c), StreamAt(c), LogSame,
         NEW a \in Calls, Held(c, a)
  PROVE  StreamAt(c)'
  <1>1. buffer[c] \in Seq(Asked(c)) /\ a \in Asked(c)
    BY AskedSequences DEF StreamAt, Held
  <1>2. \A i \in DOMAIN buffer'[c] : buffer'[c][i] \in Asked(c)
    BY <1>1, SequenceSteps DEF Held
  <1>3. SourceAt(c)'
    BY <1>2, LogSameFacts DEF StreamAt, SourceAt, Held, ConsumerSame
  <1>4. PositionAt(c)' /\ MarkAt(c)'
    BY LogSameFacts DEF StreamAt, PositionAt, MarkAt, Held, ConsumerSame, ReplaySame
  <1>5. QED
    BY <1>3, <1>4 DEF StreamAt

LEMMA EndedKeeps ==
  ASSUME NEW c \in Consumers, IInv, SeqInv, TypesAt(c), StreamAt(c), LogSame, Ended(c)
  PROVE  StreamAt(c)'
  <1>1. chan[c] \in Seq(Committed)
    BY AskedSequences DEF StreamAt
  <1>2. PICK n \in 0..Len(chan[c]) : chan'[c] = SubSeq(chan[c], 1, n)
    BY DEF Ended
  <1>3. \A i \in DOMAIN chan'[c] : i \in DOMAIN chan[c] /\ chan'[c][i] = chan[c][i]
    BY <1>1, <1>2, SequenceSteps
  <1>4. Rising(chan'[c])
    BY <1>1, <1>2, RisingSteps DEF StreamAt, PositionAt
  <1>5. SourceAt(c)'
    BY <1>3, LogSameFacts DEF StreamAt, SourceAt, Ended, ConsumerSame
  <1>6. PositionAt(c)' /\ MarkAt(c)'
    BY <1>3, <1>4, LogSameFacts
    DEF StreamAt, PositionAt, MarkAt, Ended, ConsumerSame, ReplaySame, Open
  <1>7. QED
    BY <1>5, <1>6 DEF StreamAt

LEMMA OpenedKeeps ==
  ASSUME NEW c \in Consumers, IInv, SeqInv, TypesAt(c), StreamAt(c), LogSame, Opened(c)
  PROVE  StreamAt(c)'
  <1>1. SourceAt(c)'
    BY LogSameFacts DEF StreamAt, SourceAt, Opened, ConsumerSame
  <1>2. PositionAt(c)' /\ MarkAt(c)'
    BY LogSameFacts DEF StreamAt, SourceAt, PositionAt, MarkAt, Opened, ConsumerSame, TypesAt, Open
  <1>3. QED
    BY <1>1, <1>2 DEF StreamAt

LEMMA BoundedKeeps ==
  ASSUME NEW c \in Consumers, IInv, SeqInv, TypesAt(c), StreamAt(c), LogSame, Bounded(c)
  PROVE  StreamAt(c)'
  <1>1. SourceAt(c)'
    BY LogSameFacts DEF StreamAt, SourceAt, Bounded, ConsumerSame
  <1>2. bound'[c] \in Marks
    BY BoundIsHighest DEF Bounded
  <1>3. PositionAt(c)' /\ MarkAt(c)'
    BY <1>2, LogSameFacts DEF StreamAt, PositionAt, MarkAt, Bounded, ConsumerSame, TypesAt, Open
  <1>4. QED
    BY <1>1, <1>3 DEF StreamAt

LEMMA AbandonedKeeps ==
  ASSUME NEW c \in Consumers, IInv, SeqInv, TypesAt(c), StreamAt(c), LogSame, Abandoned(c)
  PROVE  StreamAt(c)'
  BY LogSameFacts
  DEF StreamAt, SourceAt, PositionAt, MarkAt, Rising, Abandoned, ConsumerSame, TypesAt, Open

LEMMA ReceivedKeeps ==
  ASSUME NEW c \in Consumers, IInv, SeqInv, TypesAt(c), StreamAt(c), LogSame, Received(c)
  PROVE  StreamAt(c)'
  <1> DEFINE h == Head(chan[c])
  <1>1. /\ chan[c] \in Seq(Asked(c)) /\ chan[c] \in Seq(Committed)
        /\ delivered[c] \in Seq(Asked(c)) /\ delivered[c] \in Seq(Committed)
    BY AskedSequences DEF StreamAt
  <1>2. /\ 1 \in DOMAIN chan[c] /\ h = chan[c][1] /\ h \in Asked(c) /\ h \in Committed
        /\ \A i \in DOMAIN chan'[c] : chan'[c][i] = chan[c][i + 1] /\ i + 1 \in DOMAIN chan[c]
    BY <1>1, SequenceSteps DEF Received
  <1>3. Rising(chan'[c]) /\ \A i \in DOMAIN chan'[c] : seqOf[h] < seqOf[chan'[c][i]]
    BY <1>1, RisingSteps DEF Received, StreamAt, PositionAt
  <1> HIDE DEF h
  <1>4. seqOf[h] \in Nat /\ seqOf[h] > lastSeq[c] /\ lastSeq[c] \in Nat
    BY <1>2, CommittedNumbers DEF StreamAt, PositionAt, TypesAt
  <1>5. lastSeq'[c] = seqOf[h]
    <2>1. lastSeq'[c] = IF lastSeq[c] >= seqOf[h] THEN lastSeq[c] ELSE seqOf[h]
      BY <1>4, MaxOfTwo DEF Received, h
    <2>2. QED
      BY <1>4, <2>1
  <1>6. /\ DOMAIN delivered[c] = 1..Len(delivered[c]) /\ Len(delivered[c]) \in Nat
        /\ DOMAIN delivered'[c] = 1..(Len(delivered[c]) + 1)
        /\ \A i \in DOMAIN delivered[c] : delivered'[c][i] = delivered[c][i] /\ delivered[c][i] \in Committed
        /\ delivered'[c][Len(delivered[c]) + 1] = h
    BY <1>1, <1>2, SequenceSteps DEF Received, h
  <1>7. \A i \in DOMAIN delivered'[c] : i \in DOMAIN delivered[c] \/ delivered'[c][i] = h
    BY <1>6
  <1>8. \A i \in DOMAIN delivered[c] : seqOf[delivered[c][i]] \in Nat
                                       /\ seqOf[delivered[c][i]] <= lastSeq[c]
    BY <1>6, CommittedNumbers DEF StreamAt, PositionAt
  <1>9. Rising(delivered'[c])
    <2>1. \A i \in DOMAIN delivered[c] : seqOf[delivered[c][i]] < seqOf[h]
      BY <1>4, <1>8
    <2>2. QED
      BY <1>1, <1>2, <2>1, RisingSteps DEF Received, StreamAt, PositionAt, h
  <1>10. \A i \in DOMAIN delivered'[c] : seqOf[delivered'[c][i]] <= seqOf[h]
    BY <1>4, <1>6, <1>7, <1>8
  <1>11. SourceAt(c)'
    <2>1. \A i \in DOMAIN delivered'[c] : delivered'[c][i] \in Asked(c)
      BY <1>2, <1>6, <1>7 DEF StreamAt, SourceAt
    <2>2. \A i \in DOMAIN chan'[c] : chan'[c][i] \in Asked(c)
      BY <1>2 DEF StreamAt, SourceAt
    <2>3. phase[c] # "none"
      BY DEF StreamAt, SourceAt, Received
    <2>4. QED
      BY <2>1, <2>2, <2>3, LogSameFacts DEF StreamAt, SourceAt, Received
  <1>12. PositionAt(c)'
    <2>1. phase[c] \in Open => seqOf[h] <= maxSeq[c]
                               /\ \A i \in DOMAIN chan'[c] : seqOf[chan'[c][i]] <= maxSeq[c]
      BY <1>2 DEF StreamAt, PositionAt
    <2>2. QED
      BY <1>3, <1>5, <1>9, <1>10, <2>1, LogSameFacts DEF StreamAt, PositionAt, Received, ReplaySame
  <1>13. MarkAt(c)'
    <2>1. seqOf[h] \in Marks
      BY <1>2 DEF Marks
    <2>2. QED
      BY <1>5, <2>1, LogSameFacts DEF StreamAt, MarkAt, Received, ReplaySame
  <1>14. QED
    BY <1>11, <1>12, <1>13 DEF StreamAt

\* What a stream in replay writes lies above what it has written.
LEMMA BatchAbove ==
  ASSUME NEW c \in Consumers, IInv, SeqInv, TypesAt(c), StreamAt(c), phase[c] = "replay"
  PROVE  /\ Batch(c) \in Seq(Asked(c)) /\ Batch(c) \in Seq(Committed) /\ Rising(Batch(c))
         /\ \A i \in DOMAIN Batch(c) : Batch(c)[i] \in Asked(c) /\ seqOf[Batch(c)[i]] > maxSeq[c]
         /\ Reached(Batch(c), maxSeq[c]) \in Nat /\ Reached(Batch(c), maxSeq[c]) >= maxSeq[c]
         /\ \A i \in DOMAIN Batch(c) : seqOf[Batch(c)[i]] <= Reached(Batch(c), maxSeq[c])
         /\ Reached(Batch(c), maxSeq[c]) = maxSeq[c]
            \/ \E i \in DOMAIN Batch(c) : seqOf[Batch(c)[i]] = Reached(Batch(c), maxSeq[c])
         /\ Batch(c) # <<>> => Reached(Batch(c), maxSeq[c]) = seqOf[Last(Batch(c))]
         /\ Reached(Batch(c), maxSeq[c]) \in Marks
  <1> DEFINE rows == Batch(c)
  <1>1. cursor[c] = maxSeq[c] /\ maxSeq[c] \in Nat /\ maxSeq[c] \in Marks
        /\ cursor[c] \in Nat /\ bound[c] \in Nat
    BY DEF StreamAt, PositionAt, MarkAt, TypesAt, Open
  <1>2. /\ rows \in Seq(Asked(c)) /\ Rising(rows)
        /\ \A i \in DOMAIN rows : seqOf[rows[i]] > cursor[c] /\ seqOf[rows[i]] <= bound[c]
    BY <1>1, BatchRows
  <1> HIDE DEF rows
  <1>3. Asked(c) \subseteq Committed
    BY DEF Asked
  <1>4. rows \in Seq(Committed)
    BY <1>2, <1>3, SeqMonotonic
  <1>5. \A i \in DOMAIN rows : rows[i] \in Asked(c) /\ rows[i] \in Committed /\ seqOf[rows[i]] > maxSeq[c]
    BY <1>1, <1>2, <1>3
  <1>6. /\ Reached(rows, maxSeq[c]) \in Nat /\ Reached(rows, maxSeq[c]) >= maxSeq[c]
        /\ \A i \in DOMAIN rows : seqOf[rows[i]] <= Reached(rows, maxSeq[c])
        /\ Reached(rows, maxSeq[c]) = maxSeq[c]
           \/ \E i \in DOMAIN rows : seqOf[rows[i]] = Reached(rows, maxSeq[c])
        /\ rows # <<>> => Reached(rows, maxSeq[c]) = seqOf[Last(rows)]
    BY <1>1, <1>2, <1>4, <1>5, ReachedHighest
  <1>7. Reached(rows, maxSeq[c]) \in Marks
    BY <1>1, <1>5, <1>6 DEF Marks
  <1>8. QED
    BY <1>2, <1>4, <1>5, <1>6, <1>7 DEF rows

\* A stream that writes rising rows above what it has written.
LEMMA WritesKeep ==
  ASSUME NEW c \in Consumers, IInv, SeqInv, TypesAt(c), StreamAt(c), LogSame,
         phase[c] \in Open, phase'[c] \in {"replay", "live"}, bound[c] \in Marks,
         NEW out \in Seq(Asked(c)), Rising(out), chan'[c] = chan[c] \o out,
         \A i \in DOMAIN out : seqOf[out[i]] > maxSeq[c] /\ seqOf[out[i]] <= maxSeq'[c],
         maxSeq'[c] \in Marks, maxSeq'[c] >= maxSeq[c],
         phase'[c] = "replay" => cursor'[c] = maxSeq'[c],
         bound'[c] = bound[c],
         buffer'[c] = <<>> \/ (buffer'[c] = buffer[c] /\ phase'[c] = "replay"), ConsumerSame(c)
  PROVE  StreamAt(c)'
  <1>1. chan[c] \in Seq(Asked(c)) /\ chan[c] \in Seq(Committed)
    BY AskedSequences DEF StreamAt
  <1>2. out \in Seq(Committed) /\ \A i \in DOMAIN out : out[i] \in Asked(c) /\ out[i] \in Committed
    <2>1. Asked(c) \subseteq Committed
      BY DEF Asked
    <2>2. QED
      BY <2>1, SeqMonotonic
  <1>3. /\ \A i \in DOMAIN chan[c] : chan[c][i] \in Asked(c) /\ chan[c][i] \in Committed
                                     /\ seqOf[chan[c][i]] <= maxSeq[c] /\ seqOf[chan[c][i]] > lastSeq[c]
        /\ lastSeq[c] <= maxSeq[c] /\ maxSeq[c] \in Nat /\ lastSeq[c] \in Nat /\ maxSeq'[c] \in Nat
    BY <1>1, CommittedNumbers DEF StreamAt, SourceAt, PositionAt, TypesAt, Asked
  <1>4. \A i \in DOMAIN chan'[c] : \/ \E j \in DOMAIN chan[c] : chan'[c][i] = chan[c][j]
                                   \/ \E j \in DOMAIN out : chan'[c][i] = out[j]
    <2>1. out \in Seq(Asked(c)) /\ chan[c] \in Seq(Asked(c))
      BY <1>1
    <2>2. ToSet(chan[c] \o out) = ToSet(chan[c]) \cup ToSet(out)
      BY <2>1, JoinedElements
    <2>3. ToSet(chan'[c]) = ToSet(chan[c]) \cup ToSet(out)
      BY <2>2
    <2>4. TAKE i \in DOMAIN chan'[c]
    <2>5. chan'[c][i] \in ToSet(chan'[c])
      BY DEF ToSet
    <2>6. chan'[c][i] \in ToSet(chan[c]) \/ chan'[c][i] \in ToSet(out)
      BY <2>3, <2>5
    <2>7. QED
      BY <2>6, Members
  <1>5. \A i \in DOMAIN chan'[c] : chan'[c][i] \in Asked(c)
    BY <1>2, <1>3, <1>4
  <1>6. \A i \in DOMAIN chan'[c] : seqOf[chan'[c][i]] > lastSeq[c] /\ seqOf[chan'[c][i]] <= maxSeq'[c]
    <2>1. \A j \in DOMAIN chan[c] : seqOf[chan[c][j]] \in Nat
      BY <1>3, CommittedNumbers
    <2>2. \A j \in DOMAIN out : seqOf[out[j]] \in Nat
      BY <1>2, CommittedNumbers
    <2>3. /\ \A j \in DOMAIN chan[c] :
                seqOf[chan[c][j]] > lastSeq[c] /\ seqOf[chan[c][j]] <= maxSeq'[c]
          /\ \A j \in DOMAIN out : seqOf[out[j]] > lastSeq[c] /\ seqOf[out[j]] <= maxSeq'[c]
      BY <1>3, <2>1, <2>2
    <2>4. QED
      BY <1>4, <2>3
  <1>7. Rising(chan'[c])
    BY <1>1, <1>2, <1>3, RisingSteps DEF StreamAt, PositionAt
  <1>8. SourceAt(c)'
    BY <1>5, LogSameFacts DEF StreamAt, SourceAt, ConsumerSame
  <1>9. PositionAt(c)'
    <2>1. lastSeq[c] <= maxSeq'[c]
      BY <1>3
    <2>2. QED
      BY <1>6, <1>7, <2>1, LogSameFacts DEF StreamAt, PositionAt, ConsumerSame
  <1>10. MarkAt(c)'
    BY LogSameFacts DEF StreamAt, MarkAt, ConsumerSame
  <1>11. QED
    BY <1>8, <1>9, <1>10 DEF StreamAt

LEMMA BatchMoreKeeps ==
  ASSUME NEW c \in Consumers, IInv, SeqInv, TypesAt(c), StreamAt(c), LogSame, BatchMore(c)
  PROVE  StreamAt(c)'
  <1>1. phase[c] = "replay" /\ phase'[c] = "replay" /\ bound[c] \in Marks /\ Len(Batch(c)) = ReplayBatch
    BY DEF BatchMore, StreamAt, MarkAt
  <1>2. Batch(c) # <<>>
    BY <1>1, StreamAssumption
  <1>3. cursor'[c] = maxSeq'[c]
    BY <1>1, <1>2, BatchAbove DEF BatchMore
  <1>4. QED
    BY <1>1, <1>3, BatchAbove, WritesKeep DEF BatchMore, Open

\* What the last batch and the flush write.
LEMMA FlushAbove ==
  ASSUME NEW c \in Consumers, IInv, SeqInv, TypesAt(c), StreamAt(c), phase[c] = "replay",
         NEW reached, reached = Reached(Batch(c), maxSeq[c]),
         NEW flushed, flushed = Fresh(buffer[c], reached)
  PROVE  /\ flushed \in Seq(Asked(c)) /\ flushed \in Seq(Committed) /\ Rising(flushed)
         /\ ToSet(flushed) \subseteq ToSet(buffer[c])
         /\ Batch(c) \o flushed \in Seq(Asked(c)) /\ Rising(Batch(c) \o flushed)
         /\ Reached(flushed, reached) \in Nat /\ Reached(flushed, reached) >= reached
         /\ Reached(flushed, reached) \in Marks
         /\ Reached(flushed, reached) = reached
            \/ \E i \in DOMAIN flushed : seqOf[flushed[i]] = Reached(flushed, reached)
         /\ \A i \in DOMAIN (Batch(c) \o flushed) :
              /\ seqOf[(Batch(c) \o flushed)[i]] > maxSeq[c]
              /\ seqOf[(Batch(c) \o flushed)[i]] <= Reached(flushed, reached)
  <1>1. /\ Batch(c) \in Seq(Asked(c)) /\ Batch(c) \in Seq(Committed) /\ Rising(Batch(c))
        /\ \A i \in DOMAIN Batch(c) : Batch(c)[i] \in Committed /\ seqOf[Batch(c)[i]] > maxSeq[c]
        /\ reached \in Nat /\ reached >= maxSeq[c] /\ reached \in Marks /\ maxSeq[c] \in Nat
        /\ \A i \in DOMAIN Batch(c) : seqOf[Batch(c)[i]] <= reached
    BY BatchAbove DEF Asked, TypesAt
  <1>2. buffer[c] \in Seq(Asked(c)) /\ buffer[c] \in Seq(Committed)
    BY AskedSequences DEF StreamAt
  <1>3. /\ flushed \in Seq(Committed) /\ Rising(flushed)
        /\ \A i \in DOMAIN flushed : seqOf[flushed[i]] > reached
                                     /\ \E k \in DOMAIN buffer[c] : flushed[i] = buffer[c][k]
    BY <1>1, <1>2, FreshRows
  <1>4. \A i \in DOMAIN flushed : flushed[i] \in Asked(c) /\ flushed[i] \in Committed
    BY <1>2, <1>3
  <1>5. flushed \in Seq(Asked(c))
    <2>1. Len(flushed) \in Nat /\ flushed \in [1..Len(flushed) -> Asked(c)]
      BY <1>3, <1>4
    <2>2. QED
      BY <2>1
  <1>6. Batch(c) \o flushed \in Seq(Asked(c)) /\ Rising(Batch(c) \o flushed)
    <2>1. Batch(c) \o flushed \in Seq(Asked(c))
      BY <1>1, <1>5, SequencesJoined
    <2>2. Rising(Batch(c) \o flushed)
      BY <1>1, <1>3, RisingSteps
    <2>3. QED
      BY <2>1, <2>2
  <1>7. /\ Reached(flushed, reached) \in Nat /\ Reached(flushed, reached) >= reached
        /\ \A i \in DOMAIN flushed : seqOf[flushed[i]] <= Reached(flushed, reached)
        /\ Reached(flushed, reached) = reached
           \/ \E i \in DOMAIN flushed : seqOf[flushed[i]] = Reached(flushed, reached)
    BY <1>1, <1>3, ReachedHighest
  <1>8. Reached(flushed, reached) \in Marks
    BY <1>1, <1>4, <1>7 DEF Marks
  <1>9. \A i \in DOMAIN (Batch(c) \o flushed) :
          \/ \E j \in DOMAIN Batch(c) : (Batch(c) \o flushed)[i] = Batch(c)[j]
          \/ \E j \in DOMAIN flushed : (Batch(c) \o flushed)[i] = flushed[j]
    <2> DEFINE joined == Batch(c) \o flushed
    <2>1. ToSet(joined) = ToSet(Batch(c)) \cup ToSet(flushed)
      BY <1>1, <1>5, JoinedElements
    <2> HIDE DEF joined
    <2>2. \A i \in DOMAIN joined :
            \/ \E j \in DOMAIN Batch(c) : joined[i] = Batch(c)[j]
            \/ \E j \in DOMAIN flushed : joined[i] = flushed[j]
      <3>1. ASSUME NEW i \in DOMAIN joined
            PROVE  \/ \E j \in DOMAIN Batch(c) : joined[i] = Batch(c)[j]
                   \/ \E j \in DOMAIN flushed : joined[i] = flushed[j]
        <4>1. joined[i] \in ToSet(joined)
          BY DEF ToSet
        <4>2. CASE joined[i] \in ToSet(Batch(c))
          BY <4>2, Members
        <4>3. CASE joined[i] \in ToSet(flushed)
          BY <4>3, Members
        <4>4. QED
          BY <2>1, <4>1, <4>2, <4>3
      <3>2. QED
        BY <3>1
    <2>3. QED
      BY <2>2 DEF joined
  <1>10. /\ \A j \in DOMAIN Batch(c) : seqOf[Batch(c)[j]] \in Nat
         /\ \A j \in DOMAIN flushed : seqOf[flushed[j]] \in Nat
    BY <1>1, <1>4, CommittedNumbers
  <1>11. \A i \in DOMAIN (Batch(c) \o flushed) :
           /\ seqOf[(Batch(c) \o flushed)[i]] > maxSeq[c]
           /\ seqOf[(Batch(c) \o flushed)[i]] <= Reached(flushed, reached)
    BY <1>1, <1>3, <1>7, <1>9, <1>10
  <1>12. ToSet(flushed) \subseteq ToSet(buffer[c])
    <2>1. ASSUME NEW x \in ToSet(flushed)
          PROVE  x \in ToSet(buffer[c])
      <3>1. PICK i \in DOMAIN flushed : flushed[i] = x
        BY <2>1, Members
      <3>2. PICK k \in DOMAIN buffer[c] : flushed[i] = buffer[c][k]
        BY <1>3
      <3>3. QED
        BY <3>1, <3>2, Members
    <2>2. QED
      BY <2>1
  <1>13. QED
    BY <1>3, <1>5, <1>6, <1>7, <1>8, <1>11, <1>12

LEMMA BatchLastKeeps ==
  ASSUME NEW c \in Consumers, IInv, SeqInv, TypesAt(c), StreamAt(c), LogSame, BatchLast(c)
  PROVE  StreamAt(c)'
  <1> DEFINE reached == Reached(Batch(c), maxSeq[c])
             flushed == Fresh(buffer[c], reached)
  <1>1. /\ phase[c] = "replay" /\ phase'[c] = "live" /\ bound[c] \in Marks
        /\ maxSeq'[c] = Reached(flushed, reached) /\ chan'[c] = chan[c] \o (Batch(c) \o flushed)
        /\ buffer'[c] = <<>> /\ bound'[c] = bound[c] /\ ConsumerSame(c)
    BY DEF BatchLast, StreamAt, MarkAt, ReplaySame
  <1>2. reached \in Nat /\ reached >= maxSeq[c] /\ maxSeq[c] \in Nat
    BY <1>1, BatchAbove DEF TypesAt
  <1> HIDE DEF reached, flushed
  <1>3. /\ Batch(c) \o flushed \in Seq(Asked(c)) /\ Rising(Batch(c) \o flushed)
        /\ Reached(flushed, reached) \in Nat /\ Reached(flushed, reached) >= reached
        /\ Reached(flushed, reached) \in Marks
        /\ \A i \in DOMAIN (Batch(c) \o flushed) :
             /\ seqOf[(Batch(c) \o flushed)[i]] > maxSeq[c]
             /\ seqOf[(Batch(c) \o flushed)[i]] <= Reached(flushed, reached)
    BY <1>1, FlushAbove DEF reached, flushed
  <1>4. maxSeq'[c] >= maxSeq[c]
    BY <1>1, <1>2, <1>3
  <1>5. QED
    BY <1>1, <1>3, <1>4, WritesKeep DEF Open

LEMMA MoveKeeps ==
  ASSUME NEW c \in Consumers, IInv, SeqInv, TypesAt(c), StreamAt(c), LogSame, StreamMove(c)
  PROVE  StreamAt(c)'
  <1>1. Committed \subseteq Committed' /\ \A a \in Committed : seqOf'[a] = seqOf[a]
    BY LogSameFacts
  <1>2. QED
    BY <1>1, StillKeeps, WrittenKeeps, HeldKeeps, EndedKeeps, OpenedKeeps, BoundedKeeps,
       BatchMoreKeeps, BatchLastKeeps, ReceivedKeeps, AbandonedKeeps DEF StreamMove

(***************************************************************************)
(* Every move keeps what is said of the events it passes.                  *)
(***************************************************************************)
\* The log orders its events; one that commits before another with a lower
\* sequence makes that one Late.
LEMMA LogOrder ==
  ASSUME IInv
  PROVE  /\ \A a, b \in Committed : a # b => Before(a, b) \/ Before(b, a)
         /\ \A a, b : Before(a, b) => /\ a \in Committed /\ b \in Committed
                                      /\ a # b /\ ~Before(b, a)
                                      /\ seqOf[a] > seqOf[b] => Late(b)
  <1>1. \A i, j \in DOMAIN committed : committed[i] = committed[j] => i = j
    BY DEF IInv, LogInv
  <1>2. DOMAIN committed \subseteq Nat
    BY DEF IInv, AppendTypeOK
  <1>3. ASSUME NEW a \in Committed, NEW b \in Committed, a # b
        PROVE  Before(a, b) \/ Before(b, a)
    <2>1. PICK i \in DOMAIN committed : committed[i] = a
      BY DEF Committed
    <2>2. PICK j \in DOMAIN committed : committed[j] = b
      BY DEF Committed
    <2>3. i < j \/ j < i
      BY <1>2, <1>3, <2>1, <2>2
    <2>4. QED
      BY <2>1, <2>2, <2>3 DEF Before
  <1>4. ASSUME NEW a, NEW b, Before(a, b)
        PROVE  /\ a \in Committed /\ b \in Committed /\ a # b /\ ~Before(b, a)
               /\ seqOf[a] > seqOf[b] => Late(b)
    <2>1. PICK i \in DOMAIN committed, j \in DOMAIN committed :
            i < j /\ committed[i] = a /\ committed[j] = b
      BY <1>4 DEF Before
    <2>2. a \in Committed /\ b \in Committed
      BY <2>1 DEF Committed
    <2>3. a # b
      BY <1>1, <1>2, <2>1
    <2>4. ~Before(b, a)
      <3>1. SUFFICES ASSUME NEW k \in DOMAIN committed, NEW l \in DOMAIN committed,
                            k < l, committed[k] = b, committed[l] = a
                     PROVE  FALSE
        BY DEF Before
      <3>2. k = j /\ l = i
        BY <1>1, <2>1, <3>1
      <3>3. QED
        BY <1>2, <2>1, <3>1, <3>2
    <2>5. seqOf[a] > seqOf[b] => Late(b)
      BY <2>1 DEF Late
    <2>6. QED
      BY <2>2, <2>3, <2>4, <2>5
  <1>5. QED
    BY <1>3, <1>4

\* What was covered stays so when no event is lost on the way.
LEMMA CoveredStays ==
  ASSUME NEW c \in Consumers, LogSame, Got(c) \subseteq Got(c)'
  PROVE  \A m : Covered(c, m) => Covered(c, m)'
  BY LogSameFacts DEF Covered

LEMMA GotSame ==
  ASSUME NEW c, chan'[c] = chan[c], delivered'[c] = delivered[c]
  PROVE  Got(c)' = Got(c)
  BY DEF Got, Seen, ToSet

LEMMA GotFacts ==
  ASSUME NEW c \in Consumers, TypesAt(c)
  PROVE  /\ \A i \in DOMAIN chan[c] : chan[c][i] \in Got(c)
         /\ \A i \in DOMAIN delivered[c] : delivered[c][i] \in Got(c)
         /\ \A a \in Got(c) : \/ \E i \in DOMAIN chan[c] : chan[c][i] = a
                              \/ \E i \in DOMAIN delivered[c] : delivered[c][i] = a
  BY DEF Got, Seen, ToSet

LEMMA KeptCovers ==
  ASSUME NEW c \in Consumers, LogSame, CoverAt(c), chan'[c] = chan[c], ConsumerSame(c),
         phase'[c] \in Open => /\ maxSeq'[c] = maxSeq[c] /\ phase[c] \in Open
                               \/ maxSeq'[c] = lastSeq[c],
         phase'[c] = "live" => phase[c] = "live" /\ bound'[c] = bound[c]
  PROVE  CoverAt(c)'
  <1>1. \A m : Covered(c, m) => Covered(c, m)'
    BY GotSame, CoveredStays DEF ConsumerSame
  <1>2. Covered(c, lastSeq[c])' /\ lastSeq'[c] = lastSeq[c]
    BY <1>1 DEF CoverAt, ConsumerSame
  <1>3. QED
    BY <1>1, LogSameFacts DEF CoverAt, ConsumerSame

\* What a cut stream has lost lies behind what it has not: the rows are rising.
LEMMA CutCovers ==
  ASSUME NEW c \in Consumers, IInv, SeqInv, TypesAt(c), StreamAt(c), LogSame, CoverAt(c),
         ConsumerSame(c), phase'[c] \notin Open,
         NEW n \in 0..Len(chan[c]), chan'[c] = SubSeq(chan[c], 1, n)
  PROVE  CoverAt(c)'
  <1>1. /\ Len(chan[c]) \in Nat /\ DOMAIN chan[c] = 1..Len(chan[c])
        /\ DOMAIN chan'[c] = 1..n /\ \A i \in 1..n : chan'[c][i] = chan[c][i] /\ i \in DOMAIN chan[c]
    BY SequenceSteps DEF TypesAt
  <1>2. /\ \A i \in DOMAIN chan[c] : /\ chan[c][i] \in Committed /\ seqOf[chan[c][i]] \in Nat
                                     /\ seqOf[chan[c][i]] > lastSeq[c]
        /\ lastSeq[c] \in Nat
    BY CommittedNumbers DEF TypesAt, StreamAt, SourceAt, PositionAt, Asked
  <1>3. \A i, j \in DOMAIN chan[c] : i < j => seqOf[chan[c][i]] < seqOf[chan[c][j]]
    BY DEF StreamAt, PositionAt, Rising
  <1>4. ASSUME NEW m \in Nat, Covered(c, m),
               \A i \in DOMAIN chan[c] : i > n => seqOf[chan[c][i]] > m
        PROVE  Covered(c, m)'
    <2>1. SUFFICES ASSUME NEW a \in Asked(c), seqOf[a] <= m, a \in Got(c)
                   PROVE  a \in Got(c)'
      BY <1>4, LogSameFacts DEF Covered
    <2>2. CASE a \in Seen(c)
      BY <2>2 DEF Got, Seen, ConsumerSame
    <2>3. CASE a \in ToSet(chan[c])
      <3>1. PICK i \in DOMAIN chan[c] : chan[c][i] = a
        BY <2>3, Members
      <3>2. ~(i > n)
        BY <1>2, <1>4, <2>1, <3>1
      <3>3. i \in DOMAIN chan'[c] /\ chan'[c][i] = a
        BY <1>1, <3>1, <3>2
      <3>4. QED
        BY <3>3 DEF Got, ToSet
    <2>4. QED
      BY <2>1, <2>2, <2>3 DEF Got
  <1>5. Covered(c, lastSeq[c])'
    <2>1. lastSeq'[c] = lastSeq[c]
      BY DEF ConsumerSame
    <2>2. \A m : m = lastSeq[c] => Covered(c, m)'
      BY <1>2, <1>4 DEF CoverAt
    <2>3. QED
      BY <2>1, <2>2
  <1>6. \A i \in DOMAIN chan'[c] : Covered(c, seqOf[chan[c][i]])'
    <2>1. TAKE i \in DOMAIN chan'[c]
    <2>2. i \in DOMAIN chan[c] /\ i <= n /\ chan'[c][i] = chan[c][i]
      BY <1>1
    <2>3. \A j \in DOMAIN chan[c] : j > n => seqOf[chan[c][j]] > seqOf[chan[c][i]]
      <3>1. \A j \in DOMAIN chan[c] : j > n => i < j
        BY <1>1, <2>2
      <3>2. QED
        BY <1>2, <1>3, <2>2, <3>1
    <2>4. \A m : m = seqOf[chan[c][i]] => Covered(c, m)'
      BY <1>2, <1>4, <2>2, <2>3 DEF CoverAt
    <2>5. seqOf'[chan'[c][i]] = seqOf[chan[c][i]]
      BY <2>2 DEF LogSame
    <2>6. QED
      BY <2>4, <2>5
  <1>7. QED
    BY <1>5, <1>6 DEF CoverAt, Open

LEMMA ReceivedCovers ==
  ASSUME NEW c \in Consumers, IInv, SeqInv, TypesAt(c), StreamAt(c), LogSame, CoverAt(c), Received(c)
  PROVE  Got(c)' = Got(c) /\ CoverAt(c)'
  <1> DEFINE h == Head(chan[c])
  <1>1. /\ h = chan[c][1] /\ 1 \in DOMAIN chan[c] /\ DOMAIN chan[c] = 1..Len(chan[c]) /\ Len(chan[c]) \in Nat
        /\ DOMAIN chan'[c] = 1..(Len(chan[c]) - 1)
        /\ \A i \in DOMAIN chan'[c] : chan'[c][i] = chan[c][i + 1] /\ i + 1 \in DOMAIN chan[c]
    BY SequenceSteps DEF Received, TypesAt
  <1>2. h \in Calls
    BY <1>1 DEF TypesAt
  <1>3. /\ DOMAIN delivered[c] = 1..Len(delivered[c]) /\ Len(delivered[c]) \in Nat
        /\ DOMAIN delivered'[c] = 1..(Len(delivered[c]) + 1)
        /\ \A i \in DOMAIN delivered[c] : delivered'[c][i] = delivered[c][i]
        /\ delivered'[c][Len(delivered[c]) + 1] = h
    BY <1>2, SequenceSteps DEF Received, TypesAt
  <1> HIDE DEF h
  <1>4. ToSet(chan[c]) = {h} \cup ToSet(chan'[c])
    <2>1. \A i \in DOMAIN chan[c] : i = 1 \/ (i - 1 \in DOMAIN chan'[c] /\ chan'[c][i - 1] = chan[c][i])
      BY <1>1
    <2>2. \A x \in ToSet(chan[c]) : x = h \/ x \in ToSet(chan'[c])
      BY <1>1, <2>1 DEF ToSet
    <2>3. h \in ToSet(chan[c]) /\ \A x \in ToSet(chan'[c]) : x \in ToSet(chan[c])
      BY <1>1 DEF ToSet
    <2>4. QED
      BY <2>2, <2>3
  <1>5. Seen(c)' = Seen(c) \cup {h}
    <2>1. \A i \in DOMAIN delivered'[c] : i \in DOMAIN delivered[c] \/ i = Len(delivered[c]) + 1
      BY <1>3
    <2>2. \A x \in Seen(c)' : x = h \/ x \in Seen(c)
      BY <1>3, <2>1 DEF Seen
    <2>3. h \in Seen(c)' /\ \A x \in Seen(c) : x \in Seen(c)'
      BY <1>3 DEF Seen
    <2>4. QED
      BY <2>2, <2>3
  <1>6. Got(c)' = Got(c)
    BY <1>4, <1>5 DEF Got
  <1>7. \A m : Covered(c, m) => Covered(c, m)'
    BY <1>6, CoveredStays
  <1>8. lastSeq'[c] = seqOf[h]
    <2>1. h \in Committed /\ seqOf[h] \in Nat /\ seqOf[h] > lastSeq[c] /\ lastSeq[c] \in Nat
      BY <1>1, CommittedNumbers DEF StreamAt, SourceAt, PositionAt, TypesAt, Asked
    <2>2. lastSeq'[c] = IF lastSeq[c] >= seqOf[h] THEN lastSeq[c] ELSE seqOf[h]
      BY <2>1, MaxOfTwo DEF Received, h
    <2>3. QED
      BY <2>1, <2>2
  <1>9. Covered(c, lastSeq[c])'
    BY <1>1, <1>7, <1>8 DEF CoverAt
  <1>10. \A i \in DOMAIN chan'[c] : Covered(c, seqOf[chan[c][i]])'
    <2>1. TAKE i \in DOMAIN chan'[c]
    <2>2. Covered(c, seqOf[chan[c][i + 1]]) /\ seqOf'[chan'[c][i]] = seqOf[chan[c][i + 1]]
      BY <1>1, LogSameFacts DEF CoverAt
    <2>3. QED
      BY <1>7, <2>2
  <1>11. (phase[c] \in Open => Covered(c, maxSeq[c]))' /\ (phase[c] = "live" => Covered(c, bound[c]))'
    BY <1>7 DEF CoverAt, Received, ReplaySame, Open
  <1>12. QED
    BY <1>6, <1>9, <1>10, <1>11 DEF CoverAt

LEMMA GotJoined ==
  ASSUME NEW c \in Consumers, TypesAt(c), NEW out \in Seq(Calls), chan'[c] = chan[c] \o out,
         delivered'[c] = delivered[c]
  PROVE  Got(c)' = Got(c) \cup ToSet(out)
  <1>1. ToSet(chan[c] \o out) = ToSet(chan[c]) \cup ToSet(out)
    BY JoinedElements DEF TypesAt
  <1>2. ToSet(chan'[c]) = ToSet(chan[c]) \cup ToSet(out)
    BY <1>1
  <1>3. Seen(c)' = Seen(c)
    BY DEF Seen
  <1>4. QED
    BY <1>2, <1>3 DEF Got

\* A stream that has written everything up to its new position.
LEMMA WritesCover ==
  ASSUME NEW c \in Consumers, IInv, SeqInv, TypesAt(c), StreamAt(c), LogSame, CoverAt(c),
         ConsumerSame(c), NEW out \in Seq(Asked(c)), chan'[c] = chan[c] \o out,
         maxSeq'[c] \in Nat, \A i \in DOMAIN out : seqOf[out[i]] <= maxSeq'[c],
         \A a \in Asked(c) : seqOf[a] <= maxSeq'[c] \/ (phase'[c] = "live" /\ seqOf[a] <= bound'[c])
           => a \in Got(c) \cup ToSet(out) \/ Missed(c, a)'
  PROVE  Got(c)' = Got(c) \cup ToSet(out) /\ CoverAt(c)'
  <1>1. Asked(c) \subseteq Committed /\ Committed \subseteq Calls
    BY CommittedNumbers DEF Asked
  <1>2. out \in Seq(Calls)
    BY <1>1, SeqMonotonic
  <1>3. Got(c)' = Got(c) \cup ToSet(out)
    BY <1>2, GotJoined DEF ConsumerSame
  <1>4. \A m : Covered(c, m) => Covered(c, m)'
    BY <1>3, CoveredStays
  <1>5. \A m : (\A a \in Asked(c) : seqOf[a] <= m => a \in Got(c) \cup ToSet(out) \/ Missed(c, a)')
                 => Covered(c, m)'
    BY <1>3, LogSameFacts DEF Covered
  <1>6. Covered(c, lastSeq[c])'
    <2>1. lastSeq'[c] = lastSeq[c] /\ Covered(c, lastSeq[c])
      BY DEF CoverAt, ConsumerSame
    <2>2. QED
      BY <1>4, <2>1
  <1>7. Covered(c, maxSeq[c])' /\ (phase'[c] = "live" => Covered(c, bound[c])')
    BY <1>5
  <1>8. \A x \in ToSet(out) : Covered(c, seqOf[x])'
    <2>1. SUFFICES ASSUME NEW x \in ToSet(out), NEW a \in Asked(c), seqOf[a] <= seqOf[x]
                   PROVE  a \in Got(c) \cup ToSet(out) \/ Missed(c, a)'
      BY <1>5, LogSameFacts
    <2>2. x \in Asked(c) /\ seqOf[x] <= maxSeq'[c]
      BY Members
    <2>3. seqOf[a] \in Nat /\ seqOf[x] \in Nat
      BY <1>1, <2>2, CommittedNumbers
    <2>4. seqOf[a] <= maxSeq'[c]
      BY <2>1, <2>2, <2>3
    <2>5. QED
      BY <2>4
  <1>9. \A x \in ToSet(chan[c]) : Covered(c, seqOf[x])'
    <2>1. \A x \in ToSet(chan[c]) : Covered(c, seqOf[x])
      BY Members DEF CoverAt
    <2>2. QED
      BY <1>4, <2>1, LogSameFacts
  <1>10. ToSet(chan'[c]) = ToSet(chan[c]) \cup ToSet(out)
    BY JoinedElements, <1>2 DEF TypesAt
  <1>11. \A i \in DOMAIN chan'[c] : Covered(c, seqOf[chan[c][i]])'
    <2>1. TAKE i \in DOMAIN chan'[c]
    <2>2. chan'[c][i] \in ToSet(chan[c]) \cup ToSet(out)
      BY <1>10, Members
    <2>3. QED
      BY <1>8, <1>9, <2>2
  <1>12. QED
    BY <1>3, <1>6, <1>7, <1>11 DEF CoverAt

\* A live stream is told of a row when it knows every row in front of it.
LEMMA WrittenCovers ==
  ASSUME NEW c \in Consumers, IInv, SeqInv, TypesAt(c), StreamAt(c), LogSame, CoverAt(c),
         NEW a \in Calls, Written(c, a),
         \A b \in Asked(c) : Before(b, a) => b \in Got(c) \/ Missed(c, b)'
  PROVE  Got(c)' = Got(c) \cup {a} /\ CoverAt(c)'
  <1> DEFINE out == <<a>>
  <1>1. a \in Asked(c) /\ a \in Committed /\ seqOf[a] \in Nat
    BY CommittedNumbers DEF Written, Asked
  <1>2. out \in Seq(Asked(c)) /\ DOMAIN out = {1} /\ out[1] = a
    BY <1>1
  <1>3. chan'[c] = chan[c] \o out
    BY <1>1 DEF Written, TypesAt
  <1>4. ToSet(out) = {a}
    BY <1>2 DEF ToSet
  <1> HIDE DEF out
  <1>5. maxSeq'[c] = seqOf[a] /\ bound'[c] = bound[c] /\ ConsumerSame(c) /\ phase[c] = "live"
    BY DEF Written, ReplaySame
  <1>6. ASSUME NEW b \in Asked(c), seqOf[b] <= maxSeq'[c] \/ (phase'[c] = "live" /\ seqOf[b] <= bound'[c])
        PROVE  b \in Got(c) \cup ToSet(out) \/ Missed(c, b)'
    <2>1. CASE b = a
      BY <1>4, <2>1
    <2>2. CASE seqOf[b] <= bound[c]
      BY <1>5, <2>2, LogSameFacts DEF CoverAt, Covered
    <2>3. CASE b # a /\ seqOf[b] <= seqOf[a]
      <3>1. b \in Committed /\ seqOf[b] \in Nat /\ seqOf[b] # seqOf[a]
        BY <1>1, <2>3, CommittedNumbers DEF Asked
      <3>2. CASE Before(b, a)
        BY <3>2
      <3>3. CASE Before(a, b)
        BY <1>1, <2>3, <3>1, <3>3, LogOrder, LogSameFacts DEF Missed
      <3>4. QED
        BY <1>1, <2>3, <3>1, <3>2, <3>3, LogOrder
    <2>4. QED
      BY <1>5, <1>6, <2>1, <2>2, <2>3
  <1>7. \A i \in DOMAIN out : seqOf[out[i]] <= maxSeq'[c]
    BY <1>1, <1>2, <1>5
  <1>8. Got(c)' = Got(c) \cup ToSet(out) /\ CoverAt(c)'
    BY <1>1, <1>2, <1>3, <1>5, <1>6, <1>7, WritesCover
  <1>9. QED
    BY <1>4, <1>8

\* A batch leaves out nothing below its last row, and the last batch nothing
\* below the bound.
LEMMA BatchCovers ==
  ASSUME NEW c \in Consumers, IInv, SeqInv, TypesAt(c), StreamAt(c), CoverAt(c), phase[c] = "replay",
         NEW a \in Asked(c),
         \/ seqOf[a] <= Reached(Batch(c), maxSeq[c])
         \/ Len(Batch(c)) # ReplayBatch /\ seqOf[a] <= bound[c]
  PROVE  a \in Got(c) \cup ToSet(Batch(c)) \/ Missed(c, a)
  <1>1. /\ cursor[c] = maxSeq[c] /\ maxSeq[c] \in Nat /\ cursor[c] \in Nat /\ bound[c] \in Nat
        /\ a \in Committed /\ seqOf[a] \in Nat
    BY CommittedNumbers DEF StreamAt, PositionAt, TypesAt, Asked
  <1>2. CASE seqOf[a] <= maxSeq[c]
    BY <1>2 DEF CoverAt, Covered, Open
  <1>3. CASE seqOf[a] > maxSeq[c]
    <2>1. \A b \in Asked(c) : seqOf[b] > cursor[c] /\ seqOf[b] <= bound[c] =>
            /\ Len(Batch(c)) # ReplayBatch => \E i \in DOMAIN Batch(c) : Batch(c)[i] = b
            /\ \A k \in DOMAIN Batch(c) : seqOf[b] <= seqOf[Batch(c)[k]] =>
                 \E i \in DOMAIN Batch(c) : Batch(c)[i] = b
      BY <1>1, BatchRows
    <2>2. CASE Len(Batch(c)) # ReplayBatch /\ seqOf[a] <= bound[c]
      BY <1>1, <1>3, <2>1, <2>2, Members
    <2>3. CASE seqOf[a] <= Reached(Batch(c), maxSeq[c])
      <3>1. PICK k \in DOMAIN Batch(c) : seqOf[Batch(c)[k]] = Reached(Batch(c), maxSeq[c])
        BY <1>1, <1>3, <2>3, BatchAbove
      <3>2. seqOf[Batch(c)[k]] <= bound[c] /\ Batch(c)[k] \in Committed
        BY <1>1, BatchRows, BatchAbove
      <3>3. seqOf[a] <= bound[c] /\ seqOf[a] <= seqOf[Batch(c)[k]]
        BY <1>1, <2>3, <3>1, <3>2, CommittedNumbers
      <3>4. QED
        BY <1>1, <1>3, <2>1, <3>3, Members
    <2>4. QED
      BY <2>2, <2>3
  <1>4. QED
    BY <1>1, <1>2, <1>3

LEMMA BatchMoreCovers ==
  ASSUME NEW c \in Consumers, IInv, SeqInv, TypesAt(c), StreamAt(c), LogSame, CoverAt(c), BatchMore(c)
  PROVE  Got(c) \subseteq Got(c)' /\ CoverAt(c)'
  <1>1. /\ phase[c] = "replay" /\ phase'[c] = "replay" /\ chan'[c] = chan[c] \o Batch(c)
        /\ maxSeq'[c] = Reached(Batch(c), maxSeq[c]) /\ ConsumerSame(c)
    BY DEF BatchMore
  <1>2. /\ Batch(c) \in Seq(Asked(c)) /\ maxSeq'[c] \in Nat
        /\ \A i \in DOMAIN Batch(c) : seqOf[Batch(c)[i]] <= maxSeq'[c]
    BY <1>1, BatchAbove
  <1>3. \A a \in Asked(c) : seqOf[a] <= maxSeq'[c] => a \in Got(c) \cup ToSet(Batch(c)) \/ Missed(c, a)
    BY <1>1, BatchCovers
  <1>4. QED
    BY <1>1, <1>2, <1>3, LogSameFacts, WritesCover

\* What the last batch and the flush write, for a stream that has reached that.
LastWrites(c, reached, flushed) ==
  /\ Batch(c) \o flushed \in Seq(Asked(c))
  /\ flushed \in Seq(Asked(c)) /\ flushed \in Seq(Committed)
  /\ ToSet(flushed) \subseteq ToSet(buffer[c])
  /\ Reached(flushed, reached) \in Nat /\ Reached(flushed, reached) >= reached
  /\ Reached(flushed, reached) = reached
     \/ \E i \in DOMAIN flushed : seqOf[flushed[i]] = Reached(flushed, reached)
  /\ \A i \in DOMAIN (Batch(c) \o flushed) :
       seqOf[(Batch(c) \o flushed)[i]] <= Reached(flushed, reached)

LEMMA FlushWrites ==
  ASSUME NEW c \in Consumers, IInv, SeqInv, TypesAt(c), StreamAt(c), phase[c] = "replay",
         NEW reached, reached = Reached(Batch(c), maxSeq[c]),
         NEW flushed, flushed = Fresh(buffer[c], reached)
  PROVE  LastWrites(c, reached, flushed)
  <1>1. /\ Batch(c) \o flushed \in Seq(Asked(c))
        /\ flushed \in Seq(Asked(c)) /\ flushed \in Seq(Committed)
    BY FlushAbove
  <1>2. ToSet(flushed) \subseteq ToSet(buffer[c])
    BY FlushAbove
  <1>3. /\ Reached(flushed, reached) \in Nat /\ Reached(flushed, reached) >= reached
        /\ Reached(flushed, reached) = reached
           \/ \E i \in DOMAIN flushed : seqOf[flushed[i]] = Reached(flushed, reached)
    BY FlushAbove
  <1>4. \A i \in DOMAIN (Batch(c) \o flushed) :
          seqOf[(Batch(c) \o flushed)[i]] <= Reached(flushed, reached)
    BY FlushAbove
  <1>5. QED
    BY <1>1, <1>2, <1>3, <1>4 DEF LastWrites

\* The flush leaves nothing out: a row of the buffer that is not written has a
\* higher one in front of it, and what no row of the buffer told the stream of
\* was replayed.
LEMMA BatchLastCovers ==
  ASSUME NEW c \in Consumers, IInv, SeqInv, TypesAt(c), StreamAt(c), LogSame, CoverAt(c), BatchLast(c),
         \A i, j \in DOMAIN buffer[c] : i < j => Before(buffer[c][i], buffer[c][j]),
         \A b \in ToSet(buffer[c]) : \A a \in Asked(c) : Before(a, b) =>
           a \in ToSet(buffer[c]) \cup Got(c) \/ seqOf[a] <= bound[c] \/ Missed(c, a)
  PROVE  /\ Got(c) \subseteq Got(c)' /\ CoverAt(c)'
         /\ \A a \in ToSet(buffer[c]) : a \in Got(c)' \/ Missed(c, a)'
  <1> DEFINE reached == Reached(Batch(c), maxSeq[c])
             flushed == Fresh(buffer[c], reached)
             out == Batch(c) \o flushed
  <1>1. /\ phase[c] = "replay" /\ phase'[c] = "live" /\ Len(Batch(c)) # ReplayBatch
        /\ maxSeq'[c] = Reached(flushed, reached) /\ chan'[c] = chan[c] \o out
        /\ bound'[c] = bound[c] /\ ConsumerSame(c)
    BY DEF BatchLast, ReplaySame
  <1>2. reached \in Nat /\ bound[c] \in Nat
    BY <1>1, BatchAbove DEF TypesAt
  <1>16. reached = Reached(Batch(c), maxSeq[c]) /\ flushed = Fresh(buffer[c], reached)
    OBVIOUS
  <1> HIDE DEF reached, flushed
  <1>3. /\ Batch(c) \o flushed \in Seq(Asked(c))
        /\ flushed \in Seq(Asked(c)) /\ flushed \in Seq(Committed)
        /\ ToSet(flushed) \subseteq ToSet(buffer[c])
        /\ Reached(flushed, reached) \in Nat /\ Reached(flushed, reached) >= reached
        /\ Reached(flushed, reached) = reached
           \/ \E i \in DOMAIN flushed : seqOf[flushed[i]] = Reached(flushed, reached)
        /\ \A i \in DOMAIN (Batch(c) \o flushed) :
             seqOf[(Batch(c) \o flushed)[i]] <= Reached(flushed, reached)
    <2>1. LastWrites(c, reached, flushed)
      BY <1>1, <1>16, FlushWrites
    <2>2. QED
      BY <2>1 DEF LastWrites
  <1>4. ToSet(out) = ToSet(Batch(c)) \cup ToSet(flushed)
    BY <1>1, <1>3, BatchAbove, JoinedElements
  <1> HIDE DEF out
  <1>15. /\ out \in Seq(Asked(c)) /\ maxSeq'[c] \in Nat /\ maxSeq'[c] >= reached
         /\ \A i \in DOMAIN out : seqOf[out[i]] <= maxSeq'[c]
    BY <1>1, <1>3 DEF out
  <1>5. buffer[c] \in Seq(Committed) /\ DOMAIN buffer[c] \subseteq Nat
    BY AskedSequences DEF StreamAt
  <1>6. \A k \in DOMAIN buffer[c] : buffer[c][k] \in Asked(c)
                                    /\ buffer[c][k] \in Committed /\ seqOf[buffer[c][k]] \in Nat
    BY <1>5, CommittedNumbers DEF StreamAt, SourceAt
  <1>7. \A k \in DOMAIN buffer[c] :
          (seqOf[buffer[c][k]] > reached
            /\ \A j \in 1..(k - 1) : seqOf[buffer[c][j]] < seqOf[buffer[c][k]])
              => \E i \in DOMAIN flushed : flushed[i] = buffer[c][k]
    BY <1>2, <1>5, FreshRows DEF flushed
  <1>8. \/ maxSeq'[c] = reached
        \/ \E k \in DOMAIN buffer[c] : seqOf[buffer[c][k]] = maxSeq'[c]
    <2>1. maxSeq'[c] = reached \/ \E i \in DOMAIN flushed : seqOf[flushed[i]] = maxSeq'[c]
      BY <1>1, <1>3
    <2>2. ASSUME NEW i \in DOMAIN flushed, seqOf[flushed[i]] = maxSeq'[c]
          PROVE  \E k \in DOMAIN buffer[c] : seqOf[buffer[c][k]] = maxSeq'[c]
      <3>1. flushed[i] \in ToSet(buffer[c])
        BY <1>3, <2>2, Members
      <3>2. PICK k \in DOMAIN buffer[c] : buffer[c][k] = flushed[i]
        BY <3>1, Members
      <3>3. QED
        BY <2>2, <3>2
    <2>3. QED
      BY <2>1, <2>2
  <1>9. \A a \in Asked(c) : seqOf[a] <= reached \/ seqOf[a] <= bound[c]
          => a \in Got(c) \cup ToSet(Batch(c)) \/ Missed(c, a)
    BY <1>1, BatchCovers DEF reached
  <1>10. \A k \in DOMAIN buffer[c] : buffer[c][k] \in Got(c) \cup ToSet(out) \/ Missed(c, buffer[c][k])
    <2>1. TAKE k \in DOMAIN buffer[c]
    <2>2. CASE seqOf[buffer[c][k]] <= reached
      BY <1>4, <1>6, <1>9, <2>2
    <2>3. CASE \A j \in 1..(k - 1) : seqOf[buffer[c][j]] < seqOf[buffer[c][k]]
      <3>1. CASE seqOf[buffer[c][k]] > reached
        BY <1>4, <1>7, <2>3, <3>1, Members
      <3>2. QED
        BY <1>2, <1>6, <2>2, <3>1
    <2>4. CASE \E j \in 1..(k - 1) : ~(seqOf[buffer[c][j]] < seqOf[buffer[c][k]])
      <3>1. PICK j \in 1..(k - 1) : ~(seqOf[buffer[c][j]] < seqOf[buffer[c][k]])
        BY <2>4
      <3>2. j \in DOMAIN buffer[c] /\ j < k
        BY <1>5
      <3>3. Before(buffer[c][j], buffer[c][k])
        BY <3>2
      <3>4. buffer[c][j] # buffer[c][k]
        BY <3>3, LogOrder
      <3>5. seqOf[buffer[c][j]] > seqOf[buffer[c][k]]
        BY <1>6, <3>1, <3>2, <3>4, CommittedNumbers
      <3>6. QED
        BY <3>3, <3>5, LogOrder DEF Missed
    <2>5. QED
      BY <2>3, <2>4
  <1>11. ASSUME NEW a \in Asked(c), seqOf[a] <= maxSeq'[c] \/ seqOf[a] <= bound'[c]
         PROVE  a \in Got(c) \cup ToSet(out) \/ Missed(c, a)
    <2>1. CASE seqOf[a] <= reached \/ seqOf[a] <= bound[c]
      BY <1>4, <1>9, <2>1
    <2>2. CASE maxSeq'[c] # reached /\ seqOf[a] <= maxSeq'[c]
      <3>1. PICK k \in DOMAIN buffer[c] : seqOf[buffer[c][k]] = maxSeq'[c]
        BY <1>8, <2>2
      <3>2. a \in Committed /\ seqOf[a] \in Nat
        BY CommittedNumbers DEF Asked
      <3>3. CASE a = buffer[c][k]
        BY <1>10, <3>3
      <3>4. CASE Before(buffer[c][k], a)
        <4>1. seqOf[buffer[c][k]] # seqOf[a]
          BY <1>6, <3>2, <3>4, LogOrder, CommittedNumbers
        <4>2. seqOf[buffer[c][k]] > seqOf[a]
          BY <1>6, <2>2, <3>1, <3>2, <4>1
        <4>3. QED
          BY <3>4, <4>2, LogOrder DEF Missed
      <3>5. CASE Before(a, buffer[c][k])
        <4>1. a \in ToSet(buffer[c]) \cup Got(c) \/ seqOf[a] <= bound[c] \/ Missed(c, a)
          BY <3>5, Members
        <4>2. CASE a \in ToSet(buffer[c])
          BY <1>10, <4>2, Members
        <4>3. QED
          BY <2>1, <4>1, <4>2
      <3>6. QED
        BY <1>6, <3>2, <3>3, <3>4, <3>5, LogOrder
    <2>3. QED
      BY <1>1, <1>11, <2>1, <2>2
  <1>12. Got(c)' = Got(c) \cup ToSet(out) /\ CoverAt(c)'
    BY <1>1, <1>15, <1>11, LogSameFacts, WritesCover
  <1>13. \A a \in ToSet(buffer[c]) : a \in Got(c)' \/ Missed(c, a)'
    BY <1>10, <1>12, LogSameFacts, Members
  <1>14. QED
    BY <1>12, <1>13

(***************************************************************************)
(* The way of an event: the wire, the queue, a buffer.                     *)
(***************************************************************************)
RowType == [event : Calls, wanted : BOOLEAN, subs : SUBSET Consumers]

LEMMA RowsLost ==
  ASSUME NEW rows \in Seq(RowType), rows # <<>>
  PROVE  /\ Head(rows) = rows[1] /\ 1 \in DOMAIN rows /\ Head(rows) \in RowType
         /\ Tail(rows) \in Seq(RowType)
         /\ \A i \in DOMAIN Tail(rows) : i + 1 \in DOMAIN rows /\ Tail(rows)[i] = rows[i + 1]
         /\ \A i \in DOMAIN rows : i = 1 \/ (i - 1 \in DOMAIN Tail(rows) /\ Tail(rows)[i - 1] = rows[i])
         /\ \A c : /\ c \in Head(rows).subs => QueuedIn(rows, c) = QueuedIn(Tail(rows), c) \cup {Head(rows).event}
                   /\ c \notin Head(rows).subs => QueuedIn(rows, c) = QueuedIn(Tail(rows), c)
  <1>1. /\ Head(rows) = rows[1] /\ 1 \in DOMAIN rows /\ Head(rows) \in RowType
        /\ Tail(rows) \in Seq(RowType)
        /\ \A i \in DOMAIN Tail(rows) : i + 1 \in DOMAIN rows /\ Tail(rows)[i] = rows[i + 1]
    BY SequenceSteps
  <1>2. \A i \in DOMAIN rows : i = 1 \/ (i - 1 \in DOMAIN Tail(rows) /\ Tail(rows)[i - 1] = rows[i])
    BY SequenceSteps
  <1>3. ASSUME NEW c
        PROVE  /\ \A x \in QueuedIn(Tail(rows), c) : x \in QueuedIn(rows, c)
               /\ \A x \in QueuedIn(rows, c) :
                    x \in QueuedIn(Tail(rows), c) \/ (x = Head(rows).event /\ c \in Head(rows).subs)
               /\ c \in Head(rows).subs => Head(rows).event \in QueuedIn(rows, c)
    BY <1>1, <1>2 DEF QueuedIn
  <1>4. QED
    BY <1>1, <1>2, <1>3

LEMMA RowsGained ==
  ASSUME NEW rows \in Seq(RowType), NEW row \in RowType
  PROVE  /\ Append(rows, row) \in Seq(RowType)
         /\ DOMAIN rows = 1..Len(rows) /\ Len(rows) \in Nat
         /\ DOMAIN Append(rows, row) = 1..(Len(rows) + 1)
         /\ \A i \in DOMAIN rows : Append(rows, row)[i] = rows[i]
         /\ Append(rows, row)[Len(rows) + 1] = row
         /\ \A c : /\ c \in row.subs => QueuedIn(Append(rows, row), c) = QueuedIn(rows, c) \cup {row.event}
                   /\ c \notin row.subs => QueuedIn(Append(rows, row), c) = QueuedIn(rows, c)
  <1>1. /\ Append(rows, row) \in Seq(RowType)
        /\ DOMAIN rows = 1..Len(rows) /\ Len(rows) \in Nat
        /\ DOMAIN Append(rows, row) = 1..(Len(rows) + 1)
        /\ \A i \in DOMAIN rows : Append(rows, row)[i] = rows[i]
        /\ Append(rows, row)[Len(rows) + 1] = row
    BY SequenceSteps
  <1>2. \A i \in DOMAIN Append(rows, row) : i \in DOMAIN rows \/ i = Len(rows) + 1
    BY <1>1
  <1> DEFINE more == Append(rows, row)
  <1> HIDE DEF more
  <1>3. ASSUME NEW c
        PROVE  /\ \A x \in QueuedIn(rows, c) : x \in QueuedIn(more, c)
               /\ \A x \in QueuedIn(more, c) : x \in QueuedIn(rows, c) \/ (x = row.event /\ c \in row.subs)
               /\ c \in row.subs => row.event \in QueuedIn(more, c)
    BY <1>1, <1>2 DEF QueuedIn, more
  <1>4. QED
    BY <1>1, <1>3 DEF more

LEMMA RowsReleased ==
  ASSUME NEW rows \in Seq(RowType), NEW ended
  PROVE  /\ Without(rows, ended) \in Seq(RowType)
         /\ DOMAIN Without(rows, ended) = DOMAIN rows
         /\ \A i \in DOMAIN rows : /\ Without(rows, ended)[i].event = rows[i].event
                                   /\ Without(rows, ended)[i].wanted = rows[i].wanted
                                   /\ Without(rows, ended)[i].subs = rows[i].subs \ ended
         /\ \A c : c \notin ended => QueuedIn(Without(rows, ended), c) = QueuedIn(rows, c)
  <1>1. DOMAIN rows = 1..Len(rows) /\ Len(rows) \in Nat /\ \A i \in DOMAIN rows : rows[i] \in RowType
    BY SequenceSteps
  <1>2. DOMAIN Without(rows, ended) = DOMAIN rows
    BY DEF Without
  <1>3. \A i \in DOMAIN rows : /\ Without(rows, ended)[i].event = rows[i].event
                               /\ Without(rows, ended)[i].wanted = rows[i].wanted
                               /\ Without(rows, ended)[i].subs = rows[i].subs \ ended
                               /\ Without(rows, ended)[i] \in RowType
    BY <1>1 DEF Without, RowType
  <1>4. Without(rows, ended) \in Seq(RowType)
    <2>1. Without(rows, ended) \in [1..Len(rows) -> RowType]
      BY <1>1, <1>2, <1>3 DEF Without
    <2>2. QED
      BY <1>1, <2>1
  <1>5. \A c : c \notin ended => QueuedIn(Without(rows, ended), c) = QueuedIn(rows, c)
    BY <1>2, <1>3 DEF QueuedIn
  <1>6. QED
    BY <1>2, <1>3, <1>4, <1>5

\* The front of the way: nothing is on the wire, in the queue or waiting to be
\* flushed that the log has before it.
Foremost(a) ==
  /\ \A i \in DOMAIN wire' : Before(a, wire'[i])
  /\ \A i \in DOMAIN queue' : Before(a, queue'[i].event)
  /\ \A c \in Consumers : \A i \in DOMAIN buffer[c] : Before(buffer[c][i], a)

SuffixOf(new, old) ==
  \E d \in Nat : \A i \in DOMAIN new : i \in Nat /\ i + d \in DOMAIN old /\ new[i] = old[i + d]

EventsOf(rows) == [i \in DOMAIN rows |-> rows[i].event]

LEMMA FlowMoves ==
  ASSUME FlowInv, LogSame, \A c \in Consumers : buffer[c] \in Seq(Calls),
         SuffixOf(wire', wire), SuffixOf(EventsOf(queue'), EventsOf(queue)),
         \A c \in Consumers : \/ buffer'[c] = buffer[c] \/ buffer'[c] = <<>>
                              \/ \E a \in Calls : buffer'[c] = Append(buffer[c], a) /\ Foremost(a)
  PROVE  FlowInv'
  <1>1. PICK dw \in Nat :
          \A i \in DOMAIN wire' : i \in Nat /\ i + dw \in DOMAIN wire /\ wire'[i] = wire[i + dw]
    BY DEF SuffixOf
  <1>2. PICK dq \in Nat :
          \A i \in DOMAIN queue' : /\ i \in Nat /\ i + dq \in DOMAIN queue
                                   /\ queue'[i].event = queue[i + dq].event
    BY DEF SuffixOf, EventsOf
  <1>3. \A a, b : Before(a, b)' <=> Before(a, b)
    BY LogSameFacts
  <1>4. \A i, j \in DOMAIN wire' : i < j => Before(wire'[i], wire'[j])
    BY <1>1 DEF FlowInv
  <1>5. \A i, j \in DOMAIN queue' : i < j => Before(queue'[i].event, queue'[j].event)
    BY <1>2 DEF FlowInv
  <1>6. \A i \in DOMAIN queue' : \A j \in DOMAIN wire' : Before(queue'[i].event, wire'[j])
    BY <1>1, <1>2 DEF FlowInv
  <1>7. ASSUME NEW c \in Consumers
        PROVE  /\ \A i, j \in DOMAIN buffer'[c] : i < j => Before(buffer'[c][i], buffer'[c][j])
               /\ \A i \in DOMAIN buffer'[c] :
                    /\ \A j \in DOMAIN queue' : Before(buffer'[c][i], queue'[j].event)
                    /\ \A j \in DOMAIN wire' : Before(buffer'[c][i], wire'[j])
    <2>1. CASE buffer'[c] = buffer[c]
      BY <1>1, <1>2, <2>1 DEF FlowInv
    <2>2. CASE buffer'[c] = <<>>
      BY <2>2
    <2>3. CASE \E a \in Calls : buffer'[c] = Append(buffer[c], a) /\ Foremost(a)
      <3>1. PICK a \in Calls : buffer'[c] = Append(buffer[c], a) /\ Foremost(a)
        BY <2>3
      <3>2. /\ DOMAIN buffer[c] = 1..Len(buffer[c]) /\ Len(buffer[c]) \in Nat
            /\ DOMAIN buffer'[c] = 1..(Len(buffer[c]) + 1)
            /\ \A i \in DOMAIN buffer[c] : buffer'[c][i] = buffer[c][i]
            /\ buffer'[c][Len(buffer[c]) + 1] = a
        BY <3>1, SequenceSteps
      <3>3. \A i \in DOMAIN buffer'[c] : i \in DOMAIN buffer[c] \/ i = Len(buffer[c]) + 1
        BY <3>2
      <3>4. \A i \in DOMAIN buffer[c] :
              /\ \A j \in DOMAIN queue' : Before(buffer[c][i], queue'[j].event)
              /\ \A j \in DOMAIN wire' : Before(buffer[c][i], wire'[j])
        BY <1>1, <1>2 DEF FlowInv
      <3>5. \A i \in DOMAIN buffer'[c] :
              /\ \A j \in DOMAIN queue' : Before(buffer'[c][i], queue'[j].event)
              /\ \A j \in DOMAIN wire' : Before(buffer'[c][i], wire'[j])
        BY <3>1, <3>2, <3>3, <3>4 DEF Foremost
      <3>6. \A i, j \in DOMAIN buffer'[c] : i < j => Before(buffer'[c][i], buffer'[c][j])
        <4>1. TAKE i, j \in DOMAIN buffer'[c]
        <4>2. HAVE i < j
        <4>3. i \in DOMAIN buffer[c]
          BY <3>2, <4>2
        <4>4. CASE j \in DOMAIN buffer[c]
          BY <3>2, <4>2, <4>3, <4>4 DEF FlowInv
        <4>5. CASE j = Len(buffer[c]) + 1
          BY <3>1, <3>2, <4>3, <4>5 DEF Foremost
        <4>6. QED
          BY <3>3, <4>4, <4>5
      <3>7. QED
        BY <3>5, <3>6
    <2>4. QED
      BY <2>1, <2>2, <2>3
  <1>8. QED
    BY <1>3, <1>4, <1>5, <1>6, <1>7 DEF FlowInv

\* The first notification joins the queue.
LEMMA FlowQueues ==
  ASSUME FlowInv, LogSame, UNCHANGED buffer, wire \in Seq(Calls), wire # <<>>, wire' = Tail(wire),
         queue \in Seq(RowType), NEW row \in RowType, row.event = Head(wire),
         queue' = Append(queue, row)
  PROVE  FlowInv'
  <1>1. /\ Head(wire) = wire[1] /\ 1 \in DOMAIN wire
        /\ \A i \in DOMAIN wire' : /\ wire'[i] = wire[i + 1] /\ i \in Nat
                                   /\ i + 1 \in DOMAIN wire /\ i + 1 > 1
    BY SequenceSteps
  <1>2. /\ DOMAIN queue = 1..Len(queue) /\ Len(queue) \in Nat
        /\ DOMAIN queue' = 1..(Len(queue) + 1)
        /\ \A i \in DOMAIN queue : queue'[i] = queue[i]
        /\ queue'[Len(queue) + 1] = row
    BY RowsGained
  <1>3. \A i \in DOMAIN queue' : i \in DOMAIN queue \/ i = Len(queue) + 1
    BY <1>2
  <1>4. \A a, b : Before(a, b)' <=> Before(a, b)
    BY LogSameFacts
  <1>5. \A i, j \in DOMAIN wire' : i < j => Before(wire'[i], wire'[j])
    BY <1>1 DEF FlowInv
  <1>6. \A i, j \in DOMAIN queue' : i < j => Before(queue'[i].event, queue'[j].event)
    <2>1. TAKE i, j \in DOMAIN queue'
    <2>2. HAVE i < j
    <2>3. i \in DOMAIN queue
      BY <1>2, <2>2
    <2>4. CASE j \in DOMAIN queue
      BY <1>2, <2>2, <2>3, <2>4 DEF FlowInv
    <2>5. CASE j = Len(queue) + 1
      BY <1>1, <1>2, <2>3, <2>5 DEF FlowInv
    <2>6. QED
      BY <1>3, <2>4, <2>5
  <1>7. \A i \in DOMAIN queue' : \A j \in DOMAIN wire' : Before(queue'[i].event, wire'[j])
    <2>1. TAKE i \in DOMAIN queue'
    <2>2. TAKE j \in DOMAIN wire'
    <2>3. CASE i \in DOMAIN queue
      BY <1>1, <1>2, <2>3 DEF FlowInv
    <2>4. CASE i = Len(queue) + 1
      BY <1>1, <1>2, <2>4 DEF FlowInv
    <2>5. QED
      BY <1>3, <2>3, <2>4
  <1>8. ASSUME NEW c \in Consumers, NEW i \in DOMAIN buffer[c]
        PROVE  /\ \A j \in DOMAIN queue' : Before(buffer[c][i], queue'[j].event)
               /\ \A j \in DOMAIN wire' : Before(buffer[c][i], wire'[j])
    BY <1>1, <1>2, <1>3 DEF FlowInv
  <1>9. QED
    BY <1>4, <1>5, <1>6, <1>7, <1>8 DEF FlowInv

\* An event that commits is notified behind all that is under way.
LEMMA FlowExtends ==
  ASSUME AppendTypeOK, FlowInv, QueueInv, \A c \in Consumers : SourceAt(c),
         NEW a \in Calls, LogExtended(a), UNCHANGED <<queue, buffer>>,
         wire \in Seq(Calls), wire' = wire \/ wire' = Append(wire, a)
  PROVE  FlowInv'
  <1>1. /\ \A b, d : Before(b, d) => Before(b, d)'
        /\ \A b \in Committed : Before(b, a)'
    BY LogExtends
  <1>2. /\ \A i \in DOMAIN wire : wire[i] \in Committed
        /\ \A i \in DOMAIN queue : queue[i].event \in Committed
        /\ \A c \in Consumers : \A i \in DOMAIN buffer[c] : buffer[c][i] \in Committed
    BY DEF QueueInv, SourceAt, Asked
  <1>3. /\ DOMAIN wire = 1..Len(wire) /\ Len(wire) \in Nat
        /\ \A i \in DOMAIN wire' : (i \in DOMAIN wire /\ wire'[i] = wire[i])
                                   \/ (i = Len(wire) + 1 /\ wire'[i] = a)
    BY SequenceSteps
  <1>4. (\A i, j \in DOMAIN wire : i < j => Before(wire[i], wire[j]))'
    <2>1. SUFFICES ASSUME NEW i \in DOMAIN wire', NEW j \in DOMAIN wire', i < j
                   PROVE  Before(wire[i], wire[j])'
      OBVIOUS
    <2>2. i \in DOMAIN wire /\ wire'[i] = wire[i]
      BY <1>3, <2>1
    <2>3. CASE j \in DOMAIN wire /\ wire'[j] = wire[j]
      BY <1>1, <2>1, <2>2, <2>3 DEF FlowInv
    <2>4. CASE wire'[j] = a
      BY <1>1, <1>2, <2>2, <2>4
    <2>5. QED
      BY <1>3, <2>3, <2>4
  <1>5. (\A i \in DOMAIN queue : \A j \in DOMAIN wire : Before(queue[i].event, wire[j]))'
    BY <1>1, <1>2, <1>3 DEF FlowInv
  <1>6. (\A i, j \in DOMAIN queue : i < j => Before(queue[i].event, queue[j].event))'
    BY <1>1 DEF FlowInv
  <1>7. (\A c \in Consumers :
           /\ \A i, j \in DOMAIN buffer[c] : i < j => Before(buffer[c][i], buffer[c][j])
           /\ \A i \in DOMAIN buffer[c] : \A j \in DOMAIN queue : Before(buffer[c][i], queue[j].event))'
    BY <1>1 DEF FlowInv
  <1>8. (\A c \in Consumers : \A i \in DOMAIN buffer[c] : \A j \in DOMAIN wire :
           Before(buffer[c][i], wire[j]))'
    BY <1>1, <1>2, <1>3 DEF FlowInv
  <1>9. QED
    BY <1>4, <1>5, <1>6, <1>7, <1>8 DEF FlowInv

(***************************************************************************)
(* What a stream has been told.                                            *)
(***************************************************************************)
\* The stream goes on without what was lost until now.
Forgone(c) ==
  InReplay(c) => \A a \in Asked(c) \cap unheard : seqOf[a] <= bound[c] \/ a \in skipped'[c]

\* What is lost from the wire is behind all that the stream was told.
LEMMA TrackStays ==
  ASSUME NEW c \in Consumers, IInv, FlowInv, LogSame, TrackAt(c),
         InReplay(c)' => InReplay(c),
         InReplay(c)' => \A a \in Asked(c) :
           /\ Known(c, a) => Known(c, a)' \/ (a \in ToSet(wire) /\ a \in unheard')
           /\ a \in unheard => a \in unheard' \/ Known(c, a)',
         InReplay(c)' => Told(c)' \subseteq Told(c) \/ \A a \in Asked(c) : Known(c, a)'
  PROVE  TrackAt(c)'
  <1>1. SUFFICES ASSUME InReplay(c)'
                 PROVE  (/\ \A a \in Asked(c) : Known(c, a) \/ a \in unheard
                         /\ \A b \in Told(c) : \A a \in Asked(c) : Before(a, b) => Known(c, a))'
    BY DEF TrackAt, InReplay
  <1>2. InReplay(c) /\ Asked(c)' = Asked(c) /\ \A a, b : Before(a, b)' <=> Before(a, b)
    BY <1>1, LogSameFacts
  <1>3. \A a \in Asked(c) : Known(c, a)' \/ a \in unheard'
    <2>1. \A a \in Asked(c) : Known(c, a) \/ a \in unheard
      BY <1>2 DEF TrackAt
    <2>2. QED
      BY <1>1, <2>1
  <1>4. ASSUME NEW b \in Told(c)', NEW a \in Asked(c), Before(a, b)
        PROVE  Known(c, a)'
    <2>1. CASE \A x \in Asked(c) : Known(c, x)'
      BY <2>1
    <2>2. CASE Told(c)' \subseteq Told(c)
      <3>1. b \in Told(c)
        BY <2>2
      <3>2. Known(c, a)
        BY <1>2, <1>4, <3>1 DEF TrackAt
      <3>3. \A w \in ToSet(wire) : Before(b, w)
        <4>1. TAKE w \in ToSet(wire)
        <4>2. PICK j \in DOMAIN wire : wire[j] = w
          BY Members
        <4>3. CASE b \in ToSet(buffer[c])
          <5>1. PICK i \in DOMAIN buffer[c] : buffer[c][i] = b
            BY <4>3, Members
          <5>2. QED
            BY <4>2, <5>1 DEF FlowInv
        <4>4. CASE b \in Queued(c)
          <5>1. PICK i \in DOMAIN queue : queue[i].event = b
            BY <4>4 DEF Queued, QueuedIn
          <5>2. QED
            BY <4>2, <5>1 DEF FlowInv
        <4>5. QED
          BY <3>1, <4>3, <4>4 DEF Told
      <3>4. a \notin ToSet(wire)
        BY <1>4, <3>3, LogOrder
      <3>5. QED
        BY <1>1, <3>2, <3>4
    <2>3. QED
      BY <1>1, <2>1, <2>2
  <1>5. QED
    BY <1>2, <1>3, <1>4

\* A stream that goes on without what was lost knows of everything.
LEMMA ForgoneKnown ==
  ASSUME NEW c \in Consumers, LogSame, TrackAt(c), InReplay(c), Forgone(c), bound'[c] = bound[c],
         \A a \in Asked(c) : Known(c, a) => Known(c, a)'
  PROVE  \A a \in Asked(c) : Known(c, a)'
  <1>1. SUFFICES ASSUME NEW a \in Asked(c) PROVE Known(c, a)'
    OBVIOUS
  <1>2. CASE Known(c, a)
    BY <1>2
  <1>3. CASE a \in unheard
    <2>1. seqOf[a] <= bound[c] \/ a \in skipped'[c]
      BY <1>1, <1>3 DEF Forgone
    <2>2. QED
      BY <2>1, LogSameFacts DEF Known, Missed
  <1>4. QED
    BY <1>2, <1>3 DEF TrackAt

\* Rows that the log has in front of the first one on the way to a live stream
\* have reached it, or it goes on without them.
LEMMA FrontCovers ==
  ASSUME NEW c \in Consumers, IInv, TypesAt(c), StreamAt(c), CoverAt(c), TrackAt(c), phase[c] = "live",
         LogSame, NEW a, Forgone(c) \/ a \in Told(c),
         \A b \in Queued(c) \cup ToSet(wire) : b = a \/ Before(a, b)
  PROVE  \A b \in Asked(c) : Before(b, a) => b \in Got(c) \/ Missed(c, b)'
  <1>1. SUFFICES ASSUME NEW b \in Asked(c), Before(b, a)
                 PROVE  b \in Got(c) \/ Missed(c, b)'
    OBVIOUS
  <1>2. b # a /\ ~Before(a, b)
    BY <1>1, LogOrder
  <1>3. b \notin Queued(c) \cup ToSet(wire)
    BY <1>2
  <1>4. b \notin ToSet(buffer[c])
    BY Members DEF StreamAt, SourceAt
  <1>5. Known(c, b) \/ b \in skipped'[c]
    BY <1>1 DEF TrackAt, InReplay, Forgone, Known
  <1>6. seqOf[b] <= bound[c] => b \in Got(c) \/ Missed(c, b)
    BY DEF CoverAt, Covered
  <1>7. b \in Got(c) \/ Missed(c, b) \/ b \in skipped'[c]
    BY <1>3, <1>4, <1>5, <1>6 DEF Known, Told
  <1>8. QED
    BY <1>7, LogSameFacts DEF Missed

(***************************************************************************)
(* A row reaches its subscribers.                                          *)
(***************************************************************************)
FannedOut(c, a, subs) ==
  \/ c \notin subs /\ Still(c)
  \/ c \in subs /\ phase[c] = "live" /\ seqOf[a] <= maxSeq[c] /\ Still(c)
  \/ c \in subs /\ a \in Asked(c) /\ (Written(c, a) \/ Held(c, a))

StreamTypes ==
  /\ phase \in [Consumers -> {"none", "ended"} \cup Open]
  /\ maxSeq \in [Consumers -> Nat]
  /\ cursor \in [Consumers -> Nat]
  /\ bound \in [Consumers -> Nat]
  /\ buffer \in [Consumers -> Seq(Calls)]
  /\ chan \in [Consumers -> Seq(Calls)]
  /\ lastSeq \in [Consumers -> Nat]
  /\ delivered \in [Consumers -> Seq(Calls)]

LEMMA TypesEach ==
  ASSUME StreamTypes
  PROVE  \A c \in Consumers : TypesAt(c)
  BY DEF StreamTypes, TypesAt

LEMMA FanOutMoves ==
  ASSUME IInv, SeqInv, StreamTypes, NEW a \in Committed, NEW subs \in SUBSET Consumers,
         \A c \in subs : phase[c] \in Open /\ a \in Wants[c],
         FanOut(a, subs), UNCHANGED consumerVars
  PROVE  StreamTypes' /\ \A c \in Consumers : FannedOut(c, a, subs)
  <1>1. a \in Calls /\ seqOf[a] \in Nat
    BY CommittedNumbers
  <1>2. /\ UNCHANGED <<phase, cursor, bound, lastSeq, delivered>>
        /\ chan' = [c \in Consumers |-> IF c \in subs /\ phase[c] = "live" /\ seqOf[a] > maxSeq[c]
                                        THEN Append(chan[c], a) ELSE chan[c]]
        /\ maxSeq' = [c \in Consumers |-> IF c \in subs /\ phase[c] = "live" /\ seqOf[a] > maxSeq[c]
                                          THEN seqOf[a] ELSE maxSeq[c]]
        /\ buffer' = [c \in Consumers |-> IF c \in subs /\ phase[c] # "live"
                                          THEN Append(buffer[c], a) ELSE buffer[c]]
    BY DEF FanOut, replayVars, consumerVars
  <1>3. /\ chan' \in [Consumers -> Seq(Calls)] /\ maxSeq' \in [Consumers -> Nat]
        /\ buffer' \in [Consumers -> Seq(Calls)]
    BY <1>1, <1>2 DEF StreamTypes
  <1>4. ASSUME NEW c \in Consumers
        PROVE  FannedOut(c, a, subs)
    <2>1. ReplaySame(c) /\ ConsumerSame(c) /\ phase'[c] = phase[c] /\ maxSeq[c] \in Nat
      BY <1>2 DEF ReplaySame, ConsumerSame, StreamTypes
    <2>2. CASE c \notin subs
      BY <1>2, <2>1, <2>2 DEF FannedOut, Still
    <2>3. CASE c \in subs /\ phase[c] = "live"
      <3>1. a \in Asked(c)
        BY <2>3 DEF Asked
      <3>2. CASE seqOf[a] > maxSeq[c]
        BY <1>2, <2>1, <2>3, <3>1, <3>2 DEF FannedOut, Written
      <3>3. CASE seqOf[a] <= maxSeq[c]
        <4>1. ~(seqOf[a] > maxSeq[c])
          BY <1>1, <2>1, <3>3
        <4>2. QED
          BY <1>2, <2>1, <2>3, <3>3, <4>1 DEF FannedOut, Still
      <3>4. QED
        BY <1>1, <2>1, <3>2, <3>3
    <2>4. CASE c \in subs /\ phase[c] # "live"
      BY <1>2, <2>1, <2>4 DEF FannedOut, Held, Asked, Open
    <2>5. QED
      BY <2>2, <2>3, <2>4
  <1>5. QED
    BY <1>2, <1>3, <1>4 DEF StreamTypes

LEMMA FannedKeeps ==
  ASSUME NEW c \in Consumers, IInv, SeqInv, TypesAt(c), StreamAt(c), LogSame,
         NEW a \in Calls, NEW subs, FannedOut(c, a, subs)
  PROVE  /\ StreamMove(c) /\ StreamAt(c)'
         /\ phase'[c] = phase[c]
         /\ buffer'[c] = buffer[c] \/ (c \in subs /\ buffer'[c] = Append(buffer[c], a))
  <1>1. StreamMove(c)
    BY DEF FannedOut, StreamMove
  <1>2. StreamAt(c)'
    BY <1>1, MoveKeeps
  <1>3. QED
    BY <1>1, <1>2 DEF FannedOut, Still, Written, Held

LEMMA FannedCovers ==
  ASSUME NEW c \in Consumers, IInv, SeqInv, TypesAt(c), StreamAt(c), LogSame, CoverAt(c),
         NEW a \in Calls, NEW subs, FannedOut(c, a, subs),
         phase[c] = "live" => \A b \in Asked(c) : Before(b, a) => b \in Got(c) \/ Missed(c, b)'
  PROVE  /\ CoverAt(c)' /\ Got(c) \subseteq Got(c)'
         /\ bound'[c] = bound[c]
         /\ ToSet(buffer[c]) \subseteq ToSet(buffer'[c])
         /\ ToSet(buffer'[c]) \subseteq ToSet(buffer[c]) \cup {a}
         /\ c \in subs /\ a \in Asked(c) => a \in ToSet(buffer'[c]) \cup Got(c)' \/ Missed(c, a)'
  <1>1. CASE Still(c) /\ ~Written(c, a) /\ ~Held(c, a)
    <2>1. CoverAt(c)'
      BY <1>1, KeptCovers DEF Still, ReplaySame
    <2>2. Got(c)' = Got(c) /\ bound'[c] = bound[c] /\ buffer'[c] = buffer[c]
      BY <1>1, GotSame DEF Still, ConsumerSame, ReplaySame
    <2>3. c \in subs /\ a \in Asked(c) => a \in Got(c) \/ Missed(c, a)'
      BY <1>1, LogSameFacts DEF FannedOut, CoverAt, Covered, Open
    <2>4. QED
      BY <2>1, <2>2, <2>3
  <1>2. CASE Written(c, a)
    <2>1. Got(c)' = Got(c) \cup {a} /\ CoverAt(c)'
      BY <1>2, WrittenCovers DEF Written
    <2>2. bound'[c] = bound[c] /\ buffer'[c] = buffer[c]
      BY <1>2 DEF Written, ReplaySame
    <2>3. QED
      BY <2>1, <2>2
  <1>3. CASE Held(c, a)
    <2>1. CoverAt(c)'
      BY <1>3, KeptCovers DEF Held, ReplaySame, Open
    <2>2. Got(c)' = Got(c) /\ bound'[c] = bound[c]
      BY <1>3, GotSame DEF Held, ConsumerSame, ReplaySame
    <2>3. ToSet(buffer'[c]) = ToSet(buffer[c]) \cup {a}
      <3>1. buffer[c] \in Seq(Calls) /\ buffer'[c] = Append(buffer[c], a)
        BY <1>3 DEF Held, TypesAt
      <3>2. QED
        BY <3>1, AppendedElements
    <2>4. QED
      BY <2>1, <2>2, <2>3
  <1>4. QED
    BY <1>1, <1>2, <1>3 DEF FannedOut

(***************************************************************************)
(* Streams end.                                                            *)
(***************************************************************************)
LEMMA EndMoves ==
  ASSUME StreamTypes, NEW ended \in SUBSET Consumers, EndStreams(ended), UNCHANGED consumerVars
  PROVE  StreamTypes' /\ \A c \in Consumers : IF c \in ended THEN Ended(c) ELSE Still(c)
  <1>1. Cardinality(Calls) \in Nat
    BY AppendAssumption, FS_CardinalityType
  <1>2. PICK kept \in [ended -> 0..Cardinality(Calls)] :
          chan' = [c \in Consumers |-> IF c \in ended
                                       THEN SubSeq(chan[c], 1, Min({kept[c], Len(chan[c])}))
                                       ELSE chan[c]]
    BY DEF EndStreams
  <1>3. /\ phase' = [c \in Consumers |-> IF c \in ended THEN "ended" ELSE phase[c]]
        /\ buffer' = [c \in Consumers |-> IF c \in ended THEN <<>> ELSE buffer[c]]
        /\ UNCHANGED <<maxSeq, cursor, bound, lastSeq, delivered>>
    BY DEF EndStreams, replayVars, consumerVars
  <1>4. ASSUME NEW c \in ended
        PROVE  Min({kept[c], Len(chan[c])}) \in 0..Len(chan[c])
    <2>1. kept[c] \in Nat /\ Len(chan[c]) \in Nat
      BY <1>1 DEF StreamTypes
    <2>2. QED
      BY <2>1, MinOfTwo
  <1>5. ASSUME NEW c \in Consumers
        PROVE  chan'[c] \in Seq(Calls) /\ IF c \in ended THEN Ended(c) ELSE Still(c)
    <2>1. ReplaySame(c) /\ ConsumerSame(c) /\ maxSeq'[c] = maxSeq[c] /\ chan[c] \in Seq(Calls)
      BY <1>3 DEF ReplaySame, ConsumerSame, StreamTypes
    <2>2. CASE c \in ended
      <3>1. chan'[c] = SubSeq(chan[c], 1, Min({kept[c], Len(chan[c])}))
        BY <1>2, <2>2
      <3>2. chan'[c] \in Seq(Calls) /\ \E n \in 0..Len(chan[c]) : chan'[c] = SubSeq(chan[c], 1, n)
        <4> DEFINE n == Min({kept[c], Len(chan[c])})
        <4>1. n \in 0..Len(chan[c]) /\ chan'[c] = SubSeq(chan[c], 1, n)
          BY <1>4, <2>2, <3>1
        <4> HIDE DEF n
        <4>2. SubSeq(chan[c], 1, n) \in Seq(Calls)
          BY <2>1, <4>1, SequenceSteps
        <4>3. QED
          BY <4>1, <4>2
      <3>3. QED
        BY <1>3, <2>1, <2>2, <3>2 DEF Ended
    <2>3. CASE c \notin ended
      BY <1>2, <1>3, <2>1, <2>3 DEF Still
    <2>4. QED
      BY <2>2, <2>3
  <1>6. chan' \in [Consumers -> Seq(Calls)]
    BY <1>2, <1>5
  <1>7. phase' \in [Consumers -> {"none", "ended"} \cup Open] /\ buffer' \in [Consumers -> Seq(Calls)]
    BY <1>3 DEF StreamTypes
  <1>8. QED
    BY <1>3, <1>5, <1>6, <1>7 DEF StreamTypes

(***************************************************************************)
(* What is common to the steps that leave the log alone.                   *)
(***************************************************************************)
NotifierTypes ==
  /\ conn \in {"down", "listening", "up"}
  /\ connectedOnce \in BOOLEAN
  /\ wire \in Seq(Calls)
  /\ queue \in Seq(RowType)
  /\ resolving \in {"no", "current", "stale"}
  /\ faults \in 0..MaxFaults
  /\ conn = "down" => wire = <<>>
  /\ resolving = "current" => queue # <<>> /\ Head(queue).wanted

LEMMA TypeParts ==
  ASSUME AppendTypeOK, NotifierTypes, StreamTypes, LossInv
  PROVE  TypeOK
  <1>1. Committed \subseteq Calls
    BY CommittedCalls
  <1>2. unheard \in SUBSET Calls /\ skipped \in [Consumers -> SUBSET Calls]
    BY <1>1 DEF LossInv
  <1>3. QED
    BY <1>2 DEF TypeOK, NotifierTypes, StreamTypes, RowType

LEMMA TypesStay ==
  ASSUME AppendTypeOK', NotifierTypes', StreamTypes', LossInv'
  PROVE  TypeOK'
  <1>1. (Committed \subseteq Calls)'
    BY DEF AppendTypeOK, Committed
  <1>2. unheard' \in SUBSET Calls /\ skipped' \in [Consumers -> SUBSET Calls]
    BY <1>1 DEF LossInv
  <1>3. QED
    BY <1>2 DEF TypeOK, NotifierTypes, StreamTypes, RowType

LEMMA StreamFacts ==
  ASSUME StreamInv
  PROVE  /\ IInv /\ SeqInv /\ AppendTypeOK /\ NotifierTypes /\ StreamTypes
         /\ QueueInv /\ FlowInv /\ LossInv
         /\ \A c \in Consumers : TypesAt(c) /\ StreamAt(c) /\ SourceAt(c)
  <1>1. AppendTypeOK /\ NotifierTypes /\ StreamTypes
    BY DEF StreamInv, TypeOK, NotifierTypes, StreamTypes, RowType
  <1>2. QED
    BY <1>1, TypesEach DEF StreamInv, StreamAt

NoneRecalled == \A c \in Consumers : skipped[c] \subseteq skipped'[c]

LEMMA LossSame ==
  ASSUME UNCHANGED lossVars
  PROVE  NoneRecalled /\ UNCHANGED <<unheard, skipped>>
  BY DEF lossVars, NoneRecalled

LEMMA LossGrows ==
  ASSUME NEW open, PassOver(open)
  PROVE  NoneRecalled
  BY DEF PassOver, NoneRecalled

LEMMA PassedOver ==
  ASSUME StreamInv, NEW open, PassOver(open)
  PROVE  \A c \in Consumers : c \in open => Forgone(c)
  <1>1. SUFFICES ASSUME NEW c \in Consumers, c \in open, InReplay(c),
                        NEW a \in Asked(c) \cap unheard
                 PROVE  seqOf[a] <= bound[c] \/ a \in skipped'[c]
    BY DEF Forgone
  <1>2. seqOf[a] \in Nat /\ bound[c] \in Nat
    BY <1>1, StreamFacts, CommittedNumbers DEF Asked, TypesAt
  <1>3. seqOf[a] > bound[c] => a \in skipped'[c]
    BY <1>1 DEF PassOver, InReplay, Asked
  <1>4. QED
    BY <1>2, <1>3

LEMMA LossStays ==
  ASSUME LossInv, Committed \subseteq Committed', skipped' = skipped \/ \E open : PassOver(open),
         unheard' \subseteq Committed',
         conn' = "up" => connectedOnce' /\ unheard' = {},
         ~connectedOnce' => resolving' = "no"
  PROVE  LossInv'
  <1>1. skipped' \in [Consumers -> SUBSET Committed']
    <2>1. CASE skipped' = skipped
      BY <2>1 DEF LossInv
    <2>2. ASSUME NEW open, PassOver(open)
          PROVE  skipped' \in [Consumers -> SUBSET Committed']
      <3>1. \A c \in Consumers :
              skipped[c] \cup {a \in unheard \cap Wants[c] : seqOf[a] > bound[c]} \subseteq Committed'
        BY DEF LossInv
      <3>2. QED
        BY <2>2, <3>1 DEF PassOver
    <2>3. QED
      BY <2>1, <2>2
  <1>2. QED
    BY <1>1 DEF LossInv

LEMMA LogLeftAlone ==
  ASSUME IInv, SeqInv, UNCHANGED appendVars, NoneRecalled
  PROVE  IInv' /\ SeqInv' /\ LogSame
  <1>1. IInv'
    BY NextKeeps
  <1>2. UNCHANGED <<at, seqOf, nextSeq, committed>>
    BY DEF appendVars
  <1>3. Committed' = Committed /\ Drawn' = Drawn
    BY <1>2 DEF Drawn, Committed
  <1>4. QED
    BY <1>1, <1>2, <1>3, NothingDrawn DEF LogSame, NoneRecalled

LEMMA MovesKeepInv ==
  ASSUME StreamInv, LogSame, IInv', SeqInv', NotifierTypes', StreamTypes', QueueInv', FlowInv',
         LossInv', \A c \in Consumers : StreamMove(c)
  PROVE  StreamInv'
  <1>1. TypeOK'
    BY TypesStay DEF IInv
  <1>2. \A c \in Consumers : StreamAt(c)'
    BY StreamFacts, MoveKeeps
  <1>3. QED
    BY <1>1, <1>2 DEF StreamInv

(***************************************************************************)
(* Steps by which nothing reaches a stream.                                *)
(***************************************************************************)
\* The queue loses rows at its head and releases the streams that end.
QueueLoses(ended) ==
  /\ SuffixOf(EventsOf(queue'), EventsOf(queue))
  /\ \A i \in DOMAIN queue' : \E j \in DOMAIN queue :
       /\ queue'[i].event = queue[j].event
       /\ queue'[i].wanted = queue[j].wanted
       /\ queue'[i].subs \subseteq queue[j].subs \ ended
  /\ \A c \in Consumers \ ended :
       InReplay(c) => Queued(c)' = Queued(c)

LEMMA QueueClears ==
  ASSUME NEW ended, queue' = <<>>,
         \A c \in Consumers \ ended : ~InReplay(c)
  PROVE  QueueLoses(ended)
  <1>1. DOMAIN EventsOf(queue') = {} /\ DOMAIN queue' = {}
    BY DEF EventsOf
  <1>2. QED
    BY <1>1 DEF QueueLoses, SuffixOf

LEMMA QueueReleases ==
  ASSUME NEW ended, queue \in Seq(RowType), queue' = Without(queue, ended)
  PROVE  QueueLoses(ended)
  <1>1. DOMAIN queue = 1..Len(queue) /\ Len(queue) \in Nat
    BY SequenceSteps
  <1>2. /\ DOMAIN queue' = DOMAIN queue
        /\ \A i \in DOMAIN queue : /\ queue'[i].event = queue[i].event
                                   /\ queue'[i].wanted = queue[i].wanted
                                   /\ queue'[i].subs = queue[i].subs \ ended
        /\ \A c : c \notin ended => Queued(c)' = Queued(c)
    BY RowsReleased DEF Queued
  <1>3. \A i \in DOMAIN EventsOf(queue') :
          i \in Nat /\ i + 0 \in DOMAIN EventsOf(queue) /\ EventsOf(queue')[i] = EventsOf(queue)[i + 0]
    BY <1>1, <1>2 DEF EventsOf
  <1>4. QED
    BY <1>2, <1>3 DEF QueueLoses, SuffixOf

\* The first row is dropped with the streams it waited for.
LEMMA QueueDrops ==
  ASSUME NEW ended, queue \in Seq(RowType), queue # <<>>, Head(queue).subs \subseteq ended,
         queue' = Without(Tail(queue), ended) \/ (queue' = Tail(queue) /\ ended = {})
  PROVE  QueueLoses(ended)
  <1> DEFINE rest == Tail(queue)
  <1>1. /\ rest \in Seq(RowType)
        /\ \A i \in DOMAIN rest : i + 1 \in DOMAIN queue /\ rest[i] = queue[i + 1]
        /\ \A c : c \notin ended => QueuedIn(rest, c) = Queued(c)
    BY RowsLost DEF Queued
  <1> HIDE DEF rest
  <1>2. DOMAIN rest = 1..Len(rest) /\ Len(rest) \in Nat
    BY <1>1, SequenceSteps
  <1>3. /\ DOMAIN queue' = DOMAIN rest
        /\ \A i \in DOMAIN rest : /\ queue'[i].event = rest[i].event
                                  /\ queue'[i].wanted = rest[i].wanted
                                  /\ queue'[i].subs = rest[i].subs \ ended
        /\ \A c : c \notin ended => Queued(c)' = QueuedIn(rest, c)
    <2>1. CASE queue' = Without(rest, ended)
      BY <1>1, <2>1, RowsReleased DEF Queued
    <2>2. CASE queue' = rest /\ ended = {}
      BY <2>2 DEF Queued
    <2>3. QED
      BY <2>1, <2>2 DEF rest
  <1>4. \A i \in DOMAIN EventsOf(queue') :
          i \in Nat /\ i + 1 \in DOMAIN EventsOf(queue) /\ EventsOf(queue')[i] = EventsOf(queue)[i + 1]
    BY <1>1, <1>2, <1>3 DEF EventsOf
  <1>5. \A i \in DOMAIN queue' : \E j \in DOMAIN queue :
          /\ queue'[i].event = queue[j].event
          /\ queue'[i].wanted = queue[j].wanted
          /\ queue'[i].subs \subseteq queue[j].subs \ ended
    BY <1>1, <1>3
  <1>6. QED
    BY <1>1, <1>3, <1>4, <1>5 DEF QueueLoses, SuffixOf

LEMMA QueueStays ==
  ASSUME queue \in Seq(RowType), queue' = queue
  PROVE  QueueLoses({})
  <1>1. DOMAIN queue = 1..Len(queue) /\ Len(queue) \in Nat
    BY SequenceSteps
  <1>2. \A i \in DOMAIN EventsOf(queue') :
          i \in Nat /\ i + 0 \in DOMAIN EventsOf(queue) /\ EventsOf(queue')[i] = EventsOf(queue)[i + 0]
    BY <1>1 DEF EventsOf
  <1>3. QED
    BY <1>2 DEF QueueLoses, SuffixOf, Queued

\* A step by which streams end, rows are dropped with the streams they wait
\* for, or the connection changes.
LEMMA LossKeeps ==
  ASSUME StreamInv, LogSame, IInv', SeqInv', NotifierTypes', StreamTypes', LossInv',
         NEW ended \in SUBSET Consumers, QueueLoses(ended),
         wire' = wire \/ wire' = <<>>,
         \A c \in Consumers : IF c \in ended THEN Ended(c) \/ Abandoned(c) ELSE Still(c),
         \A c \in Consumers \ ended : InReplay(c) =>
           /\ wire' = wire \/ ToSet(wire) \subseteq unheard'
           /\ unheard \subseteq unheard' \/ (wire' = wire /\ Forgone(c))
  PROVE  StreamInv' /\ (FeedInv => FeedInv')
  <1>1. \A c \in Consumers : StreamMove(c)
    BY DEF StreamMove
  <1>2. QueueInv'
    <2>1. \A i \in DOMAIN wire' : wire'[i] \in Committed'
      BY StreamFacts, LogSameFacts DEF QueueInv
    <2>2. ASSUME NEW i \in DOMAIN queue'
          PROVE  /\ queue'[i].event \in Committed'
                 /\ ~queue'[i].wanted => queue'[i].subs = {}
                 /\ \A c \in queue'[i].subs : phase'[c] \in Open /\ queue'[i].event \in Wants[c]
      <3>1. PICK j \in DOMAIN queue : /\ queue'[i].event = queue[j].event
                                      /\ queue'[i].wanted = queue[j].wanted
                                      /\ queue'[i].subs \subseteq queue[j].subs \ ended
        BY DEF QueueLoses
      <3>2. queue[j].subs \subseteq Consumers
        <4>1. queue[j] \in RowType
          BY StreamFacts DEF NotifierTypes
        <4>2. QED
          BY <4>1 DEF RowType
      <3>3. /\ queue[j].event \in Committed
            /\ ~queue[j].wanted => queue[j].subs = {}
            /\ \A c \in queue[j].subs : phase[c] \in Open /\ queue[j].event \in Wants[c]
        BY StreamFacts DEF QueueInv
      <3>4. \A c \in queue'[i].subs : phase'[c] = phase[c]
        BY <3>1, <3>2 DEF Still
      <3>5. QED
        BY <3>1, <3>3, <3>4, LogSameFacts
    <2>3. QED
      BY <2>1, <2>2 DEF QueueInv
  <1>3. FlowInv'
    <2>1. SuffixOf(wire', wire)
      <3>1. wire \in Seq(Calls)
        BY StreamFacts DEF NotifierTypes
      <3>2. \A i \in DOMAIN wire' : i \in Nat /\ i + 0 \in DOMAIN wire /\ wire'[i] = wire[i + 0]
        BY <3>1
      <3>3. QED
        BY <3>2 DEF SuffixOf
    <2>2. \A c \in Consumers : buffer'[c] = buffer[c] \/ buffer'[c] = <<>>
      BY DEF Still, Ended, Abandoned
    <2>3. \A c \in Consumers : buffer[c] \in Seq(Calls)
      BY StreamFacts DEF StreamTypes
    <2>4. QED
      BY <2>1, <2>2, <2>3, StreamFacts, FlowMoves DEF QueueLoses
  <1>4. StreamInv'
    BY <1>1, <1>2, <1>3, MovesKeepInv
  <1>5. ASSUME FeedInv, NEW c \in Consumers
        PROVE  CoverAt(c)' /\ TrackAt(c)'
    <2>1. /\ CoverAt(c) /\ TrackAt(c) /\ TypesAt(c) /\ StreamAt(c)
          /\ IInv /\ SeqInv /\ FlowInv
      BY <1>5, StreamFacts DEF FeedInv
    <2>2. CASE c \in ended
      <3>1. ~InReplay(c)' /\ phase'[c] \notin Open /\ ConsumerSame(c)
        BY <2>2 DEF InReplay, Ended, Abandoned, Open
      <3>2. PICK n \in 0..Len(chan[c]) : chan'[c] = SubSeq(chan[c], 1, n)
        <4>1. CASE Ended(c)
          BY <4>1 DEF Ended
        <4>2. CASE Abandoned(c)
          <5>1. Len(chan[c]) \in Nat /\ chan'[c] = <<>>
            BY <2>1, <4>2 DEF TypesAt, Abandoned
          <5>2. 0 \in 0..Len(chan[c]) /\ SubSeq(chan[c], 1, 0) = <<>>
            BY <5>1, <2>1 DEF TypesAt
          <5>3. QED
            BY <5>1, <5>2
        <4>3. QED
          BY <2>2, <4>1, <4>2
      <3>3. CoverAt(c)'
        BY <2>1, <3>1, <3>2, CutCovers
      <3>4. QED
        BY <3>1, <3>3 DEF TrackAt
    <2>3. CASE c \notin ended
      <3>1. Still(c)
        BY <2>3
      <3>2. CoverAt(c)'
        BY <2>1, <3>1, KeptCovers DEF Still, ReplaySame
      <3>3. CASE ~InReplay(c)
        <4>1. ~InReplay(c)'
          BY <3>1, <3>3 DEF InReplay, Still
        <4>2. QED
          BY <3>2, <4>1 DEF TrackAt
      <3>4. CASE InReplay(c)
        <4>1. Told(c)' = Told(c) /\ Got(c)' = Got(c) /\ bound'[c] = bound[c]
          BY <2>3, <3>1, <3>4, GotSame DEF QueueLoses, Told, Still, ConsumerSame, ReplaySame, ToSet
        <4>2. \A a \in Asked(c) : Known(c, a) => Known(c, a)' \/ (a \in ToSet(wire) /\ wire' # wire)
          BY <4>1, LogSameFacts DEF Known
        <4>3. InReplay(c)' => InReplay(c)
          BY <3>4
        <4>4. CASE unheard \subseteq unheard'
          BY <2>1, <2>3, <3>2, <3>4, <4>1, <4>2, <4>3, <4>4, TrackStays
        <4>5. CASE wire' = wire /\ Forgone(c)
          <5>1. \A a \in Asked(c) : Known(c, a)'
            BY <2>1, <3>4, <4>1, <4>2, <4>5, ForgoneKnown
          <5>2. QED
            BY <2>1, <3>2, <4>3, <5>1, TrackStays
        <4>6. QED
          BY <2>3, <3>4, <4>4, <4>5
      <3>5. QED
        BY <3>2, <3>3, <3>4
    <2>4. QED
      BY <2>2, <2>3
  <1>6. QED
    BY <1>4, <1>5 DEF FeedInv

(***************************************************************************)
(* Steps by which a row reaches its streams.                               *)
(***************************************************************************)
\* The row is the first on the wire, or the first of the queue.
\* The stream is told of it in its turn, and of every row behind it later.
InTurn(c, a, subs) ==
  /\ \A b \in Queued(c) \cup ToSet(wire) : b = a \/ Before(a, b)
  /\ Queued(c) \subseteq Queued(c)' \cup (IF c \in subs THEN {a} ELSE {})
  /\ Queued(c)' \subseteq Queued(c)
  /\ InReplay(c) /\ a \in Asked(c) /\ a \in ToSet(wire) => c \in subs
  /\ c \in subs => a \in Queued(c) \/ Forgone(c)

LEMMA FanKeeps ==
  ASSUME StreamInv, LogSame, IInv', SeqInv', NotifierTypes', StreamTypes', LossInv',
         UNCHANGED unheard,
         NEW a \in Committed, NEW subs \in SUBSET Consumers,
         \A c \in Consumers : FannedOut(c, a, subs),
         Foremost(a), SuffixOf(wire', wire), SuffixOf(EventsOf(queue'), EventsOf(queue)),
         \A i \in DOMAIN queue' : \E j \in DOMAIN queue : queue'[i] = queue[j],
         \A c \in Consumers : InTurn(c, a, subs),
         ToSet(wire) \subseteq ToSet(wire') \cup {a}
  PROVE  StreamInv' /\ (FeedInv => FeedInv')
  <1>1. \A c \in Consumers : StreamMove(c) /\ phase'[c] = phase[c]
          /\ (buffer'[c] = buffer[c] \/ buffer'[c] = Append(buffer[c], a))
    BY StreamFacts, CommittedNumbers, FannedKeeps
  <1>2. QueueInv'
    <2>1. \A i \in DOMAIN wire' : wire'[i] \in Committed'
      BY StreamFacts, LogSameFacts DEF QueueInv, SuffixOf
    <2>2. ASSUME NEW i \in DOMAIN queue'
          PROVE  /\ queue'[i].event \in Committed'
                 /\ ~queue'[i].wanted => queue'[i].subs = {}
                 /\ \A c \in queue'[i].subs : phase'[c] \in Open /\ queue'[i].event \in Wants[c]
      <3>1. PICK j \in DOMAIN queue : queue'[i] = queue[j]
        OBVIOUS
      <3>2. queue[j].subs \subseteq Consumers
        <4>1. queue[j] \in RowType
          BY StreamFacts DEF NotifierTypes
        <4>2. QED
          BY <4>1 DEF RowType
      <3>3. /\ queue[j].event \in Committed
            /\ ~queue[j].wanted => queue[j].subs = {}
            /\ \A c \in queue[j].subs : phase[c] \in Open /\ queue[j].event \in Wants[c]
        BY StreamFacts DEF QueueInv
      <3>4. QED
        BY <1>1, <3>1, <3>2, <3>3, LogSameFacts
    <2>3. QED
      BY <2>1, <2>2 DEF QueueInv
  <1>3. FlowInv'
    <2>1. \A c \in Consumers : buffer[c] \in Seq(Calls)
      BY StreamFacts DEF StreamTypes
    <2>2. a \in Calls
      BY StreamFacts, CommittedNumbers
    <2>3. QED
      BY <1>1, <2>1, <2>2, StreamFacts, FlowMoves
  <1>4. StreamInv'
    BY <1>1, <1>2, <1>3, MovesKeepInv
  <1>5. ASSUME FeedInv, NEW c \in Consumers
        PROVE  CoverAt(c)' /\ TrackAt(c)'
    <2>1. /\ CoverAt(c) /\ TrackAt(c) /\ TypesAt(c) /\ StreamAt(c)
          /\ IInv /\ SeqInv /\ FlowInv /\ a \in Calls
      BY <1>5, StreamFacts, CommittedNumbers DEF FeedInv
    <2>2. /\ c \in subs => Forgone(c) \/ a \in Queued(c)
          /\ \A b \in Queued(c) \cup ToSet(wire) : b = a \/ Before(a, b)
          /\ Queued(c) \subseteq Queued(c)' \cup (IF c \in subs THEN {a} ELSE {})
          /\ Queued(c)' \subseteq Queued(c)
          /\ InReplay(c) /\ a \in Asked(c) /\ a \in ToSet(wire) => c \in subs
      BY <1>5 DEF InTurn
    <2>3. phase[c] = "live" /\ c \in subs =>
            \A b \in Asked(c) : Before(b, a) => b \in Got(c) \/ Missed(c, b)'
      BY <2>1, <2>2, FrontCovers DEF Told
    <2>4. /\ CoverAt(c)' /\ Got(c) \subseteq Got(c)'
          /\ bound'[c] = bound[c]
          /\ ToSet(buffer[c]) \subseteq ToSet(buffer'[c])
          /\ ToSet(buffer'[c]) \subseteq ToSet(buffer[c]) \cup {a}
          /\ c \in subs /\ a \in Asked(c) => a \in ToSet(buffer'[c]) \cup Got(c)' \/ Missed(c, a)'
          /\ c \notin subs => buffer'[c] = buffer[c]
      <3>1. CASE c \in subs
        BY <2>1, <2>3, <3>1, FannedCovers
      <3>2. CASE c \notin subs
        <4>1. Still(c)
          BY <3>2 DEF FannedOut
        <4>2. CoverAt(c)'
          BY <2>1, <4>1, KeptCovers DEF Still, ReplaySame
        <4>3. QED
          BY <3>2, <4>1, <4>2, GotSame DEF Still, ConsumerSame, ReplaySame
      <3>3. QED
        BY <3>1, <3>2
    <2>5. InReplay(c)' <=> InReplay(c)
      BY <1>1 DEF InReplay
    <2>6. ASSUME InReplay(c)', NEW b \in Asked(c), Known(c, b)
          PROVE  Known(c, b)'
      <3>1. CASE b \in Got(c) \/ seqOf[b] <= bound[c] \/ Missed(c, b)
        BY <2>4, <3>1, LogSameFacts DEF Known
      <3>2. CASE b \in ToSet(buffer[c])
        BY <2>4, <3>2 DEF Known, Told
      <3>3. CASE b \in Queued(c)
        <4>1. CASE b \in Queued(c)'
          BY <4>1 DEF Known, Told
        <4>2. CASE c \in subs /\ b = a
          BY <2>4, <2>6, <4>2, LogSameFacts DEF Known, Told
        <4>3. QED
          BY <2>2, <3>3, <4>1, <4>2
      <3>4. CASE b \in ToSet(wire)
        <4>1. CASE b \in ToSet(wire')
          BY <4>1 DEF Known, ToSet
        <4>2. CASE b = a
          <5>1. c \in subs
            BY <2>2, <2>5, <2>6, <3>4, <4>2
          <5>2. QED
            BY <2>4, <2>6, <4>2, <5>1 DEF Known, Told
        <4>3. QED
          BY <3>4, <4>1, <4>2
      <3>5. QED
        BY <2>6, <3>1, <3>2, <3>3, <3>4 DEF Known, Told
    <2>7. InReplay(c)' => Told(c)' \subseteq Told(c) \/ \A b \in Asked(c) : Known(c, b)'
      <3>1. SUFFICES ASSUME InReplay(c)', ~(Told(c)' \subseteq Told(c))
                     PROVE  \A b \in Asked(c) : Known(c, b)'
        OBVIOUS
      <3>2. c \in subs /\ a \notin Queued(c)
        BY <2>2, <2>4, <3>1 DEF Told, ToSet
      <3>3. QED
        BY <2>1, <2>2, <2>4, <2>5, <2>6, <3>1, <3>2, ForgoneKnown
    <2>8. TrackAt(c)'
      BY <2>1, <2>5, <2>6, <2>7, TrackStays
    <2>9. QED
      BY <2>4, <2>8
  <1>6. QED
    BY <1>4, <1>5 DEF FeedInv

\* The first notification waits behind the queue.
LEMMA HoldKeeps ==
  ASSUME StreamInv, LogSame, IInv', SeqInv', NotifierTypes', LossInv',
         UNCHANGED <<unheard, streamVars, consumerVars>>,
         wire # <<>>, wire' = Tail(wire),
         queue' = Append(queue, Row(Head(wire), Matching(Head(wire)))),
         \A c \in Matching(Head(wire)) : Forgone(c)
  PROVE  StreamInv' /\ (FeedInv => FeedInv')
  <1> DEFINE a == Head(wire)
             row == Row(a, Matching(a))
  <1>1. /\ wire \in Seq(Calls) /\ queue \in Seq(RowType)
        /\ StreamTypes /\ QueueInv /\ FlowInv /\ IInv /\ SeqInv
    BY StreamFacts DEF NotifierTypes
  <1>2. /\ a = wire[1] /\ 1 \in DOMAIN wire /\ a \in Calls
        /\ \A i \in DOMAIN wire' : i + 1 \in DOMAIN wire /\ wire'[i] = wire[i + 1]
        /\ \A i \in DOMAIN wire : i = 1 \/ (i - 1 \in DOMAIN wire' /\ wire'[i - 1] = wire[i])
    BY <1>1, SequenceSteps
  <1>3. a \in Committed
    BY <1>1, <1>2 DEF QueueInv
  <1>4. /\ row.event = a /\ row.subs = Matching(a) /\ (~row.wanted => row.subs = {})
        /\ Matching(a) \in SUBSET Consumers /\ row \in RowType
        /\ \A c \in Matching(a) : phase[c] \in Open /\ a \in Wants[c]
    BY <1>2 DEF Row, RowType, Matching, Subscribers
  <1> HIDE DEF a, row
  <1>5. /\ queue' = Append(queue, row)
        /\ DOMAIN queue' = 1..(Len(queue) + 1) /\ DOMAIN queue = 1..Len(queue) /\ Len(queue) \in Nat
        /\ \A i \in DOMAIN queue : queue'[i] = queue[i]
        /\ queue'[Len(queue) + 1] = row
        /\ \A c : /\ c \in row.subs => Queued(c)' = Queued(c) \cup {a}
                  /\ c \notin row.subs => Queued(c)' = Queued(c)
    BY <1>1, <1>4, RowsGained DEF a, row, Queued
  <1>6. \A c \in Consumers : Still(c)
    BY DEF Still, ReplaySame, ConsumerSame, streamVars, replayVars, consumerVars
  <1>7. UNCHANGED <<phase, buffer>> /\ StreamTypes'
    BY <1>1 DEF streamVars, replayVars, consumerVars, StreamTypes
  <1>8. QueueInv'
    <2>1. \A i \in DOMAIN wire' : wire'[i] \in Committed'
      BY <1>1, <1>2, LogSameFacts DEF QueueInv
    <2>2. \A i \in DOMAIN queue' : i \in DOMAIN queue \/ i = Len(queue) + 1
      BY <1>5
    <2>3. \A i \in DOMAIN queue' :
            /\ queue'[i].event \in Committed'
            /\ ~queue'[i].wanted => queue'[i].subs = {}
            /\ \A c \in queue'[i].subs : phase'[c] \in Open /\ queue'[i].event \in Wants[c]
      BY <1>1, <1>3, <1>4, <1>5, <1>7, <2>2, LogSameFacts DEF QueueInv
    <2>4. QED
      BY <2>1, <2>3 DEF QueueInv
  <1>9. FlowInv'
    BY <1>1, <1>4, <1>5, <1>7, FlowQueues DEF a
  <1>10. StreamInv'
    BY <1>6, <1>7, <1>8, <1>9, MovesKeepInv DEF StreamMove
  <1>11. ASSUME FeedInv, NEW c \in Consumers
         PROVE  CoverAt(c)' /\ TrackAt(c)'
    <2>1. CoverAt(c) /\ TrackAt(c) /\ Still(c)
      BY <1>6, <1>11 DEF FeedInv
    <2>2. CoverAt(c)'
      BY <2>1, KeptCovers DEF Still, ReplaySame
    <2>3. /\ Got(c)' = Got(c) /\ bound'[c] = bound[c] /\ ToSet(buffer'[c]) = ToSet(buffer[c])
          /\ InReplay(c)' <=> InReplay(c)
      BY <1>7, <2>1, GotSame DEF Still, ConsumerSame, ReplaySame, InReplay
    <2>4. /\ Queued(c) \subseteq Queued(c)'
          /\ c \notin Matching(a) => Queued(c)' = Queued(c)
      BY <1>4, <1>5
    <2>5. ASSUME InReplay(c)', NEW b \in Asked(c), Known(c, b)
          PROVE  Known(c, b)'
      <3>1. CASE b \in Got(c) \/ seqOf[b] <= bound[c] \/ Missed(c, b) \/ b \in Told(c)
        BY <2>3, <2>4, <3>1, LogSameFacts DEF Known, Told
      <3>2. CASE b \in ToSet(wire)
        <4>1. PICK i \in DOMAIN wire : wire[i] = b
          BY <3>2, Members
        <4>2. CASE i = 1
          <5>1. c \in row.subs
            BY <1>2, <1>4, <2>3, <2>5, <4>1, <4>2 DEF Matching, Subscribers, InReplay, Open, Asked
          <5>2. b \in Queued(c)'
            BY <1>2, <1>5, <4>1, <4>2, <5>1
          <5>3. QED
            BY <5>2 DEF Known, Told
        <4>3. CASE i # 1
          <5>1. b \in ToSet(wire')
            BY <1>2, <4>1, <4>3, Members
          <5>2. QED
            BY <2>1, <5>1 DEF Known, ToSet
        <4>4. QED
          BY <4>2, <4>3
      <3>3. QED
        BY <2>5, <3>1, <3>2 DEF Known
    <2>6. InReplay(c)' => Told(c)' \subseteq Told(c) \/ \A b \in Asked(c) : Known(c, b)'
      <3>1. CASE c \in Matching(a)
        <4>1. Forgone(c)
          BY <3>1 DEF a
        <4>2. QED
          BY <2>1, <2>3, <2>5, <4>1, ForgoneKnown
      <3>2. CASE c \notin Matching(a)
        BY <2>3, <2>4, <3>2 DEF Told
      <3>3. QED
        BY <3>1, <3>2
    <2>7. TrackAt(c)'
      BY <1>1, <2>1, <2>3, <2>5, <2>6, TrackStays
    <2>8. QED
      BY <2>2, <2>7
  <1>12. QED
    BY <1>10, <1>11 DEF FeedInv

(***************************************************************************)
(* Steps of one consumer and its stream.                                   *)
(***************************************************************************)
LEMMA LocalKeeps ==
  ASSUME StreamInv, UNCHANGED <<appendVars, notifier, lossVars, faults>>, StreamTypes',
         NEW c \in Consumers, StreamMove(c), \A d \in Consumers \ {c} : Still(d),
         phase[c] \in Open => phase'[c] \in Open,
         buffer'[c] = buffer[c] \/ buffer'[c] = <<>>,
         FeedInv => CoverAt(c)' /\ TrackAt(c)'
  PROVE  StreamInv' /\ (FeedInv => FeedInv')
  <1>1. IInv' /\ SeqInv' /\ LogSame
    BY StreamFacts, LossSame, LogLeftAlone
  <1>2. UNCHANGED <<conn, connectedOnce, wire, queue, resolving, faults, unheard, skipped>>
    BY DEF notifier, lossVars
  <1>3. NotifierTypes'
    BY <1>2, StreamFacts DEF NotifierTypes
  <1>4. wire \in Seq(Calls) /\ queue \in Seq(RowType)
    BY StreamFacts DEF NotifierTypes
  <1>5. \A d \in Consumers : phase[d] \in Open => phase'[d] \in Open
    BY DEF Still
  <1>6. QueueInv'
    <2>1. \A i \in DOMAIN queue : queue[i].subs \subseteq Consumers
      <3>1. \A i \in DOMAIN queue : queue[i] \in RowType
        BY <1>4
      <3>2. QED
        BY <3>1 DEF RowType
    <2>2. QED
      BY <1>1, <1>2, <1>5, <2>1, StreamFacts, LogSameFacts DEF QueueInv
  <1>7. FlowInv'
    <2>1. /\ \A i \in DOMAIN wire' : i \in Nat /\ i + 0 \in DOMAIN wire /\ wire'[i] = wire[i + 0]
          /\ \A i \in DOMAIN EventsOf(queue') :
               i \in Nat /\ i + 0 \in DOMAIN EventsOf(queue) /\ EventsOf(queue')[i] = EventsOf(queue)[i + 0]
      BY <1>2, <1>4 DEF EventsOf
    <2>2. SuffixOf(wire', wire) /\ SuffixOf(EventsOf(queue'), EventsOf(queue))
      BY <2>1 DEF SuffixOf
    <2>3. \A d \in Consumers : buffer'[d] = buffer[d] \/ buffer'[d] = <<>>
      BY DEF Still
    <2>4. \A d \in Consumers : buffer[d] \in Seq(Calls)
      BY StreamFacts DEF StreamTypes
    <2>5. QED
      BY <1>1, <2>2, <2>3, <2>4, StreamFacts, FlowMoves
  <1>11. LossInv'
    BY <1>1, <1>2, StreamFacts, LogSameFacts DEF LossInv
  <1>8. StreamInv'
    BY <1>1, <1>3, <1>6, <1>7, <1>11, MovesKeepInv DEF StreamMove
  <1>9. ASSUME FeedInv, NEW d \in Consumers \ {c}
        PROVE  CoverAt(d)' /\ TrackAt(d)'
    <2>1. CoverAt(d) /\ TrackAt(d) /\ Still(d)
      BY <1>9 DEF FeedInv
    <2>2. CoverAt(d)'
      BY <1>1, <2>1, KeptCovers DEF Still, ReplaySame
    <2>3. /\ Got(d)' = Got(d) /\ bound'[d] = bound[d] /\ Told(d)' = Told(d)
          /\ InReplay(d)' <=> InReplay(d)
      BY <1>2, <2>1, GotSame DEF Still, ConsumerSame, ReplaySame, Told, Queued, ToSet, InReplay
    <2>4. \A b \in Asked(d) : Known(d, b) => Known(d, b)'
      BY <1>1, <1>2, <2>3, LogSameFacts DEF Known
    <2>5. TrackAt(d)'
      BY <1>1, <1>2, <2>1, <2>3, <2>4, StreamFacts, TrackStays
    <2>6. QED
      BY <2>2, <2>5
  <1>10. QED
    BY <1>2, <1>8, <1>9 DEF FeedInv

(***************************************************************************)
(* The log grows.                                                          *)
(***************************************************************************)
\* Every stream is past nothing that commits later: its marks are numbers of
\* committed events, so an event that commits below one of them is Late.
LEMMA LogFacts ==
  ASSUME IInv, SeqInv, AppendNext
  PROVE  /\ IInv' /\ SeqInv' /\ Committed \subseteq Committed'
         /\ \A a \in Committed : seqOf'[a] = seqOf[a]
         /\ \A a, b : Before(a, b) => Before(a, b)'
         /\ \A a : \A b \in Committed : Before(a, b)' => Before(a, b)
         /\ \A a : Late(a) => Late(a)'
         /\ \A a \in Committed' \ Committed : \A m \in Marks : seqOf'[a] <= m => Late(a)'
         /\ committed' = committed \/ \E a \in Calls : LogExtended(a)
         /\ committed' = committed => LogKept
  <1>1. IInv'
    BY NextKeeps
  <1>2. SeqInv' /\ (LogKept \/ \E a \in Calls : LogExtended(a))
    BY LogStep
  <1>3. AppendTypeOK
    BY DEF IInv
  <1>4. CASE LogKept
    BY <1>1, <1>2, <1>4, LogPersists DEF LogKept
  <1>5. CASE \E a \in Calls : LogExtended(a)
    <2>1. PICK a \in Calls : LogExtended(a)
      BY <1>5
    <2>2. /\ Committed' = Committed \cup {a}
          /\ a \notin Committed /\ seqOf' = seqOf
          /\ \A b, d : Before(b, d) => Before(b, d)'
          /\ \A b, d \in Committed : Before(b, d)' => Before(b, d)
          /\ \A b : ~Before(a, b)'
          /\ \A b : Late(b) => Late(b)'
          /\ \A b \in Committed : seqOf[b] > seqOf[a] => Late(a)'
      BY <1>3, <2>1, LogExtends
    <2>3. \A b : \A d \in Committed : Before(b, d)' => Before(b, d)
      <3>1. SUFFICES ASSUME NEW b, NEW d \in Committed, Before(b, d)' PROVE Before(b, d)
        OBVIOUS
      <3>2. b \in Committed'
        BY <3>1 DEF Before, Committed
      <3>3. QED
        BY <2>2, <3>1, <3>2
    <2>4. \A m \in Marks : seqOf'[a] <= m => Late(a)'
      <3>1. SUFFICES ASSUME NEW m \in Marks, seqOf'[a] <= m PROVE Late(a)'
        OBVIOUS
      <3>2. nextSeq' \in Nat /\ \A b \in Committed' : seqOf'[b] \in 1..(nextSeq' - 1)
        BY <1>1, <1>2 DEF IInv, AppendTypeOK, SeqInv, Drawn
      <3>3. a \in Committed' /\ seqOf'[a] \in Nat /\ seqOf'[a] >= 1
        BY <2>2, <3>2
      <3>4. m # 0
        BY <3>1, <3>3
      <3>5. PICK b \in Committed : m = seqOf[b]
        BY <3>4 DEF Marks
      <3>6. seqOf[b] \in Nat /\ seqOf[b] # seqOf[a]
        BY <1>2, <2>2, <3>2, <3>3, CommittedNumbers DEF SeqInv, Drawn
      <3>7. QED
        BY <2>2, <3>1, <3>3, <3>5, <3>6
    <2>5. committed' # committed
      <3>1. Committed' # Committed
        BY <2>2
      <3>2. QED
        BY <3>1 DEF Committed
    <2>6. QED
      BY <1>1, <1>2, <2>1, <2>2, <2>3, <2>4, <2>5
  <1>6. QED
    BY <1>2, <1>4, <1>5

LEMMA AppendStepKeeps ==
  ASSUME StreamInv, AppendStep
  PROVE  StreamInv' /\ (FeedInv => FeedInv')
  <1>1. AppendNext /\ UNCHANGED <<conn, connectedOnce, queue, resolving, faults, skipped>>
        /\ UNCHANGED <<phase, maxSeq, cursor, bound, buffer, chan, lastSeq, delivered>>
    BY DEF AppendStep, streamVars, consumerVars, replayVars
  <1>2. /\ IInv /\ SeqInv /\ AppendTypeOK /\ StreamTypes /\ QueueInv /\ FlowInv /\ LossInv
        /\ wire \in Seq(Calls)
    BY StreamFacts DEF NotifierTypes
  <1>3. /\ IInv' /\ SeqInv' /\ Committed \subseteq Committed'
        /\ \A a \in Committed : seqOf'[a] = seqOf[a]
        /\ \A a, b : Before(a, b) => Before(a, b)'
        /\ \A a : \A b \in Committed : Before(a, b)' => Before(a, b)
        /\ \A a : Late(a) => Late(a)'
        /\ \A a \in Committed' \ Committed : \A m \in Marks : seqOf'[a] <= m => Late(a)'
    BY <1>1, <1>2, LogFacts
  <1>4. \/ wire' = wire /\ unheard' = unheard /\ Committed' = Committed
        \/ \E a \in Calls : /\ LogExtended(a) /\ Committed' = Committed \cup {a}
                            /\ \/ /\ conn = "down" /\ wire' = wire
                                  /\ unheard' = unheard \cup {a}
                               \/ /\ conn # "down" /\ wire' = Append(wire, a)
                                  /\ unheard' = unheard
    <2>1. CASE committed' = committed
      <3>1. ToSet(<<>>) = {} /\ wire \o <<>> = wire
        BY <1>2 DEF ToSet
      <3>2. Committed' = Committed
        BY <2>1 DEF Committed
      <3>3. QED
        BY <2>1, <3>1, <3>2 DEF AppendStep
    <2>2. CASE committed' # committed
      <3>1. PICK a \in Calls : LogExtended(a)
        BY <1>1, <1>2, <2>2, LogFacts
      <3>2. Last(committed') = a
        <4>1. committed \in Seq(Calls) /\ committed' = Append(committed, a)
          BY <1>2, <3>1 DEF LogExtended, AppendTypeOK
        <4>2. QED
          BY <4>1 DEF Last
      <3>3. Committed' = Committed \cup {a}
        BY <1>2, <3>1, LogExtends
      <3>4. ToSet(<<a>>) = {a} /\ wire \o <<a>> = Append(wire, a)
        BY <1>2 DEF ToSet
      <3>5. QED
        BY <2>2, <3>1, <3>2, <3>3, <3>4 DEF AppendStep
    <2>3. QED
      BY <2>1, <2>2
  <1> DEFINE Announced ==
               /\ wire' \in Seq(Calls) /\ ToSet(wire) \subseteq ToSet(wire')
               /\ \A i \in DOMAIN wire' : wire'[i] \in Committed'
               /\ conn = "down" => wire' = wire
               /\ conn # "down" => unheard' = unheard
               /\ unheard \subseteq unheard' /\ unheard' \subseteq Committed'
               /\ Committed' \ Committed \subseteq ToSet(wire') \cup unheard'
  <1>5. Announced
    <2>1. CASE wire' = wire /\ unheard' = unheard /\ Committed' = Committed
      BY <1>2, <1>3, <2>1 DEF QueueInv, LossInv, ToSet
    <2>2. ASSUME NEW a \in Calls, Committed' = Committed \cup {a},
                 conn = "down", wire' = wire, unheard' = unheard \cup {a}
          PROVE  Announced
      BY <1>2, <1>3, <2>2 DEF QueueInv, LossInv, ToSet
    <2>3. ASSUME NEW a \in Calls, Committed' = Committed \cup {a},
                 conn # "down", wire' = Append(wire, a), unheard' = unheard
          PROVE  Announced
      <3>1. wire' \in Seq(Calls) /\ ToSet(wire') = ToSet(wire) \cup {a}
        BY <1>2, <2>3, AppendedElements
      <3>2. \A i \in DOMAIN wire' : wire'[i] \in ToSet(wire')
        BY Members
      <3>3. \A x \in ToSet(wire) : x \in Committed
        BY <1>2, Members DEF QueueInv
      <3>4. unheard' \subseteq Committed'
        BY <1>2, <2>3 DEF LossInv
      <3>5. QED
        BY <2>3, <3>1, <3>2, <3>3, <3>4
    <2>4. QED
      BY <1>4, <2>1, <2>2, <2>3
  <1>6. \A c \in Consumers : Still(c)
    BY <1>1 DEF Still, ReplaySame, ConsumerSame
  <1>7. NotifierTypes' /\ StreamTypes'
    BY <1>1, <1>5, StreamFacts DEF NotifierTypes, StreamTypes
  <1>15. LossInv'
    <2>1. conn' = "up" => connectedOnce' /\ unheard' = {}
      BY <1>1, <1>2, <1>5 DEF LossInv
    <2>2. ~connectedOnce' => resolving' = "no"
      BY <1>1, <1>2 DEF LossInv
    <2>3. QED
      BY <1>1, <1>2, <1>3, <1>5, <2>1, <2>2, LossStays
  <1>8. TypeOK'
    BY <1>3, <1>7, <1>15, TypesStay DEF IInv
  <1>9. \A c \in Consumers : StreamAt(c)'
    BY <1>3, <1>6, StreamFacts, StillKeeps
  <1>10. QueueInv'
    BY <1>1, <1>2, <1>3, <1>5 DEF QueueInv
  <1>11. FlowInv'
    <2>1. CASE \E a \in Calls : LogExtended(a) /\ (wire' = wire \/ wire' = Append(wire, a))
      BY <1>1, <1>2, <2>1, StreamFacts, FlowExtends
    <2>2. CASE wire' = wire
      BY <1>1, <1>2, <1>3, <2>2 DEF FlowInv
    <2>3. QED
      BY <1>4, <2>1, <2>2
  <1>12. StreamInv'
    BY <1>3, <1>8, <1>9, <1>10, <1>11, <1>15 DEF StreamInv
  <1>13. ASSUME FeedInv, NEW c \in Consumers
         PROVE  CoverAt(c)' /\ TrackAt(c)'
    <2>1. CoverAt(c) /\ TrackAt(c) /\ StreamAt(c) /\ TypesAt(c)
      BY <1>13, StreamFacts DEF FeedInv
    <2>2. /\ Got(c)' = Got(c) /\ Told(c)' = Told(c) /\ (InReplay(c)' <=> InReplay(c))
      BY <1>1 DEF Got, Seen, Told, Queued, QueuedIn, ToSet, InReplay
    <2>3. \A a \in Asked(c)' : a \in Asked(c) \/ a \in Committed' \ Committed
      BY DEF Asked
    <2>4. \A m \in Marks : Covered(c, m) => Covered(c, m)'
      <3>1. \A a : Missed(c, a) => Missed(c, a)'
        BY <1>1, <1>3 DEF Missed
      <3>2. \A a \in Committed' \ Committed : \A m \in Marks : seqOf'[a] <= m => Missed(c, a)'
        BY <1>3 DEF Missed
      <3>3. QED
        BY <1>3, <2>2, <2>3, <3>1, <3>2 DEF Covered, Asked
    <2>5. CoverAt(c)'
      <3>1. \A i \in DOMAIN chan[c] : chan[c][i] \in Committed
        BY <2>1 DEF StreamAt, SourceAt, Asked
      <3>2. \A i \in DOMAIN chan[c] : seqOf[chan[c][i]] \in Marks /\ seqOf'[chan[c][i]] = seqOf[chan[c][i]]
        BY <1>3, <3>1 DEF Marks
      <3>3. (\A i \in DOMAIN chan[c] : Covered(c, seqOf[chan[c][i]]))'
        BY <1>1, <2>1, <2>4, <3>2 DEF CoverAt
      <3>4. QED
        BY <1>1, <2>1, <2>4, <3>3 DEF CoverAt, StreamAt, MarkAt, Open
    <2>6. \A a \in Asked(c) : Known(c, a) => Known(c, a)'
      <3>1. \A a \in Asked(c) : seqOf'[a] = seqOf[a]
        BY <1>3 DEF Asked
      <3>2. \A a : Missed(c, a) => Missed(c, a)'
        BY <1>1, <1>3 DEF Missed
      <3>3. QED
        BY <1>1, <1>5, <2>2, <3>1, <3>2 DEF Known
    <2>7. \A b \in Told(c) : b \in Committed
      BY <1>2, <2>1, Members DEF Told, Queued, QueuedIn, QueueInv, StreamAt, SourceAt, Asked
    <2>8. TrackAt(c)'
      <3>1. SUFFICES ASSUME InReplay(c)'
                     PROVE  (/\ \A a \in Asked(c) : Known(c, a) \/ a \in unheard
                             /\ \A b \in Told(c) : \A a \in Asked(c) : Before(a, b) => Known(c, a))'
        BY DEF TrackAt
      <3>2. ASSUME NEW a \in Asked(c)'
            PROVE  Known(c, a)' \/ a \in unheard'
        <4>1. CASE a \in Asked(c)
          BY <1>5, <2>1, <2>2, <2>6, <3>1, <4>1 DEF TrackAt
        <4>2. CASE a \in Committed' \ Committed
          BY <1>5, <4>2 DEF Known
        <4>3. QED
          BY <2>3, <4>1, <4>2
      <3>3. ASSUME NEW b \in Told(c)', NEW a \in Asked(c)', Before(a, b)'
            PROVE  Known(c, a)'
        <4>1. b \in Told(c) /\ b \in Committed /\ Before(a, b)
          BY <1>3, <2>2, <2>7, <3>3
        <4>2. a \in Asked(c)
          BY <1>2, <2>3, <4>1, LogOrder
        <4>3. QED
          BY <2>1, <2>2, <2>6, <3>1, <4>1, <4>2 DEF TrackAt
      <3>4. QED
        BY <3>2, <3>3
    <2>9. QED
      BY <2>5, <2>8
  <1>14. QED
    BY <1>1, <1>12, <1>13 DEF FeedInv

(***************************************************************************)
(* The actions of one consumer and its stream.                             *)
(***************************************************************************)
LEMMA FeedFacts ==
  ASSUME StreamInv, FeedInv, NEW c \in Consumers
  PROVE  /\ CoverAt(c) /\ TrackAt(c) /\ TypesAt(c) /\ StreamAt(c)
         /\ IInv /\ SeqInv /\ FlowInv
  BY StreamFacts DEF FeedInv

LEMMA OpenKeeps ==
  ASSUME StreamInv, NEW c \in Consumers, OpenStream(c)
  PROVE  StreamInv' /\ (FeedInv => FeedInv')
  <1>1. StreamTypes /\ LogSame
    BY StreamFacts, LossSame, LogLeftAlone DEF OpenStream
  <1>2. /\ phase[c] = "none" /\ phase' = [phase EXCEPT ![c] = "subscribed"]
        /\ maxSeq' = [maxSeq EXCEPT ![c] = lastSeq[c]]
        /\ UNCHANGED <<appendVars, notifier, lossVars, faults>>
        /\ UNCHANGED <<cursor, bound, buffer, chan, lastSeq, delivered>>
    BY DEF OpenStream, replayVars, consumerVars
  <1>3. StreamTypes'
    BY <1>1, <1>2 DEF StreamTypes, Open
  <1>4. Opened(c) /\ \A d \in Consumers \ {c} : Still(d)
    BY <1>1, <1>2 DEF Opened, Still, ReplaySame, ConsumerSame, StreamTypes
  <1>5. ASSUME FeedInv
        PROVE  CoverAt(c)' /\ TrackAt(c)'
    <2>1. CoverAt(c)'
      BY <1>1, <1>4, <1>5, FeedFacts, KeptCovers DEF Opened
    <2>2. ~InReplay(c)'
      BY <1>4 DEF InReplay, Opened
    <2>3. QED
      BY <2>1, <2>2 DEF TrackAt
  <1>6. phase[c] \in Open => phase'[c] \in Open
    BY <1>2 DEF Open
  <1>7. QED
    BY <1>2, <1>3, <1>4, <1>5, <1>6, LocalKeeps DEF StreamMove

LEMMA BoundKeeps ==
  ASSUME StreamInv, NEW c \in Consumers, ReadBound(c)
  PROVE  StreamInv' /\ (FeedInv => FeedInv')
  <1> DEFINE top == Max({0} \cup {seqOf[a] : a \in Committed})
  <1>1. StreamTypes /\ LogSame /\ IInv /\ SeqInv
    BY StreamFacts, LossSame, LogLeftAlone DEF ReadBound
  <1>2. top \in Nat /\ \A a \in Committed : seqOf[a] <= top
    BY <1>1, BoundIsHighest, CommittedNumbers
  <1>3. /\ phase[c] = "subscribed" /\ phase' = [phase EXCEPT ![c] = "replay"]
        /\ bound' = [bound EXCEPT ![c] = top]
        /\ cursor' = [cursor EXCEPT ![c] = maxSeq[c]]
        /\ UNCHANGED <<appendVars, notifier, lossVars, faults>>
        /\ UNCHANGED <<maxSeq, buffer, chan, lastSeq, delivered>>
    BY DEF ReadBound, consumerVars
  <1>4. Bounded(c)
    BY <1>1, <1>3 DEF Bounded, ConsumerSame, StreamTypes
  <1> HIDE DEF top
  <1>5. StreamTypes'
    BY <1>1, <1>2, <1>3 DEF StreamTypes, Open
  <1>6. \A d \in Consumers \ {c} : Still(d)
    BY <1>1, <1>3 DEF Still, ReplaySame, ConsumerSame, StreamTypes
  <1>7. ASSUME FeedInv
        PROVE  CoverAt(c)' /\ TrackAt(c)'
    <2>1. CoverAt(c)'
      BY <1>1, <1>4, <1>7, FeedFacts, KeptCovers DEF Bounded, Open
    <2>2. \A a \in Asked(c)' : seqOf'[a] <= bound'[c]
      BY <1>1, <1>2, <1>3, LogSameFacts DEF Asked, StreamTypes
    <2>3. \A a \in Asked(c)' : Known(c, a)'
      BY <2>2 DEF Known
    <2>4. QED
      BY <2>1, <2>3 DEF TrackAt
  <1>8. phase[c] \in Open => phase'[c] \in Open
    BY <1>1, <1>3 DEF Open, StreamTypes
  <1>9. QED
    BY <1>3, <1>4, <1>5, <1>6, <1>7, <1>8, LocalKeeps DEF StreamMove

LEMMA ReceiveKeeps ==
  ASSUME StreamInv, NEW c \in Consumers, Receive(c)
  PROVE  StreamInv' /\ (FeedInv => FeedInv')
  <1>1. StreamTypes /\ LogSame /\ IInv /\ SeqInv
    BY StreamFacts, LossSame, LogLeftAlone DEF Receive
  <1>2. /\ chan[c] # <<>> /\ chan' = [chan EXCEPT ![c] = Tail(chan[c])]
        /\ delivered' = [delivered EXCEPT ![c] = Append(delivered[c], Head(chan[c]))]
        /\ lastSeq' = [lastSeq EXCEPT ![c] = Max({lastSeq[c], seqOf[Head(chan[c])]})]
        /\ UNCHANGED <<appendVars, notifier, lossVars, faults>>
        /\ UNCHANGED <<phase, maxSeq, cursor, bound, buffer>>
    BY DEF Receive, replayVars
  <1>3. Received(c)
    BY <1>1, <1>2 DEF Received, ReplaySame, StreamTypes
  <1>4. Head(chan[c]) \in Calls /\ Tail(chan[c]) \in Seq(Calls)
    BY <1>1, <1>2, SequenceSteps DEF StreamTypes
  <1>5. Max({lastSeq[c], seqOf[Head(chan[c])]}) \in Nat
    <2>1. seqOf[Head(chan[c])] \in Nat /\ lastSeq[c] \in Nat
      BY <1>1, <1>4 DEF IInv, AppendTypeOK, StreamTypes
    <2>2. QED
      BY <2>1, MaxOfTwo
  <1>6. StreamTypes'
    <2>1. /\ chan' \in [Consumers -> Seq(Calls)]
          /\ delivered' \in [Consumers -> Seq(Calls)]
      BY <1>1, <1>2, <1>4 DEF StreamTypes
    <2>2. lastSeq' \in [Consumers -> Nat]
      BY <1>1, <1>2, <1>5 DEF StreamTypes
    <2>3. QED
      BY <1>1, <1>2, <2>1, <2>2 DEF StreamTypes
  <1>7. \A d \in Consumers \ {c} : Still(d)
    BY <1>1, <1>2 DEF Still, ReplaySame, ConsumerSame, StreamTypes
  <1>8. ASSUME FeedInv
        PROVE  CoverAt(c)' /\ TrackAt(c)'
    <2>1. CoverAt(c)' /\ Got(c)' = Got(c)
      BY <1>1, <1>3, <1>8, FeedFacts, ReceivedCovers
    <2>2. UNCHANGED <<wire, queue, unheard>>
      BY <1>2 DEF notifier, lossVars
    <2>3. Told(c)' = Told(c) /\ (InReplay(c)' <=> InReplay(c)) /\ bound'[c] = bound[c]
      BY <1>2, <2>2 DEF Told, Queued, ToSet, InReplay
    <2>4. \A b \in Asked(c) : Known(c, b) => Known(c, b)'
      BY <1>1, <2>1, <2>2, <2>3, LogSameFacts DEF Known
    <2>5. TrackAt(c)'
      BY <1>1, <1>8, <2>2, <2>3, <2>4, FeedFacts, TrackStays
    <2>6. QED
      BY <2>1, <2>5
  <1>9. QED
    BY <1>2, <1>3, <1>6, <1>7, <1>8, LocalKeeps DEF StreamMove

LEMMA EndReadKeeps ==
  ASSUME StreamInv, NEW c \in Consumers, ReadEnd(c)
  PROVE  StreamInv' /\ (FeedInv => FeedInv')
  <1>1. StreamTypes /\ LogSame /\ IInv /\ SeqInv
    BY StreamFacts, LossSame, LogLeftAlone DEF ReadEnd
  <1>2. /\ phase[c] = "ended" /\ chan[c] = <<>> /\ phase' = [phase EXCEPT ![c] = "none"]
        /\ UNCHANGED <<appendVars, notifier, lossVars, faults>>
        /\ UNCHANGED <<maxSeq, cursor, bound, buffer, chan, lastSeq, delivered>>
    BY DEF ReadEnd, replayVars, consumerVars
  <1>3. Abandoned(c) /\ phase'[c] = "none"
    <2>1. buffer[c] = <<>>
      BY <1>2, StreamFacts DEF SourceAt
    <2>2. QED
      BY <1>1, <1>2, <2>1 DEF Abandoned, ReplaySame, ConsumerSame, StreamTypes
  <1>4. StreamTypes'
    BY <1>1, <1>2 DEF StreamTypes
  <1>5. \A d \in Consumers \ {c} : Still(d)
    BY <1>1, <1>2 DEF Still, ReplaySame, ConsumerSame, StreamTypes
  <1>6. ASSUME FeedInv
        PROVE  CoverAt(c)' /\ TrackAt(c)'
    <2>1. CoverAt(c)'
      BY <1>1, <1>2, <1>3, <1>6, FeedFacts, KeptCovers DEF Abandoned, Open
    <2>2. ~InReplay(c)'
      BY <1>3 DEF InReplay
    <2>3. QED
      BY <2>1, <2>2 DEF TrackAt
  <1>7. phase[c] \notin Open
    BY <1>2 DEF Open
  <1>8. QED
    BY <1>2, <1>3, <1>4, <1>5, <1>6, <1>7, LocalKeeps DEF StreamMove

LEMMA JoinedThrice ==
  \A r, s, t \in Seq(Calls) : (r \o s) \o t = r \o (s \o t)
  BY ConcatAssociative

LEMMA BatchKeeps ==
  ASSUME StreamInv, NEW c \in Consumers, ReadBatch(c)
  PROVE  StreamInv' /\ (FeedInv => FeedInv')
  <1> DEFINE rows == Batch(c)
             reached == Reached(rows, maxSeq[c])
             flushed == Fresh(buffer[c], reached)
             more == Len(rows) = ReplayBatch
             out == rows \o (IF more THEN <<>> ELSE flushed)
             top == IF more THEN reached ELSE Reached(flushed, reached)
  <1>1. StreamTypes /\ LogSame /\ IInv /\ SeqInv /\ TypesAt(c) /\ StreamAt(c)
    BY StreamFacts, LossSame, LogLeftAlone DEF ReadBatch
  <1>2. /\ phase[c] = "replay"
        /\ phase' = IF more THEN phase ELSE [phase EXCEPT ![c] = "live"]
        /\ cursor' = IF more THEN [cursor EXCEPT ![c] = seqOf[Last(rows)]] ELSE cursor
        /\ maxSeq' = [maxSeq EXCEPT ![c] = top]
        /\ buffer' = IF more THEN buffer ELSE [buffer EXCEPT ![c] = <<>>]
        /\ chan' = [chan EXCEPT ![c] = chan[c] \o rows \o (IF more THEN <<>> ELSE flushed)]
        /\ UNCHANGED <<appendVars, notifier, lossVars, faults>>
        /\ UNCHANGED <<bound, lastSeq, delivered>>
    BY DEF ReadBatch, consumerVars
  <1>3. /\ rows \in Seq(Calls) /\ reached \in Nat
        /\ \A i \in DOMAIN rows : rows[i] \in Committed
    <2>1. rows \in Seq(Committed) /\ reached \in Nat /\ Committed \subseteq Calls
      BY <1>1, <1>2, BatchAbove, CommittedNumbers
    <2> HIDE DEF rows, reached
    <2>2. QED
      BY <2>1, SeqMonotonic
  <1>4. flushed \in Seq(Calls) /\ Reached(flushed, reached) \in Nat
    <2>1. flushed \in Seq(Committed) /\ Reached(flushed, reached) \in Nat /\ Committed \subseteq Calls
      BY <1>1, <1>2, FlushAbove, CommittedNumbers
    <2> HIDE DEF flushed
    <2>2. QED
      BY <2>1, SeqMonotonic
  <1>5. reached = Reached(Batch(c), maxSeq[c]) /\ flushed = Fresh(buffer[c], reached)
    OBVIOUS
  <1>6. more => rows # <<>>
    BY StreamAssumption
  <1> HIDE DEF flushed, reached
  <1>7. chan[c] \o rows \o (IF more THEN <<>> ELSE flushed) = chan[c] \o out
    <2>1. chan[c] \in Seq(Calls)
      BY <1>1 DEF StreamTypes
    <2>2. (IF more THEN <<>> ELSE flushed) \in Seq(Calls)
      BY <1>4
    <2>3. rows \in Seq(Calls)
      BY <1>3
    <2> DEFINE tail == IF more THEN <<>> ELSE flushed
    <2>4. tail \in Seq(Calls)
      BY <2>2
    <2> HIDE DEF tail, rows
    <2>5. (chan[c] \o rows) \o tail = chan[c] \o (rows \o tail)
      BY <2>1, <2>3, <2>4, JoinedThrice
    <2>6. QED
      BY <2>5 DEF tail
  <1>8. out \in Seq(Calls) /\ top \in Nat /\ (more => out = rows) /\ (~more => out = rows \o flushed)
    BY <1>3, <1>4
  <1>9. more => BatchMore(c)
    <2>1. SUFFICES ASSUME more PROVE BatchMore(c)
      OBVIOUS
    <2>2. out = rows /\ top = reached
      BY <1>8, <2>1
    <2> HIDE DEF out
    <2>3. phase'[c] = "replay" /\ cursor'[c] = seqOf[Last(rows)] /\ maxSeq'[c] = reached
          /\ chan'[c] = chan[c] \o rows /\ bound'[c] = bound[c] /\ buffer'[c] = buffer[c]
      BY <1>1, <1>2, <1>7, <2>1, <2>2 DEF StreamTypes
    <2>4. ConsumerSame(c)
      BY <1>2 DEF ConsumerSame
    <2>5. QED
      BY <1>2, <1>5, <2>1, <2>3, <2>4 DEF BatchMore
  <1>10. ~more => BatchLast(c)
    <2>1. SUFFICES ASSUME ~more PROVE BatchLast(c)
      OBVIOUS
    <2>2. out = rows \o flushed /\ top = Reached(flushed, reached)
      BY <1>8, <2>1
    <2> HIDE DEF out
    <2>3. phase'[c] = "live" /\ cursor'[c] = cursor[c] /\ maxSeq'[c] = Reached(flushed, reached)
          /\ chan'[c] = chan[c] \o (rows \o flushed) /\ bound'[c] = bound[c] /\ buffer'[c] = <<>>
      BY <1>1, <1>2, <1>7, <2>1, <2>2 DEF StreamTypes
    <2>4. ConsumerSame(c) /\ ReplaySame(c)
      BY <1>2, <2>3 DEF ConsumerSame, ReplaySame
    <2>5. QED
      BY <1>2, <1>5, <2>1, <2>3, <2>4 DEF BatchLast
  <1>11. StreamTypes'
    <2>1. more => seqOf[Last(rows)] \in Nat
      BY <1>1, <1>3, <1>6, CommittedNumbers DEF Last
    <2>2. chan[c] \o out \in Seq(Calls)
      BY <1>1, <1>8, SequencesJoined DEF StreamTypes
    <2> HIDE DEF out, top, rows
    <2>3. chan' \in [Consumers -> Seq(Calls)]
      BY <1>1, <1>2, <1>7, <2>2 DEF StreamTypes
    <2>4. phase' \in [Consumers -> {"none", "ended"} \cup Open] /\ buffer' \in [Consumers -> Seq(Calls)]
      BY <1>1, <1>2 DEF StreamTypes, Open
    <2>5. cursor' \in [Consumers -> Nat] /\ maxSeq' \in [Consumers -> Nat]
      <3>1. top \in Nat /\ cursor \in [Consumers -> Nat] /\ maxSeq \in [Consumers -> Nat]
        BY <1>1, <1>8 DEF StreamTypes
      <3>2. QED
        BY <1>2, <2>1, <3>1
    <2>6. QED
      BY <1>1, <1>2, <2>3, <2>4, <2>5 DEF StreamTypes
  <1>12. \A d \in Consumers \ {c} : Still(d)
    BY <1>1, <1>2 DEF Still, ReplaySame, ConsumerSame, StreamTypes
  <1>13. /\ phase'[c] \in Open /\ (buffer'[c] = buffer[c] \/ buffer'[c] = <<>>)
         /\ bound'[c] = bound[c] /\ InReplay(c) /\ StreamMove(c)
    BY <1>2, <1>9, <1>10 DEF BatchMore, BatchLast, Open, InReplay, StreamMove
  <1>14. UNCHANGED <<wire, queue, unheard>>
    BY <1>2 DEF notifier, lossVars
  <1> HIDE DEF more, out, top, rows
  <1>15. ASSUME FeedInv
         PROVE  CoverAt(c)' /\ TrackAt(c)'
    <2>1. CoverAt(c) /\ TrackAt(c) /\ FlowInv
      BY <1>15, FeedFacts
    <2>2. \A b \in ToSet(buffer[c]) : \A a \in Asked(c) : Before(a, b) =>
            a \in ToSet(buffer[c]) \cup Got(c) \/ seqOf[a] <= bound[c] \/ Missed(c, a)
      <3>1. SUFFICES ASSUME NEW b \in ToSet(buffer[c]), NEW a \in Asked(c), Before(a, b),
                            a \in Queued(c) \cup ToSet(wire)
                     PROVE  FALSE
        BY <1>13, <2>1 DEF TrackAt, Known, Told
      <3>2. PICK i \in DOMAIN buffer[c] : buffer[c][i] = b
        BY Members
      <3>3. \A x \in ToSet(wire) : Before(b, x)
        BY <2>1, <3>2, Members DEF FlowInv
      <3>4. \A x \in Queued(c) : Before(b, x)
        BY <2>1, <3>2 DEF FlowInv, Queued, QueuedIn
      <3>5. QED
        BY <1>1, <3>1, <3>3, <3>4, LogOrder
    <2>3. \A i, j \in DOMAIN buffer[c] : i < j => Before(buffer[c][i], buffer[c][j])
      BY <2>1 DEF FlowInv
    <2>4. /\ CoverAt(c)' /\ Got(c) \subseteq Got(c)'
          /\ \A a \in ToSet(buffer[c]) : a \in ToSet(buffer'[c]) \cup Got(c)' \/ Missed(c, a)'
      <3>1. CASE more
        BY <1>1, <1>9, <2>1, <3>1, BatchMoreCovers DEF BatchMore, ToSet
      <3>2. CASE ~more
        BY <1>1, <1>10, <2>1, <2>2, <2>3, <3>2, BatchLastCovers
      <3>3. QED
        BY <3>1, <3>2
    <2>5. Queued(c)' = Queued(c)
      BY <1>14 DEF Queued
    <2>6. ToSet(buffer'[c]) \subseteq ToSet(buffer[c])
      BY <1>13 DEF ToSet
    <2>7. ASSUME NEW a \in Asked(c), Known(c, a)
          PROVE  Known(c, a)'
      <3>1. CASE a \in ToSet(buffer[c])
        BY <1>1, <2>4, <3>1, LogSameFacts DEF Known, Told, ToSet
      <3>2. CASE a \in Queued(c)
        BY <2>5, <3>2 DEF Known, Told
      <3>3. CASE a \in Got(c) \/ a \in ToSet(wire) \/ seqOf[a] <= bound[c] \/ Missed(c, a)
        BY <1>1, <1>13, <1>14, <2>4, <3>3, LogSameFacts DEF Known
      <3>4. QED
        BY <2>7, <3>1, <3>2, <3>3 DEF Known, Told
    <2>8. Told(c)' \subseteq Told(c)
      BY <2>5, <2>6 DEF Told, ToSet
    <2>9. TrackAt(c)'
      BY <1>1, <1>13, <1>14, <2>1, <2>7, <2>8, TrackStays
    <2>10. QED
      BY <2>4, <2>9
  <1>16. QED
    BY <1>2, <1>11, <1>12, <1>13, <1>15, LocalKeeps

(***************************************************************************)
(* Steps of the notifier.                                                  *)
(***************************************************************************)
LEMMA DispatchKeeps ==
  ASSUME StreamInv, Dispatch
  PROVE  StreamInv' /\ (FeedInv => FeedInv')
  <1> DEFINE a == Head(wire)
  <1>1. /\ UNCHANGED appendVars /\ UNCHANGED <<conn, connectedOnce, resolving, faults, unheard>>
        /\ UNCHANGED consumerVars
        /\ wire # <<>> /\ wire' = Tail(wire) /\ PassOver(Matching(a))
    BY DEF Dispatch
  <1>2. /\ StreamTypes /\ NotifierTypes /\ QueueInv /\ FlowInv /\ IInv /\ SeqInv
        /\ IInv' /\ SeqInv' /\ LogSame /\ LossInv
    BY <1>1, StreamFacts, LossGrows, LogLeftAlone
  <1>3. /\ wire \in Seq(Calls) /\ queue \in Seq(RowType)
        /\ Len(wire) \in Nat /\ DOMAIN wire = 1..Len(wire)
        /\ wire' \in Seq(Calls) /\ a = wire[1] /\ 1 \in DOMAIN wire
        /\ \A i \in DOMAIN wire' : wire'[i] = wire[i + 1] /\ i + 1 \in DOMAIN wire /\ i \in Nat
        /\ \A i \in DOMAIN wire : i = 1 \/ (i - 1 \in DOMAIN wire' /\ wire'[i - 1] = wire[i])
    BY <1>1, <1>2, SequenceSteps DEF NotifierTypes
  <1>4. a \in Committed /\ a \in Calls
    BY <1>2, <1>3 DEF QueueInv
  <1>5. \A c \in Consumers : c \in Matching(a) => Forgone(c)
    BY <1>1, PassedOver
  <1>12. LossInv'
    <2>1. Committed' = Committed
      BY <1>2, LogSameFacts
    <2>2. QED
      BY <1>1, <1>2, <2>1, LossStays DEF LossInv
  <1>6. /\ Matching(a) \in SUBSET Consumers
        /\ \A c \in Matching(a) : phase[c] \in Open /\ a \in Wants[c]
        /\ \A c \in Consumers : InReplay(c) /\ a \in Asked(c) => c \in Matching(a)
    BY DEF Matching, Subscribers, InReplay, Open, Asked
  <1>7. Row(a, Matching(a)) \in RowType
    BY <1>4, <1>6 DEF Row, RowType
  <1>8. conn # "down"
    BY <1>1, <1>2 DEF NotifierTypes
  <1> HIDE DEF a
  <1>9. CASE queue = <<>> /\ FanOut(a, Matching(a)) /\ UNCHANGED queue
    <2>1. StreamTypes' /\ \A c \in Consumers : FannedOut(c, a, Matching(a))
      BY <1>1, <1>2, <1>4, <1>6, <1>9, FanOutMoves
    <2>2. NotifierTypes'
      BY <1>1, <1>2, <1>3, <1>8, <1>9 DEF NotifierTypes
    <2>3. \A i \in DOMAIN wire' : Before(a, wire'[i])
      <3>1. SUFFICES ASSUME NEW i \in DOMAIN wire' PROVE Before(a, wire'[i])
        OBVIOUS
      <3>2. wire'[i] = wire[i + 1] /\ i + 1 \in DOMAIN wire /\ i + 1 > 1
        BY <1>3, <3>1
      <3>3. Before(wire[1], wire[i + 1])
        BY <1>2, <1>3, <3>2 DEF FlowInv
      <3>4. QED
        BY <1>3, <3>2, <3>3
    <2>4. DOMAIN queue = {} /\ DOMAIN queue' = {}
      BY <1>9
    <2>5. Foremost(a)
      BY <1>2, <1>3, <2>3, <2>4 DEF Foremost, FlowInv
    <2>6. SuffixOf(wire', wire)
      BY <1>3 DEF SuffixOf
    <2>7. SuffixOf(EventsOf(queue'), EventsOf(queue))
      BY <2>4 DEF SuffixOf, EventsOf
    <2>8. \A c : Queued(c) = {} /\ Queued(c)' = {}
      BY <2>4 DEF Queued, QueuedIn
    <2>9. ToSet(wire) \subseteq ToSet(wire') \cup {a}
      <3>1. SUFFICES ASSUME NEW b \in ToSet(wire), b # a PROVE b \in ToSet(wire')
        OBVIOUS
      <3>2. PICK i \in DOMAIN wire : wire[i] = b
        BY Members
      <3>3. i - 1 \in DOMAIN wire' /\ wire'[i - 1] = b
        BY <1>3, <3>1, <3>2
      <3>4. QED
        BY <3>3, Members
    <2>10. \A b \in ToSet(wire) : b = a \/ Before(a, b)
      BY <2>3, <2>9, Members
    <2>11. \A c \in Consumers : InTurn(c, a, Matching(a))
      BY <1>5, <1>6, <2>8, <2>10 DEF InTurn
    <2>12. \A i \in DOMAIN queue' : \E j \in DOMAIN queue : queue'[i] = queue[j]
      BY <2>4
    <2>13. QED
      BY <1>1, <1>2, <1>4, <1>6, <2>1, <2>2, <2>5, <2>6, <2>7, <2>9, <2>11, <2>12, <1>12, FanKeeps
  <1>10. CASE queue' = Append(queue, Row(a, Matching(a))) /\ UNCHANGED streamVars
    <2> DEFINE row == Row(a, Matching(a))
    <2>1. row \in RowType /\ queue' = Append(queue, row)
      BY <1>7, <1>10
    <2> HIDE DEF row
    <2>2. /\ queue' \in Seq(RowType) /\ 1 \in DOMAIN queue' /\ Len(queue) \in Nat
          /\ DOMAIN queue = 1..Len(queue) /\ DOMAIN queue' = 1..(Len(queue) + 1)
          /\ \A i \in DOMAIN queue : queue'[i] = queue[i]
      BY <1>3, <2>1, SequenceSteps
    <2>3. queue' # <<>> /\ Head(queue') = queue'[1]
      BY <2>2
    <2>4. queue # <<>> => Head(queue') = Head(queue)
      <3>1. SUFFICES ASSUME queue # <<>> PROVE Head(queue') = Head(queue)
        OBVIOUS
      <3>2. Head(queue) = queue[1] /\ 1 \in DOMAIN queue
        BY <1>3, <3>1, SequenceSteps
      <3>3. QED
        BY <2>2, <2>3, <3>2
    <2>5. resolving = "current" => queue # <<>> /\ Head(queue).wanted
      BY <1>2 DEF NotifierTypes
    <2>6. NotifierTypes'
      BY <1>1, <1>2, <1>3, <1>8, <2>2, <2>3, <2>4, <2>5 DEF NotifierTypes
    <2>7. UNCHANGED <<unheard, streamVars, consumerVars>>
      BY <1>1, <1>10
    <2>8. QED
      BY <1>1, <1>2, <1>5, <1>6, <1>10, <1>12, <2>6, <2>7, HoldKeeps DEF a
  <1>11. QED
    BY <1>9, <1>10 DEF Dispatch, a

\* The first row of the queue reaches the streams it waits for.
LEMMA HeadKeeps ==
  ASSUME StreamInv, UNCHANGED appendVars, UNCHANGED consumerVars,
         UNCHANGED <<conn, connectedOnce, wire, faults, lossVars>>,
         queue # <<>>, FanOut(Head(queue).event, Head(queue).subs), queue' = Tail(queue),
         resolving' = "no"
  PROVE  StreamInv' /\ (FeedInv => FeedInv')
  <1> DEFINE a == Head(queue).event
             subs == Head(queue).subs
  <1>1. /\ StreamTypes /\ NotifierTypes /\ QueueInv /\ FlowInv /\ IInv /\ SeqInv
        /\ IInv' /\ SeqInv' /\ LogSame
    BY StreamFacts, LossSame, LogLeftAlone
  <1>2. /\ wire \in Seq(Calls) /\ queue \in Seq(RowType)
        /\ queue' \in Seq(RowType) /\ Head(queue) = queue[1] /\ 1 \in DOMAIN queue
        /\ Head(queue) \in RowType
        /\ \A i \in DOMAIN queue' : i + 1 \in DOMAIN queue /\ queue'[i] = queue[i + 1]
        /\ \A c : /\ c \in subs => Queued(c) = Queued(c)' \cup {a}
                  /\ c \notin subs => Queued(c) = Queued(c)'
    BY <1>1, RowsLost DEF NotifierTypes, Queued
  <1>3. a \in Calls /\ subs \in SUBSET Consumers
    BY <1>2 DEF RowType
  <1>4. a = queue[1].event /\ subs = queue[1].subs
    BY <1>2
  <1>5. a \in Committed /\ \A c \in subs : phase[c] \in Open /\ a \in Wants[c]
    BY <1>1, <1>2 DEF QueueInv
  <1>6. FanOut(a, subs)
    OBVIOUS
  <1> HIDE DEF a, subs
  <1>7. StreamTypes' /\ \A c \in Consumers : FannedOut(c, a, subs)
    BY <1>1, <1>3, <1>5, <1>6, FanOutMoves
  <1>8. NotifierTypes'
    BY <1>1, <1>2 DEF NotifierTypes
  <1>9. Len(queue) \in Nat /\ DOMAIN queue = 1..Len(queue) /\ Len(queue') \in Nat
        /\ DOMAIN queue' = 1..Len(queue')
    BY <1>2, SequenceSteps
  <1>10. /\ \A i \in DOMAIN queue' : Before(a, queue[i + 1].event)
         /\ \A i \in DOMAIN wire : Before(a, wire[i])
         /\ \A c \in Consumers : \A i \in DOMAIN buffer[c] : Before(buffer[c][i], a)
    BY <1>1, <1>2, <1>4, <1>9 DEF FlowInv
  <1>11. Foremost(a)
    BY <1>2, <1>10 DEF Foremost
  <1>12. SuffixOf(wire', wire)
    <2>1. \A i \in DOMAIN wire' : i \in Nat /\ i + 0 \in DOMAIN wire /\ wire'[i] = wire[i + 0]
      BY <1>2
    <2>2. QED
      BY <2>1 DEF SuffixOf
  <1>13. SuffixOf(EventsOf(queue'), EventsOf(queue))
    <2>1. \A i \in DOMAIN EventsOf(queue') :
            i \in Nat /\ i + 1 \in DOMAIN EventsOf(queue) /\ EventsOf(queue')[i] = EventsOf(queue)[i + 1]
      BY <1>2, <1>9 DEF EventsOf
    <2>2. QED
      BY <2>1 DEF SuffixOf
  <1>14. UNCHANGED unheard /\ ToSet(wire) \subseteq ToSet(wire') \cup {a}
    BY LossSame
  <1>18. LossInv'
    <2>1. Committed' = Committed /\ UNCHANGED skipped
      BY <1>1, LogSameFacts, LossSame
    <2>2. QED
      BY <1>14, <2>1, StreamFacts, LossStays DEF LossInv
  <1>15. ASSUME NEW c \in Consumers
         PROVE  InTurn(c, a, subs)
    <2>1. \A b \in ToSet(wire) : Before(a, b)
      BY <1>10, Members
    <2>2. \A i \in DOMAIN queue : i # 1 => Before(a, queue[i].event)
      BY <1>1, <1>2, <1>4, <1>9 DEF FlowInv
    <2>3. \A b \in Queued(c) : b = a \/ Before(a, b)
      <3>1. SUFFICES ASSUME NEW b \in Queued(c), b # a PROVE Before(a, b)
        OBVIOUS
      <3>2. PICK i \in DOMAIN queue : queue[i].event = b
        BY DEF Queued, QueuedIn
      <3>3. QED
        BY <1>4, <2>2, <3>1, <3>2
    <2>4. a \notin ToSet(wire)
      BY <1>1, <2>1, LogOrder
    <2>5. QED
      BY <1>2, <2>1, <2>3, <2>4 DEF InTurn
  <1>16. \A i \in DOMAIN queue' : \E j \in DOMAIN queue : queue'[i] = queue[j]
    BY <1>2
  <1>17. QED
    BY <1>1, <1>3, <1>5, <1>7, <1>8, <1>11, <1>12, <1>13, <1>14, <1>15, <1>16, <1>18, FanKeeps

\* What the first row of the queue is, and what is left without it.
LEMMA HeadRow ==
  ASSUME StreamInv, queue # <<>>
  PROVE  /\ Head(queue) \in RowType /\ Head(queue).subs \in SUBSET Consumers
         /\ ~Head(queue).wanted => Head(queue).subs = {}
         /\ Tail(queue) \in Seq(RowType) /\ queue \in Seq(RowType)
         /\ \A ended : Without(Tail(queue), ended) \in Seq(RowType)
  <1>1. queue \in Seq(RowType) /\ QueueInv
    BY StreamFacts DEF NotifierTypes
  <1>2. /\ Head(queue) = queue[1] /\ 1 \in DOMAIN queue /\ Head(queue) \in RowType
        /\ Tail(queue) \in Seq(RowType)
    BY <1>1, RowsLost
  <1>3. ~Head(queue).wanted => Head(queue).subs = {}
    BY <1>1, <1>2 DEF QueueInv
  <1>4. Head(queue).subs \in SUBSET Consumers
    BY <1>2 DEF RowType
  <1>5. QED
    BY <1>1, <1>2, <1>3, <1>4, RowsReleased

\* A row that cannot be resolved ends the streams that wait for it.
LEMMA GapKeeps ==
  ASSUME StreamInv, UNCHANGED appendVars, UNCHANGED consumerVars,
         UNCHANGED <<connectedOnce, faults>>,
         queue # <<>>, Gap(Head(queue).subs), resolving' = "no",
         UNCHANGED skipped, UNCHANGED <<conn, wire, unheard>> \/ Disconnect
  PROVE  StreamInv' /\ (FeedInv => FeedInv')
  <1> DEFINE subs == Head(queue).subs
  <1>1. /\ StreamTypes /\ NotifierTypes /\ IInv /\ SeqInv /\ LossInv /\ QueueInv
        /\ IInv' /\ SeqInv' /\ LogSame
    <2>1. NoneRecalled
      BY DEF NoneRecalled
    <2>2. QED
      BY <2>1, StreamFacts, LogLeftAlone
  <1>2. /\ subs \in SUBSET Consumers /\ queue \in Seq(RowType)
        /\ queue' = Without(Tail(queue), subs) /\ queue' \in Seq(RowType)
        /\ EndStreams(subs)
    BY HeadRow DEF Gap
  <1>3. QueueLoses(subs)
    BY <1>2, QueueDrops
  <1> HIDE DEF subs
  <1>4. StreamTypes' /\ \A c \in Consumers : IF c \in subs THEN Ended(c) ELSE Still(c)
    BY <1>1, <1>2, EndMoves
  <1>5. NotifierTypes'
    <2>1. /\ conn' \in {"down", "listening", "up"} /\ wire' \in Seq(Calls)
          /\ conn' = "down" => wire' = <<>>
      <3>1. CASE UNCHANGED <<conn, wire, unheard>>
        BY <1>1, <3>1 DEF NotifierTypes
      <3>2. CASE Disconnect
        BY <3>2 DEF Disconnect
      <3>3. QED
        BY <3>1, <3>2
    <2>2. connectedOnce' \in BOOLEAN /\ faults' \in 0..MaxFaults
      BY <1>1 DEF NotifierTypes
    <2>3. QED
      BY <1>2, <2>1, <2>2 DEF NotifierTypes
  <1>6. /\ wire' = wire \/ wire' = <<>>
        /\ wire' = wire \/ ToSet(wire) \subseteq unheard'
        /\ unheard \subseteq unheard' /\ unheard' \subseteq unheard \cup ToSet(wire)
        /\ conn' = "up" => conn = "up" /\ unheard' = unheard
    BY DEF Disconnect
  <1>9. LossInv'
    <2>1. ToSet(wire) \subseteq Committed /\ Committed' = Committed
      BY <1>1, LogSameFacts, Members DEF QueueInv
    <2>2. QED
      BY <1>1, <1>6, <2>1, LossStays DEF LossInv
  <1>7. \A c \in Consumers : IF c \in subs THEN Ended(c) \/ Abandoned(c) ELSE Still(c)
    BY <1>4
  <1>8. QED
    BY <1>1, <1>2, <1>3, <1>4, <1>5, <1>6, <1>7, <1>9, LossKeeps

\* A step of the notifier that no stream notices.
LEMMA SilentKeeps ==
  ASSUME StreamInv, UNCHANGED appendVars, UNCHANGED <<streamVars, consumerVars>>,
         NoneRecalled, NotifierTypes', LossInv', wire' = wire \/ wire' = <<>>, QueueLoses({}),
         wire' = wire \/ ToSet(wire) \subseteq unheard',
         \A c \in Consumers : unheard \subseteq unheard' \/ (wire' = wire /\ Forgone(c))
  PROVE  StreamInv' /\ (FeedInv => FeedInv')
  <1>1. /\ StreamTypes /\ IInv /\ SeqInv /\ IInv' /\ SeqInv' /\ LogSame
    BY StreamFacts, LogLeftAlone
  <1>2. /\ StreamTypes'
        /\ \A c \in Consumers : IF c \in {} THEN Ended(c) \/ Abandoned(c) ELSE Still(c)
    BY <1>1 DEF Still, ReplaySame, ConsumerSame, StreamTypes, streamVars, replayVars, consumerVars
  <1>3. {} \in SUBSET Consumers
    OBVIOUS
  <1>4. QED
    BY <1>1, <1>2, <1>3, LossKeeps

\* The losses are what they were, and a row is resolved by an open connection.
LEMMA SameLoss ==
  ASSUME StreamInv, UNCHANGED appendVars, UNCHANGED <<conn, connectedOnce, unheard, skipped>>,
         resolving' \in {resolving, "no"} \/ conn = "up"
  PROVE  LossInv'
  <1>1. LossInv
    BY StreamFacts
  <1>2. Committed' = Committed
    BY DEF appendVars, Committed
  <1>3. ~connectedOnce' => resolving' = "no"
    BY <1>1 DEF LossInv
  <1>4. QED
    BY <1>1, <1>2, <1>3, LossStays DEF LossInv

LEMMA DrainKeeps ==
  ASSUME StreamInv, DrainNext
  PROVE  StreamInv' /\ (FeedInv => FeedInv')
  <1> DEFINE row == Head(queue)
  <1>1. /\ queue # <<>> /\ resolving = "no"
        /\ UNCHANGED appendVars /\ UNCHANGED consumerVars
        /\ UNCHANGED <<conn, connectedOnce, wire, faults, lossVars>>
    BY DEF DrainNext, Quiet
  <1>8. NoneRecalled /\ UNCHANGED <<unheard, skipped>>
    BY <1>1, LossSame
  <1>2. /\ row \in RowType /\ row.subs \in SUBSET Consumers
        /\ ~row.wanted => row.subs = {}
        /\ Tail(queue) \in Seq(RowType) /\ queue \in Seq(RowType) /\ NotifierTypes
    BY <1>1, HeadRow, StreamFacts
  <1>3. CASE FanOut(row.event, row.subs) /\ queue' = Tail(queue) /\ UNCHANGED resolving
    BY <1>1, <1>3, HeadKeeps
  <1>4. CASE ~row.wanted /\ queue' = Tail(queue) /\ UNCHANGED <<resolving, streamVars>>
    <2>1. QueueLoses({})
      BY <1>1, <1>2, <1>4, QueueDrops
    <2>2. NotifierTypes'
      BY <1>1, <1>2, <1>4 DEF NotifierTypes
    <2>3. LossInv'
      BY <1>1, <1>4, <1>8, SameLoss
    <2>4. QED
      BY <1>1, <1>4, <1>8, <2>1, <2>2, <2>3, SilentKeeps
  <1>5. CASE row.wanted /\ conn = "up" /\ resolving' = "current" /\ UNCHANGED <<queue, streamVars>>
    <2>1. QueueLoses({})
      BY <1>2, <1>5, QueueStays
    <2>2. NotifierTypes'
      BY <1>1, <1>2, <1>5 DEF NotifierTypes
    <2>3. LossInv'
      BY <1>1, <1>5, <1>8, SameLoss
    <2>4. QED
      BY <1>1, <1>5, <1>8, <2>1, <2>2, <2>3, SilentKeeps
  <1>6. CASE Gap(row.subs) /\ UNCHANGED resolving
    BY <1>1, <1>6, <1>8, GapKeeps
  <1>7. QED
    BY <1>3, <1>4, <1>5, <1>6 DEF DrainNext

LEMMA ResolvedKeeps ==
  ASSUME StreamInv, Resolved
  PROVE  StreamInv' /\ (FeedInv => FeedInv')
  <1>1. queue # <<>>
    BY StreamFacts DEF Resolved, NotifierTypes
  <1>2. QED
    BY <1>1, HeadKeeps DEF Resolved

LEMMA ResolveFailsKeeps ==
  ASSUME StreamInv, ResolveFails
  PROVE  StreamInv' /\ (FeedInv => FeedInv')
  <1>1. queue # <<>>
    BY StreamFacts DEF ResolveFails, NotifierTypes
  <1>2. QED
    BY <1>1, GapKeeps DEF ResolveFails

LEMMA ResolveStaleKeeps ==
  ASSUME StreamInv, ResolveStale
  PROVE  StreamInv' /\ (FeedInv => FeedInv')
  <1>1. /\ UNCHANGED appendVars /\ UNCHANGED <<streamVars, consumerVars>>
        /\ UNCHANGED <<conn, connectedOnce, wire, queue, lossVars, faults>>
        /\ resolving' = "no"
    BY DEF ResolveStale
  <1>2. NotifierTypes /\ NoneRecalled /\ UNCHANGED <<unheard, skipped>>
    BY <1>1, StreamFacts, LossSame
  <1>3. NotifierTypes'
    BY <1>1, <1>2 DEF NotifierTypes
  <1>4. QueueLoses({})
    BY <1>1, <1>2, QueueStays DEF NotifierTypes
  <1>5. LossInv'
    BY <1>1, <1>2, SameLoss
  <1>6. QED
    BY <1>1, <1>2, <1>3, <1>4, <1>5, SilentKeeps

LEMMA DropKeeps ==
  ASSUME StreamInv, Drop
  PROVE  StreamInv' /\ (FeedInv => FeedInv')
  <1>1. /\ UNCHANGED appendVars /\ UNCHANGED <<streamVars, consumerVars>>
        /\ UNCHANGED <<connectedOnce, queue, resolving, skipped>>
        /\ conn' = "down" /\ wire' = <<>> /\ unheard' = unheard \cup ToSet(wire)
        /\ faults < MaxFaults /\ faults' = faults + 1
    BY DEF Drop, Disconnect, Fault
  <1>2. NotifierTypes /\ QueueInv /\ LossInv
    BY StreamFacts
  <1>3. NotifierTypes'
    BY <1>1, <1>2, StreamAssumption DEF NotifierTypes
  <1>4. QueueLoses({})
    BY <1>1, <1>2, QueueStays DEF NotifierTypes
  <1>5. LossInv'
    <2>1. Committed' = Committed
      BY <1>1 DEF appendVars, Committed
    <2>2. ToSet(wire) \subseteq Committed
      BY <1>2, Members DEF QueueInv
    <2>3. QED
      BY <1>1, <1>2, <2>1, <2>2, LossStays DEF LossInv
  <1>6. NoneRecalled
    BY <1>1 DEF NoneRecalled
  <1>7. QED
    BY <1>1, <1>3, <1>4, <1>5, <1>6, SilentKeeps

LEMMA ListenKeeps ==
  ASSUME StreamInv, Listen
  PROVE  StreamInv' /\ (FeedInv => FeedInv')
  <1>1. /\ UNCHANGED appendVars /\ UNCHANGED <<streamVars, consumerVars>>
        /\ UNCHANGED <<connectedOnce, wire, queue, resolving, lossVars, faults>>
        /\ conn' = "listening"
    BY DEF Listen
  <1>2. NotifierTypes /\ LossInv /\ NoneRecalled /\ UNCHANGED <<unheard, skipped>>
    BY <1>1, StreamFacts, LossSame
  <1>3. NotifierTypes'
    BY <1>1, <1>2 DEF NotifierTypes
  <1>4. QueueLoses({})
    BY <1>1, <1>2, QueueStays DEF NotifierTypes
  <1>5. LossInv'
    <2>1. Committed' = Committed
      BY <1>1 DEF appendVars, Committed
    <2>2. QED
      BY <1>1, <1>2, <2>1, LossStays DEF LossInv
  <1>6. QED
    BY <1>1, <1>2, <1>3, <1>4, <1>5, SilentKeeps

\* A reconnect clears the queue and ends every stream of the connection before;
\* the first connection passes the open streams over, and nothing is queued yet.
LEMMA ConnectedKeeps ==
  ASSUME StreamInv, Connected
  PROVE  StreamInv' /\ (FeedInv => FeedInv')
  <1>1. /\ UNCHANGED appendVars /\ UNCHANGED <<wire, faults>> /\ UNCHANGED consumerVars
        /\ conn' = "up" /\ connectedOnce' = TRUE /\ queue' = <<>> /\ unheard' = {}
        /\ resolving' = IF resolving = "no" THEN "no" ELSE "stale"
        /\ \/ connectedOnce /\ EndStreams(Subscribers) /\ UNCHANGED skipped
           \/ ~connectedOnce /\ PassOver(Subscribers) /\ UNCHANGED streamVars
        /\ queue = <<>> \/ resolving # "no"
    BY DEF Connected, Quiet
  <1>2. NoneRecalled
    BY <1>1, LossGrows DEF NoneRecalled
  <1>3. /\ StreamTypes /\ NotifierTypes /\ LossInv
        /\ IInv /\ SeqInv /\ IInv' /\ SeqInv' /\ LogSame
    BY <1>1, <1>2, StreamFacts, LogLeftAlone
  <1>4. NotifierTypes'
    BY <1>1, <1>3 DEF NotifierTypes
  <1>5. LossInv'
    <2>1. Committed' = Committed
      BY <1>3, LogSameFacts
    <2>2. QED
      BY <1>1, <1>3, <2>1, LossStays
  <1>6. /\ Subscribers \in SUBSET Consumers
        /\ \A c \in Consumers : c \notin Subscribers => ~InReplay(c)
    BY DEF Subscribers, InReplay, Open
  <1>7. CASE EndStreams(Subscribers)
    <2>1. StreamTypes' /\ \A c \in Consumers : IF c \in Subscribers THEN Ended(c) ELSE Still(c)
      BY <1>1, <1>3, <1>6, <1>7, EndMoves
    <2>2. QueueLoses(Subscribers)
      BY <1>1, <1>6, QueueClears
    <2>3. \A c \in Consumers : IF c \in Subscribers THEN Ended(c) \/ Abandoned(c) ELSE Still(c)
      BY <2>1
    <2>4. QED
      BY <1>1, <1>3, <1>4, <1>5, <1>6, <2>1, <2>2, <2>3, LossKeeps
  <1>8. CASE ~connectedOnce /\ PassOver(Subscribers) /\ UNCHANGED streamVars
    <2>1. queue' = queue
      BY <1>1, <1>3, <1>8 DEF LossInv
    <2>2. QueueLoses({})
      BY <1>3, <2>1, QueueStays DEF NotifierTypes
    <2>3. \A c \in Consumers : Forgone(c)
      BY <1>6, <1>8, PassedOver DEF Forgone
    <2>4. QED
      BY <1>1, <1>2, <1>4, <1>5, <1>8, <2>2, <2>3, SilentKeeps
  <1>9. QED
    BY <1>1, <1>7, <1>8

\* One stream ends, and the queue releases it.
LEMMA LeaveKeeps ==
  ASSUME StreamInv, NEW c \in Consumers, UNCHANGED appendVars, UNCHANGED lossVars,
         UNCHANGED <<conn, connectedOnce, wire, resolving>>, Fault,
         queue' = Without(queue, {c}), StreamTypes',
         Ended(c) \/ Abandoned(c), \A d \in Consumers \ {c} : Still(d)
  PROVE  StreamInv' /\ (FeedInv => FeedInv')
  <1>1. /\ NotifierTypes /\ IInv /\ SeqInv /\ IInv' /\ SeqInv' /\ LogSame
        /\ UNCHANGED <<unheard, skipped>>
    BY StreamFacts, LossSame, LogLeftAlone
  <1>2. /\ queue' \in Seq(RowType) /\ DOMAIN queue' = DOMAIN queue /\ queue \in Seq(RowType)
        /\ \A i \in DOMAIN queue : queue'[i].wanted = queue[i].wanted
    BY <1>1, RowsReleased DEF NotifierTypes
  <1>3. ASSUME queue # <<>>
        PROVE  queue' # <<>> /\ Head(queue').wanted = Head(queue).wanted
    <2>1. Head(queue) = queue[1] /\ 1 \in DOMAIN queue
      BY <1>2, <1>3, SequenceSteps
    <2>2. queue' # <<>>
      BY <1>2, <2>1
    <2>3. Head(queue') = queue'[1]
      BY <1>2, <2>2, SequenceSteps
    <2>4. QED
      BY <1>2, <2>1, <2>2, <2>3
  <1>4. NotifierTypes'
    <2>1. faults' \in 0..MaxFaults
      BY <1>1, StreamAssumption DEF Fault, NotifierTypes
    <2>2. QED
      BY <1>1, <1>2, <1>3, <2>1 DEF NotifierTypes
  <1>5. QueueLoses({c})
    BY <1>2, QueueReleases
  <1>6. \A d \in Consumers : IF d \in {c} THEN Ended(d) \/ Abandoned(d) ELSE Still(d)
    OBVIOUS
  <1>7. {c} \in SUBSET Consumers
    OBVIOUS
  <1>8. LossInv'
    BY <1>1, SameLoss
  <1>9. QED
    BY <1>1, <1>4, <1>5, <1>6, <1>7, <1>8, LossKeeps

LEMMA BreakKeeps ==
  ASSUME StreamInv, NEW c \in Consumers, BreakStream(c)
  PROVE  StreamInv' /\ (FeedInv => FeedInv')
  <1>1. StreamTypes /\ {c} \in SUBSET Consumers
    BY StreamFacts
  <1>2. StreamTypes' /\ \A d \in Consumers : IF d \in {c} THEN Ended(d) ELSE Still(d)
    BY <1>1, EndMoves DEF BreakStream
  <1>3. Ended(c) /\ \A d \in Consumers \ {c} : Still(d)
    BY <1>2
  <1>4. QED
    BY <1>2, <1>3, LeaveKeeps DEF BreakStream

LEMMA HandleFailsKeeps ==
  ASSUME StreamInv, NEW c \in Consumers, HandleFails(c)
  PROVE  StreamInv' /\ (FeedInv => FeedInv')
  <1>1. StreamTypes
    BY StreamFacts
  <1>2. /\ chan' = [chan EXCEPT ![c] = <<>>]
        /\ phase' = [phase EXCEPT ![c] = "none"]
        /\ buffer' = [buffer EXCEPT ![c] = <<>>]
        /\ UNCHANGED <<maxSeq, cursor, bound, lastSeq, delivered>>
    BY DEF HandleFails, replayVars, consumerVars
  <1>3. StreamTypes'
    BY <1>1, <1>2 DEF StreamTypes
  <1>4. Abandoned(c)
    BY <1>1, <1>2 DEF StreamTypes, Abandoned, ReplaySame, ConsumerSame
  <1>5. \A d \in Consumers \ {c} : Still(d)
    BY <1>1, <1>2 DEF StreamTypes, Still, ReplaySame, ConsumerSame
  <1>6. QED
    BY <1>3, <1>4, <1>5, LeaveKeeps DEF HandleFails

\* A crash ends every stream, and with it what each has missed.
LEMMA CrashKeepsStream ==
  ASSUME StreamInv, Crash
  PROVE  StreamInv' /\ (FeedInv => FeedInv')
  <1>1. /\ Fault /\ CrashCalls /\ EndStreams(Subscribers) /\ UNCHANGED consumerVars
        /\ conn' \in {"up", "down"} /\ connectedOnce' = (conn' = "up")
        /\ unheard' = {} /\ UNCHANGED skipped
        /\ wire' = <<>> /\ queue' = <<>> /\ resolving' = "no"
    BY DEF Crash, Started
  <1>2. StreamTypes /\ NotifierTypes /\ IInv /\ SeqInv /\ LossInv
    BY StreamFacts
  <1>3. IInv' /\ SeqInv' /\ LogSame
    <2>1. UNCHANGED <<seqOf, committed>>
      BY <1>1 DEF CrashCalls
    <2>2. QED
      BY <1>1, <1>2, <2>1, CrashKeeps, CrashKeepsLog DEF LogSame
  <1>4. NotifierTypes'
    <2>1. faults' \in 0..MaxFaults
      BY <1>1, <1>2, StreamAssumption DEF Fault, NotifierTypes
    <2>2. connectedOnce' \in BOOLEAN
      BY <1>1
    <2>3. QED
      BY <1>1, <2>1, <2>2 DEF NotifierTypes
  <1>5. Subscribers \in SUBSET Consumers /\ \A c \in Consumers \ Subscribers : ~InReplay(c)
    BY DEF Subscribers, InReplay, Open
  <1>6. StreamTypes' /\ \A c \in Consumers : IF c \in Subscribers THEN Ended(c) ELSE Still(c)
    BY <1>1, <1>2, <1>5, EndMoves
  <1>7. \A c \in Consumers : IF c \in Subscribers THEN Ended(c) \/ Abandoned(c) ELSE Still(c)
    BY <1>6
  <1>8. QueueLoses(Subscribers)
    BY <1>1, <1>5, QueueClears
  <1>9. LossInv'
    <2>1. Committed' = Committed
      BY <1>3, LogSameFacts
    <2>2. conn' = "up" => connectedOnce'
      BY <1>1
    <2>3. QED
      BY <1>1, <1>2, <2>1, <2>2, LossStays
  <1>10. QED
    BY <1>1, <1>2, <1>3, <1>4, <1>5, <1>6, <1>7, <1>8, <1>9, LossKeeps

(***************************************************************************)
(* The invariants of the specification.                                    *)
(***************************************************************************)
LEMMA StreamInitHolds == Init => StreamInv /\ FeedInv
  <1>1. SUFFICES ASSUME Init PROVE StreamInv /\ FeedInv
    OBVIOUS
  <1>2. IInv /\ AppendInit /\ AppendTypeOK
    BY <1>1, InitHolds DEF Init, IInv
  <1>3. /\ conn \in {"up", "down"} /\ connectedOnce = (conn = "up") /\ wire = <<>> /\ queue = <<>>
        /\ resolving = "no" /\ faults = 0
        /\ unheard = {} /\ skipped = [c \in Consumers |-> {}]
        /\ phase = [c \in Consumers |-> "none"] /\ buffer = [c \in Consumers |-> <<>>]
        /\ chan = [c \in Consumers |-> <<>>] /\ delivered = [c \in Consumers |-> <<>>]
        /\ maxSeq = [c \in Consumers |-> 0] /\ cursor = [c \in Consumers |-> 0]
        /\ bound = [c \in Consumers |-> 0] /\ lastSeq = [c \in Consumers |-> 0]
    BY <1>1 DEF Init, Started
  <1>4. committed = <<>> /\ Committed = {}
    BY <1>2 DEF AppendInit, Committed
  <1>5. StreamTypes
    BY <1>3 DEF StreamTypes
  <1>6. NotifierTypes
    BY <1>3, StreamAssumption DEF NotifierTypes
  <1>7. LossInv
    <2>1. conn = "up" => connectedOnce
      BY <1>3
    <2>2. QED
      BY <1>3, <2>1 DEF LossInv
  <1>14. TypeOK
    BY <1>2, <1>5, <1>6, <1>7, TypeParts
  <1>8. SeqInv
    BY <1>2, <1>4 DEF AppendInit, SeqInv, Drawn
  <1>9. QueueInv /\ FlowInv
    BY <1>3 DEF QueueInv, FlowInv
  <1>10. ASSUME NEW c \in Consumers
         PROVE  StreamAt(c)
    BY <1>3 DEF StreamAt, SourceAt, PositionAt, MarkAt, Marks, Rising, Open
  <1>11. ASSUME NEW c \in Consumers
         PROVE  CoverAt(c) /\ TrackAt(c)
    BY <1>3, <1>4 DEF CoverAt, Covered, Asked, TrackAt, InReplay, Open
  <1>12. FeedInv
    BY <1>11 DEF FeedInv
  <1>13. QED
    BY <1>2, <1>7, <1>8, <1>9, <1>10, <1>12, <1>14 DEF StreamInv

LEMMA StreamNextKeeps ==
  ASSUME StreamInv, [Next]_vars
  PROVE  StreamInv' /\ (FeedInv => FeedInv')
  <1>1. CASE AppendStep
    BY <1>1, AppendStepKeeps
  <1>2. CASE NotifierStep
    BY <1>2, DispatchKeeps, DrainKeeps, ResolvedKeeps, ResolveFailsKeeps, ResolveStaleKeeps
       DEF NotifierStep
  <1>3. CASE Drop \/ Listen \/ Connected
    BY <1>3, DropKeeps, ListenKeeps, ConnectedKeeps
  <1>4. ASSUME NEW c \in Consumers, StreamStep(c)
        PROVE  StreamInv' /\ (FeedInv => FeedInv')
    BY <1>4, OpenKeeps, BoundKeeps, BatchKeeps DEF StreamStep
  <1>5. ASSUME NEW c \in Consumers, ConsumerStep(c)
        PROVE  StreamInv' /\ (FeedInv => FeedInv')
    BY <1>5, ReceiveKeeps, EndReadKeeps DEF ConsumerStep
  <1>6. ASSUME NEW c \in Consumers, BreakStream(c) \/ HandleFails(c)
        PROVE  StreamInv' /\ (FeedInv => FeedInv')
    BY <1>6, BreakKeeps, HandleFailsKeeps
  <1>7. CASE Crash
    BY <1>7, CrashKeepsStream
  <1>8. CASE UNCHANGED vars
    <2>1. /\ UNCHANGED appendVars /\ UNCHANGED <<streamVars, consumerVars, lossVars>>
          /\ UNCHANGED <<conn, connectedOnce, wire, queue, resolving, faults>>
      BY <1>8 DEF vars, notifier
    <2>2. NotifierTypes /\ NoneRecalled /\ UNCHANGED <<unheard, skipped>>
      BY <2>1, StreamFacts, LossSame
    <2>3. NotifierTypes'
      BY <2>1, <2>2 DEF NotifierTypes
    <2>4. QueueLoses({})
      BY <2>1, <2>2, QueueStays DEF NotifierTypes
    <2>5. LossInv'
      BY <2>1, <2>2, SameLoss
    <2>6. QED
      BY <2>1, <2>2, <2>3, <2>4, <2>5, SilentKeeps
  <1>9. QED
    BY <1>1, <1>2, <1>3, <1>4, <1>5, <1>6, <1>7, <1>8 DEF Next

\* What travels from the log to a consumer is in the order of the sequences,
\* and whatever a stream has not passed is in front of it or known to come.
THEOREM StreamInductive == Spec => [](StreamInv /\ FeedInv)
  <1>1. Init => StreamInv /\ FeedInv
    BY StreamInitHolds
  <1>2. StreamInv /\ FeedInv /\ [Next]_vars => StreamInv' /\ FeedInv'
    BY StreamNextKeeps
  <1>3. QED
    BY <1>1, <1>2, PTL DEF Spec

\* The types of the whole pipeline; the row whose resolution is awaited is at
\* the head of the queue and some stream waits for it.
THEOREM StreamTypeCorrect == Spec => []TypeOK
  <1>1. StreamInv => TypeOK
    BY DEF StreamInv
  <1>2. QED
    BY <1>1, StreamInductive, PTL

\* No consumer processes an event twice or out of sequence order, through every
\* overlap of replay, buffer, live rows, lost connections and resumed streams.
THEOREM DeliveredInOrder == Spec => []InOrder
  <1>1. StreamInv => InOrder
    BY DEF StreamInv, StreamAt, PositionAt, Rising, InOrder
  <1>2. QED
    BY <1>1, StreamInductive, PTL

\* Whatever is lost on the way, a consumer moves past an event it asked for only
\* if the event committed under a sequence that was passed already, or if its
\* notification was lost and the notifier went on without ending the stream.
THEOREM NothingPassedOver == Spec => []NoGap
  <1>1. ASSUME StreamInv, FeedInv, NEW c \in Consumers,
               NEW a \in Committed \cap Wants[c], seqOf[a] <= lastSeq[c]
        PROVE  a \in Seen(c) \cup skipped[c] \/ Late(a)
    <2>1. CoverAt(c) /\ StreamAt(c) /\ TypesAt(c) /\ IInv /\ SeqInv
      BY <1>1, FeedFacts
    <2>2. a \in Got(c) \/ Missed(c, a)
      BY <1>1, <2>1 DEF CoverAt, Covered, Asked
    <2>3. a \notin ToSet(chan[c])
      <3>1. SUFFICES ASSUME a \in ToSet(chan[c]) PROVE FALSE
        OBVIOUS
      <3>2. PICK i \in DOMAIN chan[c] : chan[c][i] = a
        BY <3>1, Members
      <3>3. seqOf[a] > lastSeq[c]
        BY <2>1, <3>2 DEF StreamAt, PositionAt
      <3>4. seqOf[a] \in Nat /\ lastSeq[c] \in Nat
        BY <1>1, <2>1, CommittedNumbers DEF TypesAt
      <3>5. QED
        BY <1>1, <3>3, <3>4
    <2>4. QED
      BY <2>2, <2>3 DEF Got, Missed
  <1>2. StreamInv /\ FeedInv => NoGap
    BY <1>1 DEF NoGap
  <1>3. QED
    BY <1>2, StreamInductive, PTL

\* A live stream with nothing under way has delivered every event its consumer
\* asked for, with the same exceptions: no loss is left to a later reconnect.
THEOREM NothingHeldBack == Spec => []CaughtUp
  <1>1. ASSUME StreamInv, FeedInv, NEW c \in Consumers,
               phase[c] = "live", conn = "up", wire = <<>>, queue = <<>>, chan[c] = <<>>,
               NEW a \in Committed \cap Wants[c]
        PROVE  a \in Seen(c) \cup skipped[c] \/ Late(a)
    <2>1. CoverAt(c) /\ TrackAt(c) /\ StreamAt(c) /\ unheard = {}
      BY <1>1, FeedFacts, StreamFacts DEF LossInv
    <2>2. Known(c, a)
      BY <1>1, <2>1 DEF TrackAt, InReplay, Asked
    <2>3. buffer[c] = <<>>
      BY <1>1, <2>1 DEF StreamAt, SourceAt
    <2>4. ToSet(buffer[c]) = {} /\ ToSet(wire) = {} /\ ToSet(chan[c]) = {}
      BY <1>1, <2>3 DEF ToSet
    <2>5. Queued(c) = {}
      BY <1>1 DEF Queued, QueuedIn
    <2>6. a \in Got(c) \/ Missed(c, a)
      BY <1>1, <2>1, <2>2, <2>4, <2>5 DEF Known, Told, CoverAt, Covered, Asked
    <2>7. QED
      BY <2>4, <2>6 DEF Got, Missed
  <1>2. StreamInv /\ FeedInv => CaughtUp
    BY <1>1 DEF CaughtUp
  <1>3. QED
    BY <1>2, StreamInductive, PTL

(***************************************************************************)
(* The abstract feed.                                                      *)
(***************************************************************************)
\* What the feed makes of the state.
Lost == [c \in Consumers |-> GivenUp(c)]

LEMMA FeedState ==
  /\ Feed!Logged = Committed /\ (Feed!Logged = Committed)'
  /\ \A c : Feed!Seen(c) = Seen(c)
  /\ Feed!vars = <<committed, delivered, Lost>>
  /\ \A c \in Consumers : Lost[c] = GivenUp(c) /\ Lost'[c] = GivenUp(c)'
  BY DEF Feed!Logged, Committed, Feed!Seen, Seen, Feed!vars, Lost

\* What a consumer processes is the first event of the log that it asked for,
\* has not processed and that is not given up, or one that is.
LEMMA ReceiveDelivers ==
  ASSUME StreamInv, FeedInv, NEW c \in Consumers, Receive(c)
  PROVE  Feed!DeliverNext(c) \/ Feed!DeliverGivenUp(c)
  <1> DEFINE e == Head(chan[c])
  <1>1. CoverAt(c) /\ StreamAt(c) /\ TypesAt(c) /\ IInv /\ SeqInv
    BY FeedFacts
  <1>2. chan[c] # <<>> /\ chan[c] \in Seq(Calls)
    BY <1>1 DEF Receive, TypesAt
  <1>3. e = chan[c][1] /\ 1 \in DOMAIN chan[c] /\ DOMAIN chan[c] = 1..Len(chan[c])
    BY <1>2, SequenceSteps
  <1>4. e \in Asked(c) /\ seqOf[e] > lastSeq[c] /\ Covered(c, seqOf[e])
    BY <1>1, <1>3 DEF StreamAt, SourceAt, PositionAt, CoverAt
  <1>5. /\ delivered' = [delivered EXCEPT ![c] = Append(delivered[c], e)]
        /\ UNCHANGED <<committed, seqOf, skipped>>
    BY DEF Receive, appendVars, lossVars, e
  <1> HIDE DEF e
  <1>6. e \in Committed /\ e \in Wants[c]
    BY <1>4 DEF Asked
  <1>7. \A a \in Committed : seqOf[a] \in Nat
    BY <1>1, CommittedNumbers
  <1>8. lastSeq[c] \in Nat
    BY <1>1 DEF TypesAt
  <1>9. e \notin Seen(c)
    <2>1. SUFFICES ASSUME e \in Seen(c) PROVE FALSE
      OBVIOUS
    <2>2. PICK i \in DOMAIN delivered[c] : delivered[c][i] = e
      BY <2>1 DEF Seen
    <2>3. seqOf[e] <= lastSeq[c]
      BY <1>1, <2>2 DEF StreamAt, PositionAt
    <2>4. QED
      BY <1>4, <1>6, <1>7, <1>8, <2>3
  <1>10. Lost' = Lost
    BY <1>5 DEF Lost, GivenUp, Committed, Late
  <1>11. Feed!Hand(c, e)
    BY <1>5, <1>10 DEF Feed!Hand, Lost
  <1>12. CASE e \in GivenUp(c)
    <2>1. e \in (Lost[c] \cap Wants[c]) \ Feed!Seen(c)
      BY <1>6, <1>9, <1>12, FeedState
    <2>2. QED
      BY <1>11, <2>1 DEF Feed!DeliverGivenUp, Lost
  <1>13. CASE e \notin GivenUp(c)
    <2>1. PICK i \in DOMAIN committed : committed[i] = e
      BY <1>6 DEF Committed
    <2>2. DOMAIN committed = 1..Len(committed) /\ Len(committed) \in Nat
      <3>1. committed \in Seq(Calls)
        BY <1>1 DEF IInv, AppendTypeOK
      <3>2. QED
        BY <3>1, SequenceSteps
    <2>3. ASSUME NEW j \in 1..(i - 1), committed[j] \in Wants[c]
          PROVE  committed[j] \in Seen(c) \cup GivenUp(c)
      <3> DEFINE b == committed[j]
      <3>1. j \in DOMAIN committed /\ j < i
        BY <2>1, <2>2
      <3>2. b \in Committed /\ b \in Asked(c) /\ seqOf[b] \in Nat /\ seqOf[e] \in Nat
        BY <1>6, <1>7, <2>3, <3>1 DEF Committed, Asked
      <3>3. Before(b, e)
        BY <2>1, <3>1 DEF Before
      <3> HIDE DEF b
      <3>4. b # e
        BY <1>1, <3>3, LogOrder
      <3>5. ~Late(e)
        BY <1>6, <1>13 DEF GivenUp
      <3>6. ~(seqOf[b] > seqOf[e])
        BY <3>3, <3>5 DEF Before, Late
      <3>7. b \in Got(c) \/ Missed(c, b)
        BY <1>4, <3>2, <3>6 DEF Covered
      <3>8. b \notin ToSet(chan[c])
        <4>1. SUFFICES ASSUME b \in ToSet(chan[c]) PROVE FALSE
          OBVIOUS
        <4>2. PICK k \in DOMAIN chan[c] : chan[c][k] = b
          BY <4>1, Members
        <4>3. k = 1 \/ 1 < k
          BY <1>3
        <4>4. b = e \/ seqOf[e] < seqOf[b]
          BY <1>1, <1>3, <4>2, <4>3 DEF StreamAt, PositionAt, Rising
        <4>5. QED
          BY <3>2, <3>4, <3>6, <4>4
      <3>9. b \in Seen(c) \cup GivenUp(c)
        BY <3>2, <3>7, <3>8 DEF Got, Missed, GivenUp
      <3>10. QED
        BY <3>9 DEF b
    <2>4. /\ committed[i] \in Wants[c] \ (Feed!Seen(c) \cup Lost[c])
          /\ \A j \in 1..(i - 1) :
               committed[j] \in Wants[c] => committed[j] \in Feed!Seen(c) \cup Lost[c]
      BY <1>6, <1>9, <1>13, <2>1, <2>3, FeedState
    <2>5. QED
      BY <1>11, <2>1, <2>4 DEF Feed!DeliverNext, Lost
  <1>14. QED
    BY <1>12, <1>13

\* Nothing that was given up comes back.
LEMMA LossesSkip ==
  ASSUME LossInv', Committed' \subseteq Calls, Committed \subseteq Committed', NoneRecalled,
         \A a \in Committed : Late(a) => Late(a)'
  PROVE  Feed!Skip
  <1>1. \A c \in Consumers : /\ GivenUp(c) \subseteq GivenUp(c)'
                             /\ GivenUp(c)' \subseteq Committed'
    BY DEF GivenUp, NoneRecalled, LossInv
  <1>2. Lost' \in [Consumers -> SUBSET Calls]
    BY <1>1 DEF Lost
  <1>3. \A c \in Consumers : Lost[c] \subseteq Lost'[c] /\ Lost'[c] \subseteq Feed!Logged'
    BY <1>1, FeedState
  <1>4. QED
    BY <1>2, <1>3 DEF Feed!Skip, Lost

\* A step that shows no consumer anything gives events up, if it does anything.
LEMMA QuietStep ==
  ASSUME StreamInv, StreamInv', UNCHANGED <<seqOf, committed, delivered>>, NoneRecalled
  PROVE  Feed!GiveUp
  <1>1. Committed' = Committed /\ \A a : Late(a) <=> Late(a)'
    BY DEF Committed, Late
  <1>2. LossInv' /\ Committed' \subseteq Calls
    BY <1>1, StreamFacts, CommittedCalls DEF StreamInv
  <1>3. Feed!Skip
    BY <1>1, <1>2, LossesSkip
  <1>4. QED
    BY <1>3 DEF Feed!GiveUp

LEMMA AppendPublishes ==
  ASSUME StreamInv, StreamInv', AppendStep
  PROVE  Feed!Next
  <1>1. UNCHANGED <<delivered, skipped>> /\ AppendNext
    BY DEF AppendStep, consumerVars
  <1>2. /\ committed' = committed \/ \E a \in Calls : LogExtended(a)
        /\ Committed \subseteq Committed' /\ \A a : Late(a) => Late(a)'
    BY <1>1, StreamFacts, LogFacts
  <1>3. LossInv' /\ Committed' \subseteq Calls
    BY DEF StreamInv, IInv, AppendTypeOK, Committed
  <1>4. Feed!Skip
    BY <1>1, <1>2, <1>3, LossesSkip DEF NoneRecalled
  <1>5. CASE committed' = committed
    BY <1>1, <1>4, <1>5 DEF Feed!Next, Feed!GiveUp
  <1>6. ASSUME NEW a \in Calls, LogExtended(a)
        PROVE  Feed!Publish(a)
    <2>1. a \notin Feed!Logged
      BY <1>6, FeedState DEF LogExtended
    <2>2. QED
      BY <1>1, <1>4, <1>6, <2>1 DEF LogExtended, Feed!Publish
  <1>7. QED
    BY <1>2, <1>5, <1>6 DEF Feed!Next

LEMMA StepRefines ==
  ASSUME StreamInv, StreamInv', FeedInv, [Next]_vars
  PROVE  [Feed!Next]_Feed!vars
  <1>1. CASE AppendStep
    BY <1>1, AppendPublishes
  <1>2. ASSUME NEW c \in Consumers, Receive(c)
        PROVE  Feed!Next
    BY <1>2, ReceiveDelivers DEF Feed!Next
  <1>3. CASE UNCHANGED <<seqOf, committed, delivered>> /\ NoneRecalled
    BY <1>3, QuietStep DEF Feed!Next
  <1>4. CASE NotifierStep \/ Drop \/ Listen \/ Connected
    <2>1. UNCHANGED <<seqOf, committed, delivered>>
      BY <1>4 DEF NotifierStep, Dispatch, DrainNext, Resolved, ResolveFails, ResolveStale, Drop,
                  Listen, Connected, appendVars, consumerVars
    <2>2. UNCHANGED skipped \/ \E open : PassOver(open)
      BY <1>4 DEF NotifierStep, Dispatch, DrainNext, Resolved, ResolveFails, ResolveStale, Drop,
                  Listen, Connected, lossVars
    <2>3. NoneRecalled
      BY <2>2, LossGrows DEF NoneRecalled
    <2>4. QED
      BY <1>3, <2>1, <2>3
  <1>5. ASSUME NEW c \in Consumers, StreamStep(c) \/ BreakStream(c) \/ HandleFails(c) \/ ReadEnd(c)
        PROVE  [Feed!Next]_Feed!vars
    <2>1. UNCHANGED <<seqOf, committed, delivered, skipped>>
      BY <1>5 DEF StreamStep, OpenStream, ReadBound, ReadBatch, BreakStream, HandleFails, ReadEnd,
                  appendVars, consumerVars, lossVars
    <2>2. QED
      BY <1>3, <2>1 DEF NoneRecalled
  <1>6. CASE Crash
    <2>1. UNCHANGED <<seqOf, committed, delivered, skipped>>
      BY <1>6 DEF Crash, CrashCalls, consumerVars
    <2>2. QED
      BY <1>3, <2>1 DEF NoneRecalled
  <1>7. CASE UNCHANGED vars
    <2>1. UNCHANGED <<seqOf, committed, delivered, skipped>>
      BY <1>7 DEF vars, appendVars, consumerVars, lossVars
    <2>2. QED
      BY <1>3, <2>1 DEF NoneRecalled
  <1>8. QED
    BY <1>1, <1>2, <1>4, <1>5, <1>6, <1>7 DEF Next, ConsumerStep

\* The whole pipeline is the abstract feed, through lost notifications, late
\* LISTENs and crashes: it starts as the feed does, and every step publishes an
\* event, gives events up for good, or delivers the next event a consumer asked
\* for -- never one out of its turn that was not given up.
THEOREM PipelineIsFeed == Spec => Feed!Init /\ [][Feed!Next]_Feed!vars
  <1>1. Init => Feed!Init
    <2>1. SUFFICES ASSUME Init PROVE Feed!Init
      OBVIOUS
    <2>2. /\ committed = <<>> /\ delivered = [c \in Consumers |-> <<>>]
          /\ skipped = [c \in Consumers |-> {}]
      BY <2>1 DEF Init, AppendInit
    <2>3. \A c \in Consumers : GivenUp(c) = {}
      BY <2>2 DEF GivenUp, Committed
    <2>4. QED
      BY <2>2, <2>3 DEF Feed!Init
  <1>2. (StreamInv /\ FeedInv) /\ (StreamInv /\ FeedInv)' /\ [Next]_vars => [Feed!Next]_Feed!vars
    BY StepRefines
  <1>3. QED
    BY <1>1, <1>2, StreamInductive, PTL DEF Spec
===============================================================================
