-------------------------- MODULE LedgerAppendProofs --------------------------
(***************************************************************************)
(* Proofs about LedgerAppend for every set of calls and keys and every     *)
(* pool size.  The inductive invariant ties the two tables to each other   *)
(* (an event is in the log exactly when the key it was sent with names     *)
(* it), states what a key's row lock excludes, and, for a pool of one      *)
(* connection, that the call that holds it drew the highest sequence.      *)
(***************************************************************************)
EXTENDS LedgerAppend, FiniteSetTheorems, TLAPS

Locking == {"claimed", "inserted"}

LogInv ==
  /\ \A a \in Committed : at[a] = "done"
  /\ \A i, j \in DOMAIN committed : committed[i] = committed[j] => i = j

StoredInv ==
  /\ \A k \in Keys : stored[k] # NoEvent => stored[k] \in Committed /\ KeyOf[stored[k]] = k
  /\ \A a \in Committed : KeyOf[a] # NoKey => stored[KeyOf[a]] = a

LockInv ==
  /\ \A a, b \in Calls :
       at[a] \in Locking /\ at[b] \in Locking /\ KeyOf[a] = KeyOf[b] /\ KeyOf[a] # NoKey
         => a = b
  /\ \A a \in Calls :
       at[a] \in Locking /\ KeyOf[a] # NoKey => stored[KeyOf[a]] = NoEvent
  /\ \A a \in Calls :
       at[a] = "rolled back" => KeyOf[a] # NoKey /\ stored[KeyOf[a]] # NoEvent

AnswerInv ==
  \A a \in Calls :
    /\ answer[a] # "key without event"
    /\ answer[a] \in Calls => answer[a] \in Committed /\ KeyOf[answer[a]] = KeyOf[a]

DrawnInv ==
  \A a \in Calls : at[a] = "inserted" \/ a \in Committed => seqOf[a] < nextSeq

OneHolder == PoolMax = 1 => \A a, b \in Holders : a = b

HighestInv ==
  PoolMax = 1 =>
    \A a \in Calls : at[a] = "inserted" => \A b \in Committed : seqOf[b] < seqOf[a]

IInv ==
  /\ AppendTypeOK
  /\ LogInv
  /\ StoredInv
  /\ LockInv
  /\ AnswerInv
  /\ DrawnInv
  /\ OneHolder
  /\ HighestInv
  /\ CommitsInOrder

(***************************************************************************)
(* The pool.                                                               *)
(***************************************************************************)
LEMMA HoldersFinite == IsFiniteSet(Holders) /\ Cardinality(Holders) \in Nat
  BY AppendAssumption, FS_Subset, FS_CardinalityType DEF Holders

\* A step that gives no call a connection leaves the pool within its limit.
LEMMA FewerHolders ==
  ASSUME Cardinality(Holders) <= PoolMax, OneHolder, Holders' \subseteq Holders
  PROVE  Cardinality(Holders') <= PoolMax /\ OneHolder'
  <1>1. Cardinality(Holders') <= Cardinality(Holders) /\ Cardinality(Holders') \in Nat
    BY HoldersFinite, FS_Subset, FS_CardinalityType
  <1>2. QED
    BY <1>1, HoldersFinite, AppendAssumption DEF OneHolder

\* A connection is taken from a pool that has one to give.
LEMMA OneMoreHolder ==
  ASSUME ConnectionFree, NEW a \in Calls, a \notin Holders, Holders' = Holders \cup {a}
  PROVE  Cardinality(Holders') <= PoolMax /\ OneHolder'
  <1>1. Cardinality(Holders') = Cardinality(Holders) + 1
    BY HoldersFinite, FS_AddElement
  <1>2. Cardinality(Holders') <= PoolMax
    BY <1>1, HoldersFinite, AppendAssumption DEF ConnectionFree
  <1>3. OneHolder'
    <2>1. PoolMax = 1 => Cardinality(Holders) = 0
      BY HoldersFinite DEF ConnectionFree
    <2>2. PoolMax = 1 => Holders = {}
      BY <2>1, HoldersFinite, FS_EmptySet
    <2>3. QED
      BY <2>2 DEF OneHolder
  <1>4. QED
    BY <1>2, <1>3

(***************************************************************************)
(* The log.                                                                *)
(***************************************************************************)
LEMMA CommittedCalls ==
  ASSUME AppendTypeOK
  PROVE  Committed \subseteq Calls
  BY DEF AppendTypeOK, Committed

\* Appending an event that is not in the log adds it at the end.
LEMMA LogGrows ==
  ASSUME AppendTypeOK, NEW a \in Calls, committed' = Append(committed, a)
  PROVE  /\ committed' \in Seq(Calls)
         /\ Committed' = Committed \cup {a}
         /\ DOMAIN committed' = 1..(Len(committed) + 1)
         /\ DOMAIN committed = 1..Len(committed) /\ Len(committed) \in Nat
         /\ \A i \in DOMAIN committed : committed'[i] = committed[i]
         /\ committed'[Len(committed) + 1] = a
  <1>1. committed \in Seq(Calls)
    BY DEF AppendTypeOK
  <1>2. /\ committed' \in Seq(Calls)
        /\ DOMAIN committed' = 1..(Len(committed) + 1)
        /\ DOMAIN committed = 1..Len(committed) /\ Len(committed) \in Nat
        /\ \A i \in DOMAIN committed : committed'[i] = committed[i]
        /\ committed'[Len(committed) + 1] = a
    BY <1>1
  <1>3. Committed' \subseteq Committed \cup {a}
    BY <1>2 DEF Committed
  <1>4. Committed \cup {a} \subseteq Committed'
    <2>1. \A i \in DOMAIN committed : i \in DOMAIN committed'
      BY <1>2
    <2>2. Len(committed) + 1 \in DOMAIN committed'
      BY <1>2
    <2>3. QED
      BY <1>2, <2>1, <2>2 DEF Committed
  <1>5. QED
    BY <1>2, <1>3, <1>4

Places == Outside \cup OnConnection \cup {"queued"}

\* One call moves.
LEMMA Moved ==
  ASSUME AppendTypeOK, NEW a \in Calls, NEW p \in Places, Goto(a, p)
  PROVE  /\ at' \in [Calls -> Places]
         /\ at'[a] = p
         /\ \A b \in Calls : b # a => at'[b] = at[b]
         /\ p \in OnConnection => Holders' = Holders \cup {a}
         /\ p \notin OnConnection => Holders' \subseteq Holders
  <1>1. /\ at' \in [Calls -> Places]
        /\ at'[a] = p
        /\ \A b \in Calls : b # a => at'[b] = at[b]
    BY DEF AppendTypeOK, Goto, Places
  <1>2. QED
    BY <1>1 DEF Holders

(***************************************************************************)
(* A step that moves a call and touches neither table: it is enough that   *)
(* the place the call reaches is one the tables and the locks allow.       *)
(***************************************************************************)
LEMMA TablesKept ==
  ASSUME IInv, NEW a \in Calls, NEW p \in Places, Goto(a, p),
         at[a] # "done",
         UNCHANGED <<seqOf, nextSeq, committed, stored>>,
         p # "inserted",
         Cardinality(Holders') <= PoolMax /\ OneHolder',
         p = "claimed" => KeyOf[a] # NoKey /\ ~KeyLocked(a) /\ stored[KeyOf[a]] = NoEvent,
         p = "rolled back" => KeyOf[a] # NoKey /\ stored[KeyOf[a]] # NoEvent,
         answer' \in [Calls -> Calls \cup Refusals \cup {NoEvent}],
         AnswerInv'
  PROVE  IInv'
  <1>0. AppendTypeOK
    BY DEF IInv
  <1>1. /\ at' \in [Calls -> Places]
        /\ at'[a] = p
        /\ \A b \in Calls : b # a => at'[b] = at[b]
    BY <1>0, Moved
  <1>2. Committed' = Committed /\ Committed \subseteq Calls
    BY <1>0, CommittedCalls DEF Committed
  <1>3. AppendTypeOK'
    BY <1>0, <1>1 DEF AppendTypeOK, Places
  <1>4. LogInv'
    BY <1>1, <1>2 DEF IInv, LogInv
  <1>5. StoredInv'
    BY <1>2 DEF IInv, StoredInv
  <1>6. LockInv'
    <2>1. \A b \in Calls :
            b # a /\ p = "claimed" /\ KeyOf[b] = KeyOf[a] => at[b] \notin Locking
      BY DEF KeyLocked, Locking
    <2>2. ASSUME NEW b \in Calls, NEW d \in Calls,
                 at'[b] \in Locking, at'[d] \in Locking, KeyOf[b] = KeyOf[d], KeyOf[b] # NoKey
          PROVE  b = d
      <3>1. CASE b # a /\ d # a
        BY <1>1, <2>2, <3>1 DEF IInv, LockInv
      <3>2. CASE b = a \/ d = a
        BY <1>1, <2>1, <2>2, <3>2 DEF Locking
      <3>3. QED
        BY <3>1, <3>2
    <2>3. \A b \in Calls :
            at'[b] \in Locking /\ KeyOf[b] # NoKey => stored'[KeyOf[b]] = NoEvent
      BY <1>1 DEF IInv, LockInv, Locking
    <2>4. \A b \in Calls :
            at'[b] = "rolled back" => KeyOf[b] # NoKey /\ stored'[KeyOf[b]] # NoEvent
      BY <1>1 DEF IInv, LockInv
    <2>5. QED
      BY <2>2, <2>3, <2>4 DEF LockInv
  <1>7. DrawnInv'
    BY <1>1, <1>2 DEF IInv, DrawnInv
  <1>8. HighestInv'
    BY <1>1, <1>2 DEF IInv, HighestInv
  <1>9. CommitsInOrder'
    BY DEF IInv, CommitsInOrder
  <1>10. QED
    BY <1>3, <1>4, <1>5, <1>6, <1>7, <1>8, <1>9 DEF IInv

\* The answers given so far stay right when the log only grows.
LEMMA AnswersKept ==
  ASSUME IInv, UNCHANGED answer, Committed \subseteq Committed'
  PROVE  /\ answer' \in [Calls -> Calls \cup Refusals \cup {NoEvent}]
         /\ AnswerInv'
  BY DEF IInv, AppendTypeOK, AnswerInv

\* One call is answered, with a refusal other than the one that cannot
\* happen or with an event of its key.
LEMMA OneAnswer ==
  ASSUME IInv, NEW a \in Calls, NEW v, answer' = [answer EXCEPT ![a] = v],
         Committed \subseteq Committed',
         \/ v \in {"error", "unavailable"}
         \/ v \in Calls /\ v \in Committed' /\ KeyOf[v] = KeyOf[a]
  PROVE  /\ answer' \in [Calls -> Calls \cup Refusals \cup {NoEvent}]
         /\ AnswerInv'
  <1>1. v \in Calls \cup Refusals /\ v # "key without event"
    BY AppendAssumption DEF Refusals
  <1>2. answer' \in [Calls -> Calls \cup Refusals \cup {NoEvent}]
    BY <1>1 DEF IInv, AppendTypeOK
  <1>3. /\ answer'[a] = v
        /\ \A b \in Calls : b # a => answer'[b] = answer[b]
    BY DEF IInv, AppendTypeOK
  <1>4. v \in Calls => v \in Committed' /\ KeyOf[v] = KeyOf[a]
    BY AppendAssumption DEF Refusals
  <1>5. AnswerInv'
    BY <1>1, <1>3, <1>4 DEF IInv, AnswerInv
  <1>6. QED
    BY <1>2, <1>5

(***************************************************************************)
(* The steps.                                                              *)
(***************************************************************************)
LEMMA InitHolds == AppendInit => IInv
  <1>1. SUFFICES ASSUME AppendInit PROVE IInv
    OBVIOUS
  <1>2. Holders = {} /\ Committed = {}
    <2>1. Holders = {}
      BY <1>1 DEF AppendInit, Holders, OnConnection
    <2>2. committed = <<>> /\ DOMAIN committed = {}
      BY <1>1 DEF AppendInit
    <2>3. QED
      BY <2>1, <2>2 DEF Committed
  <1>3. Cardinality(Holders) = 0
    BY <1>2, FS_EmptySet
  <1>4. AppendTypeOK
    BY <1>1, <1>3, AppendAssumption DEF AppendInit, AppendTypeOK, Outside
  <1>5. \A a \in Calls : at[a] = "new" /\ answer[a] = NoEvent
    BY <1>1 DEF AppendInit
  <1>6. LogInv /\ StoredInv /\ CommitsInOrder
    BY <1>1, <1>2 DEF AppendInit, LogInv, StoredInv, CommitsInOrder
  <1>7. LockInv /\ DrawnInv /\ HighestInv /\ OneHolder
    BY <1>2, <1>5 DEF LockInv, Locking, DrawnInv, HighestInv, OneHolder
  <1>8. AnswerInv
    BY <1>5, AppendAssumption DEF AnswerInv, NoEvent
  <1>9. QED
    BY <1>4, <1>6, <1>7, <1>8 DEF IInv

\* A call that leaves its connection, or has none, keeps the pool in bounds.
LEMMA MovedOff ==
  ASSUME IInv, NEW a \in Calls, NEW p \in Places \ OnConnection, Goto(a, p)
  PROVE  Cardinality(Holders') <= PoolMax /\ OneHolder'
  <1>1. Holders' \subseteq Holders
    BY Moved DEF IInv
  <1>2. QED
    BY <1>1, FewerHolders DEF IInv, AppendTypeOK

\* So does one that keeps it.
LEMMA MovedOn ==
  ASSUME IInv, NEW a \in Holders, NEW p \in OnConnection, Goto(a, p)
  PROVE  Cardinality(Holders') <= PoolMax /\ OneHolder'
  <1>1. a \in Calls /\ p \in Places
    BY DEF Holders, Places
  <1>2. Holders' = Holders \cup {a}
    BY <1>1, Moved DEF IInv
  <1>3. Holders' \subseteq Holders
    BY <1>2
  <1>4. QED
    BY <1>3, FewerHolders DEF IInv, AppendTypeOK

LEMMA ArriveKeeps == ASSUME IInv, NEW a \in Calls, Arrive(a) PROVE IInv'
  <1>1. Goto(a, "queued") /\ at[a] = "new" /\ UNCHANGED <<seqOf, nextSeq, committed, stored, answer>>
    BY DEF Arrive
  <1>2. "queued" \in Places \ OnConnection
    BY DEF Places, OnConnection
  <1>3. Committed \subseteq Committed'
    BY <1>1 DEF Committed
  <1>4. QED
    BY <1>1, <1>2, <1>3, MovedOff, AnswersKept, TablesKept

LEMMA AcquireKeeps == ASSUME IInv, NEW a \in Calls, Acquire(a) PROVE IInv'
  <1>1. /\ Goto(a, "begun") /\ at[a] = "queued" /\ ConnectionFree
        /\ UNCHANGED <<seqOf, nextSeq, committed, stored, answer>>
    BY DEF Acquire
  <1>2. "begun" \in Places /\ "begun" \in OnConnection
    BY DEF Places, OnConnection
  <1>3. Committed \subseteq Committed'
    BY <1>1 DEF Committed
  <1>4. a \notin Holders /\ Holders' = Holders \cup {a}
    <2>1. a \notin Holders
      BY <1>1 DEF Holders, OnConnection
    <2>2. QED
      BY <1>1, <1>2, <2>1, Moved DEF IInv
  <1>5. Cardinality(Holders') <= PoolMax /\ OneHolder'
    BY <1>1, <1>4, OneMoreHolder
  <1>6. QED
    BY <1>1, <1>2, <1>3, <1>5, AnswersKept, TablesKept

LEMMA ClaimKeeps == ASSUME IInv, NEW a \in Calls, Claim(a) PROVE IInv'
  <1>1. /\ Goto(a, "claimed") /\ at[a] = "begun"
        /\ KeyOf[a] # NoKey /\ ~KeyLocked(a) /\ stored[KeyOf[a]] = NoEvent
        /\ UNCHANGED <<seqOf, nextSeq, committed, stored, answer>>
    BY DEF Claim
  <1>2. "claimed" \in Places /\ "claimed" \in OnConnection /\ a \in Holders
    BY <1>1 DEF Places, OnConnection, Holders
  <1>3. Committed \subseteq Committed'
    BY <1>1 DEF Committed
  <1>4. Cardinality(Holders') <= PoolMax /\ OneHolder'
    BY <1>1, <1>2, MovedOn
  <1>5. QED
    BY <1>1, <1>2, <1>3, <1>4, AnswersKept, TablesKept

LEMMA DuplicateKeeps == ASSUME IInv, NEW a \in Calls, Duplicate(a) PROVE IInv'
  <1>1. /\ Goto(a, "rolled back") /\ at[a] = "begun"
        /\ KeyOf[a] # NoKey /\ stored[KeyOf[a]] # NoEvent
        /\ UNCHANGED <<seqOf, nextSeq, committed, stored, answer>>
    BY DEF Duplicate
  <1>2. "rolled back" \in Places /\ "rolled back" \in OnConnection /\ a \in Holders
    BY <1>1 DEF Places, OnConnection, Holders
  <1>3. Committed \subseteq Committed'
    BY <1>1 DEF Committed
  <1>4. Cardinality(Holders') <= PoolMax /\ OneHolder'
    BY <1>1, <1>2, MovedOn
  <1>5. QED
    BY <1>1, <1>2, <1>3, <1>4, AnswersKept, TablesKept

\* The duplicate path finds the event: the key and its event were committed
\* together.
LEMMA LookupKeeps == ASSUME IInv, NEW a \in Calls, Lookup(a) PROVE IInv'
  <1> DEFINE e == stored[KeyOf[a]]
  <1>1. at[a] = "rolled back" /\ UNCHANGED <<seqOf, nextSeq, committed, stored>>
    BY DEF Lookup
  <1>2. KeyOf[a] \in Keys /\ e # NoEvent
    BY <1>1, AppendAssumption DEF IInv, LockInv
  <1>3. e \in Committed /\ KeyOf[e] = KeyOf[a] /\ e \in Calls
    BY <1>2, CommittedCalls DEF IInv, StoredInv
  <1>4. Answer(a, e)
    BY <1>3 DEF Lookup
  <1>5. Goto(a, "done") /\ answer' = [answer EXCEPT ![a] = e]
    BY <1>4 DEF Answer
  <1>6. Committed' = Committed
    BY <1>1 DEF Committed
  <1>7. "done" \in Places \ OnConnection
    BY DEF Places, OnConnection, Outside
  <1>8. answer' \in [Calls -> Calls \cup Refusals \cup {NoEvent}] /\ AnswerInv'
    BY <1>3, <1>5, <1>6, OneAnswer
  <1>9. Cardinality(Holders') <= PoolMax /\ OneHolder'
    BY <1>5, <1>7, MovedOff
  <1>10. QED
    BY <1>1, <1>5, <1>7, <1>8, <1>9, TablesKept

LEMMA FailKeeps == ASSUME IInv, NEW a \in Calls, Fail(a) PROVE IInv'
  <1>1. /\ Goto(a, "done") /\ at[a] # "done"
        /\ answer' = [answer EXCEPT ![a] = "error"]
        /\ UNCHANGED <<seqOf, nextSeq, committed, stored>>
    BY DEF Fail, Answer, Outside
  <1>2. "done" \in Places \ OnConnection
    BY DEF Places, OnConnection, Outside
  <1>3. Committed' = Committed
    BY <1>1 DEF Committed
  <1>4. answer' \in [Calls -> Calls \cup Refusals \cup {NoEvent}] /\ AnswerInv'
    BY <1>1, <1>3, OneAnswer
  <1>5. Cardinality(Holders') <= PoolMax /\ OneHolder'
    BY <1>1, <1>2, MovedOff
  <1>6. QED
    BY <1>1, <1>2, <1>4, <1>5, TablesKept

\* A drawn number is above every committed one; with one connection no other
\* call can commit before this one does.
LEMMA InsertKeeps == ASSUME IInv, NEW a \in Calls, Insert(a) PROVE IInv'
  <1>1. /\ Goto(a, "inserted")
        /\ at[a] = (IF KeyOf[a] = NoKey THEN "begun" ELSE "claimed")
        /\ seqOf' = [seqOf EXCEPT ![a] = nextSeq]
        /\ nextSeq' = nextSeq + 1
        /\ UNCHANGED <<committed, stored, answer>>
    BY DEF Insert
  <1>2. /\ "inserted" \in Places /\ "inserted" \in OnConnection
        /\ a \in Holders /\ at[a] # "done"
    BY <1>1 DEF Places, OnConnection, Holders
  <1>3. AppendTypeOK
    BY DEF IInv
  <1>4. /\ at' \in [Calls -> Places]
        /\ at'[a] = "inserted"
        /\ \A b \in Calls : b # a => at'[b] = at[b]
    BY <1>1, <1>2, <1>3, Moved
  <1>5. /\ seqOf' \in [Calls -> Nat]
        /\ seqOf'[a] = nextSeq
        /\ \A b \in Calls : b # a => seqOf'[b] = seqOf[b]
        /\ nextSeq \in Nat
    BY <1>1, <1>3 DEF AppendTypeOK
  <1>6. Committed' = Committed /\ Committed \subseteq Calls /\ a \notin Committed
    <2>1. Committed' = Committed
      BY <1>1 DEF Committed
    <2>2. QED
      BY <2>1, <1>2, <1>3, CommittedCalls DEF IInv, LogInv
  <1>7. Cardinality(Holders') <= PoolMax /\ OneHolder'
    BY <1>1, <1>2, MovedOn
  <1>8. answer' \in [Calls -> Calls \cup Refusals \cup {NoEvent}] /\ AnswerInv'
    BY <1>1, <1>6, AnswersKept
  <1>9. AppendTypeOK'
    BY <1>1, <1>3, <1>4, <1>5, <1>7, <1>8 DEF AppendTypeOK, Places
  <1>10. LogInv'
    BY <1>1, <1>4, <1>6 DEF IInv, LogInv
  <1>11. StoredInv'
    BY <1>1, <1>6 DEF IInv, StoredInv
  <1>12. LockInv'
    <2>1. \A b \in Calls : at'[b] \in Locking /\ KeyOf[b] # NoKey => at[b] \in Locking
      BY <1>1, <1>4 DEF Locking
    <2>2. \A b \in Calls : at'[b] = "rolled back" => at[b] = "rolled back"
      BY <1>4
    <2>3. QED
      BY <1>1, <2>1, <2>2 DEF IInv, LockInv
  <1>13. DrawnInv'
    BY <1>1, <1>4, <1>5, <1>6 DEF IInv, DrawnInv, AppendTypeOK
  <1>14. HighestInv'
    <2>1. PoolMax = 1 => \A b \in Calls : at[b] = "inserted" => b = a
      BY <1>2 DEF IInv, OneHolder, Holders, OnConnection
    <2>2. \A b \in Committed : seqOf'[b] < nextSeq
      BY <1>5, <1>6 DEF IInv, DrawnInv
    <2>3. QED
      BY <1>4, <1>5, <1>6, <2>1, <2>2 DEF HighestInv
  <1>15. CommitsInOrder'
    <2>1. \A i \in DOMAIN committed : committed[i] \in Committed
      BY DEF Committed
    <2>2. \A i \in DOMAIN committed : seqOf'[committed[i]] = seqOf[committed[i]]
      BY <1>5, <1>6, <2>1
    <2>3. QED
      BY <1>1, <2>2 DEF IInv, CommitsInOrder
  <1>16. QED
    BY <1>7, <1>8, <1>9, <1>10, <1>11, <1>12, <1>13, <1>14, <1>15 DEF IInv

\* A commit, seen by its caller or not.
LEMMA PublishKeeps ==
  ASSUME IInv, NEW a \in Calls, at[a] = "inserted", Publish(a),
         NEW v \in {a, "error"}, Answer(a, v), UNCHANGED <<seqOf, nextSeq>>
  PROVE  IInv'
  <1>1. AppendTypeOK
    BY DEF IInv
  <1>2. Goto(a, "done") /\ answer' = [answer EXCEPT ![a] = v]
    BY DEF Answer
  <1>3. "done" \in Places \ OnConnection
    BY DEF Places, OnConnection, Outside
  <1>4. /\ at' \in [Calls -> Places]
        /\ at'[a] = "done"
        /\ \A b \in Calls : b # a => at'[b] = at[b]
    BY <1>1, <1>2, <1>3, Moved
  <1>5. /\ committed' \in Seq(Calls)
        /\ Committed' = Committed \cup {a}
        /\ DOMAIN committed' = 1..(Len(committed) + 1)
        /\ DOMAIN committed = 1..Len(committed) /\ Len(committed) \in Nat
        /\ \A i \in DOMAIN committed : committed'[i] = committed[i]
        /\ committed'[Len(committed) + 1] = a
    BY <1>1, LogGrows DEF Publish
  <1>6. a \notin Committed /\ Committed \subseteq Calls
    BY <1>1, CommittedCalls DEF IInv, LogInv
  <1>7. /\ stored' \in [Keys -> Calls \cup {NoEvent}]
        /\ KeyOf[a] # NoKey => KeyOf[a] \in Keys /\ stored'[KeyOf[a]] = a
        /\ \A k \in Keys : k # KeyOf[a] => stored'[k] = stored[k]
    BY <1>1, AppendAssumption DEF Publish, AppendTypeOK
  <1>8. Cardinality(Holders') <= PoolMax /\ OneHolder'
    BY <1>2, <1>3, MovedOff
  <1>9. answer' \in [Calls -> Calls \cup Refusals \cup {NoEvent}] /\ AnswerInv'
    BY <1>2, <1>5, OneAnswer
  <1>10. AppendTypeOK'
    BY <1>1, <1>4, <1>5, <1>7, <1>8, <1>9 DEF AppendTypeOK, Places
  <1>11. LogInv'
    <2>1. \A b \in Committed' : at'[b] = "done"
      BY <1>4, <1>5, <1>6 DEF IInv, LogInv
    <2>2. \A i \in DOMAIN committed : committed[i] # a
      BY <1>6 DEF Committed
    <2>3. \A i, j \in DOMAIN committed' : committed'[i] = committed'[j] => i = j
      <3>1. \A i \in DOMAIN committed' : i \in DOMAIN committed \/ i = Len(committed) + 1
        BY <1>5
      <3>2. QED
        BY <1>5, <2>2, <3>1 DEF IInv, LogInv
    <2>4. QED
      BY <2>1, <2>3 DEF LogInv
  <1>12. KeyOf[a] # NoKey => stored[KeyOf[a]] = NoEvent
    BY DEF IInv, LockInv, Locking
  <1>13. StoredInv'
    <2>1. \A k \in Keys : stored'[k] # NoEvent => stored'[k] \in Committed' /\ KeyOf[stored'[k]] = k
      <3>1. ASSUME NEW k \in Keys, stored'[k] # NoEvent
            PROVE  stored'[k] \in Committed' /\ KeyOf[stored'[k]] = k
        <4>1. CASE k = KeyOf[a]
          BY <1>5, <1>7, <4>1, AppendAssumption
        <4>2. CASE k # KeyOf[a]
          BY <1>5, <1>7, <3>1, <4>2 DEF IInv, StoredInv
        <4>3. QED
          BY <4>1, <4>2
      <3>2. QED
        BY <3>1
    <2>2. \A b \in Committed' : KeyOf[b] # NoKey => stored'[KeyOf[b]] = b
      <3>1. ASSUME NEW b \in Committed, KeyOf[b] # NoKey
            PROVE  stored'[KeyOf[b]] = b
        <4>1. KeyOf[b] \in Keys /\ stored[KeyOf[b]] = b /\ b # NoEvent
          BY <1>6, <3>1, AppendAssumption DEF IInv, StoredInv
        <4>2. KeyOf[b] # KeyOf[a]
          BY <1>12, <3>1, <4>1
        <4>3. QED
          BY <1>7, <4>1, <4>2
      <3>2. QED
        BY <1>5, <1>7, <3>1
    <2>3. QED
      BY <2>1, <2>2 DEF StoredInv
  <1>14. LockInv'
    <2>1. \A b \in Calls : at'[b] \in Locking => b # a /\ at[b] \in Locking
      BY <1>4 DEF Locking
    <2>2. \A b \in Calls : at'[b] \in Locking /\ KeyOf[b] # NoKey => KeyOf[b] # KeyOf[a]
      BY <2>1 DEF IInv, LockInv, Locking
    <2>3. \A b \in Calls : KeyOf[b] # NoKey => KeyOf[b] \in Keys
      BY AppendAssumption
    <2>4. \A b, d \in Calls :
            at'[b] \in Locking /\ at'[d] \in Locking /\ KeyOf[b] = KeyOf[d] /\ KeyOf[b] # NoKey
              => b = d
      BY <2>1 DEF IInv, LockInv
    <2>5. \A b \in Calls :
            at'[b] \in Locking /\ KeyOf[b] # NoKey => stored'[KeyOf[b]] = NoEvent
      BY <1>7, <2>1, <2>2, <2>3 DEF IInv, LockInv
    <2>6. ASSUME NEW b \in Calls, at'[b] = "rolled back"
          PROVE  KeyOf[b] # NoKey /\ stored'[KeyOf[b]] # NoEvent
      <3>1. b # a /\ at[b] = "rolled back"
        BY <1>4, <2>6
      <3>2. KeyOf[b] \in Keys /\ KeyOf[b] # NoKey /\ stored[KeyOf[b]] # NoEvent
        BY <2>3, <3>1 DEF IInv, LockInv
      <3>3. a # NoEvent
        BY AppendAssumption
      <3>4. QED
        BY <1>7, <3>2, <3>3
    <2>7. QED
      BY <2>4, <2>5, <2>6 DEF LockInv
  <1>15. DrawnInv'
    BY <1>4, <1>5, <1>6 DEF IInv, DrawnInv
  <1>16. HighestInv'
    <2>1. a \in Holders
      BY DEF Holders, OnConnection
    <2>2. PoolMax = 1 => \A b \in Calls : at'[b] # "inserted"
      BY <1>4, <2>1 DEF IInv, OneHolder, Holders, OnConnection
    <2>3. QED
      BY <2>2 DEF HighestInv
  <1>17. CommitsInOrder'
    <2>1. \A i \in DOMAIN committed' : i \in DOMAIN committed \/ i = Len(committed) + 1
      BY <1>5
    <2>2. \A i \in DOMAIN committed : committed[i] \in Committed
      BY DEF Committed
    <2>3. PoolMax = 1 => \A i \in DOMAIN committed : seqOf[committed[i]] < seqOf[a]
      BY <2>2 DEF IInv, HighestInv
    <2>4. ASSUME PoolMax = 1, NEW i \in DOMAIN committed', NEW j \in DOMAIN committed', i < j
          PROVE  seqOf[committed'[i]] < seqOf[committed'[j]]
      <3>1. i \in DOMAIN committed
        BY <1>5, <2>4
      <3>2. CASE j \in DOMAIN committed
        BY <1>5, <2>4, <3>1, <3>2 DEF IInv, CommitsInOrder
      <3>3. CASE j = Len(committed) + 1
        BY <1>5, <2>3, <2>4, <3>1, <3>3
      <3>4. QED
        BY <2>1, <3>2, <3>3
    <2>5. QED
      BY <2>4 DEF CommitsInOrder
  <1>18. QED
    BY <1>8, <1>9, <1>10, <1>11, <1>13, <1>14, <1>15, <1>16, <1>17 DEF IInv

\* The death of the process moves only calls to their end.
LEMMA CrashKeeps == ASSUME IInv, CrashCalls PROVE IInv'
  <1> DEFINE cut == {a \in Calls : at[a] \notin Outside}
  <1>1. /\ at' = [a \in Calls |-> IF a \in cut THEN "done" ELSE at[a]]
        /\ answer' = [a \in Calls |-> IF a \in cut THEN "unavailable" ELSE answer[a]]
        /\ UNCHANGED <<seqOf, nextSeq, committed, stored>>
    BY DEF CrashCalls
  <1>2. Committed' = Committed
    BY <1>1 DEF Committed
  <1>3. \A a \in Calls : at'[a] \in Outside /\ (at[a] = "done" => at'[a] = "done")
    BY <1>1 DEF Outside
  <1>4. Holders' = {}
    BY <1>3 DEF Holders, OnConnection, Outside
  <1>5. Cardinality(Holders') <= PoolMax /\ OneHolder'
    BY <1>4, FewerHolders DEF IInv, AppendTypeOK
  <1>6. \A a \in Calls : answer'[a] = answer[a] \/ answer'[a] = "unavailable"
    BY <1>1
  <1>7. AppendTypeOK'
    BY <1>1, <1>3, <1>5, <1>6 DEF IInv, AppendTypeOK, Refusals
  <1>8. LogInv' /\ StoredInv'
    <2>1. Committed \subseteq Calls
      BY CommittedCalls DEF IInv
    <2>2. QED
      BY <1>1, <1>2, <1>3, <2>1 DEF IInv, LogInv, StoredInv
  <1>9. LockInv' /\ HighestInv'
    BY <1>3 DEF LockInv, HighestInv, Locking, Outside
  <1>10. DrawnInv'
    BY <1>1, <1>2, <1>3 DEF IInv, DrawnInv, Outside
  <1>11. AnswerInv'
    BY <1>2, <1>6, AppendAssumption DEF IInv, AnswerInv, Refusals
  <1>12. CommitsInOrder'
    BY <1>1 DEF IInv, CommitsInOrder
  <1>13. QED
    BY <1>5, <1>7, <1>8, <1>9, <1>10, <1>11, <1>12 DEF IInv

(***************************************************************************)
(* The theorems.                                                           *)
(***************************************************************************)
LEMMA NextKeeps == IInv /\ [AppendNext \/ CrashCalls]_appendVars => IInv'
  <1>1. SUFFICES ASSUME IInv, [AppendNext \/ CrashCalls]_appendVars PROVE IInv'
    OBVIOUS
  <1>2. CASE AppendNext
    <2>1. PICK a \in Calls :
            Arrive(a) \/ Acquire(a) \/ Statement(a) \/ CommitUnseen(a) \/ Fail(a)
      BY <1>2 DEF AppendNext
    <2>2. CASE Arrive(a)
      BY <1>1, <2>2, ArriveKeeps
    <2>3. CASE Acquire(a)
      BY <1>1, <2>3, AcquireKeeps
    <2>4. CASE Claim(a)
      BY <1>1, <2>4, ClaimKeeps
    <2>5. CASE Duplicate(a)
      BY <1>1, <2>5, DuplicateKeeps
    <2>6. CASE Lookup(a)
      BY <1>1, <2>6, LookupKeeps
    <2>7. CASE Insert(a)
      BY <1>1, <2>7, InsertKeeps
    <2>8. CASE Commit(a)
      BY <1>1, <2>8, PublishKeeps DEF Commit
    <2>9. CASE CommitUnseen(a)
      BY <1>1, <2>9, PublishKeeps DEF CommitUnseen
    <2>10. CASE Fail(a)
      BY <1>1, <2>10, FailKeeps
    <2>11. QED
      BY <2>1, <2>2, <2>3, <2>4, <2>5, <2>6, <2>7, <2>8, <2>9, <2>10 DEF Statement
  <1>3. CASE CrashCalls
    BY <1>1, <1>3, CrashKeeps
  <1>4. CASE UNCHANGED appendVars
    <2>1. UNCHANGED <<at, seqOf, nextSeq, committed, stored, answer>>
      BY <1>4 DEF appendVars
    <2>2. Committed' = Committed /\ Holders' = Holders
      BY <2>1 DEF Committed, Holders
    <2>3. AppendTypeOK' /\ OneHolder'
      BY <1>1, <2>1, <2>2 DEF IInv, AppendTypeOK, OneHolder
    <2>4. LogInv' /\ StoredInv' /\ LockInv' /\ AnswerInv'
      BY <1>1, <2>1, <2>2 DEF IInv, LogInv, StoredInv, LockInv, AnswerInv
    <2>5. DrawnInv' /\ HighestInv' /\ CommitsInOrder'
      BY <1>1, <2>1, <2>2 DEF IInv, DrawnInv, HighestInv, CommitsInOrder
    <2>6. QED
      BY <2>3, <2>4, <2>5 DEF IInv
  <1>5. QED
    BY <1>1, <1>2, <1>3, <1>4

\* The strengthened invariant holds in every behaviour of the append path.
THEOREM AppendInductive == AppendSpec => []IInv
  BY InitHolds, NextKeeps, PTL DEF AppendSpec

\* The variables of the append path keep their types, and the handlers never
\* hold more connections than the pool has.
THEOREM AppendTypeCorrect == AppendSpec => []AppendTypeOK
  <1>1. IInv => AppendTypeOK
    BY DEF IInv
  <1>2. QED
    BY <1>1, AppendInductive, PTL

\* However many calls of one key race, fail, or are repeated after a crash,
\* the log holds one event of the key.
THEOREM AppendOnce == AppendSpec => []OneEventPerKey
  <1>1. IInv => OneEventPerKey
    <2>1. SUFFICES ASSUME IInv, NEW i \in DOMAIN committed, NEW j \in DOMAIN committed,
                          KeyOf[committed[i]] = KeyOf[committed[j]],
                          KeyOf[committed[i]] # NoKey
                   PROVE  i = j
      BY DEF OneEventPerKey
    <2>2. committed[i] \in Committed /\ committed[j] \in Committed
      BY DEF Committed
    <2>3. committed[i] = committed[j]
      BY <2>1, <2>2 DEF IInv, StoredInv
    <2>4. QED
      BY <2>1, <2>3 DEF IInv, LogInv
  <1>2. QED
    BY <1>1, AppendInductive, PTL

\* Every caller that was told of an event was told of the one its key names,
\* and the duplicate path never finds a key without an event.
THEOREM AnswersAreOne == AppendSpec => []AnswersAgree
  <1>1. IInv => AnswersAgree
    <2>1. SUFFICES ASSUME IInv, NEW a \in Calls, answer[a] \in Calls
                   PROVE  /\ answer[a] \in Committed /\ KeyOf[answer[a]] = KeyOf[a]
                          /\ \A b \in Calls :
                               answer[b] \in Calls /\ KeyOf[b] = KeyOf[a] /\ KeyOf[a] # NoKey
                                 => answer[b] = answer[a]
      BY DEF AnswersAgree, IInv, AnswerInv
    <2>2. \A b \in Calls : answer[b] \in Calls =>
            answer[b] \in Committed /\ KeyOf[answer[b]] = KeyOf[b]
      BY <2>1 DEF IInv, AnswerInv
    <2>3. \A b \in Calls : answer[b] \in Calls /\ KeyOf[b] # NoKey => stored[KeyOf[b]] = answer[b]
      BY <2>1, <2>2 DEF IInv, StoredInv
    <2>4. QED
      BY <2>1, <2>2, <2>3
  <1>2. QED
    BY <1>1, AppendInductive, PTL

\* With one pooled connection events commit in the order of their sequence
\* numbers: the order consumers resume by.
THEOREM AppendInOrder == AppendSpec => []CommitsInOrder
  <1>1. IInv => CommitsInOrder
    BY DEF IInv
  <1>2. QED
    BY <1>1, AppendInductive, PTL

(***************************************************************************)
(* The pool and the keys.                                                  *)
(***************************************************************************)
\* The condition under which what a call does next does not wait.
Unblocked(a) ==
  \/ at[a] \in {"rolled back", "inserted"}
  \/ at[a] = "claimed" /\ KeyOf[a] # NoKey
  \/ at[a] = "begun" /\ (KeyOf[a] = NoKey \/ ~KeyLocked(a))
  \/ at[a] = "queued" /\ ConnectionFree

ClaimedInv == \A a \in Calls : at[a] = "claimed" => KeyOf[a] # NoKey

LEMMA ClaimsHaveKeys == AppendSpec => []ClaimedInv
  <1>1. AppendInit => ClaimedInv
    BY DEF AppendInit, ClaimedInv
  <1>2. AppendTypeOK /\ ClaimedInv /\ [AppendNext \/ CrashCalls]_appendVars => ClaimedInv'
    <2>. SUFFICES ASSUME AppendTypeOK, ClaimedInv, [AppendNext \/ CrashCalls]_appendVars
                  PROVE  ClaimedInv'
      OBVIOUS
    <2>1. at \in [Calls -> Outside \cup OnConnection \cup {"queued"}]
      BY DEF AppendTypeOK
    <2>2. ASSUME NEW a \in Calls, Claim(a)
          PROVE  ClaimedInv'
      BY <2>1, <2>2 DEF Claim, Goto, ClaimedInv
    <2>3. ASSUME NEW a \in Calls,
                 \/ Arrive(a) \/ Acquire(a) \/ Duplicate(a) \/ Lookup(a) \/ Insert(a)
                 \/ Commit(a) \/ CommitUnseen(a) \/ Fail(a)
          PROVE  ClaimedInv'
      BY <2>1, <2>3
      DEF Arrive, Acquire, Duplicate, Lookup, Insert, Commit, CommitUnseen, Fail, Goto, Answer,
          ClaimedInv
    <2>4. CASE CrashCalls
      BY <2>4 DEF CrashCalls, ClaimedInv
    <2>5. CASE UNCHANGED appendVars
      BY <2>5 DEF appendVars, ClaimedInv
    <2>6. QED
      BY <2>2, <2>3, <2>4, <2>5 DEF AppendNext, Statement
  <1>3. QED
    BY <1>1, <1>2, AppendTypeCorrect, PTL DEF AppendSpec

\* As long as an append is under way some append does not wait, whatever the
\* size of the pool: who holds a key's row has its connection already, and
\* the duplicate path asks for no second one.
THEOREM AppendsGoOn ==
  AppendSpec => []((\E a \in Calls : at[a] \notin Outside) => \E a \in Calls : Unblocked(a))
  <1>1. AppendTypeOK /\ ClaimedInv =>
          ((\E a \in Calls : at[a] \notin Outside) => \E a \in Calls : Unblocked(a))
    <2>. SUFFICES ASSUME AppendTypeOK, ClaimedInv, NEW a \in Calls, at[a] \notin Outside,
                         \A b \in Calls : ~Unblocked(b)
                  PROVE  FALSE
      OBVIOUS
    <2>1. at \in [Calls -> Outside \cup OnConnection \cup {"queued"}]
      BY DEF AppendTypeOK
    <2>2. \A b \in Calls : at[b] \notin {"rolled back", "inserted", "claimed"}
      BY DEF Unblocked, ClaimedInv
    <2>3. \A b \in Calls : ~KeyLocked(b)
      BY <2>2 DEF KeyLocked
    <2>4. \A b \in Calls : at[b] # "begun"
      BY <2>3 DEF Unblocked
    <2>5. Holders = {}
      BY <2>2, <2>4 DEF Holders, OnConnection
    <2>6. ConnectionFree
      BY <2>5, FS_EmptySet, AppendAssumption DEF ConnectionFree
    <2>7. QED
      BY <2>1, <2>2, <2>4, <2>6 DEF Unblocked, OnConnection
  <1>2. QED
    BY <1>1, ClaimsHaveKeys, AppendTypeCorrect, PTL
===============================================================================
