----------------------------- MODULE LedgerAppend -----------------------------
(***************************************************************************)
(* AppendEvent of xstockstrat-ledger (src/grpc/ledgerServiceImpl.ts): the  *)
(* pool of DB_POOL_MAX connections, the transaction that claims an         *)
(* idempotency key and inserts the event, and the answers callers get.     *)
(*                                                                         *)
(* A call is one RPC; a retry is another call with the same key, which may *)
(* arrive while the first one is still running.  A call stores at most one *)
(* event, so the event is named by its call; seqOf is the number nextval   *)
(* gave it, 0 before.  Every statement a call sends is a step, and any of  *)
(* them may fail.  Row contents are left out.                              *)
(***************************************************************************)
EXTENDS Naturals, Sequences, FiniteSets

CONSTANTS
  Calls,      \* AppendEvent calls
  Keys,       \* idempotency keys
  NoKey,      \* the empty key: the plain path
  KeyOf,      \* the key of a call
  PoolMax     \* DB_POOL_MAX

NoEvent == "no event"
Refusals == {"error", "key without event", "unavailable"}

ASSUME AppendAssumption ==
  /\ IsFiniteSet(Calls)
  /\ Calls \cap ({NoEvent} \cup Refusals) = {}
  /\ NoKey \notin Keys
  /\ KeyOf \in [Calls -> Keys \cup {NoKey}]
  /\ PoolMax \in Nat \ {0}

VARIABLES
  at,         \* where each call is
  seqOf,      \* the sequence number the call's INSERT drew, 0 before
  nextSeq,    \* ledger.global_sequence; never rolled back
  committed,  \* ledger.events, in commit order
  stored,     \* ledger.idempotency_keys: the committed event of a key
  answer      \* what the caller was told: an event, or why there is none

appendVars == <<at, seqOf, nextSeq, committed, stored, answer>>

Outside == {"new", "done"}
OnConnection == {"begun", "claimed", "rolled back", "inserted"}

Holders == {a \in Calls : at[a] \in OnConnection}

ConnectionFree == Cardinality(Holders) < PoolMax

Committed == {committed[i] : i \in DOMAIN committed}

AppendTypeOK ==
  /\ at \in [Calls -> Outside \cup OnConnection \cup {"queued"}]
  /\ seqOf \in [Calls -> Nat]
  /\ nextSeq \in Nat
  /\ committed \in Seq(Calls)
  /\ stored \in [Keys -> Calls \cup {NoEvent}]
  /\ answer \in [Calls -> Calls \cup Refusals \cup {NoEvent}]
  /\ Cardinality(Holders) <= PoolMax

AppendInit ==
  /\ at = [a \in Calls |-> "new"]
  /\ seqOf = [a \in Calls |-> 0]
  /\ nextSeq = 1
  /\ committed = <<>>
  /\ stored = [k \in Keys |-> NoEvent]
  /\ answer = [a \in Calls |-> NoEvent]

Goto(a, p) == at' = [at EXCEPT ![a] = p]

(* The callback runs and the finally block releases the connection. *)
Answer(a, v) ==
  /\ Goto(a, "done")
  /\ answer' = [answer EXCEPT ![a] = v]

Arrive(a) ==
  /\ at[a] = "new"
  /\ Goto(a, "queued")
  /\ UNCHANGED <<seqOf, nextSeq, committed, stored, answer>>

(* pool.connect (and BEGIN), or the connection pool.query takes. *)
Acquire(a) ==
  /\ at[a] = "queued"
  /\ ConnectionFree
  /\ Goto(a, "begun")
  /\ UNCHANGED <<seqOf, nextSeq, committed, stored, answer>>

(* A transaction that inserted the key and is still open makes a second    *)
(* INSERT of the key wait for its outcome.                                 *)
KeyLocked(a) ==
  \E b \in Calls \ {a} : KeyOf[b] = KeyOf[a] /\ at[b] \in {"claimed", "inserted"}

\* Mutants: the key is looked up before it is inserted, without a lock;
\* the key is inserted outside the transaction.
MutCheckThenClaim(a) ==
  /\ at[a] = "begun"
  /\ KeyOf[a] # NoKey
  /\ stored[KeyOf[a]] = NoEvent
  /\ Goto(a, "claimed")
  /\ UNCHANGED <<seqOf, nextSeq, committed, stored, answer>>
MutClaimAutocommits(a) ==
  /\ at[a] = "begun"
  /\ KeyOf[a] # NoKey
  /\ stored[KeyOf[a]] = NoEvent
  /\ Goto(a, "claimed")
  /\ stored' = [stored EXCEPT ![KeyOf[a]] = a]
  /\ UNCHANGED <<seqOf, nextSeq, committed, answer>>

(* The INSERT .. ON CONFLICT DO NOTHING returns a row. *)
Claim(a) ==
  /\ at[a] = "begun"
  /\ KeyOf[a] # NoKey
  /\ ~KeyLocked(a)
  /\ stored[KeyOf[a]] = NoEvent
  /\ Goto(a, "claimed")
  /\ UNCHANGED <<seqOf, nextSeq, committed, stored, answer>>

(* It returns none, and the transaction is rolled back. *)
Duplicate(a) ==
  /\ at[a] = "begun"
  /\ KeyOf[a] # NoKey
  /\ ~KeyLocked(a)
  /\ stored[KeyOf[a]] # NoEvent
  /\ Goto(a, "rolled back")
  /\ UNCHANGED <<seqOf, nextSeq, committed, stored, answer>>

\* Mutant: the lookup takes a second connection from the pool.
MutLookupOnPool(a) ==
  /\ at[a] = "rolled back"
  /\ ConnectionFree
  /\ Answer(a, stored[KeyOf[a]])
  /\ UNCHANGED <<seqOf, nextSeq, committed, stored>>

(* The stored event of the key, read on the connection the call holds. *)
Lookup(a) ==
  /\ at[a] = "rolled back"
  /\ LET e == stored[KeyOf[a]]
     IN  Answer(a, IF e \in Committed THEN e ELSE "key without event")
  /\ UNCHANGED <<seqOf, nextSeq, committed, stored>>

Insert(a) ==
  /\ at[a] = IF KeyOf[a] = NoKey THEN "begun" ELSE "claimed"
  /\ seqOf' = [seqOf EXCEPT ![a] = nextSeq]
  /\ nextSeq' = nextSeq + 1
  /\ Goto(a, "inserted")
  /\ UNCHANGED <<committed, stored, answer>>

(* What COMMIT (or the end of the plain statement) makes visible. *)
Publish(a) ==
  /\ committed' = Append(committed, a)
  /\ stored' = IF KeyOf[a] = NoKey THEN stored ELSE [stored EXCEPT ![KeyOf[a]] = a]

Commit(a) ==
  /\ at[a] = "inserted"
  /\ Publish(a)
  /\ Answer(a, a)
  /\ UNCHANGED <<seqOf, nextSeq>>

(* The server commits and the connection breaks before it says so. *)
CommitUnseen(a) ==
  /\ at[a] = "inserted"
  /\ Publish(a)
  /\ Answer(a, "error")
  /\ UNCHANGED <<seqOf, nextSeq>>

(* pool.connect or a statement throws: ROLLBACK, code 13, release. *)
Fail(a) ==
  /\ at[a] \notin Outside
  /\ Answer(a, "error")
  /\ UNCHANGED <<seqOf, nextSeq, committed, stored>>

(* The process dies: open transactions are rolled back by the server.  A   *)
(* reply the crash cut off after COMMIT is CommitUnseen.                   *)
CrashCalls ==
  LET cut == {a \in Calls : at[a] \notin Outside}
  IN  /\ at' = [a \in Calls |-> IF a \in cut THEN "done" ELSE at[a]]
      /\ answer' = [a \in Calls |-> IF a \in cut THEN "unavailable" ELSE answer[a]]
      /\ UNCHANGED <<seqOf, nextSeq, committed, stored>>

Statement(a) == Claim(a) \/ Duplicate(a) \/ Lookup(a) \/ Insert(a) \/ Commit(a)

AppendNext ==
  \E a \in Calls : Arrive(a) \/ Acquire(a) \/ Statement(a) \/ CommitUnseen(a) \/ Fail(a)

(* A waiter gets a free connection and a statement sent to a live server is *)
(* answered.  The calls are finitely many, so nothing need be said of who   *)
(* is served first.                                                        *)
AppendFairness == WF_appendVars(\E a \in Calls : Acquire(a) \/ Statement(a))

AppendSpec == AppendInit /\ [][AppendNext \/ CrashCalls]_appendVars
AppendFairSpec == AppendSpec /\ AppendFairness

-------------------------------------------------------------------------------
(* A key names at most one event, whatever retries raced: a caller that     *)
(* repeats an append after an answer it did not get (appendLedgerEvent of   *)
(* trading, with the same key) does not put a second fill in the log.       *)
OneEventPerKey ==
  \A i, j \in DOMAIN committed :
    KeyOf[committed[i]] = KeyOf[committed[j]] /\ KeyOf[committed[i]] # NoKey => i = j

(* An event a caller was told of is in the log, callers with one key were   *)
(* told of one event, and no key ever lacks its event (the code 13 branch   *)
(* of the duplicate path is dead).                                         *)
AnswersAgree ==
  \A a \in Calls :
    /\ answer[a] # "key without event"
    /\ answer[a] \in Calls =>
         /\ answer[a] \in Committed
         /\ KeyOf[answer[a]] = KeyOf[a]
         /\ \A b \in Calls :
              answer[b] \in Calls /\ KeyOf[b] = KeyOf[a] /\ KeyOf[a] # NoKey
                => answer[b] = answer[a]

(* With the default pool of one connection the order of sequence numbers is *)
(* the order of commits, which is what lets a consumer resume from the last *)
(* sequence number it saw (LEDGER-3); with more, LEDGER-9 gives it up.      *)
CommitsInOrder ==
  PoolMax = 1 =>
    \A i, j \in DOMAIN committed : i < j => seqOf[committed[i]] < seqOf[committed[j]]

(* An append that reached the handler is answered: the duplicate path never *)
(* waits for a second connection while it holds the only one (LEDGER-1).    *)
EveryCallAnswered == \A a \in Calls : at[a] = "queued" ~> at[a] = "done"
===============================================================================
