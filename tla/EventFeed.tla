------------------------------ MODULE EventFeed ------------------------------
(***************************************************************************)
(* What the ledger promises a consumer that resumes its stream: one log,   *)
(* and every consumer sees the events it asked for exactly once each, in   *)
(* the order of the log, with none left out but those that are given up    *)
(* for it (LEDGER-2, LEDGER-3).  An event given up has lost its place: the *)
(* consumer may see it out of its turn, or never.  How an event travels -- *)
(* a replay query, a notification, a resolved stub, a second stream after  *)
(* the first was cut -- is not visible here.                               *)
(***************************************************************************)
EXTENDS Naturals, Sequences

CONSTANTS Events, Consumers, Wants    \* Wants \in [Consumers -> SUBSET Events]

VARIABLES log, delivered,
          skipped    \* the events given up for a consumer

vars == <<log, delivered, skipped>>

Logged == {log[i] : i \in DOMAIN log}
Seen(c) == {delivered[c][i] : i \in DOMAIN delivered[c]}

Init ==
  /\ log = <<>>
  /\ delivered = [c \in Consumers |-> <<>>]
  /\ skipped = [c \in Consumers |-> {}]

(* Events of the log are given up for consumers. *)
Skip ==
  /\ skipped' \in [Consumers -> SUBSET Events]
  /\ \A c \in Consumers : skipped[c] \subseteq skipped'[c] /\ skipped'[c] \subseteq Logged'

Publish(e) ==
  /\ e \notin Logged
  /\ log' = Append(log, e)
  /\ Skip
  /\ UNCHANGED delivered

GiveUp ==
  /\ Skip
  /\ UNCHANGED <<log, delivered>>

Hand(c, e) ==
  /\ delivered' = [delivered EXCEPT ![c] = Append(@, e)]
  /\ UNCHANGED <<log, skipped>>

(* The first event the consumer asked for and has not seen, those given up  *)
(* for it apart.                                                           *)
DeliverNext(c) ==
  \E i \in DOMAIN log :
    /\ log[i] \in Wants[c] \ (Seen(c) \cup skipped[c])
    /\ \A j \in 1..(i - 1) : log[j] \in Wants[c] => log[j] \in Seen(c) \cup skipped[c]
    /\ Hand(c, log[i])

DeliverGivenUp(c) ==
  \E e \in (skipped[c] \cap Wants[c]) \ Seen(c) : Hand(c, e)

Next ==
  \/ \E e \in Events : Publish(e)
  \/ GiveUp
  \/ \E c \in Consumers : DeliverNext(c) \/ DeliverGivenUp(c)

Spec == Init /\ [][Next]_vars /\ \A c \in Consumers : WF_vars(DeliverNext(c))
==============================================================================
