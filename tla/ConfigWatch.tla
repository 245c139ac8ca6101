----------------------------- MODULE ConfigWatch -----------------------------
(***************************************************************************)
(* SetConfig and WatchConfig of xstockstrat-config for one namespace and   *)
(* environment, with the table, the LISTEN connection, the serial chain    *)
(* that reloads the cache, the subscribers, and the watching clients.      *)
(*                                                                         *)
(* The server is one Node process: a step is what runs between two awaits. *)
(* The rows of a scope are abstracted to a stamp, the number of writes     *)
(* they have seen: stored for the global rows, mine for the rows of the    *)
(* user some clients watch for.  A payload is the pair of stamps it was    *)
(* built from, and its version is the payload itself.                      *)
(*                                                                         *)
(* A stream a client gave up has no further effect but the key of its      *)
(* registration, so a client has one stream.  The server sends every       *)
(* stream that works a message in each liveness interval, so only a stream *)
(* that is no longer registered runs into the client's deadline.           *)
(***************************************************************************)
EXTENDS Naturals, Sequences

CONSTANTS
  Clients,
  UserClients, \* clients that may watch with a user id
  MaxWrites,  \* bound: SetConfig calls in a behaviour
  MaxFaults   \* bound: crashes, drops, failed queries, broken streams, key clashes

ASSUME ConfigAssumption ==
  /\ UserClients \subseteq Clients
  /\ MaxWrites \in Nat
  /\ MaxFaults \in Nat

VARIABLES
  stored, mine,   \* config.config_values: the global and the user's rows
  unannounced,    \* SetConfig calls between their upsert and their pg_notify
  up,             \* the server: "down", "boot", "serving"
  listener,       \* "none", "open", "deaf" (half open)
  redial,         \* reconnectTimer is armed or its connect is under way
  note,           \* notifications on the listener, not yet dispatched
  cache,          \* snapshots: the global rows last loaded
  chain,          \* tasks of the serial chain, the running one first
  at,             \* where the running task is: "start", "read", "send"
  got,            \* the rows its reload read
  todo,           \* registrations its broadcast has still to visit
  sending,        \* those of todo whose overlay query has been answered
  forUser,        \* clients that watch with a user id
  reg,            \* a client's stream: "none", "pending", "live", "lost"
  twins,          \* clients whose stream got the same registration key
  missed,         \* missedDelta
  draft, overlay, \* the payload being built for a subscriber
  queried,        \* a pending subscriber's overlay query has been answered
  seen, seenMine, \* the values the client has
  faults          \* faults so far

table == <<stored, mine, unannounced>>
feed == <<listener, redial, note>>
task == <<chain, at, got, todo, sending>>
streams == <<reg, twins, missed, draft, overlay, queried>>
views == <<seen, seenMine>>
vars == <<table, up, feed, cache, task, forUser, streams, views, faults>>

Registered == {c \in Clients : reg[c] \in {"pending", "live"}}

Tasks == {"boot", "resync", "stale resync", "reload", "backstop"}

TypeOK ==
  /\ {stored, mine, unannounced, note, cache, got} \subseteq Nat
  /\ up \in {"down", "boot", "serving"}
  /\ listener \in {"none", "open", "deaf"}
  /\ redial \in BOOLEAN
  /\ chain \in Seq(Tasks)
  /\ at \in {"start", "read", "send"}
  /\ sending \subseteq todo
  /\ todo \subseteq Clients
  /\ forUser \subseteq Clients
  /\ reg \in [Clients -> {"none", "pending", "live", "lost"}]
  /\ twins \in [Clients -> SUBSET Clients]
  /\ missed \in [Clients -> BOOLEAN]
  /\ {draft, overlay, seen, seenMine} \subseteq [Clients -> Nat]
  /\ queried \in [Clients -> BOOLEAN]
  /\ faults \in 0..MaxFaults
  /\ at # "start" => chain # <<>>
  /\ listener # "open" => note = 0
  /\ up = "down" => chain = <<>> /\ listener = "none" /\ Registered = {}

Init ==
  /\ stored = 0 /\ mine = 0 /\ unannounced = 0
  /\ up = "down" /\ listener = "none" /\ redial = FALSE /\ note = 0
  /\ cache = 0 /\ chain = <<>> /\ at = "start" /\ got = 0
  /\ todo = {} /\ sending = {}
  /\ forUser \in SUBSET UserClients
  /\ reg = [c \in Clients |-> "none"]
  /\ twins = [c \in Clients |-> {}]
  /\ missed = [c \in Clients |-> FALSE]
  /\ queried = [c \in Clients |-> FALSE]
  /\ draft = [c \in Clients |-> 0] /\ overlay = [c \in Clients |-> 0]
  /\ seen = [c \in Clients |-> 0] /\ seenMine = [c \in Clients |-> 0]
  /\ faults = 0

Fault ==
  /\ faults < MaxFaults
  /\ faults' = faults + 1

-----------------------------------------------------------------------------
(* SetConfig: the gates, the upsert, then pg_notify as a second statement. *)

Upsert ==
  /\ up = "serving"
  /\ stored + mine < MaxWrites
  /\ \/ stored' = stored + 1 /\ mine' = mine
     \/ mine' = mine + 1 /\ stored' = stored
  /\ unannounced' = unannounced + 1
  /\ UNCHANGED <<up, feed, cache, task, forUser, streams, views, faults>>

Announce ==
  /\ unannounced > 0
  /\ unannounced' = unannounced - 1
  /\ note' = IF listener = "open" THEN note + 1 ELSE note
  /\ UNCHANGED <<stored, mine, up, listener, redial, cache, task, forUser, streams,
                 views, faults>>

\* pg_notify fails: the caller gets an error for a write that is in the table.
AnnounceFails ==
  /\ unannounced > 0
  /\ Fault
  /\ unannounced' = unannounced - 1
  /\ UNCHANGED <<stored, mine, up, feed, cache, task, forUser, streams, views>>

-----------------------------------------------------------------------------
(* The process and its LISTEN connection. *)

Die ==
  /\ up' = "down" /\ listener' = "none" /\ redial' = FALSE /\ note' = 0
  /\ unannounced' = 0 /\ cache' = 0
  /\ chain' = <<>> /\ at' = "start" /\ got' = 0 /\ todo' = {} /\ sending' = {}
  /\ reg' = [c \in Clients |-> "none"]
  /\ twins' = [c \in Clients |-> {}]
  /\ missed' = [c \in Clients |-> FALSE]
  /\ queried' = [c \in Clients |-> FALSE]
  /\ draft' = [c \in Clients |-> 0] /\ overlay' = [c \in Clients |-> 0]
  /\ UNCHANGED <<stored, mine, forUser, views>>

Crash == up # "down" /\ Fault /\ Die

\* main: initialize connects the listener and awaits the first reload.
Boot ==
  /\ up = "down"
  /\ up' = "boot" /\ listener' = "open" /\ chain' = <<"boot">>
  /\ UNCHANGED <<table, redial, note, cache, at, got, todo, sending, forUser,
                 streams, views, faults>>

\* A dropped client no longer owns the resync its connect is awaiting.
Disowned(tasks) ==
  [i \in DOMAIN tasks |-> IF tasks[i] = "resync" THEN "stale resync" ELSE tasks[i]]

DropListener ==
  /\ listener' = "none" /\ note' = 0
  /\ redial' = (redial \/ up = "serving")

\* The connection fails, or a heartbeat has been missed.
ListenerLost ==
  /\ \/ listener = "open" /\ Fault
     \/ listener = "deaf" /\ UNCHANGED faults
  /\ DropListener
  /\ chain' = Disowned(chain)
  /\ UNCHANGED <<table, up, cache, at, got, todo, sending, forUser, streams, views>>

GoesDeaf ==
  /\ listener = "open"
  /\ Fault
  /\ listener' = "deaf" /\ note' = 0
  /\ UNCHANGED <<table, up, redial, cache, task, forUser, streams, views>>

\* connectListener of the timer: LISTEN, then a resync at the end of the chain.
Relisten ==
  /\ redial
  /\ listener' = "open" /\ redial' = FALSE
  /\ chain' = Append(chain, "resync")
  /\ UNCHANGED <<table, up, note, cache, at, got, todo, sending, forUser, streams,
                 views, faults>>

Notified ==
  /\ note > 0
  /\ note' = note - 1
  /\ chain' = Append(chain, "reload")
  /\ UNCHANGED <<table, up, listener, redial, cache, at, got, todo, sending, forUser,
                 streams, views, faults>>

\* Its interval is longer than a task takes: it finds the chain empty.
Backstop ==
  /\ up = "serving" /\ chain = <<>>
  /\ chain' = <<"backstop">>
  /\ UNCHANGED <<table, up, feed, cache, at, got, todo, sending, forUser, streams,
                 views, faults>>

-----------------------------------------------------------------------------
(* The running task: read the rows, replace the cache, broadcast. *)

Running(task_at) == chain # <<>> /\ at = task_at

Read ==
  /\ Running("start")
  /\ at' = "read" /\ got' = stored
  /\ UNCHANGED <<table, up, feed, cache, chain, todo, sending, forUser, streams, views,
                 faults>>

\* The first reload's failure ends the process; a resync's drops its listener.
ReadFails ==
  /\ Running("start")
  /\ Fault
  /\ \/ Head(chain) = "boot" /\ Die
     \/ /\ Head(chain) = "resync"
        /\ DropListener
        /\ chain' = Disowned(Tail(chain))
        /\ UNCHANGED <<table, up, cache, at, got, todo, sending, forUser, streams, views>>
     \/ /\ Head(chain) \in {"stale resync", "reload", "backstop"}
        /\ chain' = Tail(chain)
        /\ UNCHANGED <<table, up, feed, cache, at, got, todo, sending, forUser, streams,
                       views>>

\* Mutant: the backstop broadcasts only to subscribers with rows of their own.
MutAudienceOfUsers ==
  IF Head(chain) = "backstop" /\ Registered \cap forUser = {} THEN {} ELSE Registered

\* backstop: only for changed rows, or when a subscriber has rows of its own.
Audience ==
  IF Head(chain) = "backstop" /\ got = cache /\ Registered \cap forUser = {}
  THEN {} ELSE Registered

Apply ==
  /\ Running("read")
  /\ at' = "send" /\ cache' = got /\ todo' = Audience /\ got' = 0
  /\ UNCHANGED <<table, up, feed, chain, sending, forUser, streams, views, faults>>

SkipUnchanged == Head(chain) \in {"reload", "backstop"}

\* writeTo: the client has what was last written to its stream.
Deliver(c, global, own) ==
  /\ seen' = [seen EXCEPT ![c] = global]
  /\ seenMine' = [seenMine EXCEPT ![c] = own]

\* Mutant: a subscriber that awaits its first snapshot misses the delta for good.
MutVisitUnrecorded(c) ==
  /\ Running("send") /\ c \in todo /\ reg[c] = "pending"
  /\ todo' = todo \ {c}
  /\ UNCHANGED <<table, up, feed, cache, chain, at, got, sending, forUser, streams, views,
                 faults>>

\* Mutant: it is sent the delta before its first snapshot.
MutVisitSends(c) ==
  /\ Running("send") /\ c \in todo /\ reg[c] = "pending"
  /\ todo' = todo \ {c}
  /\ Deliver(c, cache, overlay[c])
  /\ UNCHANGED <<table, up, feed, cache, chain, at, got, sending, forUser, streams, faults>>

VisitPending(c) ==
  /\ Running("send") /\ c \in todo /\ reg[c] = "pending"
  /\ todo' = todo \ {c}
  /\ missed' = [missed EXCEPT ![c] = TRUE]
  /\ UNCHANGED <<table, up, feed, cache, chain, at, got, sending, forUser, reg, twins,
                 draft, overlay, queried, views, faults>>

VisitGlobal(c) ==
  /\ Running("send") /\ c \in todo /\ reg[c] = "live" /\ c \notin forUser
  /\ todo' = todo \ {c}
  /\ IF SkipUnchanged /\ seen[c] = cache THEN UNCHANGED views
                                         ELSE Deliver(c, cache, 0)
  /\ UNCHANGED <<table, up, feed, cache, chain, at, got, sending, forUser, streams, faults>>

\* The overlay query of a broadcast, and the write after its answer.
VisitQuery(c) ==
  /\ Running("send") /\ c \in todo \ sending /\ sending = {}
  /\ reg[c] = "live" /\ c \in forUser
  /\ sending' = {c}
  /\ overlay' = [overlay EXCEPT ![c] = mine]
  /\ UNCHANGED <<table, up, feed, cache, chain, at, got, todo, forUser, reg, twins,
                 missed, draft, queried, views, faults>>

VisitUser(c) ==
  /\ Running("send") /\ c \in sending
  /\ todo' = todo \ {c} /\ sending' = {}
  /\ overlay' = [overlay EXCEPT ![c] = 0]
  /\ IF \/ reg[c] = "none"
        \/ SkipUnchanged /\ <<seen[c], seenMine[c]>> = <<cache, overlay[c]>>
     THEN UNCHANGED views
     ELSE Deliver(c, cache, overlay[c])
  /\ UNCHANGED <<table, up, feed, cache, chain, at, got, forUser, reg, twins, missed,
                 draft, queried, faults>>

\* Entries that were deleted are not met by the iteration.
TaskDone ==
  /\ Running("send") /\ todo \cap Registered = {} /\ sending = {}
  /\ chain' = Tail(chain) /\ at' = "start" /\ todo' = {}
  /\ up' = IF Head(chain) = "boot" THEN "serving" ELSE up
  /\ UNCHANGED <<table, feed, cache, got, sending, forUser, streams, views, faults>>

-----------------------------------------------------------------------------
(* WatchConfig, its client, and the loop that sends the first snapshot. *)

\* A broadcast meets a new registration too; what it was sending to the
\* client's last stream reaches nobody.
Register(c) ==
  /\ reg[c] = "none" /\ up = "serving"
  /\ missed' = [missed EXCEPT ![c] = FALSE]
  /\ draft' = [draft EXCEPT ![c] = cache]
  /\ queried' = [queried EXCEPT ![c] = (c \notin forUser)]
  /\ todo' = IF at = "send" THEN todo \cup {c} ELSE todo
  /\ sending' = sending \ {c}
  /\ overlay' = [overlay EXCEPT ![c] = 0]
  /\ UNCHANGED <<table, up, feed, cache, chain, at, got, forUser, views>>

Watch(c) ==
  /\ Register(c)
  /\ reg' = [reg EXCEPT ![c] = "pending"]
  /\ twins' = [twins EXCEPT ![c] = {}]
  /\ UNCHANGED faults

\* The key has no client id in it (req.client_id is not a field of the decoded
\* request), so two streams of one millisecond and scope share it.
WatchSameKey(c, other) ==
  /\ other \in Registered /\ (c \in forUser <=> other \in forUser)
  /\ Register(c)
  /\ Fault
  /\ reg' = [reg EXCEPT ![c] = "pending", ![other] = "lost"]
  /\ twins' = [d \in Clients |->
                 CASE d = c -> {other} \cup (twins[other] \ {c})
                   [] d = other \/ (d \in twins[other] /\ d # c) -> twins[d] \cup {c}
                   [] OTHER -> twins[d]]

SubscriberQuery(c) ==
  /\ reg[c] = "pending" /\ ~queried[c]
  /\ queried' = [queried EXCEPT ![c] = TRUE]
  /\ overlay' = [overlay EXCEPT ![c] = mine]
  /\ UNCHANGED <<table, up, feed, cache, task, forUser, reg, twins, missed, draft, views,
                 faults>>

\* Without a query nothing runs between the two; the payload of a global
\* subscriber is still written a step later, which only adds behaviours.
\* A delta missed since the payload was based on the cache is another round.
SubscriberWrite(c) ==
  /\ reg[c] = "pending" /\ queried[c]
  /\ Deliver(c, draft[c], overlay[c])
  /\ missed' = [missed EXCEPT ![c] = FALSE]
  /\ overlay' = [overlay EXCEPT ![c] = 0]
  /\ IF missed[c]
     THEN /\ draft' = [draft EXCEPT ![c] = cache]
          /\ queried' = [queried EXCEPT ![c] = (c \notin forUser)]
          /\ UNCHANGED reg
     ELSE /\ draft' = [draft EXCEPT ![c] = 0]
          /\ queried' = [queried EXCEPT ![c] = FALSE]
          /\ reg' = [reg EXCEPT ![c] = "live"]
  /\ UNCHANGED <<table, up, feed, cache, task, forUser, twins, faults>>

Forget(c) ==
  /\ missed' = [missed EXCEPT ![c] = FALSE]
  /\ queried' = [queried EXCEPT ![c] = FALSE]
  /\ draft' = [draft EXCEPT ![c] = 0]
  /\ overlay' = [overlay EXCEPT ![c] = 0]

\* The 'cancelled' and 'error' handlers delete by key, a twin's entry included.
Unregister(c) ==
  /\ reg' = [d \in Clients |->
               CASE d = c -> "none"
                 [] d # c /\ d \in twins[c] /\ d \in Registered -> "lost"
                 [] OTHER -> reg[d]]
  /\ twins' = [d \in Clients |-> IF d = c THEN {} ELSE twins[d] \ {c}]
  /\ Forget(c)
  /\ UNCHANGED <<table, up, feed, cache, task, forUser, views>>

StreamBreaks(c) ==
  /\ reg[c] # "none"
  /\ Fault
  /\ Unregister(c)

\* endSubscriber: only the registration of this very stream is removed.
QueryFails(c) ==
  /\ c \in forUser
  /\ \/ reg[c] = "pending" /\ ~queried[c]
     \/ reg[c] = "live" /\ Running("send") /\ c \in todo \ sending /\ sending = {}
  /\ Fault
  /\ reg' = [reg EXCEPT ![c] = "none"]
  /\ twins' = [d \in Clients |-> IF d = c THEN {} ELSE twins[d] \ {c}]
  /\ Forget(c)
  /\ UNCHANGED <<table, up, feed, cache, task, forUser, views>>

\* armLiveness, streamOnce: no message within the deadline.
Deadline(c) ==
  /\ reg[c] = "lost"
  /\ Unregister(c)
  /\ UNCHANGED faults

-----------------------------------------------------------------------------
Visit(c) ==
  VisitPending(c) \/ VisitGlobal(c) \/ VisitQuery(c) \/ VisitUser(c)
TaskStep == Read \/ Apply \/ TaskDone \/ \E c \in Clients : Visit(c)
Subscribe(c) == Watch(c) \/ SubscriberQuery(c) \/ SubscriberWrite(c) \/ Deadline(c)

Next ==
  \/ Upsert \/ Announce \/ AnnounceFails
  \/ Crash \/ Boot \/ ListenerLost \/ GoesDeaf \/ Relisten \/ Notified \/ Backstop
  \/ TaskStep \/ ReadFails
  \/ \E c \in Clients :
       \/ Subscribe(c) \/ StreamBreaks(c) \/ QueryFails(c)
       \/ \E other \in Clients \ {c} : WatchSameKey(c, other)

Spec == Init /\ [][Next]_vars

Fairness ==
  /\ WF_vars(Announce) /\ WF_vars(Boot) /\ WF_vars(Notified) /\ WF_vars(Backstop)
  /\ WF_vars(Relisten) /\ WF_vars(listener = "deaf" /\ ListenerLost)
  /\ WF_vars(TaskStep)
  /\ \A c \in Clients : WF_vars(Subscribe(c))

FairSpec == Spec /\ Fairness

-----------------------------------------------------------------------------
(* Whenever no broadcast is under way, every client with a live stream has *)
(* the global values the server has (watchConfig, broadcastToSubscribers:   *)
(* registered before the snapshot read, missedDelta, skipUnchanged).        *)
LiveStreamsHaveCache ==
  at # "send" => \A c \in Clients : reg[c] = "live" => seen[c] = cache

(* What a client has never goes back to older values, over new streams,     *)
(* reconnects of the listener and restarts of the server (serial).          *)
NeverBackwards ==
  [][\A c \in Clients : seen[c] <= seen'[c] /\ seenMine[c] <= seenMine'[c]]_views

(* Every client ends up with what is stored, whichever notifications,       *)
(* listeners, streams and processes were lost on the way.                   *)
WatchersConverge ==
  \A c \in Clients :
    <>[](seen[c] = stored /\ (c \in forUser => seenMine[c] = mine))
=============================================================================
