-------------------------- MODULE ConfigWatchProofs --------------------------
(***************************************************************************)
(* Proofs about ConfigWatch for every set of clients and every number of   *)
(* writes and faults.                                                      *)
(***************************************************************************)
EXTENDS ConfigWatch, TLAPS

Regs == {"none", "pending", "live", "lost"}

WatchTypes ==
  /\ stored \in Nat /\ mine \in Nat /\ cache \in Nat /\ got \in Nat
  /\ at \in {"start", "read", "send"}
  /\ reg \in [Clients -> Regs]
  /\ missed \in [Clients -> BOOLEAN]
  /\ queried \in [Clients -> BOOLEAN]
  /\ draft \in [Clients -> Nat]
  /\ overlay \in [Clients -> Nat]
  /\ seen \in [Clients -> Nat]
  /\ seenMine \in [Clients -> Nat]

\* A broadcast holds clients only while it runs; a query is a user's.
BroadcastInv ==
  /\ todo \subseteq Clients
  /\ sending \subseteq todo /\ sending \subseteq forUser
  /\ at # "send" => todo = {}

\* A subscriber that is behind the cache, or is about to be, will be told: the
\* broadcast has still to visit it, or has recorded that it missed the delta.
Told(c) ==
  /\ reg[c] = "live" /\ seen[c] # cache => at = "send" /\ c \in todo
  /\ reg[c] = "pending" /\ draft[c] # cache => missed[c] \/ (at = "send" /\ c \in todo)
  /\ c \in sending => reg[c] # "pending"

\* What reloads read never gets older, the table's rows included.
ReloadInv ==
  /\ cache <= stored /\ got <= stored
  /\ at = "read" => cache <= got

\* Whatever may be written to a client's stream is as new as what it has.
Newer(c) ==
  /\ seen[c] <= stored /\ seenMine[c] <= mine
  /\ up = "serving" \/ at = "send" => seen[c] <= cache
  /\ at = "read" => seen[c] <= got
  /\ reg[c] \in {"pending", "live"} => up = "serving"
  /\ reg[c] = "pending" => seen[c] <= draft[c] /\ draft[c] <= cache
  /\ c \notin forUser => /\ seenMine[c] = 0 /\ overlay[c] = 0
                         /\ reg[c] = "pending" => queried[c]
  /\ (c \in sending /\ reg[c] # "none") \/ (c \in forUser /\ reg[c] = "pending" /\ queried[c])
       => seenMine[c] <= overlay[c] /\ overlay[c] <= mine

WatchInv ==
  /\ WatchTypes
  /\ BroadcastInv
  /\ ReloadInv
  /\ \A c \in Clients : Told(c) /\ Newer(c)

LEMMA InitWatch == Init => WatchInv
  <1>1. SUFFICES ASSUME Init PROVE WatchInv
    OBVIOUS
  <1>2. /\ stored = 0 /\ mine = 0 /\ cache = 0 /\ got = 0 /\ at = "start" /\ up = "down"
        /\ todo = {} /\ sending = {}
    BY <1>1 DEF Init
  <1>3. /\ reg = [c \in Clients |-> "none"]
        /\ missed = [c \in Clients |-> FALSE]
        /\ queried = [c \in Clients |-> FALSE]
        /\ draft = [c \in Clients |-> 0] /\ overlay = [c \in Clients |-> 0]
        /\ seen = [c \in Clients |-> 0] /\ seenMine = [c \in Clients |-> 0]
    BY <1>1 DEF Init
  <1>4. WatchTypes
    BY <1>2, <1>3 DEF WatchTypes, Regs
  <1>5. BroadcastInv /\ ReloadInv
    BY <1>2 DEF BroadcastInv, ReloadInv
  <1>6. ASSUME NEW c \in Clients
        PROVE  Told(c) /\ Newer(c)
    <2>1. reg[c] = "none" /\ seen[c] = 0 /\ seenMine[c] = 0 /\ overlay[c] = 0
      BY <1>3
    <2>2. QED
      BY <1>2, <2>1 DEF Told, Newer
  <1>7. QED
    BY <1>4, <1>5, <1>6 DEF WatchInv

\* A client a step does not touch, or loses, is as well off as before.
LEMMA Elsewhere ==
  ASSUME WatchInv, NEW d \in Clients,
         UNCHANGED <<stored, mine, cache, got, at, up, forUser>>,
         reg'[d] = reg[d] \/ (reg'[d] = "lost" /\ reg[d] # "none"),
         missed'[d] = missed[d], queried'[d] = queried[d], draft'[d] = draft[d],
         overlay'[d] = overlay[d], seen'[d] = seen[d], seenMine'[d] = seenMine[d],
         d \in todo => d \in todo',
         d \in sending' => d \in sending
  PROVE  Told(d)' /\ Newer(d)'
  <1>1. Told(d) /\ Newer(d)
    BY DEF WatchInv
  <1>2. Told(d)'
    BY <1>1 DEF Told
  <1>3. Newer(d)'
    BY <1>1 DEF Newer
  <1>4. QED
    BY <1>2, <1>3

\* Writes to the table, and everything about notifications and the listener.
LEMMA TableSteps ==
  ASSUME WatchInv,
         UNCHANGED <<cache, at, todo, sending, got, forUser, streams, views>>,
         up' = up \/ (up = "down" /\ up' = "boot"),
         \/ stored' = stored /\ mine' = mine
         \/ stored' = stored + 1 /\ mine' = mine
         \/ stored' = stored /\ mine' = mine + 1
  PROVE  WatchInv'
  <1>1. /\ stored' \in Nat /\ mine' \in Nat /\ stored <= stored' /\ mine <= mine'
    BY DEF WatchInv, WatchTypes
  <1>2. UNCHANGED <<reg, missed, queried, draft, overlay, seen, seenMine>>
    BY DEF streams, views
  <1>3. WatchTypes'
    BY <1>1, <1>2 DEF WatchInv, WatchTypes
  <1>4. BroadcastInv'
    BY DEF WatchInv, BroadcastInv
  <1>5. ReloadInv'
    BY <1>1 DEF WatchInv, WatchTypes, ReloadInv
  <1>6. ASSUME NEW c \in Clients
        PROVE  Told(c)' /\ Newer(c)'
    <2>1. Told(c) /\ Newer(c)
      BY DEF WatchInv
    <2>2. Told(c)'
      BY <1>2, <2>1 DEF Told
    <2>3. /\ seen[c] \in Nat /\ seenMine[c] \in Nat /\ overlay[c] \in Nat
          /\ stored \in Nat /\ mine \in Nat
      BY DEF WatchInv, WatchTypes
    <2>4. Newer(c)'
      BY <1>1, <1>2, <2>1, <2>3 DEF Newer
    <2>5. QED
      BY <2>2, <2>4
  <1>7. QED
    BY <1>3, <1>4, <1>5, <1>6 DEF WatchInv

LEMMA FeedSteps ==
  ASSUME WatchInv,
         \/ Upsert \/ Announce \/ AnnounceFails \/ Boot \/ ListenerLost \/ GoesDeaf
         \/ Relisten \/ Notified \/ Backstop
  PROVE  WatchInv'
  <1>1. UNCHANGED <<cache, at, todo, sending, got, forUser, streams, views>>
    BY DEF Upsert, Announce, AnnounceFails, Boot, ListenerLost, GoesDeaf, Relisten, Notified,
           Backstop, task, feed
  <1>2. up' = up \/ (up = "down" /\ up' = "boot")
    BY DEF Upsert, Announce, AnnounceFails, Boot, ListenerLost, GoesDeaf, Relisten, Notified,
           Backstop
  <1>3. \/ stored' = stored /\ mine' = mine
        \/ stored' = stored + 1 /\ mine' = mine
        \/ stored' = stored /\ mine' = mine + 1
    BY DEF Upsert, Announce, AnnounceFails, Boot, ListenerLost, GoesDeaf, Relisten, Notified,
           Backstop, table
  <1>4. QED
    BY <1>1, <1>2, <1>3, TableSteps

LEMMA DieKeeps ==
  ASSUME WatchInv, Die
  PROVE  WatchInv'
  <1>1. /\ up' = "down" /\ at' = "start" /\ cache' = 0 /\ got' = 0 /\ todo' = {} /\ sending' = {}
        /\ UNCHANGED <<stored, mine, forUser, seen, seenMine>>
    BY DEF Die, views
  <1>2. /\ reg' = [c \in Clients |-> "none"]
        /\ missed' = [c \in Clients |-> FALSE]
        /\ queried' = [c \in Clients |-> FALSE]
        /\ draft' = [c \in Clients |-> 0] /\ overlay' = [c \in Clients |-> 0]
    BY DEF Die
  <1>3. WatchTypes'
    BY <1>1, <1>2 DEF WatchInv, WatchTypes, Regs
  <1>4. BroadcastInv' /\ ReloadInv'
    BY <1>1 DEF BroadcastInv, ReloadInv, WatchInv, WatchTypes
  <1>5. ASSUME NEW c \in Clients
        PROVE  Told(c)' /\ Newer(c)'
    <2>1. Newer(c)
      BY DEF WatchInv
    <2>2. reg'[c] = "none" /\ overlay'[c] = 0
      BY <1>2
    <2>3. QED
      BY <1>1, <2>1, <2>2 DEF Told, Newer
  <1>6. QED
    BY <1>3, <1>4, <1>5 DEF WatchInv

LEMMA ReadKeeps ==
  ASSUME WatchInv, Read
  PROVE  WatchInv'
  <1>1. /\ at = "start" /\ at' = "read" /\ got' = stored
        /\ UNCHANGED <<stored, mine, up, cache, todo, sending, forUser>>
        /\ UNCHANGED <<reg, missed, queried, draft, overlay, seen, seenMine>>
    BY DEF Read, Running, table, streams, views
  <1>2. WatchTypes' /\ BroadcastInv' /\ ReloadInv'
    BY <1>1 DEF WatchInv, WatchTypes, BroadcastInv, ReloadInv
  <1>3. ASSUME NEW c \in Clients
        PROVE  Told(c)' /\ Newer(c)'
    <2>1. Told(c) /\ Newer(c)
      BY DEF WatchInv
    <2>2. QED
      BY <1>1, <2>1 DEF Told, Newer
  <1>4. QED
    BY <1>2, <1>3 DEF WatchInv

\* The backstop broadcasts nothing only if there is nothing to tell.
LEMMA ApplyKeeps ==
  ASSUME WatchInv, Apply
  PROVE  WatchInv'
  <1>1. /\ at = "read" /\ at' = "send" /\ cache' = got /\ got' = 0 /\ todo' = Audience
        /\ UNCHANGED <<stored, mine, up, sending, forUser>>
        /\ UNCHANGED <<reg, missed, queried, draft, overlay, seen, seenMine>>
    BY DEF Apply, Running, table, streams, views
  <1>2. /\ Audience = Registered \/ (Audience = {} /\ got = cache)
        /\ Registered \subseteq Clients
    BY DEF Audience, Registered
  <1>3. sending = {} /\ Audience \subseteq Clients
    BY <1>1, <1>2 DEF WatchInv, BroadcastInv
  <1>4. WatchTypes' /\ BroadcastInv' /\ ReloadInv'
    BY <1>1, <1>3 DEF WatchInv, WatchTypes, BroadcastInv, ReloadInv
  <1>5. ASSUME NEW c \in Clients
        PROVE  Told(c)' /\ Newer(c)'
    <2>1. /\ Told(c) /\ Newer(c)
          /\ seen[c] \in Nat /\ draft[c] \in Nat /\ cache \in Nat /\ got \in Nat
          /\ cache <= got /\ got <= stored
      BY <1>1 DEF WatchInv, WatchTypes, ReloadInv
    <2>2. reg[c] \in {"pending", "live"} => c \in Registered
      BY DEF Registered
    <2>3. Told(c)'
      BY <1>1, <1>2, <1>3, <2>1, <2>2 DEF Told
    <2>4. Newer(c)'
      BY <1>1, <1>3, <2>1 DEF Newer
    <2>5. QED
      BY <2>3, <2>4
  <1>6. QED
    BY <1>4, <1>5 DEF WatchInv

LEMMA TaskDoneKeeps ==
  ASSUME WatchInv, TaskDone
  PROVE  WatchInv'
  <1>1. /\ at = "send" /\ at' = "start" /\ todo' = {} /\ sending = {} /\ sending' = {}
        /\ up' \in {up, "serving"}
        /\ todo \cap Registered = {}
        /\ UNCHANGED <<stored, mine, cache, got, forUser>>
        /\ UNCHANGED <<reg, missed, queried, draft, overlay, seen, seenMine>>
    BY DEF TaskDone, Running, table, streams, views
  <1>2. WatchTypes' /\ BroadcastInv' /\ ReloadInv'
    BY <1>1 DEF WatchInv, WatchTypes, BroadcastInv, ReloadInv
  <1>3. ASSUME NEW c \in Clients
        PROVE  Told(c)' /\ Newer(c)'
    <2>1. Told(c) /\ Newer(c)
      BY DEF WatchInv
    <2>2. reg[c] \in {"pending", "live"} => c \notin todo
      BY <1>1 DEF Registered
    <2>3. Told(c)'
      BY <1>1, <2>1, <2>2 DEF Told
    <2>4. Newer(c)'
      BY <1>1, <2>1 DEF Newer
    <2>5. QED
      BY <2>3, <2>4
  <1>4. QED
    BY <1>2, <1>3 DEF WatchInv

\* A step of the broadcast that touches client c alone.
LEMMA VisitStep ==
  ASSUME WatchInv, NEW c \in Clients,
         at = "send",
         UNCHANGED <<stored, mine, cache, got, at, up, forUser, reg, draft, queried>>,
         todo' = todo \ {c} \/ todo' = todo,
         sending' = sending \/ sending' = {} \/ sending' = {c},
         sending' \subseteq todo' \cap forUser,
         missed' \in [Clients -> BOOLEAN],
         overlay' \in [Clients -> Nat],
         seen' \in [Clients -> Nat],
         seenMine' \in [Clients -> Nat],
         \A d \in Clients : d # c => /\ missed'[d] = missed[d] /\ overlay'[d] = overlay[d]
                                     /\ seen'[d] = seen[d] /\ seenMine'[d] = seenMine[d],
         Told(c)', Newer(c)'
  PROVE  WatchInv'
  <1>1. WatchTypes' /\ BroadcastInv' /\ ReloadInv'
    BY DEF WatchInv, WatchTypes, BroadcastInv, ReloadInv
  <1>2. ASSUME NEW d \in Clients
        PROVE  Told(d)' /\ Newer(d)'
    <2>1. CASE d = c
      BY <2>1
    <2>2. CASE d # c
      <3>1. /\ d \in todo => d \in todo'
            /\ d \in sending' => d \in sending
        BY <2>2
      <3>2. QED
        BY <2>2, <3>1, Elsewhere
    <2>3. QED
      BY <2>1, <2>2
  <1>3. QED
    BY <1>1, <1>2 DEF WatchInv

\* writeTo gives c, and nobody else, two values.
LEMMA DeliverEffect ==
  ASSUME WatchTypes, NEW c \in Clients, NEW global \in Nat, NEW own \in Nat,
         Deliver(c, global, own)
  PROVE  /\ seen' \in [Clients -> Nat] /\ seenMine' \in [Clients -> Nat]
         /\ seen'[c] = global /\ seenMine'[c] = own
         /\ \A d \in Clients : d # c => seen'[d] = seen[d] /\ seenMine'[d] = seenMine[d]
  BY DEF Deliver, WatchTypes

LEMMA VisitPendingKeeps ==
  ASSUME WatchInv, NEW c \in Clients, VisitPending(c)
  PROVE  WatchInv'
  <1>1. /\ at = "send" /\ c \in todo /\ reg[c] = "pending" /\ todo' = todo \ {c}
        /\ missed' = [missed EXCEPT ![c] = TRUE]
        /\ UNCHANGED <<stored, mine, cache, got, at, up, forUser, reg, draft, queried, sending,
                       overlay, seen, seenMine>>
    BY DEF VisitPending, Running, table, views
  <1>2. Told(c) /\ Newer(c) /\ WatchTypes /\ BroadcastInv
    BY DEF WatchInv
  <1>3. /\ missed' \in [Clients -> BOOLEAN] /\ missed'[c]
        /\ \A d \in Clients : d # c => missed'[d] = missed[d]
    BY <1>1, <1>2 DEF WatchTypes
  <1>4. Told(c)' /\ Newer(c)'
    BY <1>1, <1>2, <1>3 DEF Told, Newer
  <1>5. sending' \subseteq todo' \cap forUser
    BY <1>1, <1>2 DEF Told, BroadcastInv
  <1>6. QED
    BY <1>1, <1>2, <1>3, <1>4, <1>5, VisitStep DEF WatchTypes

LEMMA VisitGlobalKeeps ==
  ASSUME WatchInv, NEW c \in Clients, VisitGlobal(c)
  PROVE  WatchInv'
  <1>1. /\ at = "send" /\ c \in todo /\ reg[c] = "live" /\ c \notin forUser /\ todo' = todo \ {c}
        /\ UNCHANGED <<stored, mine, cache, got, at, up, forUser, reg, draft, queried, sending,
                       overlay, missed>>
        /\ (seen[c] = cache /\ UNCHANGED <<seen, seenMine>>) \/ Deliver(c, cache, 0)
    BY DEF VisitGlobal, Running, table, views, streams
  <1>2. Told(c) /\ Newer(c) /\ WatchTypes /\ BroadcastInv /\ ReloadInv
    BY DEF WatchInv
  <1>3. /\ seen' \in [Clients -> Nat] /\ seenMine' \in [Clients -> Nat]
        /\ \A d \in Clients : d # c => seen'[d] = seen[d] /\ seenMine'[d] = seenMine[d]
        /\ seen'[c] = cache /\ seenMine'[c] = 0
    <2>1. cache \in Nat /\ 0 \in Nat /\ seenMine[c] = 0
      BY <1>1, <1>2 DEF WatchTypes, Newer
    <2>2. QED
      BY <1>1, <1>2, <2>1, DeliverEffect DEF WatchTypes
  <1>4. Told(c)'
    BY <1>1, <1>3 DEF Told
  <1>5. Newer(c)'
    BY <1>1, <1>2, <1>3 DEF Newer, ReloadInv, WatchTypes, BroadcastInv
  <1>6. sending' \subseteq todo' \cap forUser
    BY <1>1, <1>2 DEF BroadcastInv
  <1>7. QED
    BY <1>1, <1>2, <1>3, <1>4, <1>5, <1>6, VisitStep DEF WatchTypes

LEMMA VisitQueryKeeps ==
  ASSUME WatchInv, NEW c \in Clients, VisitQuery(c)
  PROVE  WatchInv'
  <1>1. /\ at = "send" /\ c \in todo /\ reg[c] = "live" /\ c \in forUser
        /\ sending' = {c}
        /\ overlay' = [overlay EXCEPT ![c] = mine]
        /\ UNCHANGED <<stored, mine, cache, got, at, up, forUser, reg, draft, queried, todo,
                       missed, seen, seenMine>>
    BY DEF VisitQuery, Running, table, views
  <1>2. Told(c) /\ Newer(c) /\ WatchTypes /\ BroadcastInv
    BY DEF WatchInv
  <1>3. /\ overlay' \in [Clients -> Nat] /\ overlay'[c] = mine
        /\ \A d \in Clients : d # c => overlay'[d] = overlay[d]
    BY <1>1, <1>2 DEF WatchTypes
  <1>4. Told(c)'
    BY <1>1, <1>2 DEF Told
  <1>5. Newer(c)'
    BY <1>1, <1>2, <1>3 DEF Newer, WatchTypes
  <1>6. sending' \subseteq todo' \cap forUser
    BY <1>1
  <1>7. QED
    BY <1>1, <1>2, <1>3, <1>4, <1>5, <1>6, VisitStep DEF WatchTypes

LEMMA VisitUserKeeps ==
  ASSUME WatchInv, NEW c \in Clients, VisitUser(c)
  PROVE  WatchInv'
  <1>1. /\ at = "send" /\ c \in sending /\ todo' = todo \ {c} /\ sending' = {}
        /\ overlay' = [overlay EXCEPT ![c] = 0]
        /\ UNCHANGED <<stored, mine, cache, got, at, up, forUser, reg, draft, queried, missed>>
        /\ \/ reg[c] = "none" /\ UNCHANGED <<seen, seenMine>>
           \/ seen[c] = cache /\ UNCHANGED <<seen, seenMine>>
           \/ reg[c] # "none" /\ Deliver(c, cache, overlay[c])
    BY DEF VisitUser, Running, table, views
  <1>2. Told(c) /\ Newer(c) /\ WatchTypes /\ BroadcastInv /\ ReloadInv
    BY DEF WatchInv
  <1>3. /\ overlay' \in [Clients -> Nat] /\ overlay'[c] = 0
        /\ \A d \in Clients : d # c => overlay'[d] = overlay[d]
    BY <1>1, <1>2 DEF WatchTypes
  <1>4. cache \in Nat /\ overlay[c] \in Nat /\ c \in forUser
    BY <1>1, <1>2 DEF WatchTypes, BroadcastInv
  <1>5. /\ seen' \in [Clients -> Nat] /\ seenMine' \in [Clients -> Nat]
        /\ \A d \in Clients : d # c => seen'[d] = seen[d] /\ seenMine'[d] = seenMine[d]
        /\ \/ reg[c] = "none" /\ seen'[c] = seen[c] /\ seenMine'[c] = seenMine[c]
           \/ seen'[c] = cache /\ seenMine'[c] = seenMine[c]
           \/ reg[c] # "none" /\ seen'[c] = cache /\ seenMine'[c] = overlay[c]
    BY <1>1, <1>2, <1>4, DeliverEffect DEF WatchTypes
  <1>6. Told(c)'
    BY <1>1, <1>2, <1>5 DEF Told
  <1>7. reg[c] # "pending"
    BY <1>1, <1>2 DEF Told
  <1>8. Newer(c)'
    BY <1>1, <1>2, <1>3, <1>4, <1>5, <1>7 DEF Newer, ReloadInv, WatchTypes
  <1>9. QED
    BY <1>1, <1>2, <1>3, <1>5, <1>6, <1>8, VisitStep DEF WatchTypes

\* A step of client c's stream, which may take the registration of others away.
LEMMA StreamStep ==
  ASSUME WatchInv, NEW c \in Clients,
         UNCHANGED <<stored, mine, cache, got, at, up, forUser>>,
         todo' = todo \/ (at = "send" /\ todo' = todo \cup {c}),
         sending' = sending \/ sending' = sending \ {c},
         reg' \in [Clients -> Regs],
         missed' \in [Clients -> BOOLEAN],
         queried' \in [Clients -> BOOLEAN],
         draft' \in [Clients -> Nat],
         overlay' \in [Clients -> Nat],
         seen' \in [Clients -> Nat],
         seenMine' \in [Clients -> Nat],
         \A d \in Clients :
           d # c => /\ reg'[d] = reg[d] \/ (reg'[d] = "lost" /\ reg[d] # "none")
                    /\ missed'[d] = missed[d] /\ queried'[d] = queried[d]
                    /\ draft'[d] = draft[d] /\ overlay'[d] = overlay[d]
                    /\ seen'[d] = seen[d] /\ seenMine'[d] = seenMine[d],
         Told(c)', Newer(c)'
  PROVE  WatchInv'
  <1>1. WatchTypes' /\ ReloadInv'
    BY DEF WatchInv, WatchTypes, ReloadInv
  <1>2. BroadcastInv'
    BY DEF WatchInv, BroadcastInv
  <1>3. ASSUME NEW d \in Clients
        PROVE  Told(d)' /\ Newer(d)'
    <2>1. CASE d = c
      BY <2>1
    <2>2. CASE d # c
      <3>1. /\ d \in todo => d \in todo'
            /\ d \in sending' => d \in sending
        BY <2>2
      <3>2. QED
        BY <2>2, <3>1, Elsewhere
    <2>3. QED
      BY <2>1, <2>2
  <1>4. QED
    BY <1>1, <1>2, <1>3 DEF WatchInv

\* A new registration starts from the cache and is not being sent anything.
LEMMA RegisterEffect ==
  ASSUME WatchInv, NEW c \in Clients, Register(c),
         reg' \in [Clients -> Regs], reg'[c] = "pending",
         \A d \in Clients : d # c => reg'[d] = reg[d] \/ (reg'[d] = "lost" /\ reg[d] # "none")
  PROVE  WatchInv'
  <1>1. /\ up = "serving"
        /\ missed' = [missed EXCEPT ![c] = FALSE]
        /\ draft' = [draft EXCEPT ![c] = cache]
        /\ queried' = [queried EXCEPT ![c] = (c \notin forUser)]
        /\ overlay' = [overlay EXCEPT ![c] = 0]
        /\ todo' = todo \/ (at = "send" /\ todo' = todo \cup {c})
        /\ sending' = sending \ {c}
        /\ UNCHANGED <<stored, mine, cache, got, at, up, forUser, seen, seenMine>>
    BY DEF Register, table, views
  <1>2. Newer(c) /\ WatchTypes
    BY DEF WatchInv
  <1>3. /\ missed' \in [Clients -> BOOLEAN] /\ queried' \in [Clients -> BOOLEAN]
        /\ draft' \in [Clients -> Nat] /\ overlay' \in [Clients -> Nat]
        /\ draft'[c] = cache /\ overlay'[c] = 0
        /\ queried'[c] <=> (c \notin forUser)
        /\ \A d \in Clients : d # c => /\ missed'[d] = missed[d] /\ queried'[d] = queried[d]
                                       /\ draft'[d] = draft[d] /\ overlay'[d] = overlay[d]
    <2>1. (c \notin forUser) \in BOOLEAN /\ cache \in Nat
      BY <1>2 DEF WatchTypes
    <2>2. QED
      BY <1>1, <1>2, <2>1 DEF WatchTypes
  <1>4. Told(c)'
    BY <1>1, <1>3 DEF Told
  <1>5. Newer(c)'
    BY <1>1, <1>2, <1>3 DEF Newer, WatchTypes
  <1>6. QED
    BY <1>1, <1>2, <1>3, <1>4, <1>5, StreamStep DEF WatchTypes

LEMMA WatchKeeps ==
  ASSUME WatchInv, NEW c \in Clients, Watch(c)
  PROVE  WatchInv'
  <1>1. Register(c) /\ reg' = [reg EXCEPT ![c] = "pending"]
    BY DEF Watch
  <1>2. reg \in [Clients -> Regs]
    BY DEF WatchInv, WatchTypes
  <1>3. /\ reg' \in [Clients -> Regs] /\ reg'[c] = "pending"
        /\ \A d \in Clients : d # c => reg'[d] = reg[d]
    BY <1>1, <1>2 DEF Regs
  <1>4. QED
    BY <1>1, <1>3, RegisterEffect

LEMMA WatchSameKeyKeeps ==
  ASSUME WatchInv, NEW c \in Clients, NEW other \in Clients \ {c}, WatchSameKey(c, other)
  PROVE  WatchInv'
  <1>1. /\ Register(c) /\ reg[other] # "none"
        /\ reg' = [reg EXCEPT ![c] = "pending", ![other] = "lost"]
    BY DEF WatchSameKey, Registered
  <1>2. reg \in [Clients -> Regs]
    BY DEF WatchInv, WatchTypes
  <1>3. /\ reg' \in [Clients -> Regs] /\ reg'[c] = "pending" /\ reg'[other] = "lost"
        /\ \A d \in Clients \ {c, other} : reg'[d] = reg[d]
    BY <1>1, <1>2 DEF Regs
  <1>4. QED
    BY <1>1, <1>3, RegisterEffect

LEMMA SubscriberQueryKeeps ==
  ASSUME WatchInv, NEW c \in Clients, SubscriberQuery(c)
  PROVE  WatchInv'
  <1>1. /\ reg[c] = "pending" /\ ~queried[c]
        /\ queried' = [queried EXCEPT ![c] = TRUE]
        /\ overlay' = [overlay EXCEPT ![c] = mine]
        /\ UNCHANGED <<stored, mine, cache, got, at, up, forUser, todo, sending, reg, missed,
                       draft, seen, seenMine>>
    BY DEF SubscriberQuery, table, task, views
  <1>2. Told(c) /\ Newer(c) /\ WatchTypes
    BY DEF WatchInv
  <1>3. /\ queried' \in [Clients -> BOOLEAN] /\ overlay' \in [Clients -> Nat]
        /\ queried'[c] /\ overlay'[c] = mine
        /\ \A d \in Clients : d # c => queried'[d] = queried[d] /\ overlay'[d] = overlay[d]
    BY <1>1, <1>2 DEF WatchTypes
  <1>4. Told(c)'
    BY <1>1, <1>2 DEF Told
  <1>5. c \in forUser
    BY <1>1, <1>2 DEF Newer
  <1>6. seenMine[c] <= overlay'[c] /\ overlay'[c] <= mine
    BY <1>2, <1>3 DEF Newer, WatchTypes
  <1>7. Newer(c)'
    BY <1>1, <1>2, <1>5, <1>6 DEF Newer
  <1>8. QED
    BY <1>1, <1>2, <1>3, <1>4, <1>7, StreamStep DEF WatchTypes

LEMMA SubscriberWriteKeeps ==
  ASSUME WatchInv, NEW c \in Clients, SubscriberWrite(c)
  PROVE  WatchInv'
  <1>1. /\ reg[c] = "pending" /\ queried[c]
        /\ Deliver(c, draft[c], overlay[c])
        /\ missed' = [missed EXCEPT ![c] = FALSE]
        /\ overlay' = [overlay EXCEPT ![c] = 0]
        /\ UNCHANGED <<stored, mine, cache, got, at, up, forUser, todo, sending>>
    BY DEF SubscriberWrite, table, task
  <1>2. Told(c) /\ Newer(c) /\ WatchTypes /\ ReloadInv /\ BroadcastInv
    BY DEF WatchInv
  <1>3. /\ missed' \in [Clients -> BOOLEAN] /\ overlay' \in [Clients -> Nat]
        /\ overlay'[c] = 0
        /\ \A d \in Clients : d # c => missed'[d] = missed[d] /\ overlay'[d] = overlay[d]
    BY <1>1, <1>2 DEF WatchTypes
  <1>4. draft[c] \in Nat /\ overlay[c] \in Nat /\ cache \in Nat
    BY <1>2 DEF WatchTypes
  <1>5. /\ seen' \in [Clients -> Nat] /\ seenMine' \in [Clients -> Nat]
        /\ seen'[c] = draft[c] /\ seenMine'[c] = overlay[c]
        /\ \A d \in Clients : d # c => seen'[d] = seen[d] /\ seenMine'[d] = seenMine[d]
    BY <1>1, <1>2, <1>4, DeliverEffect
  <1>6. CASE missed[c]
    <2>1. /\ draft' = [draft EXCEPT ![c] = cache]
          /\ queried' = [queried EXCEPT ![c] = (c \notin forUser)]
          /\ reg' = reg
      BY <1>6 DEF SubscriberWrite
    <2>2. /\ draft' \in [Clients -> Nat] /\ queried' \in [Clients -> BOOLEAN]
          /\ draft'[c] = cache
          /\ queried'[c] <=> (c \notin forUser)
          /\ \A d \in Clients : d # c => draft'[d] = draft[d] /\ queried'[d] = queried[d]
      <3>1. (c \notin forUser) \in BOOLEAN
        OBVIOUS
      <3>2. QED
        BY <1>2, <1>4, <2>1, <3>1 DEF WatchTypes
    <2>3. Told(c)'
      BY <1>1, <1>2, <2>1, <2>2 DEF Told
    <2>4. Newer(c)'
      BY <1>1, <1>2, <1>3, <1>4, <1>5, <2>1, <2>2 DEF Newer, ReloadInv, WatchTypes, Told
    <2>5. QED
      BY <1>1, <1>2, <1>3, <1>5, <2>1, <2>2, <2>3, <2>4, StreamStep DEF WatchTypes
  <1>7. CASE ~missed[c]
    <2>1. /\ draft' = [draft EXCEPT ![c] = 0]
          /\ queried' = [queried EXCEPT ![c] = FALSE]
          /\ reg' = [reg EXCEPT ![c] = "live"]
      BY <1>7 DEF SubscriberWrite
    <2>2. /\ draft' \in [Clients -> Nat] /\ queried' \in [Clients -> BOOLEAN]
          /\ reg' \in [Clients -> Regs] /\ reg'[c] = "live"
          /\ \A d \in Clients : d # c => /\ draft'[d] = draft[d] /\ queried'[d] = queried[d]
                                         /\ reg'[d] = reg[d]
      BY <1>2, <2>1 DEF WatchTypes, Regs
    <2>3. Told(c)'
      BY <1>1, <1>2, <1>5, <1>7, <2>2 DEF Told
    <2>4. Newer(c)'
      BY <1>1, <1>2, <1>3, <1>4, <1>5, <2>2 DEF Newer, ReloadInv, WatchTypes, Told
    <2>5. QED
      BY <1>1, <1>2, <1>3, <1>5, <2>2, <2>3, <2>4, StreamStep DEF WatchTypes
  <1>8. QED
    BY <1>6, <1>7

\* A stream that ends leaves nothing behind but what its client has.
LEMMA ForgetKeeps ==
  ASSUME WatchInv, NEW c \in Clients, Forget(c),
         UNCHANGED <<stored, mine, cache, got, at, up, forUser, todo, sending, seen, seenMine>>,
         reg' \in [Clients -> Regs], reg'[c] = "none",
         \A d \in Clients : d # c => reg'[d] = reg[d] \/ (reg'[d] = "lost" /\ reg[d] # "none")
  PROVE  WatchInv'
  <1>1. Newer(c) /\ WatchTypes
    BY DEF WatchInv
  <1>2. /\ missed' \in [Clients -> BOOLEAN] /\ queried' \in [Clients -> BOOLEAN]
        /\ draft' \in [Clients -> Nat] /\ overlay' \in [Clients -> Nat] /\ overlay'[c] = 0
        /\ \A d \in Clients : d # c => /\ missed'[d] = missed[d] /\ queried'[d] = queried[d]
                                       /\ draft'[d] = draft[d] /\ overlay'[d] = overlay[d]
    BY <1>1 DEF Forget, WatchTypes
  <1>3. Told(c)' /\ Newer(c)'
    BY <1>1, <1>2 DEF Told, Newer
  <1>4. QED
    BY <1>1, <1>2, <1>3, StreamStep DEF WatchTypes

LEMMA EndKeeps ==
  ASSUME WatchInv, NEW c \in Clients, StreamBreaks(c) \/ QueryFails(c) \/ Deadline(c)
  PROVE  WatchInv'
  <1>1. reg \in [Clients -> Regs]
    BY DEF WatchInv, WatchTypes
  <1>2. /\ Forget(c)
        /\ UNCHANGED <<stored, mine, cache, got, at, up, forUser, todo, sending, seen, seenMine>>
    BY DEF StreamBreaks, QueryFails, Deadline, Unregister, table, task, views
  <1>3. CASE Unregister(c)
    <2>1. reg' = [d \in Clients |->
                    CASE d = c -> "none"
                      [] d # c /\ d \in twins[c] /\ d \in Registered -> "lost"
                      [] OTHER -> reg[d]]
      BY <1>3 DEF Unregister
    <2>2. \A d \in Clients : d \in Registered => reg[d] # "none"
      BY DEF Registered
    <2>3. /\ reg' \in [Clients -> Regs] /\ reg'[c] = "none"
          /\ \A d \in Clients : d # c => reg'[d] = reg[d] \/ (reg'[d] = "lost" /\ reg[d] # "none")
      BY <1>1, <2>1, <2>2 DEF Regs
    <2>4. QED
      BY <1>2, <2>3, ForgetKeeps
  <1>4. CASE QueryFails(c)
    <2>1. reg' = [reg EXCEPT ![c] = "none"]
      BY <1>4 DEF QueryFails
    <2>2. /\ reg' \in [Clients -> Regs] /\ reg'[c] = "none"
          /\ \A d \in Clients : d # c => reg'[d] = reg[d]
      BY <1>1, <2>1 DEF Regs
    <2>3. QED
      BY <1>2, <2>2, ForgetKeeps
  <1>5. QED
    BY <1>3, <1>4 DEF StreamBreaks, Deadline

\* A failed reload ends the process or leaves the cache as it is.
LEMMA ReadFailsKeeps ==
  ASSUME WatchInv, ReadFails
  PROVE  WatchInv'
  <1>1. CASE Die
    BY <1>1, DieKeeps
  <1>2. CASE ~Die
    <2>1. /\ UNCHANGED <<cache, at, todo, sending, got, forUser, streams, views, up>>
          /\ stored' = stored /\ mine' = mine
      BY <1>2 DEF ReadFails, table
    <2>2. QED
      BY <2>1, TableSteps
  <1>3. QED
    BY <1>1, <1>2

LEMMA NextWatch == WatchInv /\ [Next]_vars => WatchInv'
  <1>1. SUFFICES ASSUME WatchInv, [Next]_vars
                 PROVE  WatchInv'
    OBVIOUS
  <1>2. CASE \/ Upsert \/ Announce \/ AnnounceFails \/ Boot \/ ListenerLost \/ GoesDeaf
             \/ Relisten \/ Notified \/ Backstop
    BY <1>1, <1>2, FeedSteps
  <1>3. CASE Crash
    BY <1>1, <1>3, DieKeeps DEF Crash
  <1>4. CASE Read \/ Apply \/ TaskDone
    BY <1>1, <1>4, ReadKeeps, ApplyKeeps, TaskDoneKeeps
  <1>5. ASSUME NEW c \in Clients, Visit(c)
        PROVE  WatchInv'
    BY <1>1, <1>5, VisitPendingKeeps, VisitGlobalKeeps, VisitQueryKeeps, VisitUserKeeps
       DEF Visit
  <1>6. CASE ReadFails
    BY <1>1, <1>6, ReadFailsKeeps
  <1>7. ASSUME NEW c \in Clients, Subscribe(c) \/ StreamBreaks(c) \/ QueryFails(c)
        PROVE  WatchInv'
    BY <1>1, <1>7, WatchKeeps, SubscriberQueryKeeps, SubscriberWriteKeeps, EndKeeps
       DEF Subscribe
  <1>8. ASSUME NEW c \in Clients, NEW other \in Clients \ {c}, WatchSameKey(c, other)
        PROVE  WatchInv'
    BY <1>1, <1>8, WatchSameKeyKeeps
  <1>9. CASE UNCHANGED vars
    <2>1. /\ UNCHANGED <<cache, at, todo, sending, got, forUser, streams, views, up>>
          /\ stored' = stored /\ mine' = mine
      BY <1>9 DEF vars, table, task
    <2>2. QED
      BY <1>1, <2>1, TableSteps
  <1>10. QED
    BY <1>1, <1>2, <1>3, <1>4, <1>5, <1>6, <1>7, <1>8, <1>9 DEF Next, TaskStep

\* The strengthened invariant holds in every behaviour of server and clients.
THEOREM WatchInvariant == Spec => []WatchInv
  BY InitWatch, NextWatch, PTL DEF Spec

\* Between two broadcasts a client whose stream is live has the values of the
\* server's cache, whichever writes, restarts and failures came before.
THEOREM LiveHaveCache == Spec => []LiveStreamsHaveCache
  <1>1. WatchInv => LiveStreamsHaveCache
    BY DEF WatchInv, Told, LiveStreamsHaveCache
  <1>2. QED
    BY <1>1, WatchInvariant, PTL

LEMMA Written ==
  ASSUME WatchInv, NEW c \in Clients, NEW global \in Nat, NEW own \in Nat,
         Deliver(c, global, own), seen[c] <= global, seenMine[c] <= own
  PROVE  \A d \in Clients : seen[d] <= seen'[d] /\ seenMine[d] <= seenMine'[d]
  <1>1. WatchTypes
    BY DEF WatchInv
  <1>2. \A d \in Clients : seen[d] \in Nat /\ seenMine[d] \in Nat
    BY <1>1 DEF WatchTypes
  <1>3. /\ seen'[c] = global /\ seenMine'[c] = own
        /\ \A d \in Clients : d # c => seen'[d] = seen[d] /\ seenMine'[d] = seenMine[d]
    BY <1>1, DeliverEffect
  <1>4. QED
    BY <1>2, <1>3

\* The steps that write to a stream write nothing older than what its client has.
LEMMA WritesForward ==
  ASSUME WatchInv, NEW c \in Clients,
         VisitGlobal(c) \/ VisitUser(c) \/ SubscriberWrite(c)
  PROVE  \A d \in Clients : seen[d] <= seen'[d] /\ seenMine[d] <= seenMine'[d]
  <1>1. Told(c) /\ Newer(c) /\ WatchTypes
    BY DEF WatchInv
  <1>2. \A d \in Clients : seen[d] \in Nat /\ seenMine[d] \in Nat
    BY <1>1 DEF WatchTypes
  <1>3. cache \in Nat /\ draft[c] \in Nat /\ overlay[c] \in Nat /\ 0 \in Nat
    BY <1>1 DEF WatchTypes
  <1>4. \/ UNCHANGED views
        \/ at = "send" /\ c \notin forUser /\ Deliver(c, cache, 0)
        \/ at = "send" /\ c \in sending /\ reg[c] # "none" /\ Deliver(c, cache, overlay[c])
        \/ reg[c] = "pending" /\ queried[c] /\ Deliver(c, draft[c], overlay[c])
    BY DEF VisitGlobal, VisitUser, SubscriberWrite, Running
  <1>5. CASE UNCHANGED views
    BY <1>2, <1>5 DEF views
  <1>6. CASE at = "send" /\ c \notin forUser /\ Deliver(c, cache, 0)
    <2>1. seen[c] <= cache /\ seenMine[c] <= 0
      BY <1>1, <1>6 DEF Newer
    <2>2. QED
      BY <1>2, <1>3, <1>6, <2>1, Written
  <1>7. CASE at = "send" /\ c \in sending /\ reg[c] # "none" /\ Deliver(c, cache, overlay[c])
    <2>1. seen[c] <= cache /\ seenMine[c] <= overlay[c]
      BY <1>1, <1>7 DEF Newer
    <2>2. QED
      BY <1>2, <1>3, <1>7, <2>1, Written
  <1>8. CASE reg[c] = "pending" /\ queried[c] /\ Deliver(c, draft[c], overlay[c])
    <2>1. seen[c] <= draft[c]
      BY <1>1, <1>8 DEF Newer
    <2>2. seenMine[c] <= overlay[c]
      BY <1>1, <1>3, <1>8 DEF Newer
    <2>3. QED
      BY <1>2, <1>3, <1>8, <2>1, <2>2, Written
  <1>9. QED
    BY <1>4, <1>5, <1>6, <1>7, <1>8

LEMMA StepForward ==
  WatchInv /\ [Next]_vars
    => [\A c \in Clients : seen[c] <= seen'[c] /\ seenMine[c] <= seenMine'[c]]_views
  <1>1. SUFFICES ASSUME WatchInv, [Next]_vars
                 PROVE  \/ UNCHANGED views
                        \/ \A c \in Clients : seen[c] <= seen'[c] /\ seenMine[c] <= seenMine'[c]
    OBVIOUS
  <1>2. CASE \/ Upsert \/ Announce \/ AnnounceFails \/ Boot \/ ListenerLost \/ GoesDeaf
             \/ Relisten \/ Notified \/ Backstop \/ Crash
    BY <1>2 DEF Upsert, Announce, AnnounceFails, Boot, ListenerLost, GoesDeaf, Relisten,
                Notified, Backstop, Crash, Die
  <1>3. CASE Read \/ Apply \/ TaskDone \/ ReadFails
    BY <1>3 DEF Read, Apply, TaskDone, ReadFails, Die
  <1>4. ASSUME NEW c \in Clients, VisitPending(c) \/ VisitQuery(c)
        PROVE  UNCHANGED views
    BY <1>4 DEF VisitPending, VisitQuery
  <1>5. ASSUME NEW c \in Clients, VisitGlobal(c) \/ VisitUser(c) \/ SubscriberWrite(c)
        PROVE  \A d \in Clients : seen[d] <= seen'[d] /\ seenMine[d] <= seenMine'[d]
    BY <1>1, <1>5, WritesForward
  <1>6. ASSUME NEW c \in Clients,
               \/ Watch(c) \/ SubscriberQuery(c) \/ Deadline(c) \/ StreamBreaks(c) \/ QueryFails(c)
               \/ \E other \in Clients \ {c} : WatchSameKey(c, other)
        PROVE  UNCHANGED views
    BY <1>6 DEF Watch, WatchSameKey, Register, SubscriberQuery, Deadline, StreamBreaks,
                Unregister, QueryFails
  <1>7. CASE UNCHANGED vars
    BY <1>7 DEF vars
  <1>8. QED
    BY <1>1, <1>2, <1>3, <1>4, <1>5, <1>6, <1>7 DEF Next, TaskStep, Visit, Subscribe

\* No client is ever given older values than it has, over new streams,
\* reconnects of the listener, restarts and colliding registrations.
THEOREM Forward == Spec => NeverBackwards
  BY WatchInvariant, StepForward, PTL DEF Spec, NeverBackwards


(***************************************************************************)
(* Types.                                                                  *)
(***************************************************************************)

\* A server that is down has no listener, no timer and nothing to run, and a
\* task that has begun stays at the head of the chain.
ControlInv ==
  /\ unannounced \in Nat /\ note \in Nat
  /\ up \in {"down", "boot", "serving"}
  /\ listener \in {"none", "open", "deaf"}
  /\ redial \in BOOLEAN
  /\ chain \in Seq(Tasks)
  /\ forUser \subseteq Clients
  /\ twins \in [Clients -> SUBSET Clients]
  /\ faults \in 0..MaxFaults
  /\ at # "start" => chain # <<>>
  /\ listener # "open" => note = 0
  /\ up = "down" => chain = <<>> /\ listener = "none" /\ redial = FALSE

LEMMA DisownedTasks ==
  ASSUME NEW tasks \in Seq(Tasks)
  PROVE  Disowned(tasks) \in Seq(Tasks) /\ (tasks # <<>> => Disowned(tasks) # <<>>)
  <1>1. Len(tasks) \in Nat /\ DOMAIN tasks = 1..Len(tasks) /\ \A i \in DOMAIN tasks : tasks[i] \in Tasks
    OBVIOUS
  <1>2. Disowned(tasks) \in [1..Len(tasks) -> Tasks]
    BY <1>1 DEF Disowned, Tasks
  <1>3. Disowned(tasks) \in Seq(Tasks)
    BY <1>1, <1>2
  <1>4. DOMAIN Disowned(tasks) = DOMAIN tasks
    BY DEF Disowned
  <1>5. QED
    BY <1>3, <1>4

LEMMA FaultsBounded ==
  ASSUME ControlInv, Fault \/ UNCHANGED faults
  PROVE  faults' \in 0..MaxFaults
  BY ConfigAssumption DEF ControlInv, Fault

LEMMA DieControl ==
  ASSUME ControlInv, Die, Fault
  PROVE  ControlInv'
  <1>1. faults' \in 0..MaxFaults
    BY FaultsBounded
  <1>2. /\ up' = "down" /\ listener' = "none" /\ redial' = FALSE /\ note' = 0 /\ unannounced' = 0
        /\ chain' = <<>> /\ at' = "start" /\ twins' = [c \in Clients |-> {}] /\ forUser' = forUser
    BY DEF Die
  <1>3. twins' \in [Clients -> SUBSET Clients]
    BY DEF Die
  <1>4. redial' \in BOOLEAN /\ chain' \in Seq(Tasks)
    <2>1. redial' = FALSE /\ chain' = <<>>
      BY DEF Die
    <2>2. <<>> \in Seq(Tasks)
      OBVIOUS
    <2>3. QED
      BY <2>1, <2>2
  <1>5. unannounced' \in Nat /\ note' \in Nat /\ forUser' \subseteq Clients
    BY <1>2 DEF ControlInv
  <1>6. QED
    BY <1>1, <1>2, <1>3, <1>4, <1>5 DEF ControlInv

\* Notifications and the listener.
LEMMA FeedControl ==
  ASSUME ControlInv, WatchInv,
         \/ Upsert \/ Announce \/ AnnounceFails \/ Boot \/ ListenerLost \/ GoesDeaf
         \/ Relisten \/ Notified \/ Backstop
  PROVE  ControlInv'
  <1>1. UNCHANGED <<at, forUser, twins>>
    BY DEF Upsert, Announce, AnnounceFails, Boot, ListenerLost, GoesDeaf, Relisten, Notified,
           Backstop, task, streams
  <1>2. faults' \in 0..MaxFaults
    BY FaultsBounded DEF Upsert, Announce, AnnounceFails, Boot, ListenerLost, GoesDeaf, Relisten,
           Notified, Backstop
  <1>3. CASE Upsert
    BY <1>1, <1>2, <1>3 DEF Upsert, ControlInv, feed, task
  <1>4. CASE Announce \/ AnnounceFails
    <2>1. UNCHANGED <<up, listener, redial, chain>> /\ unannounced' = unannounced - 1 /\ unannounced > 0
          /\ note' \in {note, IF listener = "open" THEN note + 1 ELSE note}
      BY <1>4 DEF Announce, AnnounceFails, feed, task
    <2>2. QED
      BY <1>1, <1>2, <2>1 DEF ControlInv
  <1>5. CASE Boot
    <2>1. <<"boot">> \in Seq(Tasks) /\ <<"boot">> # <<>>
      BY DEF Tasks
    <2>2. QED
      BY <1>1, <1>2, <1>5, <2>1 DEF Boot, ControlInv, table
  <1>6. CASE ListenerLost
    <2>1. /\ up # "down" /\ UNCHANGED <<up, unannounced>> /\ chain' = Disowned(chain)
          /\ listener' = "none" /\ note' = 0 /\ redial' = (redial \/ up = "serving")
      BY <1>6 DEF ListenerLost, DropListener, ControlInv, table
    <2>2. chain' \in Seq(Tasks) /\ (chain # <<>> => chain' # <<>>)
      BY <2>1, DisownedTasks DEF ControlInv
    <2>3. QED
      BY <1>1, <1>2, <2>1, <2>2 DEF ControlInv
  <1>7. CASE GoesDeaf
    BY <1>1, <1>2, <1>7 DEF GoesDeaf, ControlInv, table, task
  <1>8. CASE Relisten \/ Notified
    <2>1. PICK t \in Tasks : chain' = Append(chain, t)
      BY <1>8 DEF Relisten, Notified, Tasks
    <2>2. chain' \in Seq(Tasks) /\ chain' # <<>>
      BY <2>1 DEF ControlInv
    <2>3. redial' \in BOOLEAN
      BY <1>8 DEF Relisten, Notified, ControlInv
    <2>4. up # "down"
      BY <1>8 DEF Relisten, Notified, ControlInv
    <2>5. /\ up' = up /\ unannounced' = unannounced
          /\ \/ listener' = "open" /\ note' = note
             \/ listener' = listener /\ note > 0 /\ note' = note - 1
      BY <1>8 DEF Relisten, Notified, table
    <2>6. QED
      BY <1>1, <1>2, <2>2, <2>3, <2>4, <2>5 DEF ControlInv
  <1>9. CASE Backstop
    <2>1. <<"backstop">> \in Seq(Tasks) /\ <<"backstop">> # <<>>
      BY DEF Tasks
    <2>2. QED
      BY <1>1, <1>2, <1>9, <2>1 DEF Backstop, ControlInv, table, feed
  <1>10. QED
    BY <1>3, <1>4, <1>5, <1>6, <1>7, <1>8, <1>9

LEMMA TaskControl ==
  ASSUME ControlInv, WatchInv, TaskStep \/ ReadFails
  PROVE  ControlInv'
  <1>1. CASE Read \/ Apply
    BY <1>1 DEF Read, Apply, Running, ControlInv, table, feed, streams
  <1>2. CASE TaskDone
    <2>1. /\ chain # <<>> /\ chain' = Tail(chain) /\ at' = "start"
          /\ up' \in {up, "serving"} /\ up # "down"
          /\ UNCHANGED <<unannounced, listener, redial, note, forUser, twins, faults>>
      BY <1>2 DEF TaskDone, Running, ControlInv, table, feed, streams
    <2>2. chain' \in Seq(Tasks)
      BY <2>1 DEF ControlInv
    <2>3. QED
      BY <2>1, <2>2 DEF ControlInv
  <1>3. ASSUME NEW c \in Clients, Visit(c)
        PROVE  ControlInv'
    <2>1. /\ UNCHANGED <<unannounced, up, listener, redial, note, chain, at, forUser, twins, faults>>
      BY <1>3 DEF Visit, VisitPending, VisitGlobal, VisitQuery, VisitUser, table, feed, streams
    <2>2. QED
      BY <2>1 DEF ControlInv
  <1>4. CASE ReadFails
    <2>1. CASE Die
      BY <1>4, <2>1, DieControl DEF ReadFails
    <2>2. CASE ~Die
      <3>1. /\ chain # <<>> /\ at = "start" /\ up # "down"
            /\ UNCHANGED <<unannounced, up, at, forUser, twins>>
        BY <1>4, <2>2 DEF ReadFails, Running, ControlInv, table, streams
      <3>2. Tail(chain) \in Seq(Tasks)
        BY <3>1 DEF ControlInv
      <3>3. chain' \in Seq(Tasks)
        BY <1>4, <2>2, <3>2, DisownedTasks DEF ReadFails
      <3>4. \/ listener' = "none" /\ note' = 0 /\ redial' = (redial \/ up = "serving")
            \/ UNCHANGED <<listener, note, redial>>
        BY <1>4, <2>2 DEF ReadFails, DropListener, feed
      <3>5. faults' \in 0..MaxFaults
        BY <1>4, FaultsBounded DEF ReadFails
      <3>6. redial' \in BOOLEAN
        BY <3>4 DEF ControlInv
      <3>7. listener' \in {"none", "open", "deaf"} /\ note' \in Nat
            /\ (listener' # "open" => note' = 0)
        BY <3>4 DEF ControlInv
      <3>8. QED
        BY <3>1, <3>3, <3>5, <3>6, <3>7 DEF ControlInv
    <2>3. QED
      BY <2>1, <2>2
  <1>5. QED
    BY <1>1, <1>2, <1>3, <1>4 DEF TaskStep

LEMMA StreamControl ==
  ASSUME ControlInv, WatchInv, NEW c \in Clients,
         \/ Subscribe(c) \/ StreamBreaks(c) \/ QueryFails(c)
         \/ \E other \in Clients \ {c} : WatchSameKey(c, other)
  PROVE  ControlInv'
  <1>1. UNCHANGED <<unannounced, up, listener, redial, note, chain, at, forUser>>
    BY DEF Subscribe, Watch, WatchSameKey, Register, SubscriberQuery, SubscriberWrite, Deadline,
           StreamBreaks, Unregister, QueryFails, table, feed, task
  <1>2. faults' \in 0..MaxFaults
    BY FaultsBounded DEF Subscribe, Watch, WatchSameKey, SubscriberQuery, SubscriberWrite,
           Deadline, StreamBreaks, QueryFails
  <1>3. twins \in [Clients -> SUBSET Clients]
    BY DEF ControlInv
  <1>4. twins' \in [Clients -> SUBSET Clients]
    <2>1. CASE Watch(c)
      BY <1>3, <2>1 DEF Watch
    <2>2. CASE \E other \in Clients \ {c} : WatchSameKey(c, other)
      <3>1. PICK other \in Clients \ {c} : WatchSameKey(c, other)
        BY <2>2
      <3>2. twins' = [d \in Clients |->
                        CASE d = c -> {other} \cup (twins[other] \ {c})
                          [] d = other \/ (d \in twins[other] /\ d # c) -> twins[d] \cup {c}
                          [] OTHER -> twins[d]]
        BY <3>1 DEF WatchSameKey
      <3>3. \A d \in Clients : twins[d] \in SUBSET Clients
        BY <1>3
      <3>4. QED
        BY <3>2, <3>3
    <2>3. CASE SubscriberQuery(c) \/ SubscriberWrite(c)
      BY <1>3, <2>3 DEF SubscriberQuery, SubscriberWrite
    <2>4. CASE Deadline(c) \/ StreamBreaks(c) \/ QueryFails(c)
      <3>1. twins' = [d \in Clients |-> IF d = c THEN {} ELSE twins[d] \ {c}]
        BY <2>4 DEF Deadline, StreamBreaks, QueryFails, Unregister
      <3>2. QED
        BY <1>3, <3>1
    <2>5. QED
      BY <2>1, <2>2, <2>3, <2>4 DEF Subscribe
  <1>5. QED
    BY <1>1, <1>2, <1>4 DEF ControlInv

LEMMA NextControl ==
  ASSUME ControlInv, WatchInv, [Next]_vars
  PROVE  ControlInv'
  <1>1. CASE Crash
    BY <1>1, DieControl DEF Crash
  <1>2. CASE UNCHANGED vars
    BY <1>2 DEF vars, table, feed, task, streams, ControlInv
  <1>3. QED
    BY <1>1, <1>2, FeedControl, TaskControl, StreamControl DEF Next

\* Every variable keeps its type; a broadcast that is under way has its task at
\* the head of the chain, only an open connection holds notifications, and a
\* server that is down has no stream.
THEOREM WatchTypeCorrect == Spec => []TypeOK
  <1>1. Init => ControlInv
    <2>1. SUFFICES ASSUME Init PROVE ControlInv
      OBVIOUS
    <2>2. redial \in BOOLEAN /\ twins \in [Clients -> SUBSET Clients]
      BY <2>1 DEF Init
    <2>3. chain \in Seq(Tasks)
      <3>1. chain = <<>> /\ <<>> \in Seq(Tasks)
        BY <2>1 DEF Init
      <3>2. QED
        BY <3>1
    <2>4. forUser \subseteq Clients /\ faults \in 0..MaxFaults
      BY <2>1, ConfigAssumption DEF Init
    <2>5. QED
      BY <2>1, <2>2, <2>3, <2>4 DEF Init, ControlInv
  <1>2. ControlInv /\ WatchInv /\ [Next]_vars => ControlInv'
    BY NextControl
  <1>3. ControlInv /\ WatchInv => TypeOK
    <2>1. SUFFICES ASSUME ControlInv, WatchInv PROVE TypeOK
      OBVIOUS
    <2>2. up = "down" => Registered = {}
      BY <2>1 DEF WatchInv, Newer, Registered
    <2>3. /\ {stored, mine, unannounced, note, cache, got} \subseteq Nat
          /\ {draft, overlay, seen, seenMine} \subseteq [Clients -> Nat]
      BY <2>1 DEF ControlInv, WatchInv, WatchTypes
    <2>4. QED
      BY <2>1, <2>2, <2>3 DEF ControlInv, WatchInv, WatchTypes, BroadcastInv, Regs, TypeOK
  <1>4. QED
    BY <1>1, <1>2, <1>3, WatchInvariant, PTL DEF Spec
===============================================================================
