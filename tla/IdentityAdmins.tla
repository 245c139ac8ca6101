--------------------------- MODULE IdentityAdmins ---------------------------
(***************************************************************************)
(* SetUserRoles and SetUserActive of xstockstrat-identity: each is one     *)
(* UPDATE of one user, guarded so that the last active administrator       *)
(* stays.                                                                  *)
(*                                                                         *)
(* At READ COMMITTED the statement sees the users committed when it        *)
(* starts.  It waits for the row of its target and checks the guard again  *)
(* on the latest version of that row, but what it saw of the others stays  *)
(* what it was.  Hence a start and an end.                                 *)
(***************************************************************************)
EXTENDS Naturals, FiniteSets

CONSTANTS
  Users,    \* rows of identity.users
  Updates   \* calls, each made once

VARIABLES
  admin,    \* users with the role
  enabled,  \* users that are active
  change,   \* what a call writes
  target,   \* the user it is about
  stage,    \* "idle", "running", "done", "refused"
  saw,      \* the active administrators it saw when it started
  met       \* history: the pairs of calls that ran at the same time

adminVars == <<admin, enabled, change, target, stage, saw, met>>

Removals == {"strip", "deactivate"}
Changes == {"grant", "activate"} \cup Removals

InOffice == admin \cap enabled

AdminTypeOK ==
  /\ admin \subseteq Users /\ enabled \subseteq Users
  /\ change \in [Updates -> Changes]
  /\ target \in [Updates -> Users]
  /\ stage \in [Updates -> {"idle", "running", "done", "refused"}]
  /\ saw \in [Updates -> SUBSET Users]
  /\ met \subseteq SUBSET Updates

AdminInit ==
  /\ admin \in SUBSET Users /\ enabled \in SUBSET Users /\ InOffice # {}
  /\ change \in [Updates -> Changes] /\ target \in [Updates -> Users]
  /\ stage = [u \in Updates |-> "idle"]
  /\ saw = [u \in Updates |-> {}]
  /\ met = {}

\* Mutant: the target counts as its own successor.
MutOthersCountsAll(u) == saw[u]

\* user_id <> $1 AND is_active = true AND 'admin' = ANY(roles)
Others(u) == saw[u] \ {target[u]}

\* $3 = true, or the target is no administrator, or another one is in office.
Guard(u) ==
  \/ change[u] \in {"grant", "activate"}
  \/ target[u] \notin admin
  \/ Others(u) # {}

Start(u) ==
  /\ stage[u] = "idle"
  /\ stage' = [stage EXCEPT ![u] = "running"]
  /\ saw' = [saw EXCEPT ![u] = InOffice]
  /\ met' = met \cup {{u, v} : v \in {w \in Updates : stage[w] = "running"}}
  /\ UNCHANGED <<admin, enabled, change, target>>

SetUserRoles(u) ==
  /\ admin' = (IF change[u] = "grant" THEN admin \cup {target[u]} ELSE admin \ {target[u]})
  /\ change[u] \in {"grant", "strip"}
  /\ UNCHANGED enabled

SetUserActive(u) ==
  /\ enabled' = (IF change[u] = "activate" THEN enabled \cup {target[u]} ELSE enabled \ {target[u]})
  /\ change[u] \in {"activate", "deactivate"}
  /\ UNCHANGED admin

Written(u) ==
  /\ stage[u] = "running"
  /\ Guard(u)
  /\ SetUserRoles(u) \/ SetUserActive(u)
  /\ stage' = [stage EXCEPT ![u] = "done"]
  /\ saw' = [saw EXCEPT ![u] = {}]
  /\ UNCHANGED <<change, target, met>>

\* No row: "cannot remove last admin".
Refused(u) ==
  /\ stage[u] = "running"
  /\ ~Guard(u)
  /\ stage' = [stage EXCEPT ![u] = "refused"]
  /\ saw' = [saw EXCEPT ![u] = {}]
  /\ UNCHANGED <<admin, enabled, change, target, met>>

AdminNext == \E u \in Updates : Start(u) \/ Written(u) \/ Refused(u)

AdminSpec == AdminInit /\ [][AdminNext]_adminVars

-----------------------------------------------------------------------------
\* Calls that do not overlap leave an administrator, whatever they ask for: if
\* none is in office, two calls that ran at the same time removed two different
\* ones.
EmptiedByTwo ==
  InOffice = {} =>
    \E u, v \in Updates :
      /\ {u, v} \in met /\ target[u] # target[v]
      /\ \A w \in {u, v} : stage[w] = "done" /\ change[w] \in Removals

\* What the comment in setUserRoles says, an atomic guard without a race: an
\* active administrator always stays.
AdminRemains == InOffice # {}

=============================================================================
