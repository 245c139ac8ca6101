--------------------------- MODULE IdentityTokens ---------------------------
(***************************************************************************)
(* The refresh tokens and authorization codes of one user in               *)
(* xstockstrat-identity, and the handlers that issue, rotate, redeem and   *)
(* revoke them.                                                            *)
(*                                                                         *)
(* PostgreSQL runs at READ COMMITTED.  A statement sees the rows committed *)
(* when it starts and waits for a row another transaction has written; an  *)
(* uncommitted row is no part of what it sees.  An UPDATE of many rows     *)
(* visits them one by one, so it is a start, which fixes the rows, and an  *)
(* end.  Token numbers stand for hashes; a token's session is the first    *)
(* token of its chain.  Tokens and codes do not run out here: the cookies  *)
(* live shorter than the tokens, and an expired code is refused before     *)
(* anything is written.                                                    *)
(*                                                                         *)
(* There is no Next: a module that knows the callers composes the steps.   *)
(***************************************************************************)
EXTENDS Naturals, FiniteSets

CONSTANTS
  MaxCalls,  \* bound: RPCs, numbered in the order they are made
  Codes,     \* authorization codes, one per OAuth client
  Nil,       \* no client_id: a first-party session
  MaxTokens, \* bound: tokens issued
  PoolMax,   \* DB_POOL_MAX
  MaxFaults  \* bound: failed statements, lost answers, missed deadlines

\* Codes and tokens are rows of two tables; a client has a name.
ASSUME IdentityAssumption ==
  /\ MaxCalls \in Nat /\ MaxTokens \in Nat \ {0} /\ MaxFaults \in Nat
  /\ Nil \notin Codes /\ Codes \cap 0..MaxTokens = {}

VARIABLES
  tok,    \* refresh_tokens: "none", "live", "revoked"
  root,   \* the first token of the chain
  app,    \* refresh_tokens.client_id
  code,   \* oauth_auth_codes: "none", "issued", "consumed"
  active, \* users.is_active
  op, at, \* what a call does, and where it is
  held,   \* the token or the code it presents
  made,   \* the token it inserted
  rows,   \* the rows a revocation found
  ended,  \* sessions whose token a revocation took
  failed  \* faults so far

tables == <<tok, root, app, code, active, ended>>
calls == <<op, at, held, made, rows>>
identity == <<tables, calls, failed>>

Calls == 1..MaxCalls
Tokens == 1..MaxTokens

Operations ==
  {"none", "refresh", "exchange", "login", "logout", "drop", "password",
   "deactivate", "activate"}

IdentityTypeOK ==
  /\ tok \in [Tokens -> {"none", "live", "revoked"}]
  /\ root \in [Tokens -> 0..MaxTokens]
  /\ app \in [Tokens -> Codes \cup {Nil}]
  /\ code \in [Codes -> {"none", "issued", "consumed"}]
  /\ active \in BOOLEAN
  /\ op \in [Calls -> Operations]
  /\ at \in [Calls -> {"idle", "connect", "claim", "insert", "commit", "issue",
                       "update", "revoke", "locks", "ok", "failed"}]
  /\ \A c \in Calls :
       /\ held[c] \in 0..MaxTokens \cup Codes
       /\ at[c] \in {"insert", "commit"} =>
            op[c] \in {"refresh", "exchange"} /\ held[c] # 0
  /\ made \in [Calls -> 0..MaxTokens]
  /\ rows \in [Calls -> SUBSET Tokens]
  /\ \A t \in Tokens : tok[t] # "none" => root[t] \in 1..t
  /\ ended \subseteq {t \in Tokens : root[t] = t}
  /\ failed \in 0..MaxFaults

\* One session is signed in already.
IdentityInit ==
  /\ tok = [t \in Tokens |-> IF t = 1 THEN "live" ELSE "none"]
  /\ root = [t \in Tokens |-> IF t = 1 THEN 1 ELSE 0]
  /\ app = [t \in Tokens |-> Nil]
  /\ code = [k \in Codes |-> "none"]
  /\ active = TRUE
  /\ op = [c \in Calls |-> "none"]
  /\ at = [c \in Calls |-> "idle"]
  /\ held = [c \in Calls |-> 0]
  /\ made = [c \in Calls |-> 0]
  /\ rows = [c \in Calls |-> {}]
  /\ ended = {}
  /\ failed = 0

Faulty ==
  /\ failed < MaxFaults
  /\ failed' = failed + 1

-----------------------------------------------------------------------------
(* Calls arrive. *)

Begin(c, operation, presented, where) ==
  /\ at[c] = "idle"
  /\ \A earlier \in 1..(c - 1) : at[earlier] # "idle"
  /\ op' = [op EXCEPT ![c] = operation]
  /\ held' = [held EXCEPT ![c] = presented]
  /\ at' = [at EXCEPT ![c] = where]
  /\ UNCHANGED <<tables, made, rows, failed>>

\* RefreshToken, RefreshOAuthToken.
CallRefresh(c, t) == Begin(c, "refresh", t, "connect")

\* ExchangeAuthCode reads the code before it redeems it.
CallExchange(c, k) ==
  /\ code[k] # "none"
  /\ Begin(c, "exchange", k, IF code[k] = "consumed" THEN "failed" ELSE "connect")

\* AuthenticateUser finds active users only.
CallLogin(c) == Begin(c, "login", 0, IF active THEN "issue" ELSE "failed")

CallLogout(c) == Begin(c, "logout", 0, "revoke")
CallDropApp(c, k) == Begin(c, "drop", k, "revoke")
CallPassword(c) == Begin(c, "password", 0, "update")
CallSetActive(c, wanted) ==
  Begin(c, IF wanted THEN "activate" ELSE "deactivate", 0, "update")

IssueCode(k) ==
  /\ code[k] = "none"
  /\ code' = [code EXCEPT ![k] = "issued"]
  /\ UNCHANGED <<tok, root, app, active, ended, calls, failed>>

-----------------------------------------------------------------------------
(* The connection pool and the rows the transactions hold. *)

InTransaction == {c \in Calls : at[c] \in {"claim", "insert", "commit"}}
Pooled == InTransaction \cup {c \in Calls : at[c] = "locks"}
ClientFree == Cardinality(Pooled) < PoolMax

Locked(row) ==
  \E c \in Calls : at[c] \in {"insert", "commit"} /\ held[c] = row

\* Tokens are numbered as they are inserted, committed or not.
Inserted ==
  {t \in Tokens : tok[t] # "none"} \cup {made[c] : c \in {d \in Calls : at[d] = "commit"}}

NextToken == 1 + CHOOSE t \in Inserted : \A u \in Inserted : u <= t

Goto(c, where) == at' = [at EXCEPT ![c] = where]

\* The call is over; what it presented plays no part any more.
End(c, outcome) ==
  /\ Goto(c, outcome)
  /\ held' = [held EXCEPT ![c] = 0]

-----------------------------------------------------------------------------
(* rotateRefreshToken and redeemAuthCode: claim, insert, commit. *)

Connect(c) ==
  /\ at[c] = "connect"
  /\ ClientFree
  /\ Goto(c, "claim")
  /\ UNCHANGED <<tables, op, held, made, rows, failed>>

\* Mutant: redemption does not ask for consumed_at IS NULL.
MutRedeemAgain(c) ==
  IF op[c] = "refresh" THEN tok[held[c]] = "live" /\ active ELSE TRUE

Claimable(c) ==
  IF op[c] = "refresh"
  THEN tok[held[c]] = "live" /\ active
  ELSE code[held[c]] = "issued"

\* Mutant: read first, then update without the condition.
MutClaimUnlocked(c) ==
  /\ at[c] = "claim"
  /\ IF Claimable(c)
     THEN Goto(c, "insert") /\ UNCHANGED held
     ELSE End(c, "failed")
  /\ UNCHANGED <<tables, op, made, rows, failed>>

\* Mutant: the claim commits on its own.
MutClaimAutocommits(c) ==
  /\ at[c] = "claim"
  /\ ~Locked(held[c])
  /\ IF Claimable(c)
     THEN Goto(c, "insert") /\ UNCHANGED held
     ELSE End(c, "failed")
  /\ tok' = (IF Claimable(c) /\ op[c] = "refresh"
             THEN [tok EXCEPT ![held[c]] = "revoked"] ELSE tok)
  /\ UNCHANGED <<root, app, code, active, ended, op, made, rows, failed>>

\* The conditional UPDATE waits for a row another claim holds.
Claim(c) ==
  /\ at[c] = "claim"
  /\ ~Locked(held[c])
  /\ IF Claimable(c)
     THEN Goto(c, "insert") /\ UNCHANGED held
     ELSE End(c, "failed")
  /\ UNCHANGED <<tables, op, made, rows, failed>>

\* Mutant: issueRefreshToken without its second argument asks the pool.
MutInsertOnPool(c) ==
  /\ at[c] = "insert"
  /\ ClientFree
  /\ NextToken \in Tokens
  /\ made' = [made EXCEPT ![c] = NextToken]
  /\ Goto(c, "commit")
  /\ UNCHANGED <<tables, op, held, rows, failed>>

\* issueRefreshToken on the client of the transaction.
Insert(c) ==
  /\ at[c] = "insert"
  /\ NextToken \in Tokens
  /\ made' = [made EXCEPT ![c] = NextToken]
  /\ Goto(c, "commit")
  /\ UNCHANGED <<tables, op, held, rows, failed>>

Rotated(c) ==
  /\ op[c] = "refresh"
  /\ tok' = [tok EXCEPT ![held[c]] = "revoked", ![made[c]] = "live"]
  /\ root' = [root EXCEPT ![made[c]] = root[held[c]]]
  /\ app' = [app EXCEPT ![made[c]] = app[held[c]]]
  /\ UNCHANGED code

Redeemed(c) ==
  /\ op[c] = "exchange"
  /\ code' = [code EXCEPT ![held[c]] = "consumed"]
  /\ tok' = [tok EXCEPT ![made[c]] = "live"]
  /\ root' = [root EXCEPT ![made[c]] = made[c]]
  /\ app' = [app EXCEPT ![made[c]] = held[c]]

\* COMMIT, whose answer a broken connection may lose.
Commit(c) ==
  /\ at[c] = "commit"
  /\ Rotated(c) \/ Redeemed(c)
  /\ \/ End(c, "ok") /\ UNCHANGED <<made, failed>>
     \/ End(c, "failed") /\ made' = [made EXCEPT ![c] = 0] /\ Faulty
  /\ UNCHANGED <<active, ended, op, rows>>

\* A statement fails: the transaction, if any, is rolled back.
Fails(c) ==
  /\ at[c] \in {"connect", "claim", "insert", "commit", "issue", "update", "revoke", "locks"}
  /\ Faulty
  /\ End(c, "failed")
  /\ made' = [made EXCEPT ![c] = 0]
  /\ rows' = [rows EXCEPT ![c] = {}]
  /\ UNCHANGED <<tables, op>>

-----------------------------------------------------------------------------
(* Statements of their own: login, and the revocations. *)

Issue(c) ==
  /\ at[c] = "issue"
  /\ ClientFree
  /\ NextToken \in Tokens
  /\ made' = [made EXCEPT ![c] = NextToken]
  /\ tok' = [tok EXCEPT ![NextToken] = "live"]
  /\ root' = [root EXCEPT ![NextToken] = NextToken]
  /\ Goto(c, "ok")
  /\ UNCHANGED <<app, code, active, ended, op, held, rows, failed>>

\* UpdatePassword and SetUserActive write the user first.
Update(c) ==
  /\ at[c] = "update"
  /\ ClientFree
  /\ active' = (IF op[c] = "password" THEN active ELSE op[c] = "activate")
  /\ Goto(c, IF op[c] = "activate" THEN "ok" ELSE "revoke")
  /\ UNCHANGED <<tok, root, app, code, ended, op, held, made, rows, failed>>

Scope(c) ==
  {t \in Tokens : tok[t] = "live" /\ (op[c] = "drop" => app[t] = held[c])}

StartRevoke(c) ==
  /\ at[c] = "revoke"
  /\ ClientFree
  /\ rows' = [rows EXCEPT ![c] = Scope(c)]
  /\ Goto(c, "locks")
  /\ UNCHANGED <<tables, op, held, made, failed>>

\* Every row found is free, and is checked again.
EndRevoke(c) ==
  /\ at[c] = "locks"
  /\ \A t \in rows[c] : ~Locked(t)
  /\ LET taken == {t \in rows[c] : tok[t] = "live"} IN
       /\ tok' = [t \in Tokens |-> IF t \in taken THEN "revoked" ELSE tok[t]]
       /\ ended' = ended \cup {root[t] : t \in taken}
  /\ rows' = [rows EXCEPT ![c] = {}]
  /\ End(c, "ok")
  /\ UNCHANGED <<root, app, code, active, op, made, failed>>

Serve(c) ==
  \/ Connect(c) \/ Claim(c) \/ Insert(c) \/ Commit(c)
  \/ Issue(c) \/ Update(c) \/ StartRevoke(c) \/ EndRevoke(c)

-----------------------------------------------------------------------------
(* Properties. *)

Session(s) == {t \in Tokens : root[t] = s}

Sessions == {t \in Tokens : root[t] = t}

\* A session has exactly one live token until a revocation takes it, and none
\* afterwards: the claim of rotateRefreshToken lets one of two concurrent
\* refreshes win, and a failure between claim and commit leaves the old token.
SessionHasItsToken ==
  \A s \in Sessions :
    Cardinality({t \in Session(s) : tok[t] = "live"}) = (IF s \in ended THEN 0 ELSE 1)

\* A code is consumed exactly if one session came of it: redeemAuthCode writes
\* both in one transaction, and concurrent exchanges do not both succeed.
CodeBuysOneSession ==
  \A k \in Codes :
    Cardinality({s \in Sessions : app[s] = k}) = (IF code[k] = "consumed" THEN 1 ELSE 0)


\* As long as a call is under way some call can go on: transactions that wait
\* for each other's rows, or for a pooled client while they hold one, never
\* bring the service to a standstill.
NoStandstill ==
  (\E c \in Calls : at[c] \notin {"idle", "ok", "failed"}) =>
    ENABLED (\E c \in Calls : Serve(c))

=============================================================================
