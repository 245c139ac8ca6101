--------------------------- MODULE BrowserSession ---------------------------
(***************************************************************************)
(* The session of one browser: the cookies, the requests that refresh them *)
(* through xstockstrat-ui (its middleware, and POST /api/auth/refresh that *)
(* a tab sends after a 401), and the identity service behind them.         *)
(*                                                                         *)
(* Requests carry the cookies of the moment they are sent; their answers   *)
(* arrive in any order.  A request that needs no refresh changes nothing   *)
(* and is left out.  OAuth clients and administrators call the identity    *)
(* service at the same time.                                               *)
(***************************************************************************)
EXTENDS IdentityTokens

CONSTANTS
  Tabs,    \* browser tabs, each with a refreshInFlight of its own
  MaxAges  \* bound: times the access token grows old

ASSUME BrowserAssumption == MaxAges \in Nat

VARIABLES
  jar,     \* the refresh_token cookie, 0 when there is none
  access,  \* the access_token cookie: "none", "good", "near", "expired"
  lapsed,  \* some request may have been answered 401
  tab,     \* the tab whose refresh POST the call is, or Nil
  reply,   \* a browser's request: "none", "asked", "abandoned", "done"
  ages     \* times the access token has grown old

browser == <<jar, access, lapsed, tab, reply, ages>>
sessionVars == <<identity, browser>>

BrowserTypeOK ==
  /\ IdentityTypeOK
  /\ jar \in 0..MaxTokens
  /\ access \in {"none", "good", "near", "expired"}
  /\ lapsed \in BOOLEAN
  /\ tab \in [Calls -> Tabs \cup {Nil}]
  /\ reply \in [Calls -> {"none", "asked", "abandoned", "done"}]
  /\ ages \in 0..MaxAges
  /\ jar = 0 <=> access = "none"
  /\ jar # 0 => tok[jar] # "none" /\ app[jar] = Nil
  /\ \A c \in Calls : reply[c] # "none" => op[c] \in {"refresh", "login", "logout"}

BrowserInit ==
  /\ IdentityInit
  /\ jar = 1 /\ access = "near" /\ lapsed = FALSE /\ ages = 0
  /\ tab = [c \in Calls |-> Nil]
  /\ reply = [c \in Calls |-> "none"]

Age ==
  /\ ages < MaxAges
  /\ access \in {"good", "near"}
  /\ access' = (IF access = "good" THEN "near" ELSE "expired")
  /\ lapsed' = (lapsed \/ access' = "expired")
  /\ ages' = ages + 1
  /\ UNCHANGED <<identity, jar, tab, reply>>

-----------------------------------------------------------------------------
(* The browser sends. *)

Ask(c, from) ==
  /\ reply' = [reply EXCEPT ![c] = "asked"]
  /\ tab' = [tab EXCEPT ![c] = from]
  /\ UNCHANGED <<jar, access, lapsed, ages>>

\* middleware: no claims, or claims that are about to expire.
Navigate(c) ==
  /\ jar # 0
  /\ access # "good"
  /\ CallRefresh(c, jar)
  /\ Ask(c, Nil)

InFlight(w) == {c \in Calls : tab[c] = w /\ reply[c] \in {"asked", "abandoned"}}

\* attemptRefresh: a tab has one refresh POST in flight.
Post(c, w) ==
  /\ lapsed
  /\ jar # 0
  /\ InFlight(w) = {}
  /\ CallRefresh(c, jar)
  /\ Ask(c, w)

Login(c) ==
  /\ CallLogin(c)
  /\ Ask(c, Nil)

Logout(c) ==
  /\ access \in {"good", "near", "expired"}
  /\ CallLogout(c)
  /\ Ask(c, Nil)

-----------------------------------------------------------------------------
(* The browser hears back. *)

\* refreshSession and revokeToken stop waiting; the call goes on.
GiveUp(c) ==
  /\ reply[c] = "asked"
  /\ at[c] \notin {"ok", "failed"}
  /\ Faulty
  /\ reply' = [reply EXCEPT ![c] = "abandoned"]
  /\ UNCHANGED <<tables, calls, jar, access, lapsed, tab, ages>>

Answered(c) == reply[c] = "abandoned" \/ (reply[c] = "asked" /\ at[c] \in {"ok", "failed"})

Granted(c) == reply[c] = "asked" /\ at[c] = "ok" /\ op[c] \in {"refresh", "login"}

\* setSessionCookies.
SetCookies(c) ==
  /\ Granted(c)
  /\ jar' = made[c]
  /\ access' = "good"

\* clearSessionCookies: every failed refresh, and every logout.
ClearCookies(c) ==
  /\ Answered(c)
  /\ ~Granted(c)
  /\ op[c] # "login"
  /\ jar' = 0
  /\ access' = "none"

LoginFails(c) ==
  /\ Answered(c)
  /\ ~Granted(c)
  /\ op[c] = "login"
  /\ UNCHANGED <<jar, access>>

Receive(c) ==
  /\ SetCookies(c) \/ ClearCookies(c) \/ LoginFails(c)
  /\ reply' = [reply EXCEPT ![c] = "done"]
  /\ UNCHANGED <<identity, lapsed, tab, ages>>

\* The answer never reaches the browser.
AnswerLost(c) ==
  /\ Answered(c)
  /\ Faulty
  /\ reply' = [reply EXCEPT ![c] = "done"]
  /\ UNCHANGED <<tables, calls, jar, access, lapsed, tab, ages>>

-----------------------------------------------------------------------------
Send(c) == Navigate(c) \/ (\E w \in Tabs : Post(c, w)) \/ Login(c) \/ Logout(c)

\* OAuth clients present the tokens issued to them.
OAuthCall(c) ==
  \E k \in Codes :
    \/ CallExchange(c, k)
    \/ CallDropApp(c, k)
    \/ \E t \in Tokens : tok[t] # "none" /\ app[t] = k /\ CallRefresh(c, t)

AdminCall(c) == CallPassword(c) \/ \E wanted \in BOOLEAN : CallSetActive(c, wanted)

Elsewhere(c) == OAuthCall(c) \/ AdminCall(c)

BrowserNext ==
  \/ \E c \in Calls :
       \/ Send(c) \/ Receive(c) \/ GiveUp(c) \/ AnswerLost(c)
       \/ (Serve(c) \/ Fails(c) \/ Elsewhere(c)) /\ UNCHANGED browser
  \/ (\E k \in Codes : IssueCode(k)) /\ UNCHANGED browser
  \/ Age

SessionSpec == BrowserInit /\ [][BrowserNext]_sessionVars

-----------------------------------------------------------------------------
(* Properties. *)

\* Answers that arrive out of order never put an older token of a session back
\* into the cookie jar: two refreshes of one token do not both get a successor.
JarMovesForward ==
  [][jar # 0 /\ jar' # 0 /\ root[jar] = root'[jar'] => jar' >= jar]_sessionVars

\* A failed refresh clears only cookies whose token is worth nothing any more:
\* middleware.ts calls them stale ("token revoked/expired").
ClearedCookiesAreStale ==
  [][\A c \in Calls : ClearCookies(c) /\ op[c] = "refresh" /\ jar # 0 =>
       tok[jar] # "live" \/ ~active]_sessionVars

=============================================================================
