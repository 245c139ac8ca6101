------------------------------ MODULE Services ------------------------------
(***************************************************************************)
(* Four services that share no state: the sessions of identity and ui, the *)
(* administrators of identity, the alerts of notify and a backfill of      *)
(* ingest.  A behaviour is one of theirs; `subject' says whose.            *)
(***************************************************************************)
EXTENDS BrowserSession, AlertFanout, IdentityAdmins, Backfill

VARIABLE subject

serviceVars == <<subject, sessionVars, alertVars, adminVars, backfillVars>>

ServicesTypeOK ==
  /\ subject \in {"sessions", "administrators", "alerts", "backfill"}
  /\ BrowserTypeOK /\ AlertTypeOK /\ AdminTypeOK /\ BackfillTypeOK

\* A service that is not the subject starts somewhere and stays there.
Still(of, choice) == subject = of \/ choice

ServicesInit ==
  /\ subject \in {"sessions", "administrators", "alerts", "backfill"}
  /\ BrowserInit /\ AlertInit /\ AdminInit /\ BackfillInit
  /\ Still("alerts", quiet = {} /\ alike)
  /\ Still("administrators",
           /\ admin = Users /\ enabled = Users
           /\ change = [u \in Updates |-> "grant"]
           /\ target = [u \in Updates |-> CHOOSE v \in Users : TRUE])
  /\ Still("backfill", planned = {})

ServicesNext ==
  /\ \/ subject = "sessions" /\ BrowserNext /\ UNCHANGED <<alertVars, adminVars, backfillVars>>
     \/ subject = "alerts" /\ AlertNext /\ UNCHANGED <<sessionVars, adminVars, backfillVars>>
     \/ subject = "administrators" /\ AdminNext /\ UNCHANGED <<sessionVars, alertVars, backfillVars>>
     \/ subject = "backfill" /\ BackfillNext /\ UNCHANGED <<sessionVars, alertVars, adminVars>>
  /\ UNCHANGED subject

ServicesSpec == ServicesInit /\ [][ServicesNext]_serviceVars
=============================================================================
