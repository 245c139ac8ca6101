---------------------------- MODULE MCConfigWatch ----------------------------
(***************************************************************************)
(* ConfigWatch with two clients, the second global or per user.                   *)
(***************************************************************************)
EXTENDS ConfigWatch, TLC

CONSTANTS c1, c2

MCClients == {c1, c2}
MCUserClients == {c2}
=============================================================================
