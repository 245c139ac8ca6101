-------------------------- MODULE MCBrowserSession --------------------------
(***************************************************************************)
(* BrowserSession alone, with two calls and one tab.                       *)
(***************************************************************************)
EXTENDS BrowserSession, TLC

CONSTANTS k1, tab1

MCCodes == {k1}
MCTabs == {tab1}
=============================================================================
