-------------------------- MODULE MCBrowserSession --------------------------
(* Model-checking instances of BrowserSession.                             *)
EXTENDS BrowserSession

CONSTANTS good, bad

\* A search for everything.
MCFilters == {Event}
=============================================================================
