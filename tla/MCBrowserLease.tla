--------------------------- MODULE MCBrowserLease ---------------------------
(* Instance of BrowserLease for TLC. *)
EXTENDS BrowserLease
=============================================================================
