------------------------- MODULE MCBrowserSessions -------------------------
(* A cap of two with three ids, so that both lanes race for the last slot; *)
(* three pages, so that a session of two tabs has a neighbour; and four    *)
(* requests in all, enough for open, use and close to overlap.             *)
EXTENDS BrowserSessions
=============================================================================
