--------------------------- MODULE MCBrowserPage ---------------------------
(* The second document gives the two ids of the first to the other         *)
(* element each, and the third to the same ones with the same roles.       *)
EXTENDS BrowserPage

MCNodeId ==
    [e \in (1 .. 3) \X {"button", "password"} |->
        IF (e[2] = "password") = (e[1] % 2 = 1) THEN 1 ELSE 0]
=============================================================================
