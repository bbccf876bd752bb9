----------------------------- MODULE MCWebCrawl -----------------------------
EXTENDS WebCrawl

CONSTANTS a, b, d, g, h, x

(* A seed that links to a disallowed page, to b and to another host; b     *)
(* links back, to itself and to two pages behind a login.                  *)
MCHostOf == [u \in Urls |-> IF u = x THEN "other" ELSE "site"]
MCLinks  == [u \in Urls |-> CASE u = a -> <<d, b, x>> [] u = b -> <<a, g, b, h>>
                              [] u = d -> <<b>> [] OTHER -> <<>>]
MCPathOf == [u \in Urls |-> IF u \in {a, b} THEN "index.html" ELSE u]
MCSizeOf == [u \in Urls |-> IF u = b THEN 2 ELSE 1]
=============================================================================
