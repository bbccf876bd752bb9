------------------------------ MODULE WebCrawl ------------------------------
(***************************************************************************)
(* The tools that read the web: read_website and download_website          *)
(* (core/tools/webcrawl.rs) walk a site breadth first, fetch_page renders  *)
(* one page, and the first and the last of them fall back on               *)
(* navigate_and_extract (native/browser.rs), which may wait for somebody   *)
(* to log in.  Calls of several lanes share the page cache, the files they *)
(* save and the one login that may be under way; every call is dropped     *)
(* when the daemon's request timeout passes.                               *)
(***************************************************************************)
EXTENDS Integers, Sequences, FiniteSets, FiniteSetsExt

CONSTANTS
    Calls,          \* calls under way at one time
    Urls,           \* absolute urls
    HostOf,         \* their hosts
    Links,          \* the links of what is served for a url, in its order
    PathOf,         \* save_path_for
    Blocked,        \* urls with a blocked_host_reason
    Disallowed,     \* urls robots.txt disallows
    Gated,          \* urls whose answer is a login wall (detect_auth_wall)
    SizeOf,         \* length as Markdown of what is served for a url
    Seeds,          \* bound: urls the calls begin with
    Headed,         \* STAPLER_MCP_HEADED with a display
    NoArg,          \* an argument that is not given
    DepthArgs, PageArgs, InlineArgs,           \* bound: arguments of the calls
    DepthDefault, DepthCeiling, PagesDefault, PagesCeiling,
    InlineDefault, InlineCeiling,
    MaxBegun        \* bound: calls begun

ASSUME WebConstants ==
    /\ DOMAIN HostOf = Urls /\ DOMAIN PathOf = Urls
    /\ Links \in [Urls -> Seq(Urls)] /\ SizeOf \in [Urls -> Nat]
    /\ Blocked \cup Disallowed \cup Gated \cup Seeds \subseteq Urls
    /\ Headed \in BOOLEAN
    /\ (DepthArgs \cup PageArgs \cup InlineArgs) \ {NoArg} \subseteq Nat
    /\ {DepthDefault, DepthCeiling, InlineDefault, InlineCeiling} \subseteq Nat
    /\ {PagesDefault, PagesCeiling} \subseteq Nat \ {0}
    /\ MaxBegun \in Nat

LesserOf(a, b) == IF a <= b THEN a ELSE b
Given(arg, default) == IF arg = NoArg THEN default ELSE arg

(* resolve_limits and resolve_inline_budget (0 stands for alwaysSaveToFile *)
(* too).                                                                   *)
ResolveDepth(arg) == LesserOf(Given(arg, DepthDefault), DepthCeiling)
ResolvePages(arg) ==
    LET n == LesserOf(Given(arg, PagesDefault), PagesCeiling) IN
    IF n = 0 THEN 1 ELSE n
ResolveInline(arg) == LesserOf(Given(arg, InlineDefault), InlineCeiling)

VARIABLES
    call,           \* the calls
    cache,          \* read-website/<key>.json: the content of a url
    saved,          \* files on disk: read-website/output and saveDir
    authInProgress, \* NativeBrowser::auth_in_progress
    begun           \* calls begun so far

vars == <<call, cache, saved, authInProgress, begun>>

NoCall ==
    [at |-> "idle", kind |-> "none", seed |-> NoArg, url |-> NoArg, depth |-> 0,
     maxDepth |-> 0, maxPages |-> 0, allowance |-> 0, budget |-> 0, robot |-> FALSE,
     queue |-> <<>>, visited |-> {}, content |-> "none", pages |-> {},
     required |-> {}, failedHosts |-> {}, polls |-> 0,
     fetched |-> {}, whole |-> TRUE]

Init ==
    /\ call = [c \in Calls |-> NoCall]
    /\ cache = {} /\ saved = {}
    /\ authInProgress = FALSE
    /\ begun = 0

Waiting == {"login", "reload"}

----------------------------------------------------------------------------
(* The crawler.                                                            *)

SameHost(u, v) == HostOf[u] = HostOf[v]

Begin(c, kind, seed, d, p, i) ==
    /\ call[c].at = "idle" /\ begun < MaxBegun
    /\ begun' = begun + 1
    /\ call' = [call EXCEPT ![c] =
        [NoCall EXCEPT !.kind = kind, !.seed = seed,
                       !.at = IF kind = "fetch" THEN "browser" ELSE "robots",
                       !.url = seed,
                       !.maxDepth = ResolveDepth(d), !.maxPages = ResolvePages(p),
                       !.allowance = ResolveInline(i), !.budget = ResolveInline(i)]]
    /\ UNCHANGED <<cache, saved, authInProgress>>

(* Crawler::new: a blocked seed is refused; robots.txt counts when it was  *)
(* there and could be read.                                                *)
NewCrawler(c) ==
    /\ call[c].at = "robots"
    /\ IF call[c].seed \in Blocked THEN call' = [call EXCEPT ![c] = NoCall]
       ELSE \E robot \in BOOLEAN : call' = [call EXCEPT ![c] =
            [@ EXCEPT !.at = "next", !.robot = robot, !.visited = {call[c].seed},
                      !.queue = <<<<call[c].seed, 0>>>>]]
    /\ UNCHANGED <<cache, saved, authInProgress, begun>>

(* Mutant: a disallowed url ends the crawl.                                *)
NextUrlStops(k) ==
    IF Cardinality(k.pages) >= k.maxPages \/ k.queue = <<>> THEN 0
    ELSE IF k.robot /\ Head(k.queue)[1] \in Disallowed THEN 0
    ELSE 1

(* Mutant: the test lets one page more pass.                               *)
NextUrlOneMore(k) ==
    LET ok == {i \in 1 .. Len(k.queue) : k.robot => k.queue[i][1] \notin Disallowed} IN
    IF Cardinality(k.pages) > k.maxPages \/ ok = {} THEN 0
    ELSE CHOOSE i \in ok : \A j \in ok : i <= j

(* next_url: the place in the queue of the first url that robots.txt       *)
(* allows, 0 when there is none or there are enough pages.                 *)
NextUrl(k) ==
    LET ok == {i \in 1 .. Len(k.queue) : k.robot => k.queue[i][1] \notin Disallowed} IN
    IF Cardinality(k.pages) >= k.maxPages \/ ok = {} THEN 0
    ELSE CHOOSE i \in ok : \A j \in ok : i <= j

Pop(c) ==
    LET k == call[c]  i == NextUrl(k) IN
    /\ k.at = "next" /\ i # 0
    /\ call' = [call EXCEPT ![c] =
        [k EXCEPT !.url = k.queue[i][1], !.depth = k.queue[i][2],
                  !.queue = IF i < Len(k.queue) THEN SubSeq(k.queue, i + 1, Len(k.queue))
                            ELSE SubSeq(k.queue, 1, 0),
                  !.content = "none",
                  !.at = IF k.kind = "read" THEN "lookup" ELSE "get"]]
    /\ UNCHANGED <<cache, saved, authInProgress, begun>>

(* The call returns its pages.                                             *)
Finish(c) ==
    /\ call[c].at = "next" /\ NextUrl(call[c]) = 0
    /\ call' = [call EXCEPT ![c].at = "done"]
    /\ UNCHANGED <<cache, saved, authInProgress, begun>>

CacheMiss(c) ==
    /\ call[c].at = "lookup"
    /\ \A e \in cache : e.url # call[c].url
    /\ call' = [call EXCEPT ![c].at = "get"]
    /\ UNCHANGED <<cache, saved, authInProgress, begun>>

(* A cached page is returned without looking at its links.                 *)
CacheHit(c) ==
    /\ call[c].at = "lookup"
    /\ \E e \in cache :
        /\ e.url = call[c].url
        /\ call' = [call EXCEPT ![c] = [@ EXCEPT !.at = "deliver", !.whole = FALSE,
                                                 !.content = e.content]]
    /\ UNCHANGED <<cache, saved, authInProgress, begun>>

(* The links of fetch_and_expand that join the queue: those that are new,  *)
(* each once.                                                              *)
NewLinks(k) ==
    LET page == Links[k.url]
        new  == {i \in 1 .. Len(page) :
                    /\ SameHost(page[i], k.seed)
                    /\ page[i] \notin k.visited \cup Blocked
                    /\ \A j \in 1 .. i - 1 : page[j] # page[i]}
        nth(n) == CHOOSE i \in new : Cardinality({j \in new : j < i}) = n - 1
    IN  [n \in 1 .. Cardinality(new) |-> page[nth(n)]]

(* The answer is what the HTTP client was served where its redirects end,  *)
(* on whichever host (final_url, which has a part in detect_auth_wall      *)
(* only); the links are those of the url that was asked for.               *)
FetchOk(c) ==
    LET k == call[c]  new == IF k.depth < k.maxDepth THEN NewLinks(k) ELSE <<>> IN
    /\ k.at = "get" /\ k.url \notin Gated
    /\ call' = [call EXCEPT ![c] =
        [k EXCEPT !.at = IF k.kind = "read" THEN "store" ELSE "save",
                  !.content = "public", !.fetched = @ \cup {k.url},
                  !.visited = @ \cup {new[i] : i \in 1 .. Len(new)},
                  !.queue = @ \o [i \in 1 .. Len(new) |-> <<new[i], k.depth + 1>>]]]
    /\ UNCHANGED <<cache, saved, authInProgress, begun>>

(* A transport error, or a status that is no login wall: the page is left  *)
(* out.                                                                    *)
FetchFails(c) ==
    LET k == call[c] IN
    /\ k.at = "get"
    /\ call' = [call EXCEPT ![c] = [k EXCEPT !.at = "next", !.whole = FALSE,
                                             !.fetched = @ \cup {k.url}]]
    /\ UNCHANGED <<cache, saved, authInProgress, begun>>

(* A login wall: read_website tries the browser, once per host that fails; *)
(* download_website leaves the page out.                                   *)
FetchGated(c) ==
    LET k == call[c] IN
    /\ k.at = "get" /\ k.url \in Gated
    /\ call' = [call EXCEPT ![c] =
        [k EXCEPT !.at = IF k.kind = "download" \/ HostOf[k.url] \in k.failedHosts
                         THEN "next" ELSE "browser",
                  !.required = IF k.kind = "read" /\ HostOf[k.url] \in k.failedHosts
                               THEN @ \cup {k.url} ELSE @,
                  !.fetched = @ \cup {k.url}]]
    /\ UNCHANGED <<cache, saved, authInProgress, begun>>

----------------------------------------------------------------------------
(* navigate_and_extract.                                                   *)

(* Mutant: what was logged in for is cached as well.                       *)
ExtractedCached(c, keep) ==
    LET k == call[c] IN
    [k EXCEPT !.at = IF k.kind = "read" THEN "store"
                     ELSE IF keep THEN "save" ELSE "done",
              !.content = "private"]

(* What its callers do with a page: fetch_page may have a savePath.        *)
Extracted(c, keep) ==
    LET k == call[c] IN
    [k EXCEPT !.at = IF k.kind = "read" THEN "deliver"
                     ELSE IF keep THEN "save" ELSE "done",
              !.content = "private"]

(* And with an error, AuthRequired or another.                             *)
NotExtracted(c) ==
    LET k == call[c] IN
    [k EXCEPT !.at = IF k.kind = "fetch" THEN "done" ELSE "next",
              !.required = @ \cup {k.url},
              !.failedHosts = @ \cup {HostOf[k.url]}]

(* The page loaded without a wall; its page stays open.                    *)
LoadsOpen(c) ==
    /\ call[c].at = "browser"
    /\ \E keep \in BOOLEAN : call' = [call EXCEPT ![c] = Extracted(c, keep)]
    /\ UNCHANGED <<cache, saved, authInProgress, begun>>

LoadFails(c) ==
    /\ call[c].at = "browser"
    /\ call' = [call EXCEPT ![c] = NotExtracted(c)]
    /\ UNCHANGED <<cache, saved, authInProgress, begun>>

(* A wall and nobody to pass it, or another login under way: AuthRequired. *)
WallRefused(c) ==
    /\ call[c].at = "browser" /\ call[c].url \in Gated
    /\ ~Headed \/ authInProgress
    /\ call' = [call EXCEPT ![c] = NotExtracted(c)]
    /\ UNCHANGED <<cache, saved, authInProgress, begun>>

WallWaits(c) ==
    /\ call[c].at = "browser" /\ call[c].url \in Gated
    /\ Headed /\ ~authInProgress
    /\ authInProgress' = TRUE
    /\ call' = [call EXCEPT ![c] = [@ EXCEPT !.at = "login", !.polls = 0]]
    /\ UNCHANGED <<cache, saved, begun>>

(* wait_for_login: two clean polls in a row; a page that still looks like  *)
(* a wall, or cannot be read, starts over.                                 *)
Poll(c, clean) ==
    /\ call[c].at = "login"
    /\ call' = [call EXCEPT ![c] =
        IF ~clean THEN [@ EXCEPT !.polls = 0]
        ELSE IF call[c].polls = 1 THEN [@ EXCEPT !.at = "reload", !.polls = 0]
        ELSE [@ EXCEPT !.polls = 1]]
    /\ UNCHANGED <<cache, saved, authInProgress, begun>>

(* STAPLER_MCP_AUTH_WAIT_SECS passed, or the reload failed or met another  *)
(* wall: the page is closed and the guard dropped.                         *)
LoginFails(c) ==
    /\ call[c].at \in Waiting
    /\ authInProgress' = FALSE
    /\ call' = [call EXCEPT ![c] = NotExtracted(c)]
    /\ UNCHANGED <<cache, saved, begun>>

LoginOk(c) ==
    /\ call[c].at = "reload"
    /\ authInProgress' = FALSE
    /\ \E keep \in BOOLEAN : call' = [call EXCEPT ![c] = Extracted(c, keep)]
    /\ UNCHANGED <<cache, saved, begun>>

----------------------------------------------------------------------------
(* Files.                                                                  *)

(* extract_title_and_markdown failed: the whole call fails.                *)
ExtractFails(c) ==
    /\ call[c].kind = "read" /\ call[c].at \in {"store", "deliver"}
    /\ call[c].content = "public" => call[c].at = "store"
    /\ call' = [call EXCEPT ![c] = NoCall]
    /\ UNCHANGED <<cache, saved, authInProgress, begun>>

(* The cache write, which may fail; only what plain HTTP fetched comes     *)
(* here.                                                                   *)
Store(c) ==
    LET k == call[c] IN
    /\ k.at = "store"
    /\ call' = [call EXCEPT ![c].at = "deliver"]
    /\ \/ cache' = {e \in cache : e.url # k.url} \cup {[url |-> k.url, content |-> k.content]}
       \/ UNCHANGED cache
    /\ UNCHANGED <<saved, authInProgress, begun>>

(* divert_large_markdown: a page that fits what is left is returned.       *)
Inline(c) ==
    LET k == call[c] IN
    /\ k.at = "deliver" /\ SizeOf[k.url] <= k.budget
    /\ call' = [call EXCEPT ![c] =
        [k EXCEPT !.at = "next", !.budget = @ - SizeOf[k.url],
                  !.pages = @ \cup {[url |-> k.url, how |-> "inline"]}]]
    /\ UNCHANGED <<cache, saved, authInProgress, begun>>

(* One that does not is saved, or returned all the same when that fails.   *)
Divert(c, ok) ==
    LET k == call[c] IN
    /\ k.at = "deliver" /\ SizeOf[k.url] > k.budget
    /\ saved' = IF ok THEN saved \cup {<<"output", k.url>>} ELSE saved
    /\ call' = [call EXCEPT ![c] =
        [k EXCEPT !.at = "next",
                  !.pages = @ \cup {[url |-> k.url,
                                     how |-> IF ok THEN "saved" ELSE "unsaved"]}]]
    /\ UNCHANGED <<cache, authInProgress, begun>>

(* download_website and fetch_page: a page is written under its path, over *)
(* whatever has the path; an error ends the call.                          *)
Download(c) ==
    LET k == call[c] IN
    /\ k.at = "save"
    /\ \/ /\ saved' = {s \in saved : s[1] = "output" \/ s[1] # PathOf[k.url]}
                          \cup {<<PathOf[k.url], k.url>>}
          /\ call' = [call EXCEPT ![c] = [k EXCEPT
                        !.at = IF k.kind = "fetch" THEN "done" ELSE "next",
                        !.pages = @ \cup {[url |-> k.url, how |-> "saved"]}]]
       \/ call' = [call EXCEPT ![c] = NoCall] /\ UNCHANGED saved
    /\ UNCHANGED <<cache, authInProgress, begun>>

(* The answer is delivered.                                                *)
Answer(c) ==
    /\ call[c].at = "done"
    /\ call' = [call EXCEPT ![c] = NoCall]
    /\ UNCHANGED <<cache, saved, authInProgress, begun>>

(* Mutant: the flag is not reset by a guard.                               *)
TimeoutKeepsFlag(c) ==
    /\ call[c].at # "idle"
    /\ call' = [call EXCEPT ![c] = NoCall]
    /\ UNCHANGED <<cache, saved, authInProgress, begun>>

(* REQUEST_TIMEOUT drops the call at any await, its AuthGuard with it.     *)
Timeout(c) ==
    /\ call[c].at # "idle"
    /\ authInProgress' = (authInProgress /\ call[c].at \notin Waiting)
    /\ call' = [call EXCEPT ![c] = NoCall]
    /\ UNCHANGED <<cache, saved, begun>>

Next ==
    \E c \in Calls :
        \/ \E kind \in {"read", "download"}, seed \in Seeds, d \in DepthArgs,
              p \in PageArgs, i \in InlineArgs : Begin(c, kind, seed, d, p, i)
        \/ \E seed \in Urls : Begin(c, "fetch", seed, NoArg, NoArg, NoArg)
        \/ NewCrawler(c) \/ Pop(c) \/ Finish(c)
        \/ CacheMiss(c) \/ CacheHit(c)
        \/ FetchOk(c) \/ FetchFails(c) \/ FetchGated(c)
        \/ LoadsOpen(c) \/ LoadFails(c) \/ WallRefused(c) \/ WallWaits(c)
        \/ \E clean \in BOOLEAN : Poll(c, clean)
        \/ LoginFails(c) \/ LoginOk(c)
        \/ ExtractFails(c) \/ Store(c) \/ Inline(c)
        \/ \E ok \in BOOLEAN : Divert(c, ok)
        \/ Download(c) \/ Answer(c) \/ Timeout(c)

Spec == Init /\ [][Next]_vars

----------------------------------------------------------------------------
(* Properties.                                                             *)

TypeOK ==
    /\ \A c \in Calls :
        /\ call[c].at \in {"idle", "robots", "next", "lookup", "get", "browser",
                           "login", "reload", "store", "deliver", "save", "done"}
        /\ call[c].kind \in {"none", "read", "download", "fetch"}
        /\ call[c].visited \cup call[c].fetched \subseteq Urls
        /\ call[c].polls \in {0, 1}
    /\ cache \subseteq [url : Urls, content : {"public", "private"}]
    /\ authInProgress \in BOOLEAN
    /\ begun \in 0 .. MaxBegun

(* What a crawl is asked for, without queues: the pages at most n links    *)
(* away from its seed, over pages that could be read.                      *)
Allows(robot, u) == ~(robot /\ u \in Disallowed)

Onward(seed, robot, found) ==
    {v \in Urls \ Blocked :
        /\ SameHost(v, seed)
        /\ \E u \in found : /\ Allows(robot, u) /\ u \notin Gated
                            /\ \E i \in 1 .. Len(Links[u]) : Links[u][i] = v}

Within(seed, robot, depth) ==
    LET reach[n \in 0 .. depth] ==
            IF n = 0 THEN {seed}
            ELSE reach[n - 1] \cup Onward(seed, robot, reach[n - 1])
    IN  reach

Reach(k) ==
    {u \in Within(k.seed, k.robot, k.maxDepth)[k.maxDepth] : Allows(k.robot, u)}

Crawling(k) == k.kind \in {"read", "download"} /\ k.at # "robots"

InlineSize(k) ==
    MapThenSumSet(LAMBDA u : SizeOf[u],
                  {p.url : p \in {q \in k.pages : q.how = "inline"}})

(* The urls that a crawl asks for: none is on another host, too deep,      *)
(* disallowed by robots.txt or blocked by the network policy, none is      *)
(* asked for twice, and none in the browser on a host that failed before.  *)
(* (Nothing bounds where the HTTP client is redirected to from them.)  A   *)
(* crawl returns no more pages than it may, and those it returns inline    *)
(* fit its budget together, cached, fetched or logged in for; only one     *)
(* that could not be saved goes beyond.                                    *)
CrawlStaysInBounds ==
    \A c \in Calls : Crawling(call[c]) =>
        LET k == call[c] IN
        /\ InlineSize(k) <= k.allowance
        /\ k.fetched \cup {p.url : p \in k.pages} \subseteq Reach(k)
        /\ Cardinality(k.pages) <= k.maxPages /\ k.maxPages <= PagesCeiling
        /\ k.maxDepth <= DepthCeiling
        /\ k.at = "get" => k.url \notin k.fetched
        /\ k.at = "browser" => HostOf[k.url] \notin k.failedHosts

(* A crawl that met no cached page and no failure, and did not run out of  *)
(* pages, has asked for everything in its reach: breadth first, a page is  *)
(* first found where the most of its own links may still be followed.      *)
CrawlComplete ==
    \A c \in Calls :
        LET k == call[c] IN
        Crawling(k) /\ k.at = "done" /\ k.whole /\ Cardinality(k.pages) < k.maxPages =>
            Reach(k) \subseteq k.fetched

(* One login window at a time, and the flag is set for exactly as long as  *)
(* a call waits in it: whichever way the wait ends, by a login, a failure  *)
(* or the drop of the call, the next wall can be logged in for.            *)
OneLoginAtATime ==
    /\ \A c, d \in Calls : call[c].at \in Waiting /\ call[d].at \in Waiting => c = d
    /\ authInProgress <=> \E c \in Calls : call[c].at \in Waiting

(* What was read behind a login is never in the cache that every later     *)
(* call reads, whichever url led to it.                                    *)
CacheIsPublic ==
    \A e \in cache : e.content = "public" /\ e.url \notin Gated
=============================================================================
