# stapler-mcp: specifications

TLA+ models of stapler-mcp, the TLC runs that check them on small instances, and
TLAPS proofs of the properties that matter most. Paths below are relative to the
repository; `core/`, `native/`, `cli/`, `thin-client/` and `wasm/` stand for the
`src` directories of the crates.

## The system

One thin client per editor session speaks MCP over stdio and forwards each tool
call over a Unix socket to one machine-wide daemon, which owns a headless
browser, an HTTP client, a documentation index and a credential store. The
daemon is one thread: a tokio `current_thread` runtime with a `LocalSet`. So
nothing runs in parallel inside it, but everything interleaves at awaits. With
`STAPLER_MCP_HTTP_PORT` set it also serves MCP over HTTP, through a bounded
channel into the same handlers.

| Component | State | Operations | What is hard | Correct means |
|---|---|---|---|---|
| Daemon lifecycle (`core/client.rs`, `thin-client/transport.rs`, `native/spawn.rs`, `native/lock.rs`, `native/socket.rs`, `core/daemon.rs`, `cli/main.rs`) | lock, socket file, port file, the processes, their accept queues | find, spawn, call, serve, stop | cold-start races, crashes at every step, daemons that overlap, timeouts with the request still queued | one daemon, reachable; calls run at most once and always return |
| Shutdown and HTTP bridge (`cli/main.rs`, `cli/transport.rs`, `cli/http_server.rs`) | token, three tasks, channel, reply slots | call over HTTP, drain, join, clean up | panics, blocked senders, handlers that outlive the grace period | nobody waits for ever, the exit is bounded, Chrome is closed when safe |
| Browser sessions (`native/browser.rs`, `core/tools/browser.rs`) | registry, per-session lock, tabs, cap, reaper | navigate, act, tabs, close, close all, reap | two lanes of calls, the reaper, crash events and timeouts at every await | a call keeps the tab it works on, the cap holds, nothing stays busy |
| Documentation index (`core/tools/docs.rs`, `native/embed.rs`, `native/fs.rs`) | three files per source, shared manifest, lock set | index, search, list, remove | several files per update, shared manifest under per-source locks, crashes | an index that agrees with its manifest |
| Web tools (`core/tools/webcrawl.rs`, `fetch.rs`, `core/auth.rs`) | frontier, budgets, page cache, saved pages, login flag | read, download, fetch, log in | budgets in several places, login walls, calls dropped while they wait | budgets hold, nothing in reach is missed, nothing private is cached |
| Credential store (`native/vault.rs`, `core/tools/credential.rs`) | cache of item ids, calls in flight | resolve, search | concurrent resolutions of one item, dropped callers, stale ids, rate limits | one run per reference, each answer of the right run and logged |
| Snapshots and refs (`native/ax.rs`, `native/browser.rs`) | refs, generations | capture, resolve a ref | a ref used after the page changed | a ref never names another element |
| Network log (`native/network.rs`) | pending requests, finished entries | events, query, reset | events on separate streams, in any order | bounded, one entry per request |
| Tool layer and MCP front ends (`core/tools/*.rs`, `thin-client/mcp_router.rs`, `cli/main.rs`) | tables of tools and handlers | one request as several driver and file operations | partial failure, the other lane in between | what is answered is what was done |
| Node adapter (`wasm/`, `wasm/glue/*.js`) | lock directory, Playwright pages | as the native adapters | lock directory and its pid file are two steps | as the native adapters |
| HTTP authentication (`core/http_auth.rs`, `native/http_token.rs`) | token file | authorize | first start writes the token | stateless per call |

`PROJECT.json` lists every component with its status, and the hazards of this
code, each at its line, with the properties that cover them.

## Modules

| Module | Models | Rests on |
|---|---|---|
| `DaemonLifecycle`, `ToolService` | finding, starting and calling the daemon; what clients are promised | |
| `DaemonShutdown` | one daemon from its accept loop to its exit | a handler returns, fails, times out or panics |
| `BrowserSessions` | which calls share a session, and which pages it owns | a call works on a page under the lock |
| `BrowserPage` | what a call does on a page, await by await | one call at a time, as `BrowserSessions` shows |
| `NetworkCapture` | the log of requests of a session | |
| `WebCrawl` | the tools that read the web | |
| `CredentialVault` | the 1Password adapter | |
| `DocsIndex` | the documentation index and its files | |
| `ToolCalls`, with `TextViews` | tables of tools, and a request as a sequence of driver calls; what is cut out of texts | an abstract driver |

### DaemonLifecycle, with ToolService

`DaemonLifecycle` is everything from `SocketTransport::call` in the client to
`Daemon::serve_connection` in the daemon. Processes are numbered in the order
they are spawned; `dstate[d]` is how far `run_daemon` has come in process `d`:

| `dstate` | code |
|---|---|
| `started` | the process exists, state directory made |
| `ported` | `http-port` written or removed |
| `locked` | `acquire_exclusive` won; `launched`: Chrome runs |
| `unlinked` | `remove_stale` done; `serving`: `bind` done, accept loop |
| `closing` | accept loop over, Chrome being closed; `exited`: gone |

`cpc[c]` is where the client is: `connecting` and `pinging` are the two awaits of
`ping`, `spawning` and `deciding` the tail of `ensure_daemon`'s loop, `proceeding`
and `calling` the real call. A connection waits in the `backlog` of the listener
it reached, or is being served (`current`). The daemon reads a request whether or
not its client is still there, so a call that timed out is executed all the same
(`AcceptCall`). Every fault is an action admitted by the constant `Env`: crash at
any step, SIGTERM, the shutdown request, a failing accept, a failing Chrome
launch or spawn, slow starts, client and handler timeouts, and a daemon started
by the service manager with another environment.

`ToolService` is what the clients are promised: one server at a time, calls
executed at most once, a success only after an execution. `ImplementsToolService`
maps the detailed state to it: the server is the process the socket path reaches.

### DaemonShutdown

One daemon process from the accept loop's start to its exit: the accept loop, the
axum server and `run_bridge_consumer`, all polled by one thread, the token they
share, and the grace period raced against each of them. `rpc[r]` is where an HTTP
call is inside `ChannelTransport::call`: `sending` while the channel is full,
`awaiting` its oneshot. `StopAndDrain` is the drain loop together with the
receiver's drop, because no await lies between them. The tool a handler runs is
abstract: it returns, fails, times out or panics.

### BrowserSessions

The registry of `NativeBrowser`. One action is what the code does between two
awaits; that is the unit of interleaving on this runtime. Two lanes take one
request at a time each: the accept loop and the bridge consumer. A task
`<<lane, session>>` is a call on a session; `close_all_sessions` runs one task
for each. `pc` names the await the task is in: `opening`/`loading` (a new
session's page), `waiting` (for the session's lock), `working` (page operations
under the lock), `tabOpening`/`tabLoading`/`tabGoing` (a new tab), `tabClosing`,
`closing`. `held` are the pages in the task's locals.

Methods that differ only in what they do to the page (click, type, hover,
snapshot, evaluate, wait, resize, screenshot, secrets, ...) are the operation
`act`: touch the session, take the lock, look at the blocked flag, look the
session up again, work. `navigate`, the four `tabs` actions and `close` have
operations of their own. When a lock is released with a call waiting, tokio hands
it over directly: the waiter is `Granted` before it is polled. The bridge's
consumer may take its next message from the channel in that same poll; the accept
loop cannot, as its next request has to come through the I/O driver (`LaneFree`).

`idle` says that `last_used` is older than the idle timeout. It is wall-clock
time, so a suspend of the machine makes a session look idle in the middle of a
call; `IdlePasses` may therefore happen at any time.

A crash of a page marks its session, and the next call that looks it up takes it out
of the registry (`TouchCrashed`) without its lock and without closing anything. So
a call that holds the lock may find the session gone. `TabsExpectHolds` says that
nothing else takes it away; that it may go after a crash is a known difference from
what the comments say (below). `PageLeak` needs a timeout only; a `navigate` that fails between its new page
and the registry leaves it open in the same way.

### DocsIndex

The index in `docs.rs` over `NativeFs`. A version is the output of one indexing
run; `disk` holds which version of `chunks.jsonl` and `meta.json` each source has,
and the entries of `sources.json`. `pc[l]` names the await an operation is in
(`preparing` is crawl, chunking and embedding; `diffing` the read of the old
metadata; then one value for each file access), `job[l]` its local variables.
`Landed` is the effect of one write: `write_file` renames, so a file is replaced
as a whole. An operation that fails or times out runs `End`, which is the drop of
its guard. A timeout inside a write either prevents it or leaves the rename with
tokio's blocking pool, which does not cancel it: it stays in `late` until
`LateLands`. `Restart` forgets everything but the files and may come back with
another `EMBEDDING_MODEL_ID`.

Six ghost variables record what was promised: the last version of a source
reported as indexed (`promised`), what a removal set out to delete (`erased`,
`gone`), whether a manifest write ever replaced another one's work (`clobbered`),
and which sources had an operation started on them while an earlier one's write
was still to land (`stray`). For a source in `stray` freshness cannot be claimed:
the old write may land over the new files. That is how the code is; it needs a
rename that takes longer than the next operation's crawl.

### BrowserPage

One native session, seen from inside a call. Documents are numbered in the order
they are loaded and an element is `<<document, name>>`, so the model knows which
element a ref was given for; the code only keeps backend id, role and `is_oopif`
(`Resolved`), and the invariants are about that difference. The three names are
the kinds of node that are treated differently: a plain one, a password field, and a
node in a cross-origin frame. Backend ids are a constant, `NodeId`, of which is known
only that the ids of one document differ: the comments at `native/browser.rs:820` and
2037 do not count on more. Whether a later document uses an id again, and for which
kind of node, is up to the instance.

The host of a secret's page is checked before the vault is asked, and not again.
What is proved for every `NodeId` is `SecretInItsField`: the secret was asked for on a
page of its host, and was typed into a field of that document, or into a node that has
the id of a node of an earlier document. That the second case
may be on another host is a known difference.

`call.todo` is the list of steps, each ended by an await, that the call has still
to make (`StepsOf`, one operator per method); between two of them the page may
navigate, change its elements, or be told of a blocked host. `Built` gives the
captured nodes their refs, reusing those of the previous capture of the tab
(`Previous`; none after a navigation). Every error path (`RejectRef`, `GotoFails`,
`GotoBlocked`, `CallFails`, `Timeout`, `Refused`) leaves what the code leaves
behind. Ghosts: `tried` and `landed` count the navigations of a tab that were
begun and completed, `issued` remembers them for each ref, `written` the document that
was checked and the element that got the secret.

### NetworkCapture

Chrome sends `requestWillBeSent`, `responseReceived`, `loadingFinished` and
`loadingFailed` of a request in this order, but the code reads each kind from a
stream of its own, so `coming` is a set and any of them may be handled next
(`Handle`). A redirect is a further hop with the same id, which finalises the
one before it. `handler[q]` is the task of `loadingFinished`: it yields a bounded
number of times for a response that is late, then asks Chrome for the body and
completes the entry. `Reset` is the navigation's reset, `QueryClear` a query with
`clear`. The reset comes before `goto`, so until `Commit` it is still the page to be
left that begins requests, and what it began may be told later yet.

Ghosts: `dropped` (what found the log full), `logged`, `own` (requests that the new
page began) and `late` (hops of other requests that the log had not been told of at the
reset). An entry is of one or the other (`EntriesSinceReset`): what the log was
told of before the reset does not come back. That some are `late` is a known
difference from the tool's description.

### CredentialVault

A call either joins the run that `pending` names for its reference
(`ResolveJoins`) or starts one (`ResolveStarts`). The run is a task, so it lives on
when its caller is dropped. It looks up the item by domain unless `id_cache` has
it, reads the value, and on one line without an await writes the audit log and
removes itself from `pending` (`Ends`). `vault`, the items that match a domain, is
external and may change at any time, under a cached id too.

### WebCrawl

Each call is a crawler (`read_website`, `download_website`) or a `fetch_page`. Its
record holds the queue, the visited set and the budgets, as in `Crawler`; `at`
names the await: robots.txt, cache, HTTP, browser, login, file. What the calls share
is the page cache, the files, and `authInProgress`. `NextUrl` is the loop of
`next_url`, `NewLinks` the filter in front of the queue. A page that plain HTTP
does not give goes to `navigate_and_extract`; a login wall there is refused, or
waited for if nobody else waits. `Timeout` is the daemon dropping the call at any
of these awaits. Ghosts: `fetched` and `whole` (nothing cached, failed or refused).

The site is a constant: links, hosts, paths, which urls are blocked, disallowed,
or behind a login. HTML, robots.txt and address ranges are inputs. The HTTP
client follows redirects by itself, so links, length and login wall of a url are those of
whatever is served for it, on whichever host; `final_url` has no other effect on these
tools. `CrawlStaysInBounds` is about the urls a crawl asks for, not about where these
redirects end.

### ToolCalls, with TextViews

`ToolCalls` has the three tables that must agree (tools by category in the router,
router methods, handlers of the daemon), for the native and the Node build, with profile
and vault as a setup. A request that the daemon knows becomes a plan, the sequence of
driver and file operations of its handler, which the two lanes execute one at a time. An
operation may fail before or after its effect on the page (`Outcomes`); `Tolerates` and
`RestAfter` say which errors a handler swallows and what it still does after one. A
search whose navigation fails may have left its session open all the same: `navigate` inserts
it before it looks at the blocked flag. `OpenedSearchesClose` excuses these (`excused`). `IsRequest` is what the schemas admit, and the
one thing the schemas leave to the caller: a field is asked for as what it is on the
page, a check box as a check box. `TextViews` holds the pure algorithms, each beside
what it promises: matches with context, pages of a saved file in arithmetic modulo
`Modulus` (2 to the width of `usize`), chunks that do not split a fenced block, matches
of find, bodies within a budget. `IsView` is what a view is asked of. They are checked
on every small input through the calls that use them, and proved for every one.

## Runs

| Run | Shows |
|---|---|
| `DaemonSafety` | one browser, reachable listener, at-most-once calls, bounded spawning, refinement of `ToolService`; every fault admitted |
| `DaemonLiveness` | every call returns; it succeeds unless a daemon dies meanwhile |
| `Shutdown` | no stranded caller, service until cancelled, safe close, every request settled, bounded exit |
| `Sessions` | cap, tabs, a call keeps its tab, expects, locks and slots |
| `PageLeak` | *violation*: a navigation that times out leaves its page open |
| `CloseExpect` | *violation*: the second of two waiting closes panics |
| `Page` | a ref names elements of one tab, an element keeps its ref, a navigation names anew, the hint in a refusal is true, a secret goes into a field of the document that was checked, or into a node with a used-again id |
| `Network` | nothing the log knew of before a reset comes back into it; each hop at most once, bounded, truncated exactly when something was lost |
| `Vault` | one run per reference, each answer logged and of the right run, every pending entry goes |
| `Web` | the urls a crawl asks for stay in every bound and, undisturbed, it misses none; one login at a time; no private page in the cache |
| `Tools` | forms are filled as answered, no network entry is lost unread, a search that could open its session closes it, texts are cut as promised; the tables agree |
| `DocsIndex` | one writer per source and no lock left behind, fresh searches, one model per search, listed sources searchable, manifest right as long as no write was lost |

Bounds. Two clients and three processes give a daemon that dies, one that
replaces it and one that loses the lock to it; two faults let a replacement fail
too. The liveness run has one fault: what is claimed is recovery after the last
one. Three HTTP calls on a channel of one message are a call in service, one
queued and one blocked in `send`; the real capacity is larger, and the proofs
cover every capacity. Three session ids with a cap of two make both lanes race
for the last slot; three pages let a session of two tabs have a neighbour; four
requests in all are a navigation, a second actor's call, and two more that
overlap with them. Two sources share a manifest, four calls are an index run, its
repetition or removal, a search, and one that overlaps; two models are one
upgrade.

`Page`: two tabs share the counter of refs; three documents are the first, one that
a call loads and one the page loads by itself; the cap of two nodes cuts a
document of three, which is how an element comes to be missing from one capture
and present in the next; two calls are one that hands out refs and one that uses
them. The second document gives the first one's ids to the other element each, the third
to the same elements again. `Network`: a request with a redirect and a binary one, a log of two entries
for four hops, one navigation. `Vault`: two lanes and two fields of one domain
share its cached id; two runs and two calls per lane let a dropped caller ask
again while its run goes on. `Web`: six urls are a seed that is a depth of two away from
two gated pages, with a cycle, a disallowed url and a url on a blocked host; both
budgets can be reached; two calls are one that fills the cache and one that reads
it, or two that meet the same wall. On a
site of this depth another order would miss nothing either: that breadth first search is
complete on every site is proved. `Tools`: every pair of a form with a call that
meddles, of two reads of the log, and of each tool with `close_all_sessions`,
in each of three setups; texts of at most five lines with numbers modulo 8,
so that the sum of offset and limit wraps.

Fairness. A live process is scheduled, a client runs until its call returns, and a
handler ends within `REQUEST_TIMEOUT`: weak fairness of each actor's own steps. `GiveUp`
needs strong fairness, since the deadline is only looked at between two polls. In
`DaemonShutdown` the select between the token and the next message picks at random, so a
cancelled token is noticed in the end although messages keep coming: strong fairness of
`StopAndDrain`; tokio's channel serves blocked senders in turn: strong fairness of
`SendToBridge`. `HttpEnd` has none, as an HTTP client may keep its connection open, and
faults have none. `DaemonLiveness` rules out slow starts, the one fault that makes the
30-second start-up budget run out with nothing dead. In `CredentialVault` each run
advances weakly fairly: it was spawned on the local set, so it is polled without its
callers, and every `op` process is assumed to exit; nothing is assumed of the callers.
`BrowserSessions` has no fairness: that an idle session is reclaimed follows from
`BusyOnlyWhileCalled`, every call being bounded by a timeout. The other modules state
safety only: every call in them ends by `REQUEST_TIMEOUT` or by its own steps.

## Proofs

`DaemonLifecycleProofs` proves, for any number of clients, calls, processes and faults,
`TypeOK`, `OneBrowser`, `ListenerReachable`, `AtMostOnce` and `SpawnsBounded`. None but
the first is inductive. `IndInv` adds: a process past the lock is the holder and only
such a process is (`LockInv`); the socket path names a process only if that process has
reached `bind`, and a starter that has unlinked the path found no listener because the
listener would hold the lock (`SockInv`); where a client is determines which of its
connections exist (`ClientInv`). At-most-once execution needs in addition that a request
that is queued or served anywhere is queued or served once, and not yet executed while
it is queued (`ExecInv`). That clients start no more processes than they made calls
rests on a set between the two (`SpawnInv`): a call has used its one spawn (`Used`) when
`spawned` is set or a later call of its client has begun, and a process of a client
stands for a used call. `LifecycleImplementsService` proves that the lifecycle
implements `ToolService`, step by step: a result belongs to a call that has returned
(`ResultInv`), a call in service was executed once (`CurrentInv`), and the abstract
server is the process that listens.

`DaemonShutdownProofs` proves `TypeOK`, `NoStrandedCaller`, `ServesUntilCancelled`
and `ClosedOnlyWhenUnused` for any set of requests and any capacity. The
invariant says where the message of a waiting caller is (`CallerInv`), that the
consumer serves exactly while it handles and leaves an empty channel
(`ConsumerInv`), and what each phase of the process has behind it (`PhaseInv`).

`BrowserSessionsProofs` proves `TypeOK`, `CapHolds`, `BusyOnlyWhileCalled` and
`ActiveTabExists` for any cap and any number of ids, pages and requests. The cap
is checked several awaits before the session is inserted, so it is the sum of the
registry and of the calls in between that is inductive (`Reserved`), and it rests
on `pending` being exactly the number of those calls on every way out: `Leaves`
shows once, for any set of tasks that end or are dropped together, that their
slots and locks go with them. The tabs (`BrowserInv`) need that an id is used
once (`IdsInv`: until its session is inserted nothing refers to it but the call
opening it, whose lane is otherwise free), that a page a call has opened is no
tab yet (`PagesInv`), and that whoever closes or registers pages holds some
(`CallsInv`). `CallKeepsItsTab` and `TabsExpectHolds` are proved on top (`KeepsInv`):
the lock is mutual exclusion (`TaskInv`: a call under the lock is its holder), a page
that somebody is about to close (`Condemned`) is owned by nobody (`Owns`), an owned
page is open unless its session crashed (`OwnersInv`), and a page has one place among
a session's tabs (`Once`).

`DocsIndexProofs` proves all six invariants of `DocsIndex` for any set of sources and
any number of calls and models. For `SearchModelMatches` the metadata vouches for the
model of the chunks (`MetaVouchesForChunks`) although no lock covers the pair. It holds
because whatever may still be written or ranked was made with the running binary's model
(`OperationsCurrent`, `LateCurrent`), because `meta.json` is written after
`chunks.jsonl`, and because a newer binary's model matches no metadata at all until the
source is indexed again. A downgrade to an earlier model is outside the model (`Restart`
only moves on), and there the property would fail: a run that is cut off between its two
writes leaves new vectors behind the old model's metadata.

`SearchIsFresh`, `ListedIsSearchable` and `ManifestAgrees` share one invariant
(`FreshInv`). Its centre is what a writer relies on (`Sound`): an index run is newer
than everything promised or listed about its source, or about to be listed from a
copy somebody read (`Claims`), and the files it has written are its own; once a
removal deletes, nothing is promised any more. A source that is not `stray` has at
most one writer, a running one or one late write (`LateAlone`), so what it relies on
cannot change under it, and every write keeps the files at least as new as what is
promised (`Kept`). A step then either leaves a source alone (`Quiet`) or is a write
that lands (`Landing`).

`ToolCallsProofs` holds the proofs about `ToolCalls` and about `CredentialVault`, the
store behind one of its tools. For any callers, requests, elements and bounds it proves
`FieldsLand`, `EntriesKept` and `OpenedSearchesClose`. None is inductive: what an
answer leaves depends on what the operations left of its plan will still do. Every
handler makes a plan of one of three shapes and every outcome of every operation keeps
it (`PlanLeft`): a form has one operation for each field still to be handled, in their
order, and only its head may be a box that was read and is to be clicked or let be
(`FieldsLeft`); the log is cleared in the step that answers, or last, when a file holds
what was read (`LogLeft`); a search closes its session last, whatever failed before
(`SearchLeft`). On these shapes `FormInv` says that the form holds the last value
asked for in the fields handled and what was there before in the others (`Wanted`),
apart from the field at work and from what other calls and the page changed, and
`SearchInv` that each search session that was opened has a running call still to
close it.

`TextViewsAgree` is proved for texts and arguments of any size. An answer holds nothing
or the view its request asked for (`OutInv`), and a view keeps its promise whatever it
is asked of (`ViewIsRight`). Two of the six views are arithmetic, four are loops, and
the loops are folds. `FoldLeft` chooses a recursive function over sets of positions;
that there is exactly one is proved from a smallest set for which there would be none or
two (`FoldsExist`, `FoldsUnique`), and that it passes through the values the loop has
after each position from there (`RunOfFold`). An invariant of the loop then holds after
every position because there is no first one where it fails (`Upward`). The invariants:
the blocks cover the lines near the matches so far and end where the last match's
context ends (`GrepUpTo`); the chunks so far are closed and follow one another, and
since the last cut a fence is open at every place (`ChunksUpTo`, where the number of
markers between two places is the difference of two totals, `FencesAre`); a match is
left out only when the list is full (`Listed`); what is left of the budget and what was
returned make up the budget (`BodiesLeft`).

For the vault it proves `VaultTypeOK`, `OneRunPerRef` and `AnswersLogged`. The
invariant says that a run is under way exactly if `pending` names it for its own
reference, and that whoever waits has joined a run that was started for what it
asked.

`NetworkCaptureProofs` proves `TypeOK`, `EntriesSinceReset` and `LogAccounts` for any
requests and redirects. Both rest on what is still on its way: hops of a request arrive
in order although the streams do not (`HopsInOrder`), what the log holds or has in hand
and what is still to come is of the new page or was late at the reset, and a hop that is
partial or to come has not been finalised.

`WebCrawlProofs` proves all its invariants, `TypeOK`, `OneLoginAtATime`,
`CacheIsPublic`, `CrawlStaysInBounds` and `CrawlComplete`, for any site, any arguments
and any number of calls. A step changes one call (`OneStep`), and the flag goes with
the wait; what a call is about to store is public and not gated in every state it
can be in (`CallInv`).

The two properties of crawls share `CrawlInv`. Whatever a crawl has met is in reach
(`Bounded`); a page in hand has not been asked for before and there is room to return it
(`AtPage`); what was returned inline and what is left of the budget never exceed the
allowance together, whichever way a page is returned (`Returned`).
That nothing is missed is the argument for breadth first search (`BreadthFirst`): the
queue holds the current level and then the next (`Ordered`), whatever was met and is
allowed was fetched or is queued (`Known`), and the links of a fetched page have been
met if one more step was left (`Followed`). An empty queue then means that level after
level was met (`EveryLevelIsMet`). `NewLinksAre` says what the filter in front of the
queue lets through: each new link of the page, once. The levels are a recursive
function on naturals and the inline size a sum over a finite set; that both exist and
grow as they should is proved from a least counterexample (`LeastOfSome`,
`MinimalSubset`).

`BrowserPageProofs` proves `TypeOK`, `RefsNameOneTab`, `FreshAfterNavigate`,
`StableRefs`, `SecretInItsField` and `HintTruthful` for any tabs, documents and refs.
The invariant: a known ref is below the session's counter, the latest refs of a tab are
known to it, and at most one of them can be reused for a backend id (`OneRefEach`); a
call that types a secret is at a known place in its list of steps (`From`), the document
it checked is on the secret's host, and the tab still shows that document or a later one
in which the node's id is used again (`OnSite`); where it is the same document, the node
takes secrets once that was looked at (`TakesSecrets`). For the hint (`HintInv`): the
generation counts the navigations that completed, a ref's generation is that of its
issue, and a navigation that completes was begun after every ref known then, because a
navigating call captures last.

The proofs assume only the constants' types, as the modules state them
(`ConstantsAssumption`, `ShutdownConstants`, `SessionsConstants`, `DocsConstants`,
`VaultConstants`, `NetworkConstants`, `WebConstants`, `PageConstants`), and for
`ToolCalls` that the check box is an element of the form, the empty ref is none and a box's
values are values (`FormHasBox`), that the scripts are sequences of requests
(`ScriptsAreRequests`), and that `Modulus` is not zero, the caps are numbers and the default
count is within its ceiling (`TextConstants`, `Caps`). Of the properties the passing
runs check, only the liveness properties are model-checked without a theorem, as fairness
is out of the prover's reach.

## Not modelled and known differences

External behaviour that is assumed:

- Chrome gives no two live nodes of one document the same backend id. Nothing is assumed
  of the ids of two documents.
- A document that was left does not come back (no back/forward cache).
- Every `op` process exits.
- In `ToolCalls` the driver's operations are atomic; their steps are those of
  `BrowserPage` and `BrowserSessions`.

Known differences between the code and what its texts say, beside the two findings. The
first six were met while modelling: what the text says was stated as a property, TLC
found a behaviour of the model against it, and the project claims what remains.

- `tabs` says that after its first look "later accesses within this arm are safe since
  `close_session` can't run while this call holds the guard" (`native/browser.rs:2465`).
  `touch_or_evict` (384) removes a crashed session as well, and takes no lock: a page
  crashes while a `tabs` call awaits it, any call of the other lane on the session evicts
  it, and the `expect`s at 2481, 2571, 2603, 2678 and 2740 panic. `TabsExpectHolds` excuses
  sessions that crashed.
- `touch_or_evict` closes nothing, as there is "no live `Page` to close" (370). The crashed
  flag is one for all tabs of a session: when one tab's target crashes, the pages of the
  others stay open in Chrome, in nobody's registry. `EveryPageOwned`, which `PageLeak`
  checks with timeouts only, fails for crashes too.
- `run_search_session` says that a search "never leaves residue" and that after a failed
  `navigate` "no session exists yet" (`core/tools/search.rs:173`). The native `navigate`
  inserts the session and then returns `NotFound` for a redirect to a blocked host
  (`native/browser.rs:1885`), and the search returns (185) without its id: the session
  stays until the reaper takes it. `OpenedSearchesClose` speaks of searches whose
  navigation returned a session.
- `verify_node_live` "closes the `BackendNodeId`-reuse TOCTOU gap", as a recycled node "is
  still caught by a role mismatch" (`native/browser.rs:816`). `type_secret` looks at the
  host before the vault is asked (2200) and not again; when the page goes to another host
  meanwhile and its password field has the id of the old one, role and type agree, and
  the secret is typed there. `SecretInItsField` admits a node whose id is used again.
- `network_requests` lists the requests made since the session's last navigation
  (`thin-client/mcp_router.rs:744`). The log is reset before `goto`
  (`native/browser.rs:2009`), and `on_request` takes any start as new, so a request of the
  page that was left is listed when its start is told after the reset. `EntriesSinceReset`
  admits these (`late`).
- Crawling "deliberately stays same-host" (`core/tools/webcrawl.rs:72`). `same_host` looks at
  links only: the client follows redirects by `reqwest`'s default (`native/http.rs:10`), and
  `fetch_and_expand` takes the page wherever it came from, so a url of the site that
  redirects to another host is returned, cached and indexed as a page of the site. That
  `blocked_host_reason` does not see such a redirect its comment says (227).
  `CrawlStaysInBounds` bounds the urls asked for.
- A daemon that got SIGTERM keeps its socket until Chrome is closed. A call in
  between spawns one process (`core/client.rs:96`), which loses the lock and exits;
  the call then fails after its start-up budget. `README.md:112` says that the next
  tool call spawns the new daemon.
- `http-port` is written before the lock is taken (`cli/main.rs:322`), so a starter
  that loses the race leaves its own port, or none, beside the daemon that serves;
  `README.md:412` calls it the port the transport was last started with.
- The cleanup calls it unreachable that a handler still holds the browser
  (`cli/main.rs:1038`). It is reachable: the grace period of 5 s is shorter than
  `REQUEST_TIMEOUT`. `ClosedOnlyWhenUnused` is what then still holds.
- Operations on different sources may lose an entry of `sources.json`
  (`core/tools/docs.rs:698`), as the locks are per source; the plan
  (`project_plans/docs-index/implementation/plan.md:201`) counts only crashes as a
  remaining risk. `ManifestAgrees` is
  claimed only where no such write overlapped (`clobbered`), so it does not catch the
  lost entry itself.
- `docs.rs:953`: a removal that stops after its first deletion leaves a source with
  metadata and no chunks; `SearchIsFresh` and `ListedIsSearchable` exclude it.
- A write that outlives the call that made it may land over a later run's
  files (`stray`).
- `navigate_and_extract` (`native/browser.rs:1732`) closes its page when it refuses
  or fails at a wall, and not when it succeeds; it belongs to no session, so nothing
  closes it later.
- The login wait of 300 s (`native/browser.rs:686`) is part of a call that the daemon
  drops after 30 s.
- Two urls may share a file: `save_path_for` (`core/tools/webcrawl.rs:738`) ignores
  the query and maps the root and `/index.html` to one path.
- The cache of item ids (`native/vault.rs:257`) is never invalidated, so an item that
  was moved or deleted fails until the daemon restarts, and one that has ceased to match
  the domain is read all the same. `OpFails` and `ReadSucceeds` admit both.
- `offset + limit` in `paginate_saved_page` (`core/tools/webcrawl.rs:685`) is
  unchecked: near the end of `usize` a checked build stops. `PagePromise` is claimed
  below that.
- A `loadingFailed` handled before its `requestWillBeSent` leaves a partial entry until
  the next navigation.
- The Node lock (`wasm/src/glue/lock.js:19`) is a directory whose owner writes its pid
  in a second step; a starter that looks in between takes it for stale and removes it.

Not modelled:

- the JavaScript glue of the Node adapter: its lock, sockets and Playwright calls.
  `ToolCalls` takes a driver call of `wasm/src/browser.rs` as one call into it;
- the HTTP authentication: a comparison with a token written at first start;
- ports, schemas, paths: types and names without behaviour;
- launch scripts and packaging;
- the moment between the close of Chrome at the end of a process and the release of its
  lock (`cli/main.rs:1039`): `Exit` of `DaemonLifecycle` does both in one step;
- what a field holds that another call or the page changed while a form was filled, or a
  box was read and clicked: `FieldsLand` says nothing of it;
- launch options, screenshots, pdf, dialogs, resizing, and the wording and
  redaction of snapshots;
- of the documentation index, embedding and ranking: a version stands for the output
  of a run.

Left to do: the Node lock directory, with two steps of file system per acquisition
and reclaim.
