---------------------------- MODULE BrowserPage ----------------------------
(***************************************************************************)
(* What a call does on a page of one native session (native/browser.rs,    *)
(* native/ax.rs): refs are handed out by captures, resolved to elements,   *)
(* checked and acted upon, while the page changes and navigates by itself  *)
(* between any two awaits.  The session's lock lets one call run at a time *)
(* (BrowserSessions is about the lock), so there is one call in progress.  *)
(*                                                                         *)
(* Documents are numbered; an element is <<document, name>>.  The          *)
(* elements stand for the kinds that the code treats differently: a        *)
(* "button", with another role in every other document; a "password"       *)
(* field; and a "frame" node of a cross-origin iframe, whose backend node  *)
(* id belongs to another process and happens to equal the button's.        *)
(* Documents may use each other's ids again, as Chrome may.                *)
(***************************************************************************)
EXTENDS Integers, Sequences, FiniteSets

CONSTANTS
    Tabs,       \* tabs the session may have
    First,      \* the tab it starts with
    MaxNodes,   \* MAX_SNAPSHOT_NODES
    NodeId,     \* backend node ids, by document and name
    MaxDocs,    \* bound: documents loaded
    MaxRefs,    \* bound: refs handed out
    MaxCalls    \* bound: calls

Names     == <<"button", "password", "frame">>
FormNames == {"button", "password"}
Docs      == 1 .. MaxDocs

(* The ids of one document differ; nothing is said of those of two.        *)
ASSUME PageConstants ==
    /\ First \in Tabs
    /\ MaxNodes \in Nat /\ MaxDocs \in Nat \ {0} /\ MaxRefs \in Nat \ {0, 1}
    /\ MaxCalls \in Nat
    /\ NodeId \in [Docs \X FormNames -> Nat]
    /\ \A d \in Docs : NodeId[<<d, "button">>] # NodeId[<<d, "password">>]

Elements == Docs \X {Names[i] : i \in DOMAIN Names}
Refs     == 0 .. MaxRefs - 1
None     == -1
Hosts    == {"site", "other", "internal"}

(* What the accessibility tree says of an element.                         *)
IsOopif(e) == e[2] = "frame"
Backend(e) == NodeId[<<e[1], IF IsOopif(e) THEN "button" ELSE e[2]>>]
Role(e)    == IF e[2] = "password" THEN "textbox"
              ELSE IF e[1] % 2 = 1 THEN "button" ELSE "link"

(* Every resolved ref: the element is what the model knows, the backend    *)
(* id, role and is_oopif are what the code keeps of it.                    *)
Resolved == [ref : Refs, elem : Elements, backend : Nat,
             role : {"textbox", "button", "link"}, oopif : BOOLEAN]

Resolve1(e, ref) == [ref |-> ref, elem |-> e, backend |-> Backend(e),
                     role |-> Role(e), oopif |-> IsOopif(e)]

FirstRefs == {Resolve1(<<1, "button">>, 0), Resolve1(<<1, "password">>, 1)}

RefOps   == {"act", "evaluate", "secret"}
Ops      == RefOps \cup {"navigate", "blind", "snapshot", "tabNew", "tabSelect"}
StepNames == {"resolve", "vault", "verify", "write", "accepts", "goto", "grace",
              "url", "tree"}

VARIABLES
    exists,     \* tabs opened
    active,     \* BrowserSession::active_tab
    doc,        \* document in each tab
    live,       \* elements in each tab's document
    host,       \* host of each document
    unseen,     \* documents whose frameNavigated is still to be delivered
    nextDoc,    \* documents loaded so far, plus one
    latest,     \* TabState::latest_refs
    known,      \* TabState::known_refs
    gen,        \* TabState::nav_generation
    latestUrl,  \* TabState::latest_url, by its document
    nextRef,    \* BrowserSession::next_ref_id
    blocked,    \* BrowserSession::blocked
    call,       \* the call in progress, NoCall between calls
    calls,      \* calls made
    answer,     \* outcome of the last call
    issued,     \* per ref: the navigations its tab had completed and begun
    landed,     \* navigations completed in each tab
    tried,      \* navigations begun in each tab
    written     \* <<document checked, element>> of the secrets typed

pageVars  == <<doc, live, host, unseen, nextDoc>>
tabVars   == <<exists, active>>
refVars   == <<latest, known, gen, latestUrl, nextRef, issued>>
ghostVars == <<landed, tried, written>>
vars == <<pageVars, tabVars, refVars, ghostVars, blocked, call, calls, answer>>

NoCall == [op |-> "none", tab |-> First, ref |-> None, todo |-> <<>>,
           node |-> 0, role |-> "textbox", url |-> 0]

Calls == [op : Ops \cup {"none"}, tab : Tabs, ref : Refs \cup {None},
          todo : Seq(StepNames), node : Nat,
          role : {"textbox", "button", "link"}, url : 0 .. MaxDocs]

Outcomes == {"none", "ok", "blocked", "oopif", "navigated", "unknown", "domain",
             "vault", "stale", "shape", "failed", "timeout"}

TypeOK ==
    /\ exists \subseteq Tabs /\ active \in exists
    /\ doc \in [Tabs -> 0 .. MaxDocs]
    /\ live \in [Tabs -> SUBSET Elements]
    /\ host \in [Docs -> Hosts]
    /\ unseen \subseteq Docs
    /\ nextDoc \in 1 .. MaxDocs + 1
    /\ latest \in [Tabs -> SUBSET Resolved]
    /\ known \in [Tabs -> [Refs -> Nat \cup {None}]]
    /\ gen \in [Tabs -> Nat]
    /\ latestUrl \in [Tabs -> 0 .. MaxDocs]
    /\ nextRef \in 0 .. MaxRefs
    /\ issued \in [Refs -> [landed : Nat, tried : Nat]]
    /\ landed \in [Tabs -> Nat] /\ tried \in [Tabs -> Nat]
    /\ written \subseteq (0 .. MaxDocs) \X Elements
    /\ blocked \in BOOLEAN
    /\ call \in Calls
    /\ calls \in 0 .. MaxCalls
    /\ answer \in [kind : Outcomes, tab : Tabs, ref : Refs \cup {None}]

(* navigate without a session has opened the first tab and captured a      *)
(* document with a button and a password field.                            *)
Init ==
    /\ exists = {First} /\ active = First
    /\ doc = [t \in Tabs |-> IF t = First THEN 1 ELSE 0]
    /\ live = [t \in Tabs |-> IF t = First THEN {1} \X FormNames ELSE {}]
    /\ host = [d \in Docs |-> "site"]
    /\ unseen = {}
    /\ nextDoc = 2
    /\ latest = [t \in Tabs |-> IF t = First THEN FirstRefs ELSE {}]
    /\ known = [t \in Tabs |-> [r \in Refs |->
                  IF t = First /\ (\E x \in FirstRefs : x.ref = r) THEN 0 ELSE None]]
    /\ gen = [t \in Tabs |-> 0]
    /\ latestUrl = [t \in Tabs |-> IF t = First THEN 1 ELSE 0]
    /\ nextRef = 2
    /\ issued = [r \in Refs |-> [landed |-> 0, tried |-> 0]]
    /\ landed = [t \in Tabs |-> 0] /\ tried = [t \in Tabs |-> 0]
    /\ written = {}
    /\ blocked = FALSE
    /\ call = NoCall
    /\ calls = 0
    /\ answer = [kind |-> "none", tab |-> First, ref |-> None]

----------------------------------------------------------------------------
(* Capturing and resolving.                                                *)

(* The nodes a capture keeps, by their places in the tree, up to the cap;  *)
(* every frame whose process cannot be attached to is left out.            *)
Captured(t, frames) ==
    LET all == {i \in DOMAIN Names : /\ <<doc[t], Names[i]>> \in live[t]
                                     /\ Names[i] = "frame" => frames}
    IN {i \in all : Cardinality({j \in all : j < i}) < MaxNodes}

(* The refs of the previous capture that name the element's backend id.    *)
Reusable(e, previous) ==
    IF IsOopif(e) THEN {}
    ELSE {r \in previous : ~r.oopif /\ r.backend = Backend(e)}

(* Mutant: a tab starts its refs over.                                     *)
RestartedBuilt(d, nodes, previous) ==
    {Resolve1(<<d, Names[i]>>, Cardinality({j \in nodes : j < i})) : i \in nodes}

(* Mutant: every capture names the elements anew.                          *)
RenamedBuilt(d, nodes, previous) ==
    {Resolve1(<<d, Names[i]>>, nextRef + Cardinality({j \in nodes : j < i})) : i \in nodes}

(* The nodes that need a ref of their own.                                 *)
Fresh(d, nodes, previous) == {i \in nodes : Reusable(<<d, Names[i]>>, previous) = {}}

(* build_tree: an element seen before keeps its ref, the others take the   *)
(* next ones of the session's counter, in tree order.                      *)
Built(d, nodes, previous) ==
    LET new    == Fresh(d, nodes, previous)
        Ref(i) == IF i \in new THEN nextRef + Cardinality({j \in new : j < i})
                  ELSE (CHOOSE r \in Reusable(<<d, Names[i]>>, previous) : TRUE).ref
    IN {Resolve1(<<d, Names[i]>>, Ref(i)) : i \in nodes}

(* install_snapshot: a ref keeps the generation it was first seen under.   *)
Install(t, url, refs, fresh) ==
    /\ latest' = [latest EXCEPT ![t] = refs]
    /\ known' = [known EXCEPT ![t] = [r \in Refs |->
                   IF @[r] = None /\ (\E x \in refs : x.ref = r)
                   THEN gen[t] ELSE @[r]]]
    /\ latestUrl' = [latestUrl EXCEPT ![t] = url]
    /\ nextRef' = nextRef + fresh
    /\ issued' = [r \in Refs |->
                   IF r >= nextRef /\ (\E x \in refs : x.ref = r)
                   THEN [landed |-> landed[t], tried |-> tried[t]] ELSE issued[r]]
    /\ UNCHANGED gen

(* resolve_locator_impl on a ref that the last capture does not have.      *)
Rejection(t, ref) ==
    IF known[t][ref] # None /\ known[t][ref] < gen[t] THEN "navigated" ELSE "unknown"

(* verify_node_live: describeNode finds a node with the id, and its role   *)
(* is the one the capture saw.                                             *)
NodesWith(t, backend) == {e \in live[t] : ~IsOopif(e) /\ Backend(e) = backend}

LiveWithRole(t, backend, role) ==
    \E e \in NodesWith(t, backend) : Role(e) = role

(* Mutant: the URL of the last snapshot instead of the live one.           *)
CachedDomainMatches(t) == latestUrl[t] # 0 /\ host[latestUrl[t]] = "site"

(* check_credential_domain on the live URL: the credential is the site's.  *)
DomainMatches(t) == doc[t] # 0 /\ host[doc[t]] = "site"

(* accepts_secret_write.                                                   *)
AcceptsSecretWrite(e) == e[2] = "password"

----------------------------------------------------------------------------
(* The awaits of each method, in order.  A method that takes a ref reads   *)
(* the live URL and resolves it in one go; every capture reads the URL     *)
(* first and the tree later.                                               *)

ActSteps      == <<"resolve", "verify", "write", "grace", "url", "tree">>
SecretSteps   == <<"resolve", "vault", "verify", "accepts", "write", "grace",
                   "url", "tree">>
EvaluateSteps == <<"resolve", "verify", "write">>
BlindSteps    == <<"grace", "url", "tree">>
SnapshotSteps == <<"url", "tree">>
NavigateSteps == <<"goto", "grace", "url", "tree">>
TabNewSteps   == <<"goto", "grace", "url", "tree">>
TabSelectSteps == <<"url", "tree">>

StepsOf(op) ==
    CASE op = "act"       -> ActSteps
      [] op = "secret"    -> SecretSteps
      [] op = "evaluate"  -> EvaluateSteps
      [] op = "blind"     -> BlindSteps
      [] op = "snapshot"  -> SnapshotSteps
      [] op = "navigate"  -> NavigateSteps
      [] op = "tabNew"    -> TabNewSteps
      [] op = "tabSelect" -> TabSelectSteps

At(step) == call.op # "none" /\ call.todo # <<>> /\ Head(call.todo) = step

Answer(kind) ==
    /\ answer' = [kind |-> kind, tab |-> call.tab, ref |-> call.ref]
    /\ call' = NoCall

(* The call goes on to its next await, or returns after the last.          *)
Continue(c) ==
    IF Len(c.todo) = 1 THEN Answer("ok")
    ELSE call' = [c EXCEPT !.todo = Tail(@)] /\ UNCHANGED answer

----------------------------------------------------------------------------
(* Calls.                                                                  *)

Start(op, t, ref) ==
    /\ call = NoCall /\ calls < MaxCalls
    /\ calls' = calls + 1
    /\ call' = [NoCall EXCEPT !.op = op, !.tab = t, !.ref = ref,
                              !.todo = StepsOf(op)]
    /\ UNCHANGED answer

(* Every method but navigate is refused while the session is blocked.      *)
Refused ==
    /\ call = NoCall /\ calls < MaxCalls /\ blocked
    /\ calls' = calls + 1
    /\ answer' = [kind |-> "blocked", tab |-> active, ref |-> None]
    /\ UNCHANGED <<pageVars, tabVars, refVars, ghostVars, blocked, call>>

RefCall(op, ref) ==
    /\ ~blocked
    /\ Start(op, active, ref)
    /\ UNCHANGED <<pageVars, tabVars, refVars, ghostVars, blocked>>

PlainCall(op) ==
    /\ ~blocked
    /\ Start(op, active, None)
    /\ UNCHANGED <<pageVars, tabVars, refVars, ghostVars, blocked>>

(* navigate on the session lifts the block before it goes.                 *)
Navigate ==
    /\ Start("navigate", active, None)
    /\ blocked' = FALSE
    /\ tried' = [tried EXCEPT ![active] = @ + 1]
    /\ UNCHANGED <<pageVars, tabVars, refVars, landed, written>>

TabNew(t) ==
    /\ ~blocked /\ t \notin exists
    /\ Start("tabNew", t, None)
    /\ doc' = [doc EXCEPT ![t] = 0]
    /\ live' = [live EXCEPT ![t] = {}]
    /\ UNCHANGED <<host, unseen, nextDoc, tabVars, refVars, ghostVars, blocked>>

TabSelect(t) ==
    /\ ~blocked /\ t \in exists
    /\ Start("tabSelect", t, None)
    /\ active' = t
    /\ UNCHANGED <<exists, pageVars, refVars, ghostVars, blocked>>

----------------------------------------------------------------------------
(* The steps of a call.                                                    *)

ResolveRef ==
    /\ At("resolve")
    /\ \E r \in latest[call.tab] :
         /\ r.ref = call.ref /\ ~r.oopif
         /\ call.op = "secret" => DomainMatches(call.tab)
         /\ Continue([call EXCEPT !.node = r.backend, !.role = r.role,
                                  !.url = doc[call.tab]])
    /\ UNCHANGED <<pageVars, tabVars, refVars, ghostVars, blocked, calls>>

RejectRef ==
    /\ At("resolve")
    /\ IF call.op = "secret" /\ ~DomainMatches(call.tab) THEN Answer("domain")
       ELSE \/ /\ \E r \in latest[call.tab] : r.ref = call.ref /\ r.oopif
               /\ Answer("oopif")
            \/ /\ \A r \in latest[call.tab] : r.ref # call.ref
               /\ Answer(Rejection(call.tab, call.ref))
    /\ UNCHANGED <<pageVars, tabVars, refVars, ghostVars, blocked, calls>>

(* CredentialStore::resolve (module Vault).                                *)
Vault ==
    /\ At("vault")
    /\ Continue(call) \/ Answer("vault")
    /\ UNCHANGED <<pageVars, tabVars, refVars, ghostVars, blocked, calls>>

Verify ==
    /\ At("verify")
    /\ IF LiveWithRole(call.tab, call.node, call.role) THEN Continue(call)
       ELSE Answer("stale")
    /\ UNCHANGED <<pageVars, tabVars, refVars, ghostVars, blocked, calls>>

(* probe_type_and_autocomplete: a node that is gone accepts nothing.       *)
Accepts ==
    /\ At("accepts")
    /\ IF \E e \in NodesWith(call.tab, call.node) : AcceptsSecretWrite(e)
       THEN Continue(call) ELSE Answer("shape")
    /\ UNCHANGED <<pageVars, tabVars, refVars, ghostVars, blocked, calls>>

(* retry_until_actionable and the dispatch: the node is looked up by its   *)
(* backend id once more.  What the page makes of it is PageChanges.        *)
Write ==
    /\ At("write")
    /\ \/ \E e \in NodesWith(call.tab, call.node) :
            /\ Continue(call)
            /\ written' = IF call.op = "secret"
                          THEN written \cup {<<call.url, e>>}
                          ELSE written
       \/ Answer("failed") /\ UNCHANGED written
    /\ UNCHANGED <<pageVars, tabVars, refVars, landed, tried, blocked, calls>>

(* A document is committed in the tab, with any subset of elements.        *)
Commit(t, h, names) ==
    /\ nextDoc \in Docs
    /\ doc' = [doc EXCEPT ![t] = nextDoc]
    /\ host' = [host EXCEPT ![nextDoc] = h]
    /\ live' = [live EXCEPT ![t] = {nextDoc} \X names]
    /\ unseen' = IF h = "internal" THEN unseen \cup {nextDoc} ELSE unseen
    /\ nextDoc' = nextDoc + 1

PageNames == {FormNames, FormNames \cup {"frame"}, {"button", "frame"}}

GotoCommits ==
    /\ At("goto")
    /\ \E h \in Hosts, names \in PageNames : Commit(call.tab, h, names)
    /\ UNCHANGED <<tabVars, refVars, ghostVars, blocked, call, calls, answer>>

(* Mutant: the generation is left as it is.                                *)
SettledQuietly ==
    /\ gen' = gen
    /\ landed' = IF call.op = "navigate" THEN [landed EXCEPT ![call.tab] = @ + 1]
                 ELSE landed

(* goto returned: navigate starts a new generation of refs.                *)
Settled ==
    /\ gen' = IF call.op = "navigate" THEN [gen EXCEPT ![call.tab] = @ + 1] ELSE gen
    /\ landed' = IF call.op = "navigate" THEN [landed EXCEPT ![call.tab] = @ + 1]
                 ELSE landed

GotoReturns ==
    /\ At("goto")
    /\ Settled
    /\ Continue(call)
    /\ UNCHANGED <<pageVars, tabVars, latest, known, latestUrl, nextRef, issued,
                   tried, written, blocked, calls>>

(* poll_until_blocked wins the race; a new tab is closed again.            *)
GotoBlocked ==
    /\ At("goto") /\ blocked
    /\ Settled
    /\ Answer("blocked")
    /\ UNCHANGED <<pageVars, tabVars, latest, known, latestUrl, nextRef, issued,
                   tried, written, blocked, calls>>

(* goto fails, before or after it committed: an early return.              *)
GotoFails ==
    /\ At("goto")
    /\ Answer("failed")
    /\ UNCHANGED <<pageVars, tabVars, refVars, ghostVars, blocked, calls>>

(* poll_blocked_grace_period; tabs New then adds the tab and selects it.   *)
Grace ==
    /\ At("grace")
    /\ IF blocked THEN Answer("blocked") /\ UNCHANGED tabVars
       ELSE /\ Continue(call)
            /\ exists' = exists \cup {call.tab}
            /\ active' = IF call.op = "tabNew" THEN call.tab ELSE active
    /\ UNCHANGED <<pageVars, refVars, ghostVars, blocked, calls>>

CaptureUrl ==
    /\ At("url")
    /\ Continue([call EXCEPT !.url = doc[call.tab]])
    /\ UNCHANGED <<pageVars, tabVars, refVars, ghostVars, blocked, calls>>

(* Mutant: navigate captures like any other call.                          *)
PreviousAlways(t) == latest[t]

(* A navigation must not take over the refs of the page it left.           *)
Previous(t) == IF call.op \in {"navigate", "tabNew"} THEN {} ELSE latest[t]

CaptureTree ==
    LET t == call.tab
        p == Previous(t)
    IN
    /\ At("tree")
    /\ \E frames \in BOOLEAN :
         LET nodes == Captured(t, frames)
             fresh == Cardinality(Fresh(doc[t], nodes, p))
         IN
         /\ nextRef + fresh <= MaxRefs
         /\ Install(t, call.url, Built(doc[t], nodes, p), fresh)
    /\ Continue(call)
    /\ UNCHANGED <<pageVars, tabVars, ghostVars, blocked, calls>>

CallFails ==
    /\ At("url") \/ At("tree") \/ At("verify") \/ At("resolve")
    /\ Answer("failed")
    /\ UNCHANGED <<pageVars, tabVars, refVars, ghostVars, blocked, calls>>

(* The call's timeout, or REQUEST_TIMEOUT, drops it at any await.          *)
Timeout ==
    /\ call # NoCall
    /\ Answer("timeout")
    /\ UNCHANGED <<pageVars, tabVars, refVars, ghostVars, blocked, calls>>

----------------------------------------------------------------------------
(* The page: it navigates by itself, after a click or on its own, changes  *)
(* its elements, and Chrome tells the listener of the main frame.          *)

PageNavigates(t) ==
    /\ t \in exists /\ doc[t] # 0
    /\ \E h \in Hosts, names \in PageNames : Commit(t, h, names)
    /\ UNCHANGED <<tabVars, refVars, ghostVars, blocked, call, calls, answer>>

PageChanges(t) ==
    /\ t \in exists /\ doc[t] # 0
    /\ \E names \in PageNames :
         live' = [live EXCEPT ![t] = {doc[t]} \X names]
    /\ UNCHANGED <<doc, host, unseen, nextDoc, tabVars, refVars, ghostVars,
                   blocked, call, calls, answer>>

FrameNavigated(d) ==
    /\ d \in unseen
    /\ unseen' = unseen \ {d}
    /\ blocked' = TRUE
    /\ UNCHANGED <<doc, live, host, nextDoc, tabVars, refVars, ghostVars, call,
                   calls, answer>>

Next ==
    \/ Refused \/ Navigate
    \/ \E op \in RefOps, r \in Refs : RefCall(op, r)
    \/ \E op \in {"blind", "snapshot"} : PlainCall(op)
    \/ \E t \in Tabs : TabNew(t) \/ TabSelect(t) \/ PageNavigates(t) \/ PageChanges(t)
    \/ ResolveRef \/ RejectRef \/ Vault \/ Verify \/ Accepts \/ Write
    \/ GotoCommits \/ GotoReturns \/ GotoBlocked \/ GotoFails \/ Grace
    \/ CaptureUrl \/ CaptureTree \/ CallFails \/ Timeout
    \/ \E d \in Docs : FrameNavigated(d)

Spec == Init /\ [][Next]_vars

----------------------------------------------------------------------------
(* Properties.                                                             *)

(* A ref names elements of one tab only, so that a ref kept from one tab   *)
(* is refused in another; and a snapshot gives no ref twice.               *)
RefsNameOneTab ==
    /\ \A t, u \in Tabs, r \in Refs :
          t # u /\ known[t][r] # None => known[u][r] = None
    /\ \A t \in Tabs : \A x, y \in latest[t] : x.ref = y.ref => x = y

(* The refs that a navigation hands out were never handed out before,      *)
(* whatever backend ids the new document uses again.                       *)
FreshAfterNavigate ==
    [][\A t \in Tabs :
         call.op \in {"navigate", "tabNew"} /\ latest'[t] # latest[t] =>
            \A x \in latest'[t], u \in Tabs : known[u][x.ref] = None]_vars

(* An element that two captures in a row saw keeps its ref, unless it is   *)
(* in a cross-origin frame: a click does not take the caller's other refs. *)
StableRefs ==
    [][\A t \in Tabs :
         call.op \notin {"navigate", "tabNew"} =>
            \A x \in latest[t], y \in latest'[t] :
               x.elem = y.elem /\ ~x.oopif => x.ref = y.ref]_vars

(* When a refusal is given, it tells the caller that the page has          *)
(* navigated since only if a navigation was begun after the ref was handed *)
(* out, and always if one was completed.                                   *)
HintTruthful ==
    call = NoCall /\ answer.ref # None /\ known[answer.tab][answer.ref] # None =>
      /\ answer.kind = "navigated" => tried[answer.tab] > issued[answer.ref].tried
      /\ answer.kind = "unknown" => landed[answer.tab] = issued[answer.ref].landed

(* A secret is typed only if the live page was of the credential's host    *)
(* when the call resolved its ref, and then into a field of that page that *)
(* takes one; or, if the page went while the vault was asked, into an      *)
(* element of a later page that uses the id of an earlier one's again.     *)
(* (The host of that page is not looked at, and if its element has the     *)
(* role and the type of the old one, verify_node_live does not "close the  *)
(* BackendNodeId-reuse TOCTOU gap", browser.rs:816.)                       *)
SecretInItsField ==
    \A w \in written :
        /\ w[1] # 0 /\ host[w[1]] = "site"
        /\ \/ w[2][1] = w[1] /\ AcceptsSecretWrite(w[2])
           \/ \E e \in Elements : e[1] < w[2][1] /\ Backend(e) = Backend(w[2])
=============================================================================
