-------------------------- MODULE NetworkCapture --------------------------
(***************************************************************************)
(* The network log of a session (native/network.rs) and the four listeners *)
(* that feed it (native/browser.rs).  Chrome tells of one request in       *)
(* order, but each kind of event has a stream and a task of its own, so    *)
(* the log may see them in any order; navigate resets the log while events *)
(* of the page it leaves are still to come, and a caller may read and      *)
(* clear it at any time.                                                   *)
(***************************************************************************)
EXTENDS Integers, Sequences, FiniteSets

CONSTANTS
    Requests,    \* request ids of Chrome
    Binary,      \* those whose content type is never buffered
    MaxHops,     \* bound: hops of a request that is redirected
    MaxEntries,  \* MAX_NETWORK_ENTRIES
    MaxYields,   \* NETWORK_RESPONSE_WAIT_YIELDS
    MaxResets    \* bound: navigations

ASSUME NetworkConstants ==
    /\ Binary \subseteq Requests
    /\ MaxHops \in Nat /\ MaxEntries \in Nat /\ MaxYields \in Nat
    /\ MaxResets \in Nat

Hops   == 1 .. MaxHops
Absent == [hop |-> 0, seen |-> FALSE]
Entry  == [id : Requests, hop : Hops, body : BOOLEAN]
Finals == {"finished", "failed"}

VARIABLES
    sent,       \* hops of each request that Chrome has sent
    ended,      \* requests that Chrome has told the end of
    answered,   \* requests that Chrome has told the response of
    coming,     \* events on their way, <<kind, request, hop>>
    partial,    \* NetworkLog::partial
    entries,    \* NetworkLog::entries
    truncated,  \* NetworkLog::truncated
    handler,    \* the loadingFinished task of each request, and its yields
    resets,     \* navigations so far
    committed,  \* the last navigation has replaced the page
    own,        \* requests begun by the page of the last navigation
    late,       \* hops of other requests, their start not told at its reset
    dropped,    \* <<id, hop>> that found the log full since it was emptied
    logged      \* per <<id, hop>>: how often it was finalised

vars == <<sent, ended, answered, coming, partial, entries, truncated, handler,
          resets, committed, own, late, dropped, logged>>

chromeVars == <<sent, ended, answered, coming>>
pageVars   == <<resets, committed, own, late>>

TypeOK ==
    /\ sent \in [Requests -> 0 .. MaxHops]
    /\ ended \subseteq Requests /\ answered \subseteq Requests
    /\ coming \subseteq ({"request", "response"} \cup Finals) \X Requests \X Hops
    /\ partial \in [Requests -> [hop : 0 .. MaxHops, seen : BOOLEAN]]
    /\ entries \in Seq(Entry)
    /\ truncated \in BOOLEAN
    /\ handler \in [Requests -> [at : {"none", "waiting", "fetching"},
                                 yields : 0 .. MaxYields]]
    /\ resets \in 0 .. MaxResets
    /\ committed \in BOOLEAN
    /\ own \subseteq Requests /\ late \subseteq Requests \X Hops
    /\ dropped \subseteq Requests \X Hops
    /\ logged \in [Requests \X Hops -> Nat]

Init ==
    /\ sent = [q \in Requests |-> 0]
    /\ ended = {} /\ answered = {} /\ coming = {}
    /\ partial = [q \in Requests |-> Absent]
    /\ entries = <<>> /\ truncated = FALSE
    /\ handler = [q \in Requests |-> [at |-> "none", yields |-> 0]]
    /\ resets = 0 /\ committed = TRUE
    /\ own = {} /\ late = {}
    /\ dropped = {}
    /\ logged = [x \in Requests \X Hops |-> 0]

Known(q) == partial[q].hop # 0

----------------------------------------------------------------------------
(* Chrome.                                                                 *)

(* requestWillBeSent: the first hop, or a redirect of one under way.  Until *)
(* the navigation commits it is the page to be left that begins requests.  *)
Send(q) ==
    /\ q \notin ended /\ q \notin answered /\ sent[q] < MaxHops
    /\ sent' = [sent EXCEPT ![q] = @ + 1]
    /\ coming' = coming \cup {<<"request", q, sent[q] + 1>>}
    /\ own' = IF sent[q] = 0 /\ committed THEN own \cup {q} ELSE own
    /\ late' = IF q \in own' THEN late ELSE late \cup {<<q, sent[q] + 1>>}
    /\ UNCHANGED <<ended, answered, partial, entries, truncated, handler,
                   resets, committed, dropped, logged>>

Respond(q) ==
    /\ sent[q] > 0 /\ q \notin ended /\ q \notin answered
    /\ answered' = answered \cup {q}
    /\ coming' = coming \cup {<<"response", q, sent[q]>>}
    /\ UNCHANGED <<sent, ended, partial, entries, truncated, handler, pageVars,
                   dropped, logged>>

End(q, how) ==
    /\ sent[q] > 0 /\ q \notin ended
    /\ how = "finished" => q \in answered
    /\ ended' = ended \cup {q}
    /\ coming' = coming \cup {<<how, q, sent[q]>>}
    /\ UNCHANGED <<sent, answered, partial, entries, truncated, handler,
                   pageVars, dropped, logged>>

(* goto replaces the page.  It may also fail and leave it.                 *)
Commit ==
    /\ ~committed /\ committed' = TRUE
    /\ UNCHANGED <<chromeVars, partial, entries, truncated, handler, resets,
                   own, late, dropped, logged>>

----------------------------------------------------------------------------
(* The log.                                                                *)

(* finish and push: q's partial becomes an entry, or finds the log full.   *)
Push(q, body) ==
    LET p == partial[q] IN
    /\ logged' = [logged EXCEPT ![<<q, p.hop>>] = @ + 1]
    /\ IF Len(entries) >= MaxEntries
       THEN /\ truncated' = TRUE
            /\ dropped' = dropped \cup {<<q, p.hop>>}
            /\ UNCHANGED entries
       ELSE /\ entries' = Append(entries,
                 [id |-> q, hop |-> p.hop, body |-> body /\ q \notin Binary])
            /\ UNCHANGED <<truncated, dropped>>

(* Mutant: the partial is left behind.                                     *)
FinaliseKeeping(q, body) ==
    IF Known(q) THEN Push(q, body) /\ UNCHANGED partial
    ELSE UNCHANGED <<partial, entries, truncated, dropped, logged>>

(* complete and on_failed: nothing happens to a request not known.         *)
Finalise(q, body) ==
    IF Known(q) THEN Push(q, body) /\ partial' = [partial EXCEPT ![q] = Absent]
    ELSE UNCHANGED <<partial, entries, truncated, dropped, logged>>

(* The events of one stream are handled in order: a hop after its          *)
(* predecessors.                                                           *)
Delivers(kind, q, h) ==
    /\ <<kind, q, h>> \in coming
    /\ \A e \in coming : e[1] = kind /\ e[2] = q => e[3] >= h
    /\ coming' = coming \ {<<kind, q, h>>}

(* on_request: a request known already was redirected, and its last hop is *)
(* finalised.                                                              *)
OnRequest(q, h) ==
    /\ Delivers("request", q, h)
    /\ IF Known(q) THEN Push(q, FALSE)
       ELSE UNCHANGED <<entries, truncated, dropped, logged>>
    /\ partial' = [partial EXCEPT ![q] = [hop |-> h, seen |-> FALSE]]
    /\ UNCHANGED <<sent, ended, answered, handler, pageVars>>

OnResponse(q, h) ==
    /\ Delivers("response", q, h)
    /\ partial' = IF Known(q) THEN [partial EXCEPT ![q].seen = TRUE] ELSE partial
    /\ UNCHANGED <<sent, ended, answered, entries, truncated, handler, pageVars,
                   dropped, logged>>

OnFailed(q, h) ==
    /\ Delivers("failed", q, h)
    /\ Finalise(q, FALSE)
    /\ UNCHANGED <<sent, ended, answered, handler, pageVars>>

(* loadingFinished starts a task of its own for the request.               *)
OnFinished(q, h) ==
    /\ Delivers("finished", q, h)
    /\ handler' = [handler EXCEPT ![q] = [at |-> "waiting", yields |-> 0]]
    /\ UNCHANGED <<sent, ended, answered, partial, entries, truncated, pageVars,
                   dropped, logged>>

(* It yields until the response was seen, but not for ever.                *)
Yield(q) ==
    /\ handler[q].at = "waiting"
    /\ ~partial[q].seen /\ handler[q].yields < MaxYields
    /\ handler' = [handler EXCEPT ![q].yields = @ + 1]
    /\ UNCHANGED <<chromeVars, partial, entries, truncated, pageVars, dropped, logged>>

(* wants_body.                                                             *)
WantsBody(q) ==
    Len(entries) < MaxEntries /\ partial[q].seen /\ q \notin Binary

WaitEnds(q) == partial[q].seen \/ handler[q].yields = MaxYields

FetchBody(q) ==
    /\ handler[q].at = "waiting" /\ WaitEnds(q) /\ WantsBody(q)
    /\ handler' = [handler EXCEPT ![q].at = "fetching"]
    /\ UNCHANGED <<chromeVars, partial, entries, truncated, pageVars, dropped, logged>>

CompleteWithout(q) ==
    /\ handler[q].at = "waiting" /\ WaitEnds(q) /\ ~WantsBody(q)
    /\ Finalise(q, FALSE)
    /\ handler' = [handler EXCEPT ![q] = [at |-> "none", yields |-> 0]]
    /\ UNCHANGED <<chromeVars, pageVars>>

(* The body came, was base64, failed or took NETWORK_BODY_FETCH_TIMEOUT.   *)
CompleteFetched(q) ==
    /\ handler[q].at = "fetching"
    /\ \E body \in BOOLEAN : Finalise(q, body)
    /\ handler' = [handler EXCEPT ![q] = [at |-> "none", yields |-> 0]]
    /\ UNCHANGED <<chromeVars, pageVars>>

(* navigate on the session: the log is emptied, then goto is called.  What *)
(* Chrome has sent and the log was not told yet is still to come.          *)
Leaves ==
    /\ resets < MaxResets
    /\ resets' = resets + 1
    /\ committed' = FALSE
    /\ own' = {}
    /\ late' = {x \in Requests \X Hops : <<"request", x[1], x[2]>> \in coming}

(* Mutant: reset forgets the requests under way.                           *)
ResetEntries ==
    /\ Leaves
    /\ entries' = <<>> /\ truncated' = FALSE /\ dropped' = {}
    /\ UNCHANGED <<chromeVars, partial, handler, logged>>

Reset ==
    /\ Leaves
    /\ partial' = [q \in Requests |-> Absent]
    /\ entries' = <<>> /\ truncated' = FALSE /\ dropped' = {}
    /\ UNCHANGED <<chromeVars, handler, logged>>

(* network_requests with clear: requests under way stay.                   *)
QueryClear ==
    /\ entries # <<>>
    /\ entries' = <<>> /\ truncated' = FALSE /\ dropped' = {}
    /\ UNCHANGED <<chromeVars, partial, handler, pageVars, logged>>

Handle(q) ==
    \/ \E h \in Hops : \/ OnRequest(q, h) \/ OnResponse(q, h)
                       \/ OnFailed(q, h) \/ OnFinished(q, h)
    \/ Yield(q) \/ FetchBody(q) \/ CompleteWithout(q) \/ CompleteFetched(q)

Next ==
    \/ \E q \in Requests : Send(q) \/ Respond(q) \/ Handle(q)
    \/ \E q \in Requests, how \in Finals : End(q, how)
    \/ Commit \/ Reset \/ QueryClear

Spec == Init /\ [][Next]_vars

----------------------------------------------------------------------------
(* Properties.                                                             *)

(* What the reset does ensure: an entry is of the page navigated to, or of *)
(* a request whose start the log had not been told at the reset.  Late     *)
(* responses, ends, redirects and bodies bring nothing back that was       *)
(* recorded before it.  (So the list is not quite what the tool says, the  *)
(* requests made "since its last navigation", mcp_router.rs:744: a request *)
(* of the page that was left is in it when its start is told late.)        *)
EntriesSinceReset ==
    \A i \in 1 .. Len(entries) :
        \/ entries[i].id \in own
        \/ <<entries[i].id, entries[i].hop>> \in late

(* Every hop is finalised at most once, whatever the order of the streams; *)
(* the log is bounded, and says it is truncated exactly when an entry was  *)
(* lost since it was emptied.                                              *)
LogAccounts ==
    /\ \A x \in Requests \X Hops : logged[x] <= 1
    /\ Len(entries) <= MaxEntries
    /\ truncated <=> dropped # {}
=============================================================================
