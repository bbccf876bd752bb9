----------------------------- MODULE ToolCalls -----------------------------
(***************************************************************************)
(* The layer between a tool call and the browser driver: which tools a     *)
(* front end offers (thin-client/src/mcp_router.rs, wasm/src/lib.rs) and a *)
(* daemon knows (cli/src/main.rs, wasm/src/lib.rs), how a request becomes  *)
(* a sequence of driver and file operations (core/src/tools/browser.rs,    *)
(* search.rs, credential.rs), and what is left when one of them fails, the *)
(* call times out, or a call of the other lane comes between two of them.  *)
(*                                                                         *)
(* The driver is abstract: an operation happens at once, its effect and    *)
(* its answer may each fail to come.  Its own steps are those of           *)
(* BrowserPage and BrowserSessions.                                        *)
(***************************************************************************)
EXTENDS TextViews

CONSTANTS
    Callers,        \* the two lanes of the daemon
    Setups,         \* front end, daemon, tool profile and vault of a run
    Scripts,        \* bound: the sequences of requests that are made
    Elements, Box,  \* of the form: text fields, and a check box
    Values,         \* what a field may hold or be asked to hold
    NoRef,          \* an empty refId
    MaxDocs,        \* bound: documents of the page
    MaxEntries,     \* bound: recorded network requests
    FindCap,        \* MAX_FIND_MATCHES
    BodyBudget,     \* MAX_NETWORK_RESPONSE_BODY_BYTES
    CountDefault, CountCeiling  \* of clamp_search_count

ASSUME FormHasBox ==
    /\ Box \in Elements /\ NoRef \notin Elements
    /\ {"", "empty", "true", "false"} \subseteq Values

ASSUME Caps ==
    /\ {FindCap, BodyBudget, CountCeiling} \subseteq Nat
    /\ CountDefault \in 1 .. CountCeiling

(* The text an answer is cut out of, and the arguments that say how.       *)
IsView(v) ==
    \/ v.kind = "none"
    \/ /\ v.kind = "grep" /\ {v.lines, v.context} \subseteq Nat
       /\ v.hits \subseteq 1 .. v.lines
    \/ /\ v.kind = "page" /\ v.lines \in Nat
       /\ {v.offset, v.limit} \subseteq Nat \cup {Absent}
    \/ /\ v.kind = "chunk" /\ v.pieces \in Seq(Range(v.pieces))
       /\ \A p \in Range(v.pieces) : p.fences \in Nat
    \/ v.kind = "find" /\ v.nodes \in Nat /\ v.hits \subseteq 1 .. v.nodes
    \/ v.kind = "bodies" /\ v.sizes \in Seq(Nat)
    \/ v.kind = "count" /\ v.count \in Nat \cup {Absent}

FieldTypes == {"textbox", "combobox", "checkbox"}

(* What the schemas of the tools admit, and the callers' part: a field is  *)
(* asked for as what it is on the page, a box as a check box.  A form      *)
(* without fields is among the arguments in bad.                           *)
IsRequest(r) ==
    /\ r.el \in Elements \cup {NoRef} /\ r.value \in Values
    /\ r.fields \in Seq([type : FieldTypes, el : Elements \cup {NoRef}, value : Values])
    /\ {r.save, r.clear, r.filter} \subseteq BOOLEAN /\ IsView(r.view)
    /\ r.tool = "fill_form" /\ r.fields = <<>> => "fields" \in r.bad
    /\ \A i \in DOMAIN r.fields : r.fields[i].el # NoRef =>
          (r.fields[i].type = "checkbox" <=> r.fields[i].el = Box)
    /\ r.tool = "set_checked" =>
          "refId" \in r.bad \/ (r.el = Box /\ r.value \in {"true", "false"})
    /\ r.tool \in {"type", "select_option"} => r.el # Box

ASSUME ScriptsAreRequests ==
    \A s \in Scripts : s \in Seq(Range(s)) /\ \A r \in Range(s) : IsRequest(r)

VARIABLES
    setup,
    script,
    page,           \* of the session that the calls share
    call,           \* per caller
    begun,          \* number of calls so far
    searches,       \* the calls whose search session is open
    excused,        \* history: calls that timed out, or whose opening or
                    \* closing of a search session failed
    written,        \* history: entries in a HAR file
    told,           \* history: entries an answer returned
    dropped,        \* history: entries a call cleared without having read
                    \* them, or that went with their page
    met             \* history: elements changed by others since a call
                    \* last handled them

vars == <<setup, script, page, call, begun, searches, excused, written,
          told, dropped, met>>
history == <<excused, written, told, dropped, met>>

Blank == [e \in Elements |-> IF e = Box THEN "false" ELSE "empty"]

----------------------------------------------------------------------------
(* The front ends.                                                         *)

Categories ==
    [web |-> {"fetch_page", "brave_web_search", "browser_web_search", "read_website",
              "read_saved_page", "download_website"},
     core |-> {"navigate", "click", "type", "snapshot", "close_session",
               "close_all_sessions", "list_sessions", "tabs"},
     advanced |-> {"type_secret", "hover", "select_option", "press_key", "wait_for",
                   "screenshot", "pdf", "evaluate", "get_html", "network_requests",
                   "fill_form", "set_checked", "history", "resize", "find"},
     docs |-> {"index_docs", "search_docs", "list_indexed_sources",
               "remove_indexed_source"},
     daemon |-> {"daemon_status"}]

(* The methods of the router, each a call of the daemon's tool of the same *)
(* name: for the web, for the browser's basic and further tools, for the   *)
(* index; and the status, which calls no tool.                             *)
RouterWeb == {"fetch_page", "brave_web_search", "browser_web_search", "read_website",
              "read_saved_page", "download_website"}
RouterCore == {"navigate", "click", "type", "type_secret", "snapshot"}
RouterSessions == {"close_session", "list_sessions", "close_all_sessions", "tabs"}
RouterInput == {"hover", "select_option", "press_key", "wait_for", "screenshot", "pdf",
                "evaluate", "get_html"}
RouterPage == {"fill_form", "set_checked", "history", "resize", "network_requests", "find"}
RouterDocs == {"index_docs", "search_docs", "list_indexed_sources", "remove_indexed_source"}
RouterStatus == {"daemon_status"}
RouterTools == UNION {RouterWeb, RouterCore, RouterSessions, RouterInput, RouterPage,
                      RouterDocs, RouterStatus}

(* A profile is a set of tokens, Absent when the variable is not set.      *)
ToolsOutside(profile) ==
    LET wanted == profile \cap DOMAIN Categories
    IN  IF profile \in {Absent, {}, {"all"}} \/ wanted = {} THEN {}
        ELSE UNION {Categories[c] : c \in DOMAIN Categories \ wanted}

NodeListed == {"fetch_page", "brave_web_search", "read_website", "read_saved_page",
               "download_website", "navigate", "click", "type", "snapshot",
               "close_session", "list_sessions", "close_all_sessions", "tabs", "hover",
               "select_option", "press_key", "wait_for", "network_requests"}

(* The Node front end passes on any name.                                  *)
Passes(tool) ==
    setup.front = "native" => tool \in RouterTools \ ToolsOutside(setup.profile)

----------------------------------------------------------------------------
(* The handlers: the operations a request r asks for.  r.bad names the     *)
(* arguments that are empty, malformed or not allowed.                     *)

Op(op, r) == [op |-> op, el |-> r.el, value |-> r.value, clear |-> FALSE]
Refuse    == [op |-> "refuse", el |-> NoRef, value |-> "", clear |-> FALSE]

Needs(args, r, plan) == IF args \cap r.bad # {} THEN <<Refuse>> ELSE plan

Navigate(r)         == Needs({"url"}, r, <<Op("navigate", r)>>)
Click(r)            == Needs({"sessionId", "refId"}, r, <<Op("click", r)>>)
Type(r)             == Needs({"sessionId", "refId"}, r, <<Op("type", r)>>)
Snapshot(r)         == Needs({"sessionId"}, r, <<Op("look", r)>>)
CloseSession(r)     == Needs({"sessionId"}, r, <<Op("close", r)>>)
ListSessions(r)     == <<Op("list", r)>>
CloseAllSessions(r) == <<Op("list", r), Op("closeAll", r)>>
Tabs(r)             == Needs({"sessionId", "url", "index"}, r, <<Op("tabs", r)>>)
Hover(r)            == Needs({"sessionId", "refId"}, r, <<Op("hover", r)>>)
SelectOption(r)     == Needs({"sessionId", "refId", "values"}, r, <<Op("select", r)>>)
PressKey(r)         == Needs({"sessionId", "key"}, r, <<Op("key", r)>>)
WaitFor(r)          == Needs({"sessionId", "condition"}, r, <<Op("look", r)>>)
Evaluate(r)         == Needs({"sessionId", "function"}, r, <<Op("run", r)>>)
GetHtml(r)          == Needs({"sessionId"}, r, <<Op("look", r)>>)
History(r)          == Needs({"sessionId"}, r, <<Op("navigate", r)>>)
Resize(r)           == Needs({"sessionId", "size"}, r, <<Op("look", r)>>)
Find(r)             == Needs({"sessionId", "query"}, r, <<Op("look", r)>>)

(* The bytes go to a file or into the answer.                              *)
SavedOr(r) == IF r.save THEN <<Op("write", r)>> ELSE <<>>
Screenshot(r) == Needs({"sessionId"}, r, <<Op("look", r)>> \o SavedOr(r))
Pdf(r)        == Needs({"sessionId"}, r, <<Op("look", r)>> \o SavedOr(r))

(* What set_checked does once it has read the box.                         *)
Settle(o, value) == [o EXCEPT !.op = IF o.value = value THEN "keep" ELSE "click"]

SetChecked(r) == Needs({"sessionId", "refId"}, r, <<Op("check", r)>>)

(* The check of a field comes when its turn comes.                         *)
FieldOp(f) ==
    IF f.el = NoRef THEN Refuse
    ELSE IF f.type = "checkbox"
    THEN IF f.value \in {"true", "false"} THEN Op("check", f) ELSE Refuse
    ELSE Op(IF f.type = "textbox" THEN "type" ELSE "select", f)

FillForm(r) ==
    Needs({"sessionId", "fields"}, r, [i \in DOMAIN r.fields |-> FieldOp(r.fields[i])])

(* Mutant: cleared by the read, also when a file is to be written.         *)
NetworkRequestsAtOnce(r) ==
    LET read  == [Op("log", r) EXCEPT !.clear = r.clear]
        clear == IF r.save /\ r.clear THEN <<Op("clear", r)>> ELSE <<>>
    IN  Needs({"sessionId"}, r, <<read>> \o SavedOr(r) \o clear)

NetworkRequests(r) ==
    LET read  == [Op("log", r) EXCEPT !.clear = r.clear /\ ~r.save]
        clear == IF r.save /\ r.clear THEN <<Op("clear", r)>> ELSE <<>>
    IN  Needs({"sessionId"}, r, <<read>> \o SavedOr(r) \o clear)

TypeSecret(r) == Needs({"sessionId", "refId"}, r, <<Op("secret", r)>>)

(* One session for the search, closed also when the extraction fails.      *)
BrowserWebSearch(r) ==
    Needs({"query"}, r, <<Op("openSearch", r), Op("extract", r), Op("closeSearch", r)>>)
BraveWebSearch(r) == Needs({"apiKey", "query"}, r, <<Op("get", r)>>)

SearchCount(count) ==
    IF count \in {Absent, 0} THEN CountDefault ELSE Lower(count, CountCeiling)

(* The tools of WebCrawl and DocsIndex, one operation here.                *)
Elsewhere(r) == <<Op("elsewhere", r)>>

----------------------------------------------------------------------------
(* What a daemon has registered.                                           *)

NativeWeb(r) ==
    [fetch_page |-> Elsewhere(r), brave_web_search |-> BraveWebSearch(r),
     browser_web_search |-> BrowserWebSearch(r), read_website |-> Elsewhere(r),
     read_saved_page |-> Elsewhere(r), download_website |-> Elsewhere(r)]
NativeCore(r) ==
    [navigate |-> Navigate(r), click |-> Click(r), type |-> Type(r),
     snapshot |-> Snapshot(r), close_session |-> CloseSession(r),
     list_sessions |-> ListSessions(r), close_all_sessions |-> CloseAllSessions(r),
     tabs |-> Tabs(r)]
NativeAdvanced(r) ==
    [hover |-> Hover(r), select_option |-> SelectOption(r), press_key |-> PressKey(r),
     wait_for |-> WaitFor(r), screenshot |-> Screenshot(r), pdf |-> Pdf(r),
     evaluate |-> Evaluate(r), get_html |-> GetHtml(r), fill_form |-> FillForm(r),
     set_checked |-> SetChecked(r), history |-> History(r), resize |-> Resize(r),
     network_requests |-> NetworkRequests(r), find |-> Find(r)]
NativeDocs(r) ==
    [index_docs |-> Elsewhere(r), search_docs |-> Elsewhere(r),
     list_indexed_sources |-> Elsewhere(r), remove_indexed_source |-> Elsewhere(r)]

(* Without a vault the handler refuses before it looks at the arguments.   *)
Secret(r) == [type_secret |-> IF setup.vault THEN TypeSecret(r) ELSE <<Refuse>>]

(* The Node daemon has no forms, no documents and no search.               *)
NodeWeb == {"fetch_page", "brave_web_search", "read_website", "read_saved_page",
            "download_website"}
NodeBrowser == {"navigate", "click", "type", "snapshot", "close_session",
                "list_sessions", "close_all_sessions", "tabs", "hover",
                "select_option", "press_key", "wait_for", "network_requests",
                "type_secret"}
NodeNames == NodeWeb \cup NodeBrowser

(* Handlers g, registered after f.                                         *)
Joint(f, g) == [t \in DOMAIN f \cup DOMAIN g |-> IF t \in DOMAIN g THEN g[t] ELSE f[t]]

NativeHandlers(r) ==
    Joint(Joint(NativeWeb(r), NativeCore(r)),
          Joint(NativeAdvanced(r), Joint(NativeDocs(r), Secret(r))))
Handlers(r) ==
    IF setup.daemon = "native" THEN NativeHandlers(r)
    ELSE [t \in NodeNames |-> NativeHandlers(r)[t]]

(* json_handler and handle_request.                                        *)
Plan(r) == IF r.tool \notin DOMAIN Handlers(r) \/ "params" \in r.bad THEN <<Refuse>>
           ELSE Handlers(r)[r.tool]

(* On Node a secret takes three calls into the page, the others one.       *)
Parts(plan) ==
    IF setup.daemon = "native" \/ plan[1].op # "secret" THEN plan
    ELSE [i \in 1 .. 3 |-> [plan[1] EXCEPT !.op = <<"url", "resolve", "secret">>[i]]]

----------------------------------------------------------------------------
(* The driver.                                                             *)

OnElement == {"click", "type", "select", "check", "hover"}
OnSession == OnElement \cup
    {"keep", "look", "key", "run", "tabs", "close", "log", "clear", "url", "secret"}

(* Whether operation o of call c finds its session and its element.        *)
CanDo(c, o) ==
    /\ o.op # "refuse"
    /\ o.op \in OnSession => page.open
    /\ o.op \in OnElement => call[c].doc = page.doc

Flip(value) == IF value = "true" THEN "false" ELSE "true"
Renewed ==
    IF page.doc = MaxDocs THEN {}
    ELSE {[page EXCEPT !.open = TRUE, !.doc = @ + 1, !.form = Blank, !.log = {}]}

(* The pages an operation may leave.                                       *)
Outcomes(o) ==
    LET set(e, v) == [page EXCEPT !.form[e] = v] IN
    CASE o.op = "click" /\ o.el = Box -> {set(Box, Flip(page.form[Box]))}
      [] o.op = "key" -> {page, set(Box, Flip(page.form[Box]))}
      [] o.op \in {"type", "select"} -> {set(o.el, o.value)}
      [] o.op = "run" -> {page} \cup {set(e, o.value) : e \in Elements \ {Box}}
      [] o.op = "navigate" -> Renewed
      [] o.op = "tabs" -> {page} \cup Renewed
      [] o.op = "close" -> {[page EXCEPT !.open = FALSE, !.form = Blank, !.log = {}]}
      [] o.op = "closeAll" -> {page, [page EXCEPT !.open = FALSE, !.form = Blank, !.log = {}]}
      [] o.op = "clear" \/ (o.op = "log" /\ o.clear) -> {[page EXCEPT !.log = {}]}
      [] OTHER -> {page}

Changed(p) == IF p.doc # page.doc \/ p.open # page.open THEN Elements
              ELSE {e \in Elements : p.form[e] # page.form[e]}

(* Call c leaves the page as p, having read the entries in seen.           *)
Leaves(c, o, p, seen) ==
    LET handled == IF o.op \in {"check", "type", "select"} THEN {o.el} ELSE {} IN
    /\ page' = p
    /\ dropped' = dropped \cup (page.log \ (p.log \cup seen))
    /\ met' = [d \in Callers |->
                 IF d # c THEN met[d] \cup Changed(p)
                 ELSE IF p.doc # page.doc THEN Elements ELSE met[d] \ handled]

(* The search sessions after operation o of call id.                       *)
Searches(id, o) ==
    CASE o.op = "openSearch" -> searches \cup {id}
      [] o.op = "closeSearch" -> searches \ {id}
      [] OTHER -> searches

----------------------------------------------------------------------------
(* What an answer says of a text: each view is that of one tool.           *)

View(v) ==
    CASE v.kind = "grep" -> GrepBlocks(v.lines, v.hits, v.context)
      [] v.kind = "page" -> Paginate(v.lines, v.offset, v.limit)
      [] v.kind = "chunk" -> Chunk(v.pieces)
      [] v.kind = "find" -> FindMatches(v.nodes, v.hits, FindCap)
      [] v.kind = "bodies" -> BodiesWithin(v.sizes, BodyBudget)
      [] v.kind = "count" -> SearchCount(v.count)
      [] OTHER -> Absent

Promised(v, out) ==
    CASE v.kind = "grep" -> GrepPromise(v.lines, v.hits, v.context, out)
      [] v.kind = "page" -> PagePromise(v.lines, v.offset, v.limit, out)
      [] v.kind = "chunk" -> ChunkPromise(v.pieces, out)
      [] v.kind = "find" -> FindPromise(v.hits, FindCap, out)
      [] v.kind = "bodies" -> BodiesPromise(v.sizes, BodyBudget, out)
      [] v.kind = "count" ->
            out \in 1 .. CountCeiling /\ (v.count \in 1 .. CountCeiling => out = v.count)
      [] OTHER -> TRUE

----------------------------------------------------------------------------

Quiet == [at |-> "idle"]

Init ==
    /\ setup \in Setups
    /\ script \in Scripts
    /\ page = [open |-> TRUE, doc |-> 1, form |-> Blank, log |-> {}, next |-> 1]
    /\ call = [c \in Callers |-> Quiet]
    /\ begun = 0
    /\ searches = {}
    /\ excused = {} /\ written = {} /\ told = {} /\ dropped = {}
    /\ met = [c \in Callers |-> {}]

(* The caller takes its refs from the document it last saw.                *)
Begin(c) ==
    /\ call[c].at = "idle" /\ begun < Len(script)
    /\ begun' = begun + 1
    /\ LET r    == script[begun + 1]
           here == setup.front = "native" /\ r.tool = "daemon_status"
           sent == [at |-> "sent", req |-> r, id |-> begun + 1, doc |-> page.doc,
                    plan |-> <<>>, filled |-> 0, ok |-> TRUE, before |-> page.form,
                    seen |-> {}, out |-> Absent]
       IN  call' = [call EXCEPT ![c] =
                      IF Passes(r.tool) /\ ~here THEN sent
                      ELSE [sent EXCEPT !.at = "answer", !.ok = here]]
    /\ met' = [met EXCEPT ![c] = {}]
    /\ UNCHANGED <<setup, script, page, searches, excused, written, told, dropped>>

Dispatch(c) ==
    /\ call[c].at = "sent"
    /\ call' = [call EXCEPT ![c].at = "running", ![c].plan = Parts(Plan(call[c].req))]
    /\ UNCHANGED <<setup, script, page, begun, searches, history>>

(* Call k goes on with rest, or answers.                                   *)
GoesOn(c, k, rest) ==
    LET ends == rest = <<>> IN
    /\ call' = [call EXCEPT ![c] =
                  [k EXCEPT !.plan = rest, !.at = IF ends THEN "answer" ELSE "running",
                            !.out = IF ends /\ k.ok THEN View(k.req.view) ELSE Absent]]
    /\ told' = IF ends /\ k.ok THEN told \cup k.seen ELSE told

Matching(r, log) == IF r.filter THEN {e \in log : e % 2 = 1} ELSE log

(* The next operation does what it is asked to.                            *)
Succeeds(c) ==
    /\ call[c].at = "running"
    /\ LET k    == call[c]
           o    == Head(k.plan)
           seen == IF o.op = "log" THEN Matching(k.req, page.log) ELSE k.seen
           rest == IF o.op # "check" THEN Tail(k.plan)
                   ELSE <<Settle(o, IF page.form[o.el] = "true" THEN "true" ELSE "false")>>
                        \o Tail(k.plan)
           done == o.op \in {"keep", "click", "type", "select"}
       IN  /\ CanDo(c, o)
           /\ \E p \in Outcomes(o) : Leaves(c, o, p, seen)
           /\ GoesOn(c, [k EXCEPT !.seen = seen, !.filled = IF done THEN @ + 1 ELSE @], rest)
           /\ searches' = Searches(k.id, o)
           /\ written' = IF o.op = "write" THEN written \cup k.seen ELSE written
    /\ UNCHANGED <<setup, script, begun, excused>>

(* Mutant: an error of the extraction is returned at once.                 *)
ToleratesCloseOnly(o) == o.op \in {"closeSearch", "closeAll"}

(* The call goes on although o failed.                                     *)
Tolerates(o) == o.op \in {"extract", "closeSearch", "closeAll"}

(* Mutant: the fields after one that failed are filled all the same.       *)
RestOfAll(k) == Tail(k.plan)

RestAfter(k) == IF Tolerates(Head(k.plan)) THEN Tail(k.plan) ELSE <<>>

(* It answers an error: before it had an effect, or after.  The navigation *)
(* of a search that is redirected to a blocked host leaves its session     *)
(* behind (native/browser.rs:1885-1906).                                   *)
Fails(c) ==
    /\ call[c].at = "running"
    /\ LET k == call[c]
           o == Head(k.plan)
           late == CanDo(c, o) /\ o.op \notin {"log", "clear"}
       IN  /\ \E p \in {page} \cup (IF late THEN Outcomes(o) ELSE {}) :
                  Leaves(c, Refuse, p, k.seen)
           /\ GoesOn(c, [k EXCEPT !.ok = o.op \in {"closeSearch", "closeAll"} /\ @],
                     RestAfter(k))
           /\ searches' \in {searches, Searches(k.id, o)}
           /\ excused' = IF o.op \in {"openSearch", "closeSearch"}
                         THEN excused \cup {k.id} ELSE excused
    /\ UNCHANGED <<setup, script, begun, written>>

(* The call is dropped at an operation, which may have happened.           *)
Timeout(c) ==
    /\ call[c].at = "running" /\ setup.daemon = "native"
    /\ LET k == call[c]
           o == Head(k.plan)
           late == CanDo(c, o) /\ o.op \notin {"log", "clear"}
       IN  /\ \E p \in {page} \cup (IF late THEN Outcomes(o) ELSE {}) :
                  Leaves(c, Refuse, p, k.seen)
           /\ searches' \in {searches, Searches(k.id, o)}
           /\ call' = [call EXCEPT ![c] = [k EXCEPT !.ok = FALSE, !.at = "answer"]]
           /\ excused' = excused \cup {k.id}
    /\ UNCHANGED <<setup, script, begun, written, told>>

Return(c) ==
    /\ call[c].at = "answer"
    /\ call' = [call EXCEPT ![c] = Quiet]
    /\ UNCHANGED <<setup, script, page, begun, searches, history>>

PageNavigates ==
    /\ page.open
    /\ \E p \in Renewed :
        page' = p /\ dropped' = dropped \cup page.log
    /\ met' = [c \in Callers |-> Elements]
    /\ UNCHANGED <<setup, script, call, begun, searches, excused, written, told>>

PageRequests ==
    /\ page.open /\ page.next <= MaxEntries
    /\ page' = [page EXCEPT !.log = @ \cup {page.next}, !.next = @ + 1]
    /\ UNCHANGED <<setup, script, call, begun, searches, history>>

Next ==
    \/ \E c \in Callers :
        Begin(c) \/ Dispatch(c) \/ Succeeds(c) \/ Fails(c) \/ Timeout(c) \/ Return(c)
    \/ PageNavigates
    \/ PageRequests

Spec == Init /\ [][Next]_vars

----------------------------------------------------------------------------
(* Tables.                                                                 *)

(* A tool is in one category, the router has a method for each, a daemon   *)
(* of its own kind knows what a front end offers, and the two lists of the *)
(* Node build differ by type_secret only.                                  *)
ASSUME CategoriesPartition ==
    /\ UNION {Categories[c] : c \in DOMAIN Categories} = RouterTools
    /\ \A c, d \in DOMAIN Categories : c # d => Categories[c] \cap Categories[d] = {}
    /\ NodeNames \ NodeListed = {"type_secret"} /\ NodeListed \subseteq NodeNames

----------------------------------------------------------------------------
(* Properties.                                                             *)

FormTools == {"fill_form", "set_checked", "type", "select_option"}
FieldsOf(r) ==
    IF r.tool = "fill_form" THEN r.fields ELSE <<[el |-> r.el, value |-> r.value]>>

(* What a call that fills fields leaves when it answers, as far as nobody  *)
(* else changed the element since: each field handled holds the last value *)
(* asked for, whether it was typed, selected, or a box clicked or let be;  *)
(* the fields behind the one that failed are as they were.  (Of the one    *)
(* that failed nothing is known.)                                          *)
FieldsLand ==
    \A c \in Callers :
        LET k == call[c] IN
        k.at = "answer" /\ k.req.tool \in FormTools =>
            LET fields == FieldsOf(k.req) IN
            /\ k.ok => k.filled = Len(fields)
            /\ \A e \in Elements \ met[c] :
                LET hits == {i \in 1 .. k.filled : fields[i].el = e} IN
                \/ ~k.ok /\ k.filled < Len(fields) /\ fields[k.filled + 1].el = e
                \/ page.form[e] = IF hits = {} THEN k.before[e]
                                  ELSE fields[CHOOSE i \in hits : \A j \in hits : j <= i].value

(* An entry the page has recorded is still in the log, or somebody has it  *)
(* in an answer or a file, or it came after the read that a clear follows, *)
(* or did not match its filter, or went with its page.                     *)
EntriesKept ==
    1 .. page.next - 1 \subseteq page.log \cup told \cup written \cup dropped

(* The calls that have still to answer.                                    *)
Unanswered == {call[c].id : c \in {d \in Callers : call[d].at = "running"}}

(* A search whose session was opened closes it before it answers, also     *)
(* when the extraction fails: a session that stays is of a call that was   *)
(* dropped, or whose navigation or close itself failed.  (search.rs:173-   *)
(* 176 holds that a failed navigation has no session yet; it may.)         *)
OpenedSearchesClose == searches \subseteq excused \cup Unanswered

(* The text an answer returns is the one asked for.                        *)
TextViewsAgree ==
    \A c \in Callers :
        call[c].at = "answer" /\ call[c].out # Absent =>
            Promised(call[c].req.view, call[c].out)
=============================================================================
