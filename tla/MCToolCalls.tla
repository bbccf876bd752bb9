---------------------------- MODULE MCToolCalls ----------------------------
EXTENDS ToolCalls

CONSTANTS c1, c2, f1, f2, box

MCValues == {"", "empty", "x", "y", "z", "yes", "true", "false"}

MCSetups ==
    {[front |-> "native", daemon |-> "native", profile |-> Absent, vault |-> TRUE],
     [front |-> "native", daemon |-> "native", profile |-> {"advanced", "typo"}, vault |-> FALSE],
     [front |-> "node", daemon |-> "node", profile |-> Absent, vault |-> TRUE]}

Ask(tool) == [tool |-> tool, bad |-> {}, el |-> NoRef, value |-> "", fields |-> <<>>,
              save |-> FALSE, clear |-> FALSE, filter |-> FALSE, view |-> [kind |-> "none"]]
On(tool, el, value) == [Ask(tool) EXCEPT !.el = el, !.value = value]
Form(fields) == [Ask("fill_form") EXCEPT !.fields = fields]
F(type, el, value) == [type |-> type, el |-> el, value |-> value]
Log(save, clear, filter) ==
    [Ask("network_requests") EXCEPT !.save = save, !.clear = clear, !.filter = filter]
See(tool, view) == [Ask(tool) EXCEPT !.view = view]

Forms ==
    {Form(<<F("textbox", f1, "x"), F("checkbox", box, "true"), F("combobox", f2, "y")>>),
     Form(<<F("checkbox", box, "true"), F("textbox", f1, "x"), F("checkbox", box, "false")>>),
     Form(<<F("textbox", f1, "x"), F("checkbox", box, "yes"), F("textbox", f2, "y")>>),
     Form(<<F("checkbox", box, "true"), F("textbox", NoRef, "x")>>),
     On("set_checked", box, "true"), On("set_checked", box, "false")}

Meddlers ==
    {On("click", box, ""), On("set_checked", box, "true"), On("type", f1, "z"),
     Ask("press_key"), On("evaluate", f2, "z"), Ask("navigate"), Ask("tabs")}

Logs  == {Log(s, c, f) : s, c, f \in BOOLEAN}
Plain == {Ask(t) : t \in RouterTools \ {"fill_form", "set_checked", "click", "type",
                                         "hover", "select_option"}}
         \cup {[Ask("navigate") EXCEPT !.bad = {"url"}], [Ask("find") EXCEPT !.bad = {"params"}],
               On("hover", f1, ""), On("select_option", f1, "x"), Ask("no_such_tool")}

Counts == {Absent} \cup 0 .. 4
Pieces == [fences : 0 .. 2, heading : {Absent, "g", "h"}]
Views ==
    {See("read_saved_page", [kind |-> "grep", lines |-> n, hits |-> h, context |-> k]) :
        n \in 5 .. 5, h \in SUBSET (1 .. 5), k \in 0 .. 1}
    \cup {See("read_saved_page", [kind |-> "page", lines |-> n, offset |-> o, limit |-> l]) :
            n \in 0 .. 4, o \in {Absent, 0, 1, 3, 7}, l \in {Absent, 0, 1, 7}}
    \cup {See("index_docs", [kind |-> "chunk", pieces |-> s]) :
            s \in UNION {[1 .. n -> Pieces] : n \in 0 .. 3}}
    \cup {See("find", [kind |-> "find", nodes |-> 4, hits |-> h]) : h \in SUBSET (1 .. 4)}
    \cup {See("network_requests", [kind |-> "bodies", sizes |-> s]) : s \in [1 .. 3 -> 0 .. 3]}
    \cup {See("brave_web_search", [kind |-> "count", count |-> n]) : n \in Counts}

MCScripts ==
    {<<a, b>> : a \in Forms, b \in Meddlers}
    \cup {<<a, b>> : a \in Logs, b \in Logs \cup {Ask("close_session")}}
    \cup {<<a, Ask("close_all_sessions")>> : a \in Plain}
    \cup {<<Ask("browser_web_search"), Ask("browser_web_search")>>}
    \cup {<<v>> : v \in Views}
=============================================================================
