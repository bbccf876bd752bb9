-------------------------- MODULE ToolCallsProofs --------------------------
(***************************************************************************)
(* Proofs about ToolCalls and CredentialVault.                             *)
(*                                                                         *)
(* ToolCalls, for any callers, requests, elements and bounds: the fields   *)
(* of a form land, no entry of the network log that was read is lost, and  *)
(* no search leaves its session behind.  None of the three is inductive.   *)
(* What they lean on is the plan that a running call has left (PlanLeft),  *)
(* which every handler's plan starts as and every operation keeps: of a    *)
(* form, one operation for each field still to come, and only the head may *)
(* be a box that was read; of the log, that it is cleared in the step that *)
(* answers or after a file has what was read; of a search, that the close  *)
(* comes last.  With it FormInv says what the form holds after each field, *)
(* SearchInv who will close each open session.  What an answer says of a   *)
(* text is right for every text (ViewIsRight): the loops are folds, with   *)
(* an invariant over positions each.                                       *)
(***************************************************************************)
EXTENDS ToolCalls, CredentialVault, FiniteSetTheorems, SequenceTheorems, TLAPS

(* The operations of the driver.                                           *)
OpNames ==
    {"refuse", "navigate", "click", "type", "look", "close", "list", "closeAll", "tabs",
     "hover", "select", "key", "run", "write", "keep", "check", "log", "clear", "secret",
     "url", "resolve", "openSearch", "extract", "closeSearch", "get", "elsewhere"}

(* An operation of a plan, and what keeps it apart from others.            *)
Operations == [op : OpNames, el : Elements \cup {NoRef}, value : Values, clear : BOOLEAN]
Boxes == {"true", "false"}

Ordinary(o) ==
    /\ o.op \notin {"log", "clear", "openSearch", "closeSearch", "type", "select", "check",
                  "keep"}
    /\ ~o.clear

(* The operation for a field of a form; the head of a plan may be that of  *)
(* a box that was read, to be clicked or let be.                           *)
Settled(o) == o.op \in {"keep", "click"}
OpFor(o, field) ==
    /\ o.el = field.el /\ o.value = field.value
    /\ o.op \in {"type", "select"} => o.el # Box
    /\ o.op \in {"check", "keep", "click"} => o.el = Box /\ o.value \in Boxes
    /\ o.op \in {"type", "select", "check", "keep", "click"}

----------------------------------------------------------------------------
(* What remains of the plan of a running call.                             *)

(* Of a form: the operations of the fields still to be handled.            *)
FieldsLeft(k) ==
    LET fields == FieldsOf(k.req) IN
    /\ k.ok /\ k.filled \in Nat /\ k.filled <= Len(fields)
    /\ \A i \in 1 .. Len(k.plan) : k.plan[i].op # "refuse" =>
          /\ Len(k.plan) = Len(fields) - k.filled
          /\ OpFor(k.plan[i], fields[k.filled + i]) /\ (Settled(k.plan[i]) => i = 1)

(* Of the network log: it is cleared in the step that answers, or by the   *)
(* last operation, when a file has what was read.  (w: what files have.)    *)
LogLeft(k, w) ==
    LET n == Len(k.plan)
        op == k.plan[1].op IN
    /\ k.ok /\ op \in {"refuse", "log", "write", "clear"}
    /\ op = "refuse" => n = 1
    /\ op = "log" => k.seen = {} /\ (k.plan[1].clear => n = 1)
    /\ op = "log" /\ n # 1 => /\ k.plan[2].op = "write"
                             /\ (n = 2 \/ (n = 3 /\ k.plan[3].op = "clear"))
    /\ op = "write" => n = 1 \/ (n = 2 /\ k.plan[2].op = "clear")
    /\ op = "clear" => n = 1 /\ k.seen \subseteq w
    /\ \A i \in 1 .. n : k.plan[i].op # "log" => ~k.plan[i].clear

(* Of a search: the session is closed at the end.                          *)
SearchLeft(k) ==
    LET n == Len(k.plan)
        op == k.plan[1].op IN
    /\ op \in {"refuse", "openSearch", "extract", "closeSearch"}
    /\ op = "openSearch" => n = 3 /\ k.plan[2].op = "extract" /\ k.plan[3].op = "closeSearch"
    /\ op = "extract" => n = 2 /\ k.plan[2].op = "closeSearch"
    /\ op \in {"refuse", "closeSearch"} => n = 1
    /\ \A i \in 1 .. n : ~k.plan[i].clear

PlanLeft(k, w) ==
    /\ k.plan \in Seq(Operations) /\ k.plan # <<>>
    /\ k.req.tool # "network_requests" => k.seen = {}
    /\ k.req.tool \in FormTools => FieldsLeft(k)
    /\ k.req.tool = "network_requests" => LogLeft(k, w)
    /\ k.req.tool = "browser_web_search" => SearchLeft(k)
    /\ k.req.tool \notin FormTools \cup {"network_requests", "browser_web_search"} =>
          \A i \in 1 .. Len(k.plan) : Ordinary(k.plan[i])

CallFields == {"at", "req", "id", "doc", "plan", "filled", "ok", "before", "seen", "out"}

CallInv(k, w) ==
    \/ k = Quiet
    \/ /\ DOMAIN k = CallFields /\ k.at \in {"sent", "running", "answer"}
       /\ IsRequest(k.req)
       /\ k.at = "sent" => k.ok /\ k.seen = {} /\ k.filled = 0
       /\ k.at = "running" => PlanLeft(k, w)

Pages == [open : BOOLEAN, doc : Nat, form : [Elements -> Values], log : SUBSET Nat, next : Nat]

PageInv == page \in Pages /\ page.form[Box] \in Boxes

CallsInv == DOMAIN call = Callers /\ \A c \in Callers : CallInv(call[c], written)

RunInv ==
    /\ script \in Scripts /\ begun \in Nat /\ DOMAIN met = Callers
    /\ PageInv /\ CallsInv

(* A search session is open only while a call is on its way to close it.   *)
Closes(k, id) ==
    /\ k.at = "running" /\ k.id = id
    /\ k.req.tool = "browser_web_search" /\ k.plan[1].op \in {"extract", "closeSearch"}
SearchInv == \A id \in searches \ excused : \E c \in Callers : Closes(call[c], id)

----------------------------------------------------------------------------
(* The value an element has when a call has handled its first n fields.    *)
Wanted(k, e) ==
    LET fields == FieldsOf(k.req)
        hits == {i \in 1 .. k.filled : fields[i].el = e} IN
    IF hits = {} THEN k.before[e]
    ELSE fields[CHOOSE i \in hits : \A j \in hits : j <= i].value

(* With form f, of which others changed the elements in m.                 *)
FormInv(k, f, m) ==
    k.at # "idle" /\ k.req.tool \in FormTools =>
        LET fields == FieldsOf(k.req)
            o == k.plan[1] IN
        /\ k.filled \in Nat
        /\ k.at = "sent" => \A e \in Elements \ m : f[e] = k.before[e]
        /\ k.at = "running" =>
              /\ \A e \in Elements \ m : f[e] = Wanted(k, e) \/ (Settled(o) /\ e = Box)
              /\ Settled(o) /\ Box \notin m => (o.op = "keep" <=> f[Box] = o.value)
        /\ k.at = "answer" =>
              /\ k.ok => k.filled = Len(fields)
              /\ \A e \in Elements \ m :
                    \/ (~k.ok /\ k.filled < Len(fields) /\ fields[k.filled + 1].el = e)
                    \/ f[e] = Wanted(k, e)

FormsInv == \A c \in Callers : FormInv(call[c], page.form, met[c])

----------------------------------------------------------------------------
(* The plans of the handlers.                                              *)

(* A plan that is right for a call that starts with it.                    *)
Starts(k, r) == k.req = r /\ k.ok /\ k.filled = 0 /\ k.seen = {}
PlanOf(r, plan) ==
    /\ \A k, w : Starts(k, r) /\ k.plan = plan => PlanLeft(k, w)
    /\ r.tool \in FormTools => ~Settled(plan[1])

(* The tools of which a property tells something, and their operations.    *)
Singular == FormTools \cup {"network_requests", "browser_web_search"}
Singled == {"log", "clear", "openSearch", "closeSearch", "type", "select", "check",
            "keep"}

LEMMA Joined ==
    ASSUME NEW S, NEW s \in Seq(S), NEW t \in Seq(S)
    PROVE  /\ s \o t \in Seq(S) /\ Len(s \o t) = Len(s) + Len(t)
           /\ \A i \in 1 .. Len(s) : (s \o t)[i] = s[i]
           /\ \A i \in 1 .. Len(t) : (s \o t)[Len(s) + i] = t[i]
  OBVIOUS

LEMMA ItemOf == ASSUME NEW S, NEW s \in Seq(S), NEW i \in 1 .. Len(s) PROVE s[i] \in S
  OBVIOUS

LEMMA OpIs ==
    ASSUME NEW r, r.el \in Elements \cup {NoRef}, r.value \in Values, NEW op \in OpNames
    PROVE  /\ Op(op, r) \in Operations
           /\ Op(op, r).op = op /\ Op(op, r).el = r.el /\ Op(op, r).value = r.value
           /\ ~Op(op, r).clear
  BY DEF Op, Operations

LEMMA RefuseIs ==
    Refuse \in Operations /\ Refuse.op = "refuse" /\ ~Refuse.clear
  BY FormHasBox DEF Refuse, Operations, OpNames

LEMMA FieldsAre ==
    ASSUME NEW r, IsRequest(r), r.tool \in FormTools
    PROVE  /\ Len(FieldsOf(r)) \in Nat
           /\ r.tool = "fill_form" => /\ FieldsOf(r) = r.fields
                                      /\ Len(r.fields) # 0 \/ "fields" \in r.bad
           /\ r.tool # "fill_form" => /\ Len(FieldsOf(r)) = 1
                                      /\ FieldsOf(r)[1].el = r.el /\ FieldsOf(r)[1].value = r.value
  BY DEF FieldsOf, IsRequest

LEMMA RefusedIs ==
    ASSUME NEW r, IsRequest(r) PROVE PlanOf(r, <<Refuse>>)
<1> SUFFICES ASSUME NEW k, NEW w, Starts(k, r), k.plan = <<Refuse>> PROVE PlanLeft(k, w)
  BY RefuseIs DEF PlanOf, Settled
<1>1. k.req = r /\ k.ok /\ k.filled = 0 /\ k.seen = {}
  BY DEF Starts
<1>2. /\ k.plan \in Seq(Operations) /\ k.plan # <<>> /\ Len(k.plan) = 1
      /\ k.plan[1].op = "refuse" /\ ~k.plan[1].clear
  BY RefuseIs
<1>3. \A i \in 1 .. Len(k.plan) : k.plan[i].op = "refuse" /\ ~k.plan[i].clear
  BY <1>2
<1>4. ASSUME r.tool \in FormTools PROVE FieldsLeft(k)
  <2>1. Len(FieldsOf(r)) \in Nat
    BY <1>4, FieldsAre
  <2> QED
    BY <1>1, <1>3, <2>1 DEF FieldsLeft
<1>5. LogLeft(k, w) /\ SearchLeft(k)
  BY <1>1, <1>2, <1>3 DEF LogLeft, SearchLeft
<1>6. \A i \in 1 .. Len(k.plan) : Ordinary(k.plan[i])
  BY <1>3 DEF Ordinary
<1> QED
  BY <1>1, <1>2, <1>4, <1>5, <1>6 DEF PlanLeft

LEMMA NeedsIs ==
    ASSUME NEW r, IsRequest(r), NEW args, NEW plan, PlanOf(r, plan)
    PROVE  PlanOf(r, Needs(args, r, plan))
  BY RefusedIs DEF Needs

LEMMA OneOpIs ==
    ASSUME NEW r, IsRequest(r), r.tool \notin Singular, NEW op \in OpNames \ Singled
    PROVE  PlanOf(r, <<Op(op, r)>>)
<1> SUFFICES ASSUME NEW k, NEW w, Starts(k, r), k.plan = <<Op(op, r)>> PROVE PlanLeft(k, w)
  BY DEF PlanOf, Singular
<1>1. /\ k.plan \in Seq(Operations) /\ k.plan # <<>> /\ Len(k.plan) = 1
      /\ k.plan[1].op = op /\ ~k.plan[1].clear
  BY OpIs DEF IsRequest
<1>2. \A i \in 1 .. Len(k.plan) : Ordinary(k.plan[i])
  BY <1>1 DEF Ordinary, Singled
<1> QED
  BY <1>1, <1>2 DEF PlanLeft, Singular, Starts

LEMMA TwoOpsAre ==
    ASSUME NEW r, IsRequest(r), r.tool \notin Singular,
           NEW op \in OpNames \ Singled, NEW op2 \in OpNames \ Singled
    PROVE  PlanOf(r, <<Op(op, r), Op(op2, r)>>)
<1> SUFFICES ASSUME NEW k, NEW w, Starts(k, r), k.plan = <<Op(op, r), Op(op2, r)>>
             PROVE  PlanLeft(k, w)
  BY DEF PlanOf, Singular
<1>1. /\ Op(op, r) \in Operations /\ Op(op, r).op = op /\ ~Op(op, r).clear
      /\ Op(op2, r) \in Operations /\ Op(op2, r).op = op2 /\ ~Op(op2, r).clear
  BY OpIs DEF IsRequest
<1>2. /\ k.plan \in Seq(Operations) /\ k.plan # <<>> /\ Len(k.plan) = 2
      /\ k.plan[1].op = op /\ ~k.plan[1].clear /\ k.plan[2].op = op2 /\ ~k.plan[2].clear
  BY <1>1
<1>3. \A i \in 1 .. Len(k.plan) : Ordinary(k.plan[i])
  BY <1>2 DEF Ordinary, Singled
<1> QED
  BY <1>2, <1>3 DEF PlanLeft, Singular, Starts

LEMMA OneFieldIs ==
    ASSUME NEW r, IsRequest(r), r.tool \in FormTools \ {"fill_form"},
           NEW op \in {"type", "select", "check"},
           op = "check" => r.el = Box /\ r.value \in Boxes, op # "check" => r.el # Box
    PROVE  PlanOf(r, <<Op(op, r)>>)
<1>1. op \in OpNames
  BY DEF OpNames
<1>2. /\ Op(op, r) \in Operations /\ Op(op, r).op = op
      /\ Op(op, r).el = r.el /\ Op(op, r).value = r.value
  BY <1>1, OpIs DEF IsRequest
<1>3. ~Settled(<<Op(op, r)>>[1])
  BY <1>2 DEF Settled
<1>4. ASSUME NEW k, NEW w, Starts(k, r), k.plan = <<Op(op, r)>> PROVE PlanLeft(k, w)
  <2>1. /\ k.plan \in Seq(Operations) /\ k.plan # <<>> /\ Len(k.plan) = 1
        /\ k.plan[1] = Op(op, r)
    BY <1>2, <1>4
  <2>2. /\ Len(FieldsOf(r)) = 1
        /\ FieldsOf(r)[1].el = r.el /\ FieldsOf(r)[1].value = r.value
    BY FieldsAre
  <2>3. OpFor(k.plan[1], FieldsOf(r)[1]) /\ ~Settled(k.plan[1])
    BY <1>2, <2>1, <2>2 DEF OpFor, Settled
  <2>4. FieldsLeft(k)
    <3>1. \A i \in 1 .. Len(k.plan) : i = 1 /\ k.filled + i = 1
      BY <1>4, <2>1 DEF Starts
    <3> QED
      BY <1>4, <2>1, <2>2, <2>3, <3>1 DEF FieldsLeft, Starts
  <2> QED
    BY <1>4, <2>1, <2>4 DEF PlanLeft, FormTools, Starts
<1> QED
  BY <1>3, <1>4 DEF PlanOf

LEMMA FieldOpIs ==
    ASSUME NEW f, f.el \in Elements \cup {NoRef}, f.value \in Values, f.type \in FieldTypes,
           f.el # NoRef => (f.type = "checkbox" <=> f.el = Box)
    PROVE  /\ FieldOp(f) \in Operations /\ ~Settled(FieldOp(f))
           /\ FieldOp(f).op # "refuse" => OpFor(FieldOp(f), f)
<1>1. CASE FieldOp(f) = Refuse
  BY <1>1, RefuseIs DEF Settled
<1>2. CASE FieldOp(f) # Refuse
  <2>1. PICK op \in {"check", "type", "select"} :
           /\ FieldOp(f) = Op(op, f) /\ f.el # NoRef
           /\ op = "check" <=> f.type = "checkbox"
           /\ op = "check" => f.value \in Boxes
    BY <1>2 DEF FieldOp, Boxes
  <2>2. op \in OpNames
    BY DEF OpNames
  <2>3. /\ Op(op, f) \in Operations /\ Op(op, f).op = op
        /\ Op(op, f).el = f.el /\ Op(op, f).value = f.value
    BY <2>2, OpIs
  <2> QED
    BY <2>1, <2>3 DEF OpFor, Settled
<1> QED
  BY <1>1, <1>2

LEMMA FormIs ==
    ASSUME NEW r, IsRequest(r), r.tool = "fill_form"
    PROVE  PlanOf(r, FillForm(r))
<1>1. CASE {"sessionId", "fields"} \cap r.bad # {}
  BY <1>1, RefusedIs DEF FillForm, Needs
<1>2. CASE {"sessionId", "fields"} \cap r.bad = {}
  <2>1. r.fields \in Seq([type : FieldTypes, el : Elements \cup {NoRef}, value : Values])
    BY DEF IsRequest
  <2>2. PICK n \in Nat : n = Len(r.fields) /\ DOMAIN r.fields = 1 .. n
    BY <2>1
  <2>3. n # 0
    BY <1>2, <2>1, <2>2 DEF IsRequest
  <2>4. FillForm(r) = [i \in 1 .. n |-> FieldOp(r.fields[i])]
    BY <1>2, <2>2 DEF FillForm, Needs
  <2>5. ASSUME NEW i \in 1 .. n
        PROVE  /\ FillForm(r)[i] \in Operations /\ ~Settled(FillForm(r)[i])
               /\ FillForm(r)[i].op # "refuse" => OpFor(FillForm(r)[i], r.fields[i])
    <3>1. r.fields[i] \in [type : FieldTypes, el : Elements \cup {NoRef}, value : Values]
      BY <2>1, <2>2, ItemOf
    <3>2. r.fields[i].el # NoRef => (r.fields[i].type = "checkbox" <=> r.fields[i].el = Box)
      BY <2>2 DEF IsRequest
    <3>3. FillForm(r)[i] = FieldOp(r.fields[i])
      BY <2>4
    <3> QED
      BY <3>1, <3>2, <3>3, FieldOpIs
  <2>6. FillForm(r) \in Seq(Operations) /\ Len(FillForm(r)) = n /\ FillForm(r) # <<>>
    BY <2>3, <2>4, <2>5
  <2>7. ~Settled(FillForm(r)[1])
    BY <2>2, <2>3, <2>5
  <2>8. ASSUME NEW k, NEW w, Starts(k, r), k.plan = FillForm(r) PROVE PlanLeft(k, w)
    <3>1. FieldsOf(k.req) = r.fields /\ k.filled = 0 /\ k.ok /\ k.req.tool = "fill_form"
      BY <2>8 DEF FieldsOf, Starts
    <3>2. \A i \in 1 .. Len(k.plan) : i \in 1 .. n /\ k.filled + i = i
      BY <2>6, <2>8, <3>1
    <3>3. FieldsLeft(k)
      BY <2>2, <2>5, <2>6, <2>8, <3>1, <3>2 DEF FieldsLeft
    <3> QED
      BY <2>6, <2>8, <3>1, <3>3 DEF PlanLeft, FormTools, Starts
  <2> QED
    BY <2>7, <2>8 DEF PlanOf
<1> QED
  BY <1>1, <1>2

LEMMA SearchIs ==
    ASSUME NEW r, IsRequest(r), r.tool = "browser_web_search"
    PROVE  PlanOf(r, BrowserWebSearch(r))
<1>1. ASSUME NEW k, NEW w, Starts(k, r),
             k.plan = <<Op("openSearch", r), Op("extract", r), Op("closeSearch", r)>>
      PROVE  PlanLeft(k, w)
  <2>1. ASSUME NEW op \in {"openSearch", "extract", "closeSearch"}
        PROVE  Op(op, r) \in Operations /\ Op(op, r).op = op /\ ~Op(op, r).clear
    <3>1. op \in OpNames
      BY DEF OpNames
    <3> QED
      BY <3>1, OpIs DEF IsRequest
  <2>2. /\ k.plan \in Seq(Operations) /\ k.plan # <<>> /\ Len(k.plan) = 3
        /\ k.plan[1].op = "openSearch" /\ k.plan[2].op = "extract"
        /\ k.plan[3].op = "closeSearch"
        /\ ~k.plan[1].clear /\ ~k.plan[2].clear /\ ~k.plan[3].clear
    BY <1>1, <2>1
  <2>3. \A i \in 1 .. Len(k.plan) : ~k.plan[i].clear
    BY <2>2
  <2>4. SearchLeft(k)
    BY <2>2, <2>3 DEF SearchLeft
  <2> QED
    BY <1>1, <2>2, <2>4 DEF PlanLeft, FormTools, Starts
<1> QED
  BY <1>1, NeedsIs DEF PlanOf, BrowserWebSearch, FormTools

LEMMA LogIs ==
    ASSUME NEW r, IsRequest(r), r.tool = "network_requests"
    PROVE  PlanOf(r, NetworkRequests(r))
<1>1. PICK read : read = [Op("log", r) EXCEPT !.clear = r.clear /\ ~r.save]
  OBVIOUS
<1>2. ASSUME NEW op \in {"log", "write", "clear"}
      PROVE  Op(op, r) \in Operations /\ Op(op, r).op = op /\ ~Op(op, r).clear
  <2>1. op \in OpNames
    BY DEF OpNames
  <2> QED
    BY <2>1, OpIs DEF IsRequest
<1>3. r.clear \in BOOLEAN /\ r.save \in BOOLEAN
  BY DEF IsRequest
<1>4. read \in Operations /\ read.op = "log" /\ (read.clear <=> r.clear /\ ~r.save)
  BY <1>1, <1>2, <1>3 DEF Operations
<1>5. PICK save : save = SavedOr(r)
  OBVIOUS
<1>6. PICK clear : clear = IF r.save /\ r.clear THEN <<Op("clear", r)>> ELSE <<>>
  OBVIOUS
<1>7. /\ save \in Seq(Operations) /\ clear \in Seq(Operations)
      /\ ~r.save => Len(save) = 0 /\ Len(clear) = 0
      /\ r.save => /\ Len(save) = 1 /\ save[1].op = "write" /\ ~save[1].clear
                   /\ ~r.clear => Len(clear) = 0
                   /\ r.clear => Len(clear) = 1 /\ clear[1].op = "clear" /\ ~clear[1].clear
  BY <1>2, <1>5, <1>6 DEF SavedOr
<1>8. ASSUME NEW k, NEW w, Starts(k, r), k.plan = <<read>> \o save \o clear
      PROVE  PlanLeft(k, w)
  <2>1. PICK front : front = <<read>> \o save
    OBVIOUS
  <2>2. <<read>> \in Seq(Operations) /\ Len(<<read>>) = 1 /\ <<read>>[1] = read
    BY <1>4
  <2>3. /\ front \in Seq(Operations) /\ Len(front) = 1 + Len(save) /\ front[1] = read
        /\ Len(save) = 1 => front[2] = save[1]
    BY <1>7, <2>1, <2>2, Joined
  <2>4. k.plan = front \o clear
    BY <1>8, <2>1
  <2>5. /\ k.plan \in Seq(Operations) /\ Len(k.plan) = Len(front) + Len(clear)
        /\ \A i \in 1 .. Len(front) : k.plan[i] = front[i]
        /\ Len(clear) = 1 => k.plan[Len(front) + 1] = clear[1]
    <3>1. front \in Seq(Operations) /\ clear \in Seq(Operations)
      BY <1>7, <2>3
    <3>2. /\ front \o clear \in Seq(Operations) /\ Len(front \o clear) = Len(front) + Len(clear)
          /\ \A i \in 1 .. Len(front) : (front \o clear)[i] = front[i]
          /\ \A i \in 1 .. Len(clear) : (front \o clear)[Len(front) + i] = clear[i]
      BY <3>1, Joined
    <3> QED
      BY <2>4, <3>2
  <2>6. CASE ~r.save
    <3>1. Len(k.plan) = 1 /\ k.plan[1] = read /\ k.plan # <<>>
      BY <1>7, <2>3, <2>5, <2>6
    <3>2. \A i \in 1 .. Len(k.plan) : k.plan[i].op = "log"
      BY <1>4, <3>1
    <3>3. LogLeft(k, w)
      BY <1>4, <1>8, <3>1, <3>2 DEF LogLeft, Starts
    <3> QED
      BY <1>8, <2>5, <3>1, <3>3 DEF PlanLeft, FormTools, Starts
  <2>7. CASE r.save
    <3>1. /\ k.plan[1] = read /\ ~read.clear /\ k.plan # <<>>
          /\ k.plan[2].op = "write" /\ ~k.plan[2].clear
      BY <1>4, <1>7, <2>3, <2>5, <2>7
    <3>2. CASE ~r.clear
      <4>1. Len(k.plan) = 2
        <5>1. Len(clear) = 0 /\ Len(save) = 1
          BY <1>7, <2>7, <3>2
        <5> QED
          BY <2>3, <2>5, <5>1
      <4>2. \A i \in 1 .. Len(k.plan) : ~k.plan[i].clear
        BY <3>1, <4>1
      <4>3. LogLeft(k, w)
        BY <1>4, <1>8, <3>1, <4>1, <4>2 DEF LogLeft, Starts
      <4> QED
        BY <1>8, <2>5, <3>1, <4>3 DEF PlanLeft, FormTools, Starts
    <3>3. CASE r.clear
      <4>1. Len(k.plan) = 3 /\ k.plan[3].op = "clear" /\ ~k.plan[3].clear
        <5>1. Len(save) = 1 /\ Len(clear) = 1 /\ clear[1].op = "clear" /\ ~clear[1].clear
          BY <1>7, <2>7, <3>3
        <5>2. Len(front) = 2
          BY <2>3, <5>1
        <5> QED
          BY <2>5, <5>1, <5>2
      <4>2. \A i \in 1 .. Len(k.plan) : ~k.plan[i].clear
        BY <3>1, <4>1
      <4>3. LogLeft(k, w)
        BY <1>4, <1>8, <3>1, <4>1, <4>2 DEF LogLeft, Starts
      <4> QED
        BY <1>8, <2>5, <3>1, <4>3 DEF PlanLeft, FormTools, Starts
    <3> QED
      BY <3>2, <3>3
  <2> QED
    BY <2>6, <2>7
<1> QED
  BY <1>1, <1>5, <1>6, <1>8, NeedsIs DEF PlanOf, NetworkRequests, FormTools

LEMMA OrdinaryHandlers ==
    ASSUME NEW r, IsRequest(r), r.tool \notin Singular,
           NEW plan \in {Elsewhere(r), BraveWebSearch(r), Navigate(r), Click(r), Snapshot(r),
                         CloseSession(r), ListSessions(r), Tabs(r), Hover(r), PressKey(r),
                         WaitFor(r), Evaluate(r), GetHtml(r), History(r), Resize(r), Find(r),
                         TypeSecret(r)}
    PROVE  PlanOf(r, plan)
<1>1. ASSUME NEW op \in {"elsewhere", "get", "navigate", "click", "look", "close", "list",
                         "tabs", "hover", "key", "run", "secret"}
      PROVE  PlanOf(r, <<Op(op, r)>>)
  <2>1. op \in OpNames \ Singled
    BY DEF OpNames, Singled
  <2> QED
    BY <2>1, OneOpIs
<1>2. /\ PlanOf(r, Elsewhere(r)) /\ PlanOf(r, BraveWebSearch(r)) /\ PlanOf(r, Navigate(r))
      /\ PlanOf(r, Click(r)) /\ PlanOf(r, Snapshot(r))
  BY <1>1, NeedsIs DEF Elsewhere, BraveWebSearch, Navigate, Click, Snapshot
<1>3. /\ PlanOf(r, CloseSession(r)) /\ PlanOf(r, ListSessions(r)) /\ PlanOf(r, Tabs(r))
      /\ PlanOf(r, Hover(r)) /\ PlanOf(r, PressKey(r))
  BY <1>1, NeedsIs DEF CloseSession, ListSessions, Tabs, Hover, PressKey
<1>4. /\ PlanOf(r, WaitFor(r)) /\ PlanOf(r, Evaluate(r)) /\ PlanOf(r, GetHtml(r))
      /\ PlanOf(r, History(r)) /\ PlanOf(r, Resize(r))
  BY <1>1, NeedsIs DEF WaitFor, Evaluate, GetHtml, History, Resize
<1>5. PlanOf(r, Find(r)) /\ PlanOf(r, TypeSecret(r))
  BY <1>1, NeedsIs DEF Find, TypeSecret
<1> HIDE DEF PlanOf
<1> QED
  BY <1>2, <1>3, <1>4, <1>5

(* What joins two lists of operations is their operations, in order.      *)
LEMMA JoinedOperations ==
    ASSUME NEW s \in Seq(Operations), NEW t \in Seq(Operations)
    PROVE  /\ s \o t \in Seq(Operations) /\ Len(s \o t) = Len(s) + Len(t)
           /\ \A i \in 1 .. Len(s) : (s \o t)[i] = s[i]
           /\ \A i \in 1 .. Len(t) : (s \o t)[Len(s) + i] = t[i]
  BY Joined

LEMMA OrdinaryOpsAre ==
    ASSUME NEW r, r.tool \notin Singular,
           NEW s \in Seq(Operations), NEW t \in Seq(Operations), Len(s) = 1, Ordinary(s[1]),
           \A i \in 1 .. Len(t) : Ordinary(t[i])
    PROVE  PlanOf(r, s \o t)
<1> SUFFICES ASSUME NEW k, NEW w, Starts(k, r), k.plan = s \o t PROVE PlanLeft(k, w)
  BY DEF PlanOf, Singular
<1>1. /\ k.plan \in Seq(Operations) /\ Len(k.plan) = 1 + Len(t) /\ k.plan[1] = s[1]
      /\ \A i \in 1 .. Len(t) : k.plan[1 + i] = t[i]
  <2>1. /\ s \o t \in Seq(Operations) /\ Len(s \o t) = Len(s) + Len(t)
        /\ \A i \in 1 .. Len(s) : (s \o t)[i] = s[i]
        /\ \A i \in 1 .. Len(t) : (s \o t)[Len(s) + i] = t[i]
    BY JoinedOperations
  <2>2. 1 \in 1 .. Len(s)
    OBVIOUS
  <2> QED
    BY <2>1, <2>2
<1>2. k.plan # <<>>
  BY <1>1
<1>3. ASSUME NEW i \in 1 .. Len(k.plan) PROVE Ordinary(k.plan[i])
  <2>1. i = 1 \/ (i - 1 \in 1 .. Len(t) /\ 1 + (i - 1) = i)
    BY <1>1
  <2> QED
    BY <1>1, <2>1
<1> QED
  BY <1>1, <1>2, <1>3 DEF PlanLeft, Singular, Starts

LEMMA FileHandlers ==
    ASSUME NEW r, IsRequest(r), r.tool \notin Singular,
           NEW plan \in {Screenshot(r), Pdf(r), CloseAllSessions(r)}
    PROVE  PlanOf(r, plan)
<1>1. ASSUME NEW op \in {"look", "list", "closeAll", "write"} PROVE op \in OpNames \ Singled
  BY DEF OpNames, Singled
<1>2. PlanOf(r, CloseAllSessions(r))
  BY <1>1, TwoOpsAre DEF CloseAllSessions
<1>3. PlanOf(r, <<Op("look", r)>> \o SavedOr(r))
  <2>1. PICK look, save : look = <<Op("look", r)>> /\ save = SavedOr(r)
    OBVIOUS
  <2>2. \A op \in {"look", "write"} : Op(op, r) \in Operations /\ Ordinary(Op(op, r))
    BY <1>1, OpIs DEF IsRequest, Ordinary, Singled
  <2>3. /\ look \in Seq(Operations) /\ Len(look) = 1 /\ Ordinary(look[1])
        /\ save \in Seq(Operations) /\ \A i \in 1 .. Len(save) : Ordinary(save[i])
    BY <2>1, <2>2 DEF SavedOr
  <2>4. PlanOf(r, look \o save)
    BY <2>3, OrdinaryOpsAre
  <2> QED
    BY <2>1, <2>4
<1>4. PlanOf(r, Screenshot(r)) /\ PlanOf(r, Pdf(r))
  BY <1>3, NeedsIs DEF Screenshot, Pdf
<1> QED
  BY <1>2, <1>4

LEMMA FieldHandlers ==
    ASSUME NEW r, IsRequest(r)
    PROVE  /\ r.tool = "type" => PlanOf(r, Type(r))
           /\ r.tool = "select_option" => PlanOf(r, SelectOption(r))
           /\ r.tool = "set_checked" => PlanOf(r, SetChecked(r))
<1>1. ASSUME r.tool = "type" PROVE PlanOf(r, Type(r))
  <2>1. PlanOf(r, <<Op("type", r)>>)
    BY <1>1, OneFieldIs DEF FormTools, IsRequest
  <2> QED
    BY <2>1, NeedsIs DEF Type
<1>2. ASSUME r.tool = "select_option" PROVE PlanOf(r, SelectOption(r))
  <2>1. PlanOf(r, <<Op("select", r)>>)
    BY <1>2, OneFieldIs DEF FormTools, IsRequest
  <2> QED
    BY <2>1, NeedsIs DEF SelectOption
<1>3. ASSUME r.tool = "set_checked" PROVE PlanOf(r, SetChecked(r))
  <2>1. CASE "refId" \in r.bad
    BY <2>1, RefusedIs DEF SetChecked, Needs
  <2>2. CASE "refId" \notin r.bad
    <3>1. PlanOf(r, <<Op("check", r)>>)
      BY <1>3, <2>2, OneFieldIs DEF FormTools, IsRequest, Boxes
    <3> QED
      BY <3>1, NeedsIs DEF SetChecked
  <2> QED
    BY <2>1, <2>2
<1> QED
  BY <1>1, <1>2, <1>3

(* The tables of a daemon.                                                 *)
LEMMA WebPlans ==
    ASSUME NEW r, IsRequest(r), r.tool \in DOMAIN NativeWeb(r)
    PROVE  PlanOf(r, NativeWeb(r)[r.tool])
<1>1. CASE r.tool = "browser_web_search"
  <2>1. NativeWeb(r)[r.tool] = BrowserWebSearch(r)
    BY <1>1 DEF NativeWeb
  <2> QED
    BY <1>1, <2>1, SearchIs
<1>2. CASE r.tool # "browser_web_search"
  <2>1. /\ r.tool \notin Singular
        /\ NativeWeb(r)[r.tool] \in {Elsewhere(r), BraveWebSearch(r)}
    BY <1>2 DEF NativeWeb, Singular, FormTools
  <2> QED
    BY <2>1, OrdinaryHandlers
<1> QED
  BY <1>1, <1>2

LEMMA CorePlans ==
    ASSUME NEW r, IsRequest(r), r.tool \in DOMAIN NativeCore(r)
    PROVE  PlanOf(r, NativeCore(r)[r.tool])
<1>1. CASE r.tool = "type"
  <2>1. NativeCore(r)[r.tool] = Type(r)
    BY <1>1 DEF NativeCore
  <2> QED
    BY <1>1, <2>1, FieldHandlers
<1>2. CASE r.tool = "close_all_sessions"
  <2>1. NativeCore(r)[r.tool] = CloseAllSessions(r) /\ r.tool \notin Singular
    BY <1>2 DEF NativeCore, Singular, FormTools
  <2> QED
    BY <2>1, FileHandlers
<1>3. CASE r.tool \notin {"type", "close_all_sessions"}
  <2>1. /\ r.tool \notin Singular
        /\ NativeCore(r)[r.tool] \in {Navigate(r), Click(r), Snapshot(r), CloseSession(r),
                                      ListSessions(r), Tabs(r)}
    BY <1>3 DEF NativeCore, Singular, FormTools
  <2> QED
    BY <2>1, OrdinaryHandlers
<1> QED
  BY <1>1, <1>2, <1>3

LEMMA AdvancedPlans ==
    ASSUME NEW r, IsRequest(r), r.tool \in DOMAIN NativeAdvanced(r)
    PROVE  PlanOf(r, NativeAdvanced(r)[r.tool])
<1>1. CASE r.tool \in {"select_option", "set_checked"}
  <2>1. /\ r.tool = "select_option" => NativeAdvanced(r)[r.tool] = SelectOption(r)
        /\ r.tool = "set_checked" => NativeAdvanced(r)[r.tool] = SetChecked(r)
    BY DEF NativeAdvanced
  <2> QED
    BY <1>1, <2>1, FieldHandlers
<1>2. CASE r.tool = "fill_form"
  <2>1. NativeAdvanced(r)[r.tool] = FillForm(r)
    BY <1>2 DEF NativeAdvanced
  <2> QED
    BY <1>2, <2>1, FormIs
<1>3. CASE r.tool = "network_requests"
  <2>1. NativeAdvanced(r)[r.tool] = NetworkRequests(r)
    BY <1>3 DEF NativeAdvanced
  <2> QED
    BY <1>3, <2>1, LogIs
<1>4. CASE r.tool \in {"screenshot", "pdf"}
  <2>1. NativeAdvanced(r)[r.tool] \in {Screenshot(r), Pdf(r)} /\ r.tool \notin Singular
    BY <1>4 DEF NativeAdvanced, Singular, FormTools
  <2> QED
    BY <2>1, FileHandlers
<1>5. CASE r.tool \notin {"select_option", "set_checked", "fill_form", "network_requests",
                          "screenshot", "pdf"}
  <2>1. /\ r.tool \notin Singular
        /\ NativeAdvanced(r)[r.tool] \in {Hover(r), PressKey(r), WaitFor(r), Evaluate(r),
                                          GetHtml(r), History(r), Resize(r), Find(r)}
    BY <1>5 DEF NativeAdvanced, Singular, FormTools
  <2> QED
    BY <2>1, OrdinaryHandlers
<1> QED
  BY <1>1, <1>2, <1>3, <1>4, <1>5

LEMMA OtherPlans ==
    ASSUME NEW r, IsRequest(r)
    PROVE  /\ r.tool \in DOMAIN NativeDocs(r) => PlanOf(r, NativeDocs(r)[r.tool])
           /\ r.tool \in DOMAIN Secret(r) => PlanOf(r, Secret(r)[r.tool])
<1>1. ASSUME r.tool \in DOMAIN NativeDocs(r) PROVE PlanOf(r, NativeDocs(r)[r.tool])
  <2>1. NativeDocs(r)[r.tool] = Elsewhere(r) /\ r.tool \notin Singular
    BY <1>1 DEF NativeDocs, Singular, FormTools
  <2> QED
    BY <2>1, OrdinaryHandlers
<1>2. ASSUME r.tool \in DOMAIN Secret(r) PROVE PlanOf(r, Secret(r)[r.tool])
  <2>1. Secret(r)[r.tool] \in {TypeSecret(r), <<Refuse>>} /\ r.tool \notin Singular
    BY <1>2 DEF Secret, Singular, FormTools
  <2> QED
    BY <2>1, OrdinaryHandlers, RefusedIs
<1> QED
  BY <1>1, <1>2

(* A table made of five.                                                   *)
MadeOf(all, a, b, c, d, e) ==
    /\ DOMAIN all = UNION {DOMAIN a, DOMAIN b, DOMAIN c, DOMAIN d, DOMAIN e}
    /\ \A x \in DOMAIN all : \E f \in {a, b, c, d, e} : x \in DOMAIN f /\ all[x] = f[x]

LEMMA JointFive ==
    ASSUME NEW a, NEW b, NEW c, NEW d, NEW e
    PROVE  MadeOf(Joint(Joint(a, b), Joint(c, Joint(d, e))), a, b, c, d, e)
<1>0. PICK all : all = Joint(Joint(a, b), Joint(c, Joint(d, e)))
  OBVIOUS
<1>1. PICK front : front = Joint(a, b)
  OBVIOUS
<1>2. PICK back : back = Joint(d, e)
  OBVIOUS
<1>3. PICK rest : rest = Joint(c, back)
  OBVIOUS
<1>4. all = Joint(front, rest)
  BY <1>0, <1>1, <1>2, <1>3
<1>5. /\ DOMAIN front = DOMAIN a \cup DOMAIN b
      /\ \A x \in DOMAIN front : \E f \in {a, b} : x \in DOMAIN f /\ front[x] = f[x]
  BY <1>1 DEF Joint
<1>6. /\ DOMAIN back = DOMAIN d \cup DOMAIN e
      /\ \A x \in DOMAIN back : \E f \in {d, e} : x \in DOMAIN f /\ back[x] = f[x]
  BY <1>2 DEF Joint
<1>7. /\ DOMAIN rest = DOMAIN c \cup DOMAIN back
      /\ \A x \in DOMAIN rest : \E f \in {c, back} : x \in DOMAIN f /\ rest[x] = f[x]
  BY <1>3 DEF Joint
<1>8. /\ DOMAIN all = DOMAIN front \cup DOMAIN rest
      /\ \A x \in DOMAIN all : \E f \in {front, rest} : x \in DOMAIN f /\ all[x] = f[x]
  BY <1>4 DEF Joint
<1>9. DOMAIN all = UNION {DOMAIN a, DOMAIN b, DOMAIN c, DOMAIN d, DOMAIN e}
  BY <1>5, <1>6, <1>7, <1>8
<1>10. \A x \in DOMAIN all : \E f \in {a, b, c, d, e} : x \in DOMAIN f /\ all[x] = f[x]
  <2> TAKE x \in DOMAIN all
  <2>1. CASE x \in DOMAIN front /\ all[x] = front[x]
    BY <1>5, <2>1
  <2>2. CASE x \in DOMAIN rest /\ all[x] = rest[x]
    <3>1. CASE x \in DOMAIN c /\ rest[x] = c[x]
      BY <2>2, <3>1
    <3>2. CASE x \in DOMAIN back /\ rest[x] = back[x]
      BY <1>6, <2>2, <3>2
    <3> QED
      BY <1>7, <2>2, <3>1, <3>2
  <2> QED
    BY <1>8, <2>1, <2>2
<1> QED
  BY <1>0, <1>9, <1>10 DEF MadeOf

LEMMA HandlersAre ==
    ASSUME NEW r
    PROVE  /\ DOMAIN NativeHandlers(r) =
                UNION {DOMAIN NativeWeb(r), DOMAIN NativeCore(r), DOMAIN NativeAdvanced(r),
                       DOMAIN NativeDocs(r), DOMAIN Secret(r)}
           /\ \A x \in DOMAIN NativeHandlers(r) :
                \E f \in {NativeWeb(r), NativeCore(r), NativeAdvanced(r), NativeDocs(r),
                          Secret(r)} :
                    x \in DOMAIN f /\ NativeHandlers(r)[x] = f[x]
<1>1. MadeOf(NativeHandlers(r), NativeWeb(r), NativeCore(r), NativeAdvanced(r),
             NativeDocs(r), Secret(r))
  BY JointFive DEF NativeHandlers
<1> QED
  BY <1>1 DEF MadeOf

LEMMA HandlerPlans ==
    ASSUME NEW r, IsRequest(r), r.tool \in DOMAIN NativeHandlers(r)
    PROVE  PlanOf(r, NativeHandlers(r)[r.tool])
<1>1. PICK f \in {NativeWeb(r), NativeCore(r), NativeAdvanced(r), NativeDocs(r), Secret(r)} :
         r.tool \in DOMAIN f /\ NativeHandlers(r)[r.tool] = f[r.tool]
  BY HandlersAre
<1> QED
  BY <1>1, WebPlans, CorePlans, AdvancedPlans, OtherPlans

LEMMA PlanIs == ASSUME NEW r, IsRequest(r) PROVE PlanOf(r, Plan(r))
<1>1. CASE r.tool \notin DOMAIN Handlers(r) \/ "params" \in r.bad
  BY <1>1, RefusedIs DEF Plan
<1>2. CASE r.tool \in DOMAIN Handlers(r) /\ "params" \notin r.bad
  <2>1. CASE setup.daemon = "native"
    BY <1>2, <2>1, HandlerPlans DEF Plan, Handlers
  <2>2. CASE setup.daemon # "native"
    <3>1. r.tool \in NodeNames /\ Plan(r) = NativeHandlers(r)[r.tool]
      BY <1>2, <2>2 DEF Plan, Handlers
    <3>2. CASE r.tool \in NodeWeb
      <4>1. r.tool \in DOMAIN NativeWeb(r)
        BY <3>2 DEF NodeWeb, NativeWeb
      <4> QED
        BY <3>1, <4>1, HandlersAre, HandlerPlans
    <3>3. CASE r.tool \in NodeBrowser
      <4>1. \/ r.tool \in DOMAIN NativeCore(r) \/ r.tool \in DOMAIN NativeAdvanced(r)
            \/ r.tool \in DOMAIN Secret(r)
        BY <3>3 DEF NodeBrowser, NativeCore, NativeAdvanced, Secret
      <4> QED
        BY <3>1, <4>1, HandlersAre, HandlerPlans
    <3> QED
      BY <3>1, <3>2, <3>3 DEF NodeNames
  <2> QED
    BY <2>1, <2>2
<1> QED
  BY <1>1, <1>2

LEMMA PartsAre == ASSUME NEW r, IsRequest(r) PROVE PlanOf(r, Parts(Plan(r)))
<1>1. PICK plan : plan = Plan(r)
  OBVIOUS
<1>2. PlanOf(r, plan)
  BY <1>1, PlanIs
<1>3. CASE setup.daemon = "native" \/ plan[1].op # "secret"
  BY <1>1, <1>2, <1>3 DEF Parts
<1>4. CASE setup.daemon # "native" /\ plan[1].op = "secret"
  <2>1. PICK k : k = [req |-> r, ok |-> TRUE, filled |-> 0, seen |-> {}, plan |-> plan]
    OBVIOUS
  <2>2. k.req = r /\ k.plan = plan /\ Starts(k, r)
    BY <2>1 DEF Starts
  <2>3. PlanLeft(k, {})
    BY <1>2, <2>2 DEF PlanOf
  <2>4. plan \in Seq(Operations) /\ plan # <<>>
    BY <2>2, <2>3 DEF PlanLeft
  <2>5. 1 \in 1 .. Len(plan) /\ plan[1] \in Operations
    BY <2>4
  <2>6. r.tool \notin FormTools
    BY <1>4, <2>2, <2>3, <2>5 DEF PlanLeft, FieldsLeft, OpFor
  <2>7. r.tool # "network_requests" /\ r.tool # "browser_web_search"
    BY <1>4, <2>2, <2>3 DEF PlanLeft, LogLeft, SearchLeft
  <2>8. Ordinary(plan[1])
    BY <2>2, <2>3, <2>5, <2>6, <2>7 DEF PlanLeft
  <2>9. PICK part :
           part = [i \in 1 .. 3 |-> [plan[1] EXCEPT !.op = <<"url", "resolve", "secret">>[i]]]
    OBVIOUS
  <2>10. \A i \in 1 .. 3 : part[i] \in Operations /\ Ordinary(part[i])
    <3>1. ASSUME NEW op \in {"url", "resolve", "secret"}
          PROVE  LET o == [plan[1] EXCEPT !.op = op] IN o \in Operations /\ Ordinary(o)
      <4>1. op \in OpNames
        BY DEF OpNames
      <4> QED
        BY <2>5, <2>8, <4>1 DEF Operations, Ordinary
    <3>2. \A i \in 1 .. 3 : <<"url", "resolve", "secret">>[i] \in {"url", "resolve", "secret"}
      OBVIOUS
    <3> QED
      BY <2>9, <3>1, <3>2
  <2>11. part \in Seq(Operations) /\ Len(part) = 3 /\ part # <<>>
    BY <2>9, <2>10
  <2>12. PlanOf(r, part)
    BY <2>6, <2>7, <2>10, <2>11 DEF PlanOf, PlanLeft, Starts
  <2> QED
    BY <1>1, <1>4, <2>9, <2>12 DEF Parts
<1> QED
  BY <1>3, <1>4

----------------------------------------------------------------------------
(* What an operation that was done leaves of the plan.                     *)

LEMMA TailIs ==
    ASSUME NEW S, NEW s \in Seq(S), s # <<>>
    PROVE  /\ Head(s) = s[1] /\ s[1] \in S /\ Len(s) \in Nat \ {0}
           /\ Tail(s) \in Seq(S) /\ Len(Tail(s)) = Len(s) - 1
           /\ \A i \in 1 .. Len(Tail(s)) : i + 1 \in 1 .. Len(s) /\ Tail(s)[i] = s[i + 1]
           /\ Tail(s) = <<>> <=> Len(s) = 1
<1>1. Head(s) = s[1] /\ s[1] \in S /\ Len(s) \in Nat \ {0}
  OBVIOUS
<1>2. Tail(s) \in Seq(S) /\ Len(Tail(s)) = Len(s) - 1
  OBVIOUS
<1>3. ASSUME NEW i \in 1 .. Len(Tail(s)) PROVE i + 1 \in 1 .. Len(s) /\ Tail(s)[i] = s[i + 1]
  BY <1>2
<1>4. Tail(s) = <<>> <=> Len(s) = 1
  <2>1. PICK t \in Seq(S) : t = Tail(s)
    BY <1>2
  <2>2. t = <<>> <=> Len(t) = 0
    OBVIOUS
  <2>3. Len(t) = 0 <=> Len(s) = 1
    BY <1>1, <1>2, <2>1
  <2> QED
    BY <2>1, <2>2, <2>3
<1> QED
  BY <1>1, <1>2, <1>3, <1>4

LEMMA HeadReplaced ==
    ASSUME NEW S, NEW s \in Seq(S), s # <<>>, NEW x \in S
    PROVE  /\ <<x>> \o Tail(s) \in Seq(S) /\ Len(<<x>> \o Tail(s)) = Len(s)
           /\ (<<x>> \o Tail(s))[1] = x /\ <<x>> \o Tail(s) # <<>>
           /\ \A i \in 2 .. Len(s) : (<<x>> \o Tail(s))[i] = s[i]
<1>1. PICK t : t = Tail(s)
  OBVIOUS
<1>2. /\ t \in Seq(S) /\ Len(t) = Len(s) - 1 /\ Len(s) \in Nat \ {0}
      /\ \A i \in 1 .. Len(t) : t[i] = s[i + 1]
  BY <1>1, TailIs
<1>3. <<x>> \in Seq(S) /\ Len(<<x>>) = 1 /\ <<x>>[1] = x
  OBVIOUS
<1>4. /\ <<x>> \o t \in Seq(S) /\ Len(<<x>> \o t) = 1 + Len(t) /\ (<<x>> \o t)[1] = x
      /\ \A i \in 1 .. Len(t) : (<<x>> \o t)[1 + i] = t[i]
  BY <1>2, <1>3, Joined
<1>5. Len(<<x>> \o t) = Len(s) /\ <<x>> \o t # <<>>
  BY <1>2, <1>4
<1>6. ASSUME NEW i \in 2 .. Len(s) PROVE (<<x>> \o t)[i] = s[i]
  <2>1. i - 1 \in 1 .. Len(t) /\ 1 + (i - 1) = i /\ (i - 1) + 1 = i
    BY <1>2
  <2> QED
    BY <1>2, <1>4, <2>1
<1> QED
  BY <1>1, <1>4, <1>5, <1>6

(* The call goes on with the tail of its plan.                             *)
LEMMA FieldDone ==
    ASSUME NEW k, NEW k2, FieldsLeft(k), k.plan \in Seq(Operations), k.plan # <<>>,
           k.plan[1].op \notin {"refuse", "check"}, Len(FieldsOf(k.req)) \in Nat,
           k2.req = k.req, k2.ok, k2.filled = k.filled + 1, k2.plan = Tail(k.plan)
    PROVE  /\ FieldsLeft(k2) /\ k2.plan \in Seq(Operations)
           /\ OpFor(k.plan[1], FieldsOf(k.req)[k.filled + 1])
           /\ k.filled \in Nat /\ k.filled + 1 <= Len(FieldsOf(k.req))
           /\ k2.plan = <<>> => k2.filled = Len(FieldsOf(k.req))
           /\ k2.plan # <<>> => ~Settled(k2.plan[1])
<1>1. PICK fields : fields = FieldsOf(k.req) /\ fields = FieldsOf(k2.req)
  OBVIOUS
<1>2. PICK n \in Nat : n = Len(fields)
  BY <1>1
<1>3. /\ Len(k.plan) \in Nat \ {0} /\ k2.plan \in Seq(Operations)
      /\ Len(k2.plan) = Len(k.plan) - 1 /\ (k2.plan = <<>> <=> Len(k.plan) = 1)
      /\ \A i \in 1 .. Len(k2.plan) : i + 1 \in 1 .. Len(k.plan) /\ k2.plan[i] = k.plan[i + 1]
  BY TailIs
<1>4. /\ k.filled \in Nat /\ Len(k.plan) = n - k.filled
      /\ OpFor(k.plan[1], fields[k.filled + 1])
  BY <1>1, <1>2, <1>3 DEF FieldsLeft
<1>5. k.filled + 1 <= n /\ k2.filled \in Nat /\ Len(k2.plan) = n - k2.filled
  <2>1. PICK a, b : a = k.filled /\ b = Len(k.plan)
    OBVIOUS
  <2>2. a \in Nat /\ b \in Nat \ {0} /\ b = n - a
    BY <1>3, <1>4, <2>1
  <2>3. a + 1 <= n /\ a + 1 \in Nat /\ b - 1 = n - (a + 1)
    BY <2>2
  <2>4. k2.filled = a + 1 /\ Len(k2.plan) = b - 1
    BY <1>3, <2>1
  <2> QED
    BY <2>1, <2>3, <2>4
<1>6. ASSUME NEW i \in 1 .. Len(k2.plan), k2.plan[i].op # "refuse"
      PROVE  OpFor(k2.plan[i], fields[k2.filled + i]) /\ ~Settled(k2.plan[i])
  <2>1. OpFor(k.plan[i + 1], fields[k.filled + (i + 1)]) /\ (Settled(k.plan[i + 1]) => i + 1 = 1)
    BY <1>1, <1>3, <1>6 DEF FieldsLeft
  <2>2. k.filled + (i + 1) = k2.filled + i /\ i + 1 # 1
    <3>1. \A a \in Nat : a + (i + 1) = (a + 1) + i
      OBVIOUS
    <3>2. i + 1 # 1
      OBVIOUS
    <3> QED
      BY <1>4, <3>1, <3>2
  <2> QED
    BY <1>3, <2>1, <2>2
<1>7. FieldsLeft(k2)
  BY <1>1, <1>2, <1>5, <1>6 DEF FieldsLeft
<1>8. k2.plan # <<>> => 1 \in 1 .. Len(k2.plan)
  BY <1>3
<1>9. k2.plan # <<>> => ~Settled(k2.plan[1])
  BY <1>6, <1>8 DEF Settled
<1>10. k2.plan = <<>> => k2.filled = n
  <2>1. \A a \in Nat : n - a = 1 => a + 1 = n
    OBVIOUS
  <2> QED
    BY <1>3, <1>4, <2>1
<1> QED
  BY <1>1, <1>2, <1>3, <1>4, <1>5, <1>7, <1>9, <1>10

(* A box was read: it is to be clicked, or let be.                         *)
LEMMA BoxRead ==
    ASSUME NEW k, NEW k2, FieldsLeft(k), k.plan \in Seq(Operations), k.plan # <<>>,
           k.plan[1].op = "check", NEW v \in Boxes, Len(FieldsOf(k.req)) \in Nat,
           k2.req = k.req, k2.ok, k2.filled = k.filled,
           k2.plan = <<Settle(k.plan[1], v)>> \o Tail(k.plan)
    PROVE  /\ FieldsLeft(k2) /\ k2.plan \in Seq(Operations) /\ k2.plan # <<>>
           /\ k2.plan[1] = Settle(k.plan[1], v) /\ Settled(k2.plan[1])
           /\ k.plan[1].el = Box /\ k2.plan[1].value = k.plan[1].value
           /\ k2.plan[1].op = "keep" <=> k.plan[1].value = v
<1>1. PICK fields : fields = FieldsOf(k.req) /\ fields = FieldsOf(k2.req)
  OBVIOUS
<1>2. PICK x : x = Settle(k.plan[1], v)
  OBVIOUS
<1>3. k.plan[1] \in Operations /\ Len(k.plan) \in Nat \ {0}
  BY TailIs
<1>4. /\ x \in Operations /\ x.el = k.plan[1].el /\ x.value = k.plan[1].value
      /\ x.op \in {"keep", "click"} /\ (x.op = "keep" <=> x.value = v)
  BY <1>2, <1>3 DEF Settle, Operations, OpNames
<1>5. /\ k2.plan \in Seq(Operations) /\ k2.plan # <<>> /\ Len(k2.plan) = Len(k.plan)
      /\ k2.plan[1] = x /\ \A i \in 2 .. Len(k.plan) : k2.plan[i] = k.plan[i]
  BY <1>2, <1>4, HeadReplaced
<1>6. /\ 1 \in 1 .. Len(k.plan) /\ Len(k.plan) = Len(fields) - k.filled
      /\ OpFor(k.plan[1], fields[k.filled + 1])
  BY <1>1, <1>3 DEF FieldsLeft
<1>7. ASSUME NEW i \in 1 .. Len(k2.plan), k2.plan[i].op # "refuse"
      PROVE  OpFor(k2.plan[i], fields[k2.filled + i]) /\ (Settled(k2.plan[i]) => i = 1)
  <2>1. CASE i = 1
    BY <1>4, <1>5, <1>6, <2>1 DEF OpFor
  <2>2. CASE i # 1
    <3>1. i \in 2 .. Len(k.plan) /\ i \in 1 .. Len(k.plan)
      BY <1>3, <1>5, <2>2
    <3> QED
      BY <1>1, <1>5, <1>7, <3>1 DEF FieldsLeft
  <2> QED
    BY <2>1, <2>2
<1>8. FieldsLeft(k2)
  BY <1>1, <1>5, <1>6, <1>7 DEF FieldsLeft
<1> QED
  BY <1>2, <1>4, <1>5, <1>6, <1>8 DEF OpFor, Settled

LEMMA LogDone ==
    ASSUME NEW k, NEW k2, NEW w, NEW w2, LogLeft(k, w),
           k.plan \in Seq(Operations), k.plan # <<>>, k.plan[1].op # "refuse",
           k2.ok, k2.plan = Tail(k.plan), k2.plan # <<>>,
           k.plan[1].op # "log" => k2.seen = k.seen,
           k.plan[1].op = "write" => k.seen \subseteq w2
    PROVE  LogLeft(k2, w2)
<1>1. /\ Len(k.plan) \in Nat \ {0, 1}
      /\ Len(k2.plan) = Len(k.plan) - 1
      /\ \A i \in 1 .. Len(k2.plan) : i + 1 \in 1 .. Len(k.plan) /\ k2.plan[i] = k.plan[i + 1]
  BY TailIs
<1>2. \A i \in 1 .. Len(k2.plan) : k2.plan[i].op # "log" => ~k2.plan[i].clear
  BY <1>1 DEF LogLeft
<1>3. k2.plan[1] = k.plan[2]
  BY <1>1
<1>4. CASE k.plan[1].op = "log"
  <2>1. k.plan[2].op = "write" /\ (Len(k.plan) = 2 \/ (Len(k.plan) = 3 /\ k.plan[3].op = "clear"))
    BY <1>1, <1>4 DEF LogLeft
  <2>2. Len(k2.plan) = 1 \/ (Len(k2.plan) = 2 /\ k2.plan[2].op = "clear")
    BY <1>1, <2>1
  <2> QED
    BY <1>2, <1>3, <2>1, <2>2 DEF LogLeft
<1>5. CASE k.plan[1].op = "write"
  <2>1. Len(k.plan) = 2 /\ k.plan[2].op = "clear"
    BY <1>1, <1>5 DEF LogLeft
  <2>2. Len(k2.plan) = 1 /\ k2.plan[1].op = "clear" /\ k2.seen = k.seen
    BY <1>1, <1>3, <1>5, <2>1
  <2> QED
    BY <1>2, <1>5, <2>2 DEF LogLeft
<1> QED
  BY <1>1, <1>4, <1>5 DEF LogLeft

LEMMA SearchDone ==
    ASSUME NEW k, NEW k2, SearchLeft(k), k.plan \in Seq(Operations), k.plan # <<>>,
           k2.plan = Tail(k.plan)
    PROVE  /\ k2.plan # <<>> => SearchLeft(k2)
           /\ k.plan[1].op = "openSearch" => k2.plan # <<>> /\ k2.plan[1].op = "extract"
           /\ k.plan[1].op = "extract" => k2.plan # <<>> /\ k2.plan[1].op = "closeSearch"
<1>1. /\ Len(k.plan) \in Nat \ {0}
      /\ Len(k2.plan) = Len(k.plan) - 1 /\ (k2.plan = <<>> <=> Len(k.plan) = 1)
      /\ \A i \in 1 .. Len(k2.plan) : i + 1 \in 1 .. Len(k.plan) /\ k2.plan[i] = k.plan[i + 1]
  BY TailIs
<1>2. \A i \in 1 .. Len(k2.plan) : ~k2.plan[i].clear
  BY <1>1 DEF SearchLeft
<1>3. CASE k.plan[1].op = "openSearch"
  <2>1. Len(k.plan) = 3 /\ k.plan[2].op = "extract" /\ k.plan[3].op = "closeSearch"
    BY <1>3 DEF SearchLeft
  <2>2. Len(k2.plan) = 2 /\ k2.plan[1].op = "extract" /\ k2.plan[2].op = "closeSearch"
    BY <1>1, <2>1
  <2> QED
    BY <1>1, <1>2, <1>3, <2>1, <2>2 DEF SearchLeft
<1>4. CASE k.plan[1].op = "extract"
  <2>1. Len(k.plan) = 2 /\ k.plan[2].op = "closeSearch"
    BY <1>4 DEF SearchLeft
  <2>2. Len(k2.plan) = 1 /\ k2.plan[1].op = "closeSearch"
    BY <1>1, <2>1
  <2> QED
    BY <1>1, <1>2, <1>4, <2>1, <2>2 DEF SearchLeft
<1>5. CASE k.plan[1].op \in {"refuse", "closeSearch"}
  BY <1>1, <1>5 DEF SearchLeft
<1> QED
  BY <1>3, <1>4, <1>5 DEF SearchLeft

LEMMA OrdinaryDone ==
    ASSUME NEW k, NEW k2, k.plan \in Seq(Operations), k.plan # <<>>,
           \A i \in 1 .. Len(k.plan) : Ordinary(k.plan[i]), k2.plan = Tail(k.plan)
    PROVE  \A i \in 1 .. Len(k2.plan) : Ordinary(k2.plan[i])
  BY TailIs

----------------------------------------------------------------------------
(* What an operation does to the page.                                     *)

LEMMA HeadIs ==
    ASSUME NEW k, NEW w, PlanLeft(k, w)
    PROVE  LET o == k.plan[1]
               tool == k.req.tool IN
           /\ Head(k.plan) = o /\ o \in Operations
           /\ o.op \in {"type", "select"} => o.el # Box
           /\ tool \in FormTools => o.op \in {"refuse", "type", "select", "check", "keep", "click"}
           /\ tool = "network_requests" => o.op \in {"refuse", "log", "write", "clear"}
           /\ o.op \in {"type", "select", "check", "keep"} => tool \in FormTools
           /\ o.op \in {"log", "clear"} => tool = "network_requests"
           /\ o.op \in {"openSearch", "closeSearch"} => tool = "browser_web_search"
           /\ o.clear /\ tool \notin FormTools => tool = "network_requests"
<1>1. PICK o : o = k.plan[1]
  OBVIOUS
<1>2. PICK tool : tool = k.req.tool
  OBVIOUS
<1>3. Head(k.plan) = o /\ o \in Operations /\ 1 \in 1 .. Len(k.plan)
  BY <1>1, TailIs DEF PlanLeft
<1>4. CASE tool \in FormTools
  <2>1. o.op # "refuse" => OpFor(o, FieldsOf(k.req)[k.filled + 1])
    BY <1>1, <1>2, <1>3, <1>4 DEF PlanLeft, FieldsLeft
  <2>2. tool # "network_requests"
    BY <1>4 DEF FormTools
  <2> QED
    BY <1>1, <1>2, <1>3, <1>4, <2>1, <2>2 DEF OpFor
<1>5. CASE tool = "network_requests"
  <2>1. o.op \in {"refuse", "log", "write", "clear"} /\ tool \notin FormTools
    BY <1>1, <1>2, <1>5 DEF PlanLeft, LogLeft, FormTools
  <2> QED
    BY <1>1, <1>2, <1>3, <1>5, <2>1
<1>6. CASE tool = "browser_web_search"
  <2>1. /\ o.op \in {"refuse", "openSearch", "extract", "closeSearch"} /\ ~o.clear
        /\ tool \notin FormTools
    BY <1>1, <1>2, <1>3, <1>6 DEF PlanLeft, SearchLeft, FormTools
  <2> QED
    BY <1>1, <1>2, <1>3, <1>6, <2>1
<1>7. CASE tool \notin FormTools \cup {"network_requests", "browser_web_search"}
  <2>1. Ordinary(o)
    BY <1>1, <1>2, <1>3, <1>7 DEF PlanLeft
  <2> QED
    BY <1>1, <1>2, <1>3, <1>7, <2>1 DEF Ordinary
<1> QED
  BY <1>4, <1>5, <1>6, <1>7

LEMMA BlankIs == Blank \in [Elements -> Values] /\ Blank[Box] \in Boxes
  BY FormHasBox DEF Blank, Boxes

LEMMA RenewedIs ==
    ASSUME PageInv, NEW p \in Renewed
    PROVE  /\ p \in Pages /\ p.form[Box] \in Boxes /\ p.next = page.next
           /\ p.doc # page.doc /\ p.log = {}
<1>1. p = [page EXCEPT !.open = TRUE, !.doc = @ + 1, !.form = Blank, !.log = {}]
  BY DEF Renewed
<1>2. page \in Pages /\ page.doc \in Nat /\ page.doc + 1 \in Nat /\ page.doc + 1 # page.doc
  BY DEF PageInv, Pages
<1>3. p.form = Blank /\ p.next = page.next /\ p.doc = page.doc + 1 /\ p.log = {}
  BY <1>1, <1>2 DEF Pages
<1>4. p \in Pages
  BY <1>1, <1>2, BlankIs DEF Pages
<1> QED
  BY <1>2, <1>3, <1>4, BlankIs

LEMMA ClosedIs ==
    ASSUME PageInv, NEW p, p = [page EXCEPT !.open = FALSE, !.form = Blank, !.log = {}]
    PROVE  p \in Pages /\ p.form[Box] \in Boxes /\ p.next = page.next
  BY BlankIs DEF PageInv, Pages

PageWith(e, v) == [page EXCEPT !.form[e] = v]

IsSet(p, e, v) ==
    /\ p \in Pages /\ p.form[Box] \in Boxes /\ p.next = page.next
    /\ p.log = page.log /\ p.doc = page.doc /\ p.open = page.open
    /\ p.form = [page.form EXCEPT ![e] = v]

LEMMA SetIs ==
    ASSUME PageInv, NEW e, NEW v \in Values, e = Box => v \in Boxes
    PROVE  IsSet(PageWith(e, v), e, v)
<1>1. page.form \in [Elements -> Values] /\ page.form[Box] \in Boxes /\ page \in Pages
  BY DEF PageInv, Pages
<1>2. PICK f : f = [page.form EXCEPT ![e] = v]
  OBVIOUS
<1>3. f \in [Elements -> Values] /\ f[Box] \in Boxes
  BY <1>1, <1>2, FormHasBox
<1>4. PICK p : p = [page EXCEPT !.form = f]
  OBVIOUS
<1>5. /\ p.form = f /\ p.next = page.next /\ p.log = page.log
      /\ p.doc = page.doc /\ p.open = page.open /\ p \in Pages
  BY <1>1, <1>3, <1>4 DEF Pages
<1>6. PageWith(e, v) = p
  BY <1>2, <1>4 DEF PageWith
<1> QED
  BY <1>2, <1>3, <1>5, <1>6 DEF IsSet

LEMMA FlipIs == ASSUME NEW v PROVE Flip(v) \in Boxes /\ Flip(v) \in Values
  BY FormHasBox DEF Flip, Boxes

LEMMA OutcomesAre ==
    ASSUME PageInv, NEW o \in Operations, o.op \in {"type", "select"} => o.el # Box,
           NEW p \in Outcomes(o)
    PROVE  /\ p \in Pages /\ p.form[Box] \in Boxes /\ p.next = page.next
           /\ o.op \in {"check", "keep", "write", "refuse"} => p = page
           /\ o.op \in {"type", "select"} =>
                 /\ p.doc = page.doc /\ p.open = page.open
                 /\ p.form = [page.form EXCEPT ![o.el] = o.value]
           /\ o.op = "click" /\ o.el = Box =>
                 /\ p.doc = page.doc /\ p.open = page.open
                 /\ p.form = [page.form EXCEPT ![Box] = Flip(page.form[Box])]
<1>1. o.value \in Values
  BY DEF Operations
<1>2. CASE o.op = "click" /\ o.el = Box
  <2>1. p = PageWith(Box, Flip(page.form[Box]))
    BY <1>2 DEF Outcomes, PageWith
  <2>2. PICK v \in Values : v = Flip(page.form[Box]) /\ v \in Boxes
    BY FlipIs
  <2>3. p = PageWith(Box, v)
    BY <2>1, <2>2
  <2>4. IsSet(p, Box, v)
    BY <2>2, <2>3, SetIs
  <2> QED
    BY <1>2, <2>2, <2>4 DEF IsSet
<1>3. CASE o.op = "key"
  <2>1. p = page \/ p = PageWith(Box, Flip(page.form[Box]))
    BY <1>3 DEF Outcomes, PageWith
  <2>2. PICK v \in Values : v = Flip(page.form[Box]) /\ v \in Boxes
    BY FlipIs
  <2>3. p = page \/ p = PageWith(Box, v)
    BY <2>1, <2>2
  <2>4. CASE p = page
    BY <1>3, <2>4 DEF PageInv
  <2>5. CASE p = PageWith(Box, v)
    <3>1. IsSet(p, Box, v)
      BY <2>2, <2>5, SetIs
    <3> QED
      BY <1>3, <3>1 DEF IsSet
  <2> QED
    BY <2>3, <2>4, <2>5
<1>4. CASE o.op \in {"type", "select"}
  <2>1. p = PageWith(o.el, o.value)
    BY <1>4 DEF Outcomes, PageWith
  <2>2. IsSet(p, o.el, o.value)
    BY <1>1, <1>4, <2>1, SetIs
  <2> QED
    BY <1>4, <2>2 DEF IsSet
<1>5. CASE o.op = "run"
  <2>1. p = page \/ \E e \in Elements \ {Box} : p = PageWith(e, o.value)
    BY <1>5 DEF Outcomes, PageWith
  <2>2. CASE p = page
    BY <1>5, <2>2 DEF PageInv
  <2>3. CASE \E e \in Elements \ {Box} : p = PageWith(e, o.value)
    <3>1. PICK e \in Elements \ {Box} : p = PageWith(e, o.value)
      BY <2>3
    <3>2. IsSet(p, e, o.value)
      BY <1>1, <3>1, SetIs
    <3> QED
      BY <1>5, <3>2 DEF IsSet
  <2> QED
    BY <2>1, <2>2, <2>3
<1>6. CASE o.op \in {"navigate", "tabs"}
  <2>1. p = page \/ p \in Renewed
    BY <1>6 DEF Outcomes
  <2> QED
    BY <1>6, <2>1, RenewedIs DEF PageInv
<1>7. CASE o.op \in {"close", "closeAll"}
  <2>1. p = page \/ p = [page EXCEPT !.open = FALSE, !.form = Blank, !.log = {}]
    BY <1>7 DEF Outcomes
  <2> QED
    BY <1>7, <2>1, ClosedIs DEF PageInv
<1>8. CASE o.op \in {"clear", "log"}
  <2>1. p = page \/ p = [page EXCEPT !.log = {}]
    BY <1>8 DEF Outcomes
  <2> QED
    BY <1>8, <2>1 DEF PageInv, Pages
<1>9. CASE /\ o.op \notin {"key", "type", "select", "run", "navigate", "tabs", "close",
                           "closeAll", "clear", "log"}
           /\ ~(o.op = "click" /\ o.el = Box)
  <2>1. p = page
    BY <1>9 DEF Outcomes
  <2> QED
    BY <1>9, <2>1 DEF PageInv
<1> QED
  BY <1>2, <1>3, <1>4, <1>5, <1>6, <1>7, <1>8, <1>9

----------------------------------------------------------------------------
(* What the steps of a running call do: k becomes k2, the page p.          *)

Same(k, k2) ==
    DOMAIN k2 = CallFields /\ k2.req = k.req /\ k2.id = k.id /\ k2.before = k.before

(* What other calls see of it.                                             *)
Touches(c, k, k2, p, seen) ==
    /\ k.at = "running" /\ page' = p
    /\ call' = [call EXCEPT ![c] = k2] /\ Same(k, k2)
    /\ dropped' = dropped \cup (page.log \ (p.log \cup seen))
    /\ DOMAIN met' = Callers
    /\ \A d \in Callers \ {c} : met'[d] = met[d] \cup Changed(p)
    /\ setup' = setup /\ script' = script /\ begun' = begun

DidIt(c, k, k2, o, p) ==
    /\ Touches(c, k, k2, p, k2.seen)
    /\ CanDo(c, o) /\ p \in Outcomes(o)
    /\ k2.ok <=> k.ok
    /\ o.op # "log" => k2.seen = k.seen
    /\ k2.filled = IF o.op \in {"keep", "click", "type", "select"} THEN k.filled + 1 ELSE k.filled
    /\ k2.plan = IF o.op # "check" THEN Tail(k.plan)
                 ELSE <<Settle(o, IF page.form[o.el] = "true" THEN "true" ELSE "false")>>
                      \o Tail(k.plan)
    /\ k2.at = IF k2.plan = <<>> THEN "answer" ELSE "running"
    /\ met'[c] = IF p.doc # page.doc THEN Elements
                 ELSE met[c] \ (IF o.op \in {"check", "type", "select"} THEN {o.el} ELSE {})
    /\ told' = IF k2.plan = <<>> /\ k2.ok THEN told \cup k2.seen ELSE told
    /\ searches' = Searches(k.id, o) /\ excused' = excused
    /\ written' = IF o.op = "write" THEN written \cup k.seen ELSE written

GaveUp(c, k, k2, o, p) ==
    /\ Touches(c, k, k2, p, k.seen)
    /\ p = page \/ (CanDo(c, o) /\ o.op \notin {"log", "clear"} /\ p \in Outcomes(o))
    /\ k2.seen = k.seen /\ k2.filled = k.filled
    /\ o.op \notin {"closeSearch", "closeAll"} => ~k2.ok
    /\ \/ k2.at = "answer"
       \/ k2.at = "running" /\ Tolerates(o) /\ k2.plan = Tail(k.plan) /\ k2.plan # <<>>
    /\ met'[c] = IF p.doc # page.doc THEN Elements ELSE met[c]
    /\ told \subseteq told' /\ written' = written
    /\ excused \subseteq excused' /\ searches' \subseteq searches \cup {k.id}
    /\ \/ k.id \in excused'
       \/ /\ searches' = searches /\ o.op # "closeSearch"
          /\ o.op = "extract" /\ Tail(k.plan) # <<>> => k2.at = "running"

LEMMA RunningIs ==
    ASSUME RunInv, NEW c \in Callers, call[c].at = "running"
    PROVE  /\ DOMAIN call[c] = CallFields /\ IsRequest(call[c].req)
           /\ PlanLeft(call[c], written) /\ Head(call[c].plan) = call[c].plan[1]
           /\ call[c].plan[1] \in Operations
           /\ call[c].plan[1].op \in {"type", "select"} => call[c].plan[1].el # Box
<1>1. DOMAIN call[c] = CallFields /\ IsRequest(call[c].req) /\ PlanLeft(call[c], written)
  BY DEF RunInv, CallsInv, CallInv, Quiet
<1> QED
  BY <1>1, HeadIs

Left(c, o, p, seen) ==
    /\ page' = p
    /\ dropped' = dropped \cup (page.log \ (p.log \cup seen))
    /\ DOMAIN met' = Callers
    /\ \A d \in Callers \ {c} : met'[d] = met[d] \cup Changed(p)
    /\ met'[c] = IF p.doc # page.doc THEN Elements
                 ELSE met[c] \ (IF o.op \in {"check", "type", "select"} THEN {o.el} ELSE {})

LEMMA LeavesIs ==
    ASSUME NEW c \in Callers, NEW o, NEW p, NEW seen, Leaves(c, o, p, seen)
    PROVE  Left(c, o, p, seen)
  BY DEF Leaves, Left

LEMMA SucceedsIs ==
    ASSUME RunInv, NEW c \in Callers, Succeeds(c)
    PROVE  \E k2, p : DidIt(c, call[c], k2, call[c].plan[1], p)
<1>1. PICK k : k = call[c]
  OBVIOUS
<1>2. PICK o : o = k.plan[1]
  OBVIOUS
<1>3. k.at = "running" /\ DOMAIN k = CallFields /\ Head(k.plan) = o
  BY <1>1, <1>2, RunningIs DEF Succeeds
<1>4. PICK seen : seen = IF o.op = "log" THEN Matching(k.req, page.log) ELSE k.seen
  OBVIOUS
<1>5. PICK rest : rest = IF o.op # "check" THEN Tail(k.plan)
                   ELSE <<Settle(o, IF page.form[o.el] = "true" THEN "true" ELSE "false")>>
                        \o Tail(k.plan)
  OBVIOUS
<1>6. PICK filled : filled = IF o.op \in {"keep", "click", "type", "select"}
                             THEN k.filled + 1 ELSE k.filled
  OBVIOUS
<1>7. PICK m : m = [k EXCEPT !.seen = seen, !.filled = filled]
  OBVIOUS
<1>8. /\ CanDo(c, o) /\ \E p \in Outcomes(o) : Leaves(c, o, p, seen)
      /\ GoesOn(c, m, rest) /\ searches' = Searches(k.id, o)
      /\ written' = IF o.op = "write" THEN written \cup k.seen ELSE written
      /\ setup' = setup /\ script' = script /\ begun' = begun /\ excused' = excused
  BY <1>1, <1>3, <1>4, <1>5, <1>6, <1>7 DEF Succeeds, CallFields
<1>9. PICK p \in Outcomes(o) : Left(c, o, p, seen)
  BY <1>8, LeavesIs
<1>10. /\ DOMAIN m = CallFields /\ m.req = k.req /\ m.id = k.id /\ m.before = k.before
       /\ m.ok = k.ok /\ m.seen = seen /\ m.filled = filled
  BY <1>3, <1>7 DEF CallFields
<1>11. PICK k2 : k2 = [m EXCEPT !.plan = rest, !.at = IF rest = <<>> THEN "answer" ELSE "running",
                          !.out = IF rest = <<>> /\ m.ok THEN View(m.req.view) ELSE Absent]
  OBVIOUS
<1>12. /\ call' = [call EXCEPT ![c] = k2]
       /\ told' = IF rest = <<>> /\ m.ok THEN told \cup m.seen ELSE told
  BY <1>8, <1>11 DEF GoesOn
<1>13. /\ Same(k, k2) /\ k2.ok = k.ok /\ k2.seen = seen /\ k2.filled = filled
       /\ k2.plan = rest /\ k2.at = IF rest = <<>> THEN "answer" ELSE "running"
  BY <1>10, <1>11 DEF Same, CallFields
<1>14. Touches(c, k, k2, p, k2.seen)
  BY <1>3, <1>8, <1>9, <1>12, <1>13 DEF Touches, Left
<1>15. DidIt(c, k, k2, o, p)
  BY <1>4, <1>5, <1>6, <1>8, <1>9, <1>10, <1>12, <1>13, <1>14 DEF DidIt, Left
<1> QED
  BY <1>1, <1>2, <1>15

LEMMA FailsIs ==
    ASSUME RunInv, NEW c \in Callers, Fails(c)
    PROVE  \E k2, p : GaveUp(c, call[c], k2, call[c].plan[1], p)
<1>1. PICK k : k = call[c]
  OBVIOUS
<1>2. PICK o : o = k.plan[1]
  OBVIOUS
<1>3. k.at = "running" /\ DOMAIN k = CallFields /\ Head(k.plan) = o
  BY <1>1, <1>2, RunningIs DEF Fails
<1>4. PICK m : m = [k EXCEPT !.ok = o.op \in {"closeSearch", "closeAll"} /\ @]
  OBVIOUS
<1>5. PICK rest : rest = RestAfter(k)
  OBVIOUS
<1>6. /\ \E p \in {page} \cup (IF CanDo(c, o) /\ o.op \notin {"log", "clear"}
                               THEN Outcomes(o) ELSE {}) : Leaves(c, Refuse, p, k.seen)
      /\ GoesOn(c, m, rest)
      /\ excused' = IF o.op \in {"openSearch", "closeSearch"}
                    THEN excused \cup {k.id} ELSE excused
      /\ setup' = setup /\ script' = script /\ begun' = begun
      /\ searches' \in {searches, Searches(k.id, o)} /\ written' = written
  BY <1>1, <1>3, <1>4, <1>5 DEF Fails
<1>7. PICK p : /\ p = page \/ (CanDo(c, o) /\ o.op \notin {"log", "clear"} /\ p \in Outcomes(o))
               /\ Left(c, Refuse, p, k.seen)
  BY <1>6, LeavesIs
<1>8. /\ DOMAIN m = CallFields /\ m.req = k.req /\ m.id = k.id /\ m.before = k.before
      /\ m.seen = k.seen /\ m.filled = k.filled
      /\ o.op \notin {"closeSearch", "closeAll"} => ~m.ok
  BY <1>3, <1>4 DEF CallFields
<1>9. PICK k2 : k2 = [m EXCEPT !.plan = rest, !.at = IF rest = <<>> THEN "answer" ELSE "running",
                          !.out = IF rest = <<>> /\ m.ok THEN View(m.req.view) ELSE Absent]
  OBVIOUS
<1>10. /\ call' = [call EXCEPT ![c] = k2]
       /\ told' = IF rest = <<>> /\ m.ok THEN told \cup m.seen ELSE told
  BY <1>6, <1>9 DEF GoesOn
<1>11. /\ Same(k, k2) /\ k2.ok = m.ok /\ k2.seen = k.seen /\ k2.filled = k.filled
       /\ k2.plan = rest /\ k2.at = IF rest = <<>> THEN "answer" ELSE "running"
  BY <1>8, <1>9 DEF Same, CallFields
<1>12. Touches(c, k, k2, p, k.seen)
  BY <1>3, <1>6, <1>7, <1>10, <1>11 DEF Touches, Left
<1>13. met'[c] = IF p.doc # page.doc THEN Elements ELSE met[c]
  BY <1>7, RefuseIs DEF Left
<1>14. rest = IF Tolerates(o) THEN Tail(k.plan) ELSE <<>>
  BY <1>3, <1>5 DEF RestAfter
<1>15. /\ k2.at = "answer" \/ (k2.at = "running" /\ Tolerates(o) /\ k2.plan = Tail(k.plan)
                              /\ k2.plan # <<>>)
       /\ o.op = "extract" /\ Tail(k.plan) # <<>> => k2.at = "running"
  BY <1>11, <1>14 DEF Tolerates
<1>16. GaveUp(c, k, k2, o, p)
  <2>1. told \subseteq told' /\ excused \subseteq excused'
    BY <1>6, <1>10
  <2>2. searches' \subseteq searches \cup {k.id}
    BY <1>6 DEF Searches
  <2>3. k.id \in excused' \/ (searches' = searches /\ o.op # "closeSearch")
    BY <1>6 DEF Searches
  <2> QED
    BY <1>6, <1>7, <1>8, <1>11, <1>12, <1>13, <1>15, <2>1, <2>2, <2>3 DEF GaveUp
<1> QED
  BY <1>1, <1>2, <1>16

LEMMA TimeoutIs ==
    ASSUME RunInv, NEW c \in Callers, Timeout(c)
    PROVE  \E k2, p : GaveUp(c, call[c], k2, call[c].plan[1], p)
<1>1. PICK k : k = call[c]
  OBVIOUS
<1>2. PICK o : o = k.plan[1]
  OBVIOUS
<1>3. k.at = "running" /\ DOMAIN k = CallFields /\ Head(k.plan) = o
  BY <1>1, <1>2, RunningIs DEF Timeout
<1>4. PICK k2 : k2 = [k EXCEPT !.ok = FALSE, !.at = "answer"]
  OBVIOUS
<1>5. /\ \E p \in {page} \cup (IF CanDo(c, o) /\ o.op \notin {"log", "clear"}
                               THEN Outcomes(o) ELSE {}) : Leaves(c, Refuse, p, k.seen)
      /\ searches' \in {searches, Searches(k.id, o)}
      /\ call' = [call EXCEPT ![c] = k2] /\ excused' = excused \cup {k.id}
      /\ setup' = setup /\ script' = script /\ begun' = begun
      /\ told' = told /\ written' = written
  BY <1>1, <1>3, <1>4 DEF Timeout
<1>6. PICK p : /\ p = page \/ (CanDo(c, o) /\ o.op \notin {"log", "clear"} /\ p \in Outcomes(o))
               /\ Left(c, Refuse, p, k.seen)
  BY <1>5, LeavesIs
<1>7. /\ Same(k, k2) /\ ~k2.ok /\ k2.at = "answer" /\ k2.seen = k.seen /\ k2.filled = k.filled
  BY <1>3, <1>4 DEF Same, CallFields
<1>8. Touches(c, k, k2, p, k.seen)
  BY <1>3, <1>5, <1>6, <1>7 DEF Touches, Left
<1>9. met'[c] = IF p.doc # page.doc THEN Elements ELSE met[c]
  BY <1>6, RefuseIs DEF Left
<1>10. searches' \subseteq searches \cup {k.id}
  BY <1>5 DEF Searches
<1>11. GaveUp(c, k, k2, o, p)
  BY <1>5, <1>6, <1>7, <1>8, <1>9, <1>10 DEF GaveUp
<1> QED
  BY <1>1, <1>2, <1>11

----------------------------------------------------------------------------
(* The steps keep the invariant of the calls.                              *)

LEMMA CallGrows ==
    ASSUME NEW k, NEW w, NEW w2, CallInv(k, w), w \subseteq w2
    PROVE  CallInv(k, w2)
  BY DEF CallInv, PlanLeft, LogLeft

LEMMA CallsKept ==
    ASSUME CallsInv, NEW c \in Callers, NEW k2, call' = [call EXCEPT ![c] = k2],
           CallInv(k2, written'), written \subseteq written'
    PROVE  CallsInv'
<1>1. DOMAIN call = Callers
  BY DEF CallsInv
<1>2. DOMAIN call' = Callers /\ call'[c] = k2 /\ \A d \in Callers \ {c} : call'[d] = call[d]
  BY <1>1
<1>3. ASSUME NEW d \in Callers PROVE CallInv(call'[d], written')
  <2>1. CASE d = c
    BY <1>2, <2>1
  <2>2. CASE d # c
    <3>1. CallInv(call[d], written)
      BY DEF CallsInv
    <3> QED
      BY <1>2, <2>2, <3>1, CallGrows
  <2> QED
    BY <2>1, <2>2
<1> QED
  BY <1>2, <1>3 DEF CallsInv

(* The invariant of a call that goes on.                                   *)
LEMMA GoingOn ==
    ASSUME NEW k, NEW k2, NEW w2, Same(k, k2), IsRequest(k.req), k2.at = "running",
           PlanLeft(k2, w2)
    PROVE  CallInv(k2, w2)
  BY DEF Same, CallInv

LEMMA Answers ==
    ASSUME NEW k, NEW k2, NEW w2, Same(k, k2), IsRequest(k.req), k2.at = "answer"
    PROVE  CallInv(k2, w2)
  BY DEF Same, CallInv

LEMMA BoxesAre ==
    ASSUME NEW v PROVE (IF v = "true" THEN "true" ELSE "false") \in Boxes
  BY DEF Boxes

LEMMA DidCall ==
    ASSUME RunInv, NEW c \in Callers, NEW k, k = call[c], NEW k2, NEW o, o = k.plan[1], NEW p,
           DidIt(c, k, k2, o, p)
    PROVE  CallInv(k2, written')
<1>1. /\ k.at = "running" /\ Same(k, k2) /\ k2.req = k.req /\ o.op # "refuse"
      /\ k2.at = IF k2.plan = <<>> THEN "answer" ELSE "running"
      /\ k2.ok <=> k.ok
      /\ o.op # "log" => k2.seen = k.seen
      /\ o.op # "check" => k2.plan = Tail(k.plan)
      /\ o.op = "write" => k.seen \subseteq written'
  BY DEF DidIt, Touches, CanDo, Same
<1>2. IsRequest(k.req) /\ PlanLeft(k, written)
  BY <1>1, RunningIs
<1>3. CASE k2.plan = <<>>
  BY <1>1, <1>2, <1>3, Answers
<1>4. CASE k2.plan # <<>>
  <2>1. /\ k.plan \in Seq(Operations) /\ k.plan # <<>>
        /\ k.req.tool # "network_requests" => k.seen = {}
    BY <1>2 DEF PlanLeft
  <2>2. k2.req.tool # "network_requests" => k2.seen = {}
    BY <1>1, <1>2, <2>1, HeadIs
  <2>3. o.op # "check" => k2.plan \in Seq(Operations)
    <3>1. Tail(k.plan) \in Seq(Operations)
      BY <2>1, TailIs
    <3> QED
      BY <1>1, <3>1
  <2>4. CASE k.req.tool \in FormTools
    <3>1. /\ FieldsLeft(k) /\ k.ok /\ Len(FieldsOf(k.req)) \in Nat
          /\ k.req.tool \notin {"network_requests", "browser_web_search"}
      BY <1>2, <2>4, FieldsAre DEF PlanLeft, FieldsLeft, FormTools
    <3>2. FieldsLeft(k2) /\ k2.plan \in Seq(Operations)
      <4>1. CASE o.op = "check"
        <5>1. PICK v \in Boxes : k2.plan = <<Settle(o, v)>> \o Tail(k.plan)
          BY <4>1, BoxesAre DEF DidIt
        <5>2. k2.filled = k.filled
          BY <4>1 DEF DidIt
        <5> QED
          BY <1>1, <2>1, <3>1, <4>1, <5>1, <5>2, BoxRead
      <4>2. CASE o.op # "check"
        <5>1. k2.filled = k.filled + 1
          BY <1>1, <1>2, <2>4, <4>2, HeadIs DEF DidIt
        <5> QED
          BY <1>1, <2>1, <3>1, <4>2, <5>1, FieldDone
      <4> QED
        BY <4>1, <4>2
    <3>3. PlanLeft(k2, written')
      BY <1>1, <1>4, <2>2, <2>4, <3>1, <3>2 DEF PlanLeft
    <3> QED
      BY <1>1, <1>2, <1>4, <3>3, GoingOn
  <2>5. CASE k.req.tool \notin FormTools
    <3>1. o.op # "check" /\ k2.plan = Tail(k.plan) /\ k2.plan \in Seq(Operations)
      BY <1>1, <1>2, <2>3, <2>5, HeadIs
    <3>2. k.req.tool = "network_requests" => LogLeft(k2, written')
      <4>1. k.req.tool = "network_requests" => LogLeft(k, written) /\ k.ok
        BY <1>2 DEF PlanLeft, LogLeft
      <4> QED
        BY <1>1, <1>4, <2>1, <3>1, <4>1, LogDone
    <3>3. k.req.tool = "browser_web_search" => SearchLeft(k2)
      BY <1>2, <1>4, <2>1, <3>1, SearchDone DEF PlanLeft
    <3>4. k.req.tool \notin FormTools \cup {"network_requests", "browser_web_search"} =>
             \A i \in 1 .. Len(k2.plan) : Ordinary(k2.plan[i])
      BY <1>2, <2>1, <3>1, OrdinaryDone DEF PlanLeft
    <3>5. PlanLeft(k2, written')
      BY <1>1, <1>4, <2>2, <2>5, <3>1, <3>2, <3>3, <3>4 DEF PlanLeft
    <3> QED
      BY <1>1, <1>2, <1>4, <3>5, GoingOn
  <2> QED
    BY <2>4, <2>5
<1> QED
  BY <1>3, <1>4

LEMMA GaveUpCall ==
    ASSUME RunInv, NEW c \in Callers, NEW k, k = call[c], NEW k2, NEW o, o = k.plan[1], NEW p,
           GaveUp(c, k, k2, o, p)
    PROVE  CallInv(k2, written')
<1>1. /\ k.at = "running" /\ Same(k, k2) /\ k2.req = k.req /\ k2.seen = k.seen
      /\ \/ k2.at = "answer"
         \/ k2.at = "running" /\ Tolerates(o) /\ k2.plan = Tail(k.plan) /\ k2.plan # <<>>
  BY DEF GaveUp, Touches, Same
<1>2. IsRequest(k.req) /\ PlanLeft(k, written)
  BY <1>1, RunningIs
<1>3. CASE k2.at = "answer"
  BY <1>1, <1>2, <1>3, Answers
<1>4. CASE k2.at = "running" /\ Tolerates(o) /\ k2.plan = Tail(k.plan) /\ k2.plan # <<>>
  <2>1. /\ k.plan \in Seq(Operations) /\ k.plan # <<>>
        /\ k.req.tool # "network_requests" => k.seen = {}
    BY <1>2 DEF PlanLeft
  <2>2. k.req.tool \notin FormTools /\ k.req.tool # "network_requests"
    BY <1>2, <1>4, HeadIs DEF Tolerates
  <2>3. k2.plan \in Seq(Operations)
    BY <1>4, <2>1, TailIs
  <2>4. k.req.tool = "browser_web_search" => SearchLeft(k2)
    BY <1>2, <1>4, <2>1, SearchDone DEF PlanLeft
  <2>5. k.req.tool \notin FormTools \cup {"network_requests", "browser_web_search"} =>
           \A i \in 1 .. Len(k2.plan) : Ordinary(k2.plan[i])
    BY <1>2, <1>4, <2>1, OrdinaryDone DEF PlanLeft
  <2>6. PlanLeft(k2, written')
    BY <1>1, <1>4, <2>1, <2>2, <2>3, <2>4, <2>5 DEF PlanLeft
  <2> QED
    BY <1>1, <1>2, <1>4, <2>6, GoingOn
<1> QED
  BY <1>1, <1>3, <1>4

----------------------------------------------------------------------------
(* The steps keep the page's invariant, the entries and the searches.      *)

(* A step of a running call.                                               *)
Moves(c, k, k2, o, p) == DidIt(c, k, k2, o, p) \/ GaveUp(c, k, k2, o, p)

LEMMA PageMoves ==
    ASSUME RunInv, NEW c \in Callers, NEW k, k = call[c], NEW k2, NEW o, o = k.plan[1], NEW p,
           Moves(c, k, k2, o, p)
    PROVE  PageInv' /\ page' = p /\ p.next = page.next
<1>1. k.at = "running" /\ page' = p /\ (p = page \/ p \in Outcomes(o))
  BY DEF Moves, DidIt, GaveUp, Touches
<1>2. PageInv /\ o \in Operations /\ (o.op \in {"type", "select"} => o.el # Box)
  BY <1>1, RunningIs DEF RunInv
<1>3. p \in Pages /\ p.form[Box] \in Boxes /\ p.next = page.next
  BY <1>1, <1>2, OutcomesAre DEF PageInv
<1> QED
  BY <1>1, <1>3 DEF PageInv

LEMMA RunMoves ==
    ASSUME RunInv, NEW c \in Callers, NEW k, k = call[c], NEW k2, NEW o, o = k.plan[1], NEW p,
           Moves(c, k, k2, o, p)
    PROVE  RunInv'
<1>1. PageInv'
  BY PageMoves
<1>2. CallInv(k2, written')
  BY DidCall, GaveUpCall DEF Moves
<1>3. /\ call' = [call EXCEPT ![c] = k2] /\ written \subseteq written'
      /\ DOMAIN met' = Callers /\ script' = script /\ begun' = begun
  BY DEF Moves, DidIt, GaveUp, Touches
<1>4. CallsInv'
  BY <1>2, <1>3, CallsKept DEF RunInv
<1> QED
  BY <1>1, <1>3, <1>4 DEF RunInv

LEMMA EntriesMove ==
    ASSUME EntriesKept, NEW seen, page'.next = page.next,
           dropped' = dropped \cup (page.log \ (page'.log \cup seen)),
           told \subseteq told', written \subseteq written',
           seen \subseteq told' \cup written' \/ page'.log = page.log
    PROVE  EntriesKept'
  BY DEF EntriesKept

LEMMA DidEntries ==
    ASSUME RunInv, EntriesKept, NEW c \in Callers, NEW k, k = call[c], NEW k2, NEW o,
           o = k.plan[1], NEW p, DidIt(c, k, k2, o, p)
    PROVE  EntriesKept'
<1>1. /\ k.at = "running" /\ p \in Outcomes(o) /\ o.op # "refuse"
      /\ k2.ok <=> k.ok
      /\ o.op # "log" => k2.seen = k.seen
      /\ o.op # "check" => k2.plan = Tail(k.plan)
      /\ dropped' = dropped \cup (page.log \ (p.log \cup k2.seen))
      /\ told' = IF k2.plan = <<>> /\ k2.ok THEN told \cup k2.seen ELSE told
      /\ written \subseteq written'
  BY DEF DidIt, Touches, CanDo
<1>2. PlanLeft(k, written) /\ page' = p /\ p.next = page.next
  <2>1. PlanLeft(k, written)
    BY <1>1, RunningIs
  <2>2. page' = p /\ p.next = page.next
    <3>1. Moves(c, k, k2, o, p)
      BY DEF Moves
    <3> QED
      BY <3>1, PageMoves
  <2> QED
    BY <2>1, <2>2
<1>3. told \subseteq told'
  BY <1>1
<1>4. CASE k.req.tool # "network_requests"
  <2>1. k2.seen = {}
    BY <1>1, <1>2, <1>4, HeadIs DEF PlanLeft
  <2>2. k2.seen \subseteq told' \cup written'
    BY <2>1
  <2> QED
    BY <1>1, <1>2, <1>3, <2>2, EntriesMove
<1>5. CASE k.req.tool = "network_requests"
  <2>1. LogLeft(k, written) /\ k.ok /\ k.plan \in Seq(Operations) /\ k.plan # <<>>
    BY <1>2, <1>5 DEF PlanLeft, LogLeft
  <2>2. CASE o.op = "log"
    <3>1. CASE k2.plan = <<>>
      <4>1. k2.seen \subseteq told' \cup written'
        BY <1>1, <2>1, <3>1
      <4> QED
        BY <1>1, <1>2, <1>3, <4>1, EntriesMove
    <3>2. CASE k2.plan # <<>>
      <4>1. Len(k.plan) # 1
        BY <1>1, <2>1, <2>2, <3>2, TailIs
      <4>2. ~o.clear
        BY <2>1, <2>2, <4>1 DEF LogLeft
      <4>3. p = page
        BY <1>1, <2>2, <4>2 DEF Outcomes
      <4> QED
        BY <1>1, <1>2, <1>3, <4>3, EntriesMove
    <3> QED
      BY <3>1, <3>2
  <2>3. CASE o.op = "write"
    <3>1. p = page
      BY <1>1, <2>3 DEF Outcomes
    <3> QED
      BY <1>1, <1>2, <1>3, <3>1, EntriesMove
  <2>4. CASE o.op = "clear"
    <3>1. k2.seen \subseteq told' \cup written'
      BY <1>1, <2>1, <2>4 DEF LogLeft
    <3> QED
      BY <1>1, <1>2, <1>3, <3>1, EntriesMove
  <2> QED
    BY <1>1, <2>1, <2>2, <2>3, <2>4 DEF LogLeft
<1> QED
  BY <1>4, <1>5

LEMMA GaveUpEntries ==
    ASSUME RunInv, EntriesKept, NEW c \in Callers, NEW k, k = call[c], NEW k2, NEW o,
           o = k.plan[1], NEW p, GaveUp(c, k, k2, o, p)
    PROVE  EntriesKept'
<1>1. /\ k.at = "running"
      /\ p = page \/ (o.op \notin {"log", "clear"} /\ o.op # "refuse" /\ p \in Outcomes(o))
      /\ dropped' = dropped \cup (page.log \ (p.log \cup k.seen))
      /\ told \subseteq told' /\ written \subseteq written'
  BY DEF GaveUp, Touches, CanDo
<1>2. PlanLeft(k, written) /\ page' = p /\ p.next = page.next
  BY <1>1, RunningIs, PageMoves DEF Moves
<1>3. CASE k.req.tool # "network_requests"
  <2>1. k.seen = {}
    BY <1>2, <1>3 DEF PlanLeft
  <2>2. k.seen \subseteq told' \cup written'
    BY <2>1
  <2> QED
    BY <1>1, <1>2, <2>2, EntriesMove
<1>4. CASE k.req.tool = "network_requests"
  <2>1. o.op \in {"refuse", "log", "write", "clear"}
    BY <1>2, <1>4, HeadIs
  <2>2. p = page
    BY <1>1, <2>1 DEF Outcomes
  <2> QED
    BY <1>1, <1>2, <2>2, EntriesMove
<1> QED
  BY <1>3, <1>4

LEMMA SearchMoves ==
    ASSUME RunInv, SearchInv, NEW c \in Callers, NEW k, k = call[c], NEW k2, NEW o,
           o = k.plan[1], NEW p, Moves(c, k, k2, o, p)
    PROVE  SearchInv'
<1>1. k.at = "running" /\ Same(k, k2) /\ k2.req = k.req /\ k2.id = k.id
  BY DEF Moves, DidIt, GaveUp, Touches, Same
<1>2. PlanLeft(k, written) /\ o \in Operations
  BY <1>1, RunningIs
<1>3. DOMAIN call = Callers /\ call' = [call EXCEPT ![c] = k2]
  BY DEF RunInv, CallsInv, Moves, DidIt, GaveUp, Touches
<1>4. call'[c] = k2 /\ \A d \in Callers \ {c} : call'[d] = call[d]
  BY <1>3
<1>5. /\ k.plan \in Seq(Operations) /\ k.plan # <<>>
      /\ k.req.tool = "browser_web_search" => SearchLeft(k)
  BY <1>2 DEF PlanLeft
<1>6. PICK rest : rest = Tail(k.plan)
  OBVIOUS
<1>7. k.req.tool = "browser_web_search" =>
         /\ o.op = "openSearch" => rest # <<>> /\ rest[1].op = "extract"
         /\ o.op = "extract" => rest # <<>> /\ rest[1].op = "closeSearch"
  <2>1. PICK x : x = [plan |-> rest]
    OBVIOUS
  <2>2. x.plan = rest /\ x.plan = Tail(k.plan)
    BY <1>6, <2>1
  <2>3. ASSUME k.req.tool = "browser_web_search"
        PROVE  /\ k.plan[1].op = "openSearch" => x.plan # <<>> /\ x.plan[1].op = "extract"
               /\ k.plan[1].op = "extract" => x.plan # <<>> /\ x.plan[1].op = "closeSearch"
    BY <1>5, <2>2, <2>3, SearchDone
  <2> QED
    BY <2>2, <2>3
(* The session of another id has the witness it had, or that of this call. *)
<1>8. ASSUME NEW id \in searches \ excused, k.id = id => (Closes(k, id) => Closes(k2, id))
      PROVE  \E d \in Callers : Closes(call'[d], id)
  <2>1. PICK d \in Callers : Closes(call[d], id)
    BY DEF SearchInv
  <2>2. CASE d = c
    BY <1>4, <1>8, <2>1, <2>2 DEF Closes
  <2>3. CASE d # c
    BY <1>4, <2>1, <2>3
  <2> QED
    BY <2>2, <2>3
<1>9. ASSUME DidIt(c, k, k2, o, p), NEW id \in searches' \ excused'
      PROVE  \E d \in Callers : Closes(call'[d], id)
  <2>1. /\ searches' = Searches(k.id, o) /\ excused' = excused
        /\ k2.at = IF k2.plan = <<>> THEN "answer" ELSE "running"
        /\ o.op # "check" => k2.plan = rest
    BY <1>6, <1>9 DEF DidIt
  <2>2. CASE o.op = "openSearch" /\ id = k.id
    <3>1. k.req.tool = "browser_web_search" /\ k2.plan = rest
      BY <1>2, <2>1, <2>2, HeadIs
    <3>2. Closes(k2, id)
      BY <1>1, <1>7, <2>1, <2>2, <3>1 DEF Closes
    <3> QED
      BY <1>4, <3>2
  <2>3. CASE ~(o.op = "openSearch" /\ id = k.id)
    <3>1. id \in searches \ excused /\ ~(o.op = "closeSearch" /\ id = k.id)
      BY <2>1, <2>3, <1>9 DEF Searches
    <3>2. ASSUME Closes(k, id) PROVE Closes(k2, id)
      <4>1. k.id = id /\ k.req.tool = "browser_web_search" /\ o.op = "extract"
        BY <3>1, <3>2 DEF Closes
      <4> QED
        BY <1>1, <1>7, <2>1, <4>1 DEF Closes
    <3> QED
      BY <1>8, <3>1, <3>2
  <2> QED
    BY <2>2, <2>3
<1>10. ASSUME GaveUp(c, k, k2, o, p), NEW id \in searches' \ excused'
       PROVE  \E d \in Callers : Closes(call'[d], id)
  <2>1. /\ excused \subseteq excused' /\ searches' \subseteq searches \cup {k.id}
        /\ \/ k.id \in excused'
           \/ /\ searches' = searches /\ o.op # "closeSearch"
              /\ o.op = "extract" /\ rest # <<>> => k2.at = "running"
        /\ k2.at = "answer" \/ k2.plan = rest
    BY <1>6, <1>10 DEF GaveUp
  <2>2. id \in searches \ excused
    BY <1>10, <2>1
  <2>3. ASSUME k.id = id, Closes(k, id) PROVE Closes(k2, id)
    <3>1. k.req.tool = "browser_web_search" /\ o.op \in {"extract", "closeSearch"}
      BY <2>3 DEF Closes
    <3>2. o.op = "extract" /\ (rest # <<>> => k2.at = "running")
      BY <1>10, <2>1, <2>3, <3>1
    <3>3. rest # <<>> /\ rest[1].op = "closeSearch"
      BY <1>7, <3>1, <3>2
    <3> QED
      BY <1>1, <2>1, <2>3, <3>1, <3>2, <3>3 DEF Closes
  <2> QED
    BY <1>8, <2>2, <2>3
<1> QED
  BY <1>9, <1>10 DEF SearchInv, Moves

----------------------------------------------------------------------------
(* The steps keep what is known of the forms.                              *)

LEMMA WantedSame ==
    ASSUME NEW k, NEW k2, Same(k, k2), k2.filled = k.filled, NEW e
    PROVE  Wanted(k2, e) = Wanted(k, e)
  BY DEF Wanted, Same

LEMMA WantedNext ==
    ASSUME NEW k, NEW k2, Same(k, k2), k.filled \in Nat, k2.filled = k.filled + 1, NEW e
    PROVE  LET field == FieldsOf(k.req)[k.filled + 1] IN
           Wanted(k2, e) = IF field.el = e THEN field.value ELSE Wanted(k, e)
<1>0. PICK field : field = FieldsOf(k.req)[k.filled + 1]
  OBVIOUS
<1>1. PICK fields : fields = FieldsOf(k.req)
  OBVIOUS
<1>2. PICK n \in Nat : n = k.filled
  OBVIOUS
<1>3. PICK hits : hits = {i \in 1 .. n : fields[i].el = e}
  OBVIOUS
<1>4. PICK hits2 : hits2 = {i \in 1 .. n + 1 : fields[i].el = e}
  OBVIOUS
<1>5. /\ Wanted(k, e) = IF hits = {} THEN k.before[e]
                        ELSE fields[CHOOSE i \in hits : \A j \in hits : j <= i].value
      /\ Wanted(k2, e) = IF hits2 = {} THEN k.before[e]
                         ELSE fields[CHOOSE i \in hits2 : \A j \in hits2 : j <= i].value
  BY <1>1, <1>2, <1>3, <1>4 DEF Wanted, Same
<1>6. ASSUME field.el # e PROVE hits2 = hits
  <2>1. \A i \in 1 .. n + 1 : i \in 1 .. n \/ i = n + 1
    OBVIOUS
  <2>2. 1 .. n \subseteq 1 .. n + 1
    OBVIOUS
  <2> QED
    BY <1>0, <1>1, <1>2, <1>3, <1>4, <1>6, <2>1, <2>2
<1>7. ASSUME field.el = e PROVE Wanted(k2, e) = field.value
  <2>1. n + 1 \in hits2 /\ \A j \in hits2 : j <= n + 1 /\ j \in Nat
    BY <1>0, <1>1, <1>2, <1>4, <1>7
  <2>2. PICK last : last = CHOOSE i \in hits2 : \A j \in hits2 : j <= i
    OBVIOUS
  <2>3. last \in hits2 /\ \A j \in hits2 : j <= last
    BY <2>1, <2>2
  <2>4. last = n + 1
    BY <2>1, <2>3
  <2> QED
    BY <1>0, <1>1, <1>2, <1>5, <2>1, <2>2, <2>4
<1> QED
  BY <1>0, <1>5, <1>6, <1>7

LEMMA FormKept ==
    ASSUME NEW k, NEW f, NEW f2, NEW m, NEW m2, FormInv(k, f, m), m \subseteq m2,
           \A e \in Elements \ m2 : f2[e] = f[e]
    PROVE  FormInv(k, f2, m2)
<1> SUFFICES ASSUME k.at # "idle", k.req.tool \in FormTools PROVE FormInv(k, f2, m2)
  BY DEF FormInv
<1>1. \A e \in Elements \ m2 : e \in Elements \ m /\ f2[e] = f[e]
  OBVIOUS
<1>2. k.at = "sent" => \A e \in Elements \ m2 : f2[e] = k.before[e]
  BY <1>1 DEF FormInv
<1>3. k.at = "running" =>
         \A e \in Elements \ m2 : f2[e] = Wanted(k, e) \/ (Settled(k.plan[1]) /\ e = Box)
  BY <1>1 DEF FormInv
<1>4. k.at = "running" /\ Settled(k.plan[1]) /\ Box \notin m2 =>
         (k.plan[1].op = "keep" <=> f2[Box] = k.plan[1].value)
  BY <1>1, FormHasBox DEF FormInv
<1>5. k.at = "answer" => \A e \in Elements \ m2 :
         \/ /\ ~k.ok /\ k.filled < Len(FieldsOf(k.req))
            /\ FieldsOf(k.req)[k.filled + 1].el = e
         \/ f2[e] = Wanted(k, e)
  BY <1>1 DEF FormInv
<1> QED
  BY <1>2, <1>3, <1>4, <1>5 DEF FormInv

LEMMA ChangedIs ==
    ASSUME NEW p
    PROVE  /\ \A e \in Elements \ Changed(p) : p.form[e] = page.form[e]
           /\ p.doc # page.doc => Changed(p) = Elements
  BY DEF Changed

(* The form is that of the page; of the elements that others changed since *)
(* the call handled them nothing is known.                                 *)
Handles(k, k2, o, f, f2, m, m2) ==
    /\ o = k.plan[1] /\ f \in [Elements -> Values] /\ f[Box] \in Boxes
    /\ k.at = "running" /\ k.req.tool \in FormTools /\ IsRequest(k.req) /\ FormInv(k, f, m)
    /\ FieldsLeft(k) /\ k.plan \in Seq(Operations) /\ k.plan # <<>>
    /\ Same(k, k2) /\ k2.ok /\ o.op \in {"type", "select", "keep", "click"}
    /\ k2.filled = k.filled + 1 /\ k2.plan = Tail(k.plan)
    /\ k2.at = IF k2.plan = <<>> THEN "answer" ELSE "running"
    /\ o.op \in {"type", "select"} => m2 = m \ {o.el} /\ f2 = [f EXCEPT ![o.el] = o.value]
    /\ o.op = "keep" => m2 = m /\ f2 = f
    /\ o.op = "click" => m2 = m /\ f2 = [f EXCEPT ![Box] = Flip(f[Box])]

LEMMA FieldHandled ==
    ASSUME NEW k, NEW k2, NEW o, NEW f, NEW f2, NEW m, NEW m2, Handles(k, k2, o, f, f2, m, m2)
    PROVE  FormInv(k2, f2, m2)
<1>0. /\ o = k.plan[1] /\ f \in [Elements -> Values] /\ f[Box] \in Boxes
      /\ k.at = "running" /\ k.req.tool \in FormTools /\ IsRequest(k.req) /\ FormInv(k, f, m)
      /\ FieldsLeft(k) /\ k.plan \in Seq(Operations) /\ k.plan # <<>>
      /\ Same(k, k2) /\ k2.ok /\ o.op \in {"type", "select", "keep", "click"}
      /\ k2.filled = k.filled + 1 /\ k2.plan = Tail(k.plan)
      /\ k2.at = IF k2.plan = <<>> THEN "answer" ELSE "running"
      /\ o.op \in {"type", "select"} => m2 = m \ {o.el} /\ f2 = [f EXCEPT ![o.el] = o.value]
      /\ o.op = "keep" => m2 = m /\ f2 = f
      /\ o.op = "click" => m2 = m /\ f2 = [f EXCEPT ![Box] = Flip(f[Box])]
  BY DEF Handles
<1>1. PICK fields : fields = FieldsOf(k.req)
  OBVIOUS
<1>2. Len(fields) \in Nat /\ FieldsOf(k2.req) = fields /\ k2.req = k.req
  BY <1>0, <1>1, FieldsAre DEF Same
<1>3. PICK n \in Nat : n = k.filled
  BY <1>0 DEF FieldsLeft
<1>4. PICK field : field = fields[n + 1]
  OBVIOUS
<1>5. /\ OpFor(o, field)
      /\ k2.plan = <<>> => k2.filled = Len(fields)
      /\ k2.plan # <<>> => ~Settled(k2.plan[1])
  <2>1. Len(FieldsOf(k.req)) \in Nat /\ k.plan[1].op \notin {"refuse", "check"}
    BY <1>0, <1>1, <1>2
  <2>2. /\ OpFor(k.plan[1], FieldsOf(k.req)[k.filled + 1])
        /\ k2.plan = <<>> => k2.filled = Len(FieldsOf(k.req))
        /\ k2.plan # <<>> => ~Settled(k2.plan[1])
    BY <1>0, <1>2, <2>1, FieldDone
  <2> QED
    BY <1>0, <1>1, <1>3, <1>4, <2>2
<1>6. /\ o.el = field.el /\ o.value = field.value
      /\ o.op \in {"type", "select"} => o.el # Box
      /\ o.op \in {"keep", "click"} => o.el = Box /\ o.value \in Boxes /\ Settled(o)
      /\ Settled(o) <=> o.op \in {"keep", "click"}
  BY <1>0, <1>5 DEF OpFor, Settled
<1>7. ASSUME NEW e \in Elements
      PROVE  /\ field.el = e => Wanted(k2, e) = field.value
             /\ field.el # e => Wanted(k2, e) = Wanted(k, e)
  <2>1. field = FieldsOf(k.req)[k.filled + 1] /\ k.filled \in Nat
    BY <1>1, <1>3, <1>4
  <2>2. LET next == FieldsOf(k.req)[k.filled + 1] IN
        Wanted(k2, e) = IF next.el = e THEN next.value ELSE Wanted(k, e)
    BY <1>0, <2>1, WantedNext
  <2> QED
    BY <2>1, <2>2
<1>8. /\ \A e \in Elements \ m : f[e] = Wanted(k, e) \/ (Settled(o) /\ e = Box)
      /\ Settled(o) /\ Box \notin m => (o.op = "keep" <=> f[Box] = o.value)
  BY <1>0 DEF FormInv
<1>9. ASSUME NEW e \in Elements \ m2 PROVE f2[e] = Wanted(k2, e)
  <2>1. CASE e = o.el
    <3>1. Wanted(k2, e) = o.value
      BY <1>0, <1>6, <1>7, <2>1
    <3>2. CASE o.op \in {"type", "select"}
      BY <1>0, <2>1, <3>1, <3>2
    <3>3. CASE o.op = "keep"
      BY <1>0, <1>6, <1>8, <2>1, <3>1, <3>3
    <3>4. CASE o.op = "click"
      <4>1. e = Box /\ f[Box] # o.value /\ o.value \in Boxes
        BY <1>0, <1>6, <1>8, <2>1, <3>4
      <4>2. Flip(f[Box]) = o.value
        BY <1>0, <4>1 DEF Flip, Boxes
      <4> QED
        BY <1>0, <3>1, <3>4, <4>1, <4>2
    <3> QED
      BY <1>0, <3>2, <3>3, <3>4
  <2>2. CASE e # o.el
    <3>1. e \in Elements \ m /\ f2[e] = f[e]
      BY <1>0, <1>6, <2>2
    <3>2. f[e] = Wanted(k, e)
      BY <1>0, <1>6, <1>8, <2>2, <3>1
    <3> QED
      BY <1>0, <1>6, <1>7, <2>2, <3>1, <3>2
  <2> QED
    BY <1>0, <2>1, <2>2
<1>10. k2.filled \in Nat
  BY <1>0, <1>3
<1> QED
  BY <1>0, <1>2, <1>5, <1>9, <1>10 DEF FormInv

LEMMA BoxSettled ==
    ASSUME NEW k, NEW k2, NEW f, NEW m, NEW o, o = k.plan[1], f[Box] \in Boxes,
           k.at = "running", k.req.tool \in FormTools, IsRequest(k.req), FormInv(k, f, m),
           FieldsLeft(k), k.plan \in Seq(Operations), k.plan # <<>>,
           Same(k, k2), k2.ok, o.op = "check", k2.filled = k.filled,
           k2.plan = <<Settle(o, f[Box])>> \o Tail(k.plan), k2.at = "running"
    PROVE  FormInv(k2, f, m \ {o.el})
<1>1. /\ k2.plan[1].value = o.value /\ Settled(k2.plan[1]) /\ o.el = Box
      /\ k2.plan[1].op = "keep" <=> o.value = f[Box]
  <2>1. Len(FieldsOf(k.req)) \in Nat /\ k2.req = k.req
    BY FieldsAre DEF Same
  <2> QED
    BY <2>1, BoxRead
<1>2. ~Settled(o)
  BY DEF Settled
<1>3. \A e \in Elements \ m : f[e] = Wanted(k, e)
  BY <1>2 DEF FormInv
<1>4. \A e \in Elements \ (m \ {o.el}) : f[e] = Wanted(k2, e) \/ e = Box
  BY <1>1, <1>3, WantedSame
<1>5. k2.filled \in Nat
  BY DEF FieldsLeft
<1> QED
  BY <1>1, <1>4, <1>5 DEF FormInv

LEMMA DidForm ==
    ASSUME RunInv, FormsInv, NEW c \in Callers, NEW k, k = call[c], NEW k2, NEW o,
           o = k.plan[1], NEW p, DidIt(c, k, k2, o, p), k.req.tool \in FormTools
    PROVE  FormInv(k2, p.form, met'[c])
<1>1. /\ k.at = "running" /\ p \in Outcomes(o) /\ o.op # "refuse" /\ Same(k, k2)
      /\ k2.ok <=> k.ok
      /\ k2.at = IF k2.plan = <<>> THEN "answer" ELSE "running"
      /\ k2.filled = IF o.op \in {"keep", "click", "type", "select"} THEN k.filled + 1
                     ELSE k.filled
      /\ met'[c] = IF p.doc # page.doc THEN Elements
                   ELSE met[c] \ (IF o.op \in {"check", "type", "select"} THEN {o.el} ELSE {})
      /\ o.op # "check" => k2.plan = Tail(k.plan)
  BY DEF DidIt, Touches, CanDo
<1>2. /\ IsRequest(k.req) /\ PlanLeft(k, written) /\ o \in Operations
      /\ o.op \in {"type", "select"} => o.el # Box
  BY <1>1, RunningIs
<1>3. FieldsLeft(k) /\ k.ok /\ k.plan \in Seq(Operations) /\ k.plan # <<>>
  BY <1>2 DEF PlanLeft, FieldsLeft
<1>4. PageInv /\ page.form \in [Elements -> Values] /\ page.form[Box] \in Boxes
  BY DEF RunInv, PageInv, Pages
<1>5. o.op \in {"type", "select", "check", "keep", "click"}
  BY <1>1, <1>2, HeadIs
<1>6. OpFor(o, FieldsOf(k.req)[k.filled + 1])
  <2>1. 1 \in 1 .. Len(k.plan)
    BY <1>3, TailIs
  <2> QED
    BY <1>1, <1>3, <2>1 DEF FieldsLeft
<1>7. o.op \in {"check", "keep", "click"} => o.el = Box
  BY <1>6 DEF OpFor
<1>8. FormInv(k, page.form, met[c])
  BY DEF FormsInv
<1>9. /\ p.doc = page.doc
      /\ o.op \in {"check", "keep"} => p = page
      /\ o.op \in {"type", "select"} => p.form = [page.form EXCEPT ![o.el] = o.value]
      /\ o.op = "click" => p.form = [page.form EXCEPT ![Box] = Flip(page.form[Box])]
  BY <1>1, <1>2, <1>4, <1>5, <1>7, OutcomesAre
<1>10. met'[c] = met[c] \ (IF o.op \in {"check", "type", "select"} THEN {o.el} ELSE {})
  BY <1>1, <1>9
<1>11. CASE o.op = "check"
  <2>1. (IF page.form[o.el] = "true" THEN "true" ELSE "false") = page.form[Box]
    BY <1>4, <1>7, <1>11 DEF Boxes
  <2>2. k2.plan = <<Settle(o, page.form[Box])>> \o Tail(k.plan)
    BY <1>11, <2>1 DEF DidIt
  <2>3. k2.plan # <<>>
    BY <1>1, <1>3, <1>4, <1>11, <2>2, FieldsAre, <1>2, BoxRead DEF Same
  <2> QED
    BY <1>1, <1>2, <1>3, <1>4, <1>8, <1>9, <1>10, <1>11, <2>2, <2>3, BoxSettled
<1>12. CASE o.op # "check"
  <2>1. PICK f : f = page.form
    OBVIOUS
  <2>2. PICK f2 : f2 = p.form
    OBVIOUS
  <2>3. PICK m : m = met[c]
    OBVIOUS
  <2>4. PICK m2 : m2 = met'[c]
    OBVIOUS
  <2>5. /\ o.op \in {"type", "select"} => m2 = m \ {o.el} /\ f2 = [f EXCEPT ![o.el] = o.value]
        /\ o.op = "keep" => m2 = m /\ f2 = f
        /\ o.op = "click" => m2 = m /\ f2 = [f EXCEPT ![Box] = Flip(f[Box])]
    BY <1>9, <1>10, <2>1, <2>2, <2>3, <2>4
  <2>6. /\ o.op \in {"type", "select", "keep", "click"}
        /\ k2.filled = k.filled + 1 /\ k2.plan = Tail(k.plan) /\ k2.ok
        /\ FormInv(k, f, m) /\ f \in [Elements -> Values] /\ f[Box] \in Boxes
    BY <1>1, <1>3, <1>4, <1>5, <1>8, <1>12, <2>1, <2>3
  <2>7. FormInv(k2, f2, m2)
    <3>1. /\ k.at = "running" /\ IsRequest(k.req) /\ Same(k, k2)
          /\ FieldsLeft(k) /\ k.plan \in Seq(Operations) /\ k.plan # <<>>
          /\ k2.at = IF k2.plan = <<>> THEN "answer" ELSE "running"
      BY <1>1, <1>2, <1>3
    <3>2. Handles(k, k2, o, f, f2, m, m2)
      BY <2>5, <2>6, <3>1 DEF Handles
    <3> QED
      BY <3>2, FieldHandled
  <2> QED
    BY <2>2, <2>4, <2>7
<1> QED
  BY <1>11, <1>12

LEMMA GaveUpForm ==
    ASSUME RunInv, FormsInv, NEW c \in Callers, NEW k, k = call[c], NEW k2, NEW o,
           o = k.plan[1], NEW p, GaveUp(c, k, k2, o, p), k.req.tool \in FormTools
    PROVE  FormInv(k2, p.form, met'[c])
<1>1. /\ k.at = "running" /\ Same(k, k2) /\ k2.filled = k.filled
      /\ p = page \/ (o.op # "refuse" /\ p \in Outcomes(o))
      /\ o.op \notin {"closeSearch", "closeAll"} => ~k2.ok
      /\ k2.at = "answer" \/ Tolerates(o)
      /\ met'[c] = IF p.doc # page.doc THEN Elements ELSE met[c]
  BY DEF GaveUp, Touches, CanDo
<1>2. /\ IsRequest(k.req) /\ PlanLeft(k, written) /\ o \in Operations
      /\ o.op \in {"type", "select"} => o.el # Box
  BY <1>1, RunningIs
<1>3. FieldsLeft(k) /\ k.plan \in Seq(Operations) /\ k.plan # <<>>
  BY <1>2 DEF PlanLeft
<1>4. PageInv /\ page.form \in [Elements -> Values] /\ page.form[Box] \in Boxes
  BY DEF RunInv, PageInv, Pages
<1>5. /\ o.op \in {"refuse", "type", "select", "check", "keep", "click"}
      /\ k2.at = "answer" /\ ~k2.ok
  BY <1>1, <1>2, HeadIs DEF Tolerates
<1>6. PICK fields : fields = FieldsOf(k.req) /\ fields = FieldsOf(k2.req)
  BY <1>1 DEF Same
<1>7. Len(fields) \in Nat /\ k.filled \in Nat
  BY <1>2, <1>3, <1>6, FieldsAre DEF FieldsLeft
<1>8. o.op # "refuse" => OpFor(o, fields[k.filled + 1]) /\ k.filled < Len(fields)
  <2>1. Len(k.plan) \in Nat \ {0} /\ 1 \in 1 .. Len(k.plan)
    BY <1>3, TailIs
  <2>2. o.op # "refuse" => OpFor(o, fields[k.filled + 1]) /\ Len(k.plan) = Len(fields) - k.filled
    BY <1>3, <1>6, <2>1 DEF FieldsLeft
  <2> QED
    BY <1>7, <2>1, <2>2
<1>9. ASSUME NEW e \in Elements \ met'[c]
      PROVE  \/ ~k2.ok /\ k2.filled < Len(fields) /\ fields[k2.filled + 1].el = e
             \/ p.form[e] = Wanted(k2, e)
  <2>1. p.doc = page.doc /\ e \in Elements \ met[c]
    BY <1>1
  <2>2. page.form[e] = Wanted(k, e) \/ (Settled(o) /\ e = Box)
    BY <1>1, <2>1 DEF FormsInv, FormInv
  <2>3. Wanted(k2, e) = Wanted(k, e)
    BY <1>1, WantedSame
  <2>4. CASE o.op = "refuse"
    BY <1>1, <2>2, <2>3, <2>4 DEF Settled
  <2>5. CASE o.op # "refuse" /\ e = o.el
    BY <1>1, <1>5, <1>8, <2>5 DEF OpFor
  <2>6. CASE o.op # "refuse" /\ e # o.el
    <3>1. Settled(o) => e # Box
      BY <1>8, <2>6 DEF OpFor, Settled
    <3>2. o.op = "click" => o.el = Box
      BY <1>8, <2>6 DEF OpFor
    <3>3. p.form[e] = page.form[e]
      <4>1. CASE p = page
        BY <4>1
      <4>2. CASE p # page
        <5>1. /\ o.op \in {"type", "select"} => p.form = [page.form EXCEPT ![o.el] = o.value]
              /\ o.op = "click" => p.form = [page.form EXCEPT ![Box] = Flip(page.form[Box])]
              /\ o.op \notin {"check", "keep"}
          BY <1>1, <1>2, <1>4, <3>2, <4>2, OutcomesAre
        <5> QED
          BY <1>4, <1>5, <2>6, <3>2, <5>1
      <4> QED
        BY <4>1, <4>2
    <3> QED
      BY <2>2, <2>3, <3>1, <3>3
  <2> QED
    BY <2>4, <2>5, <2>6
<1> QED
  BY <1>1, <1>5, <1>6, <1>7, <1>9 DEF FormInv

LEMMA FormsMove ==
    ASSUME RunInv, FormsInv, NEW c \in Callers, NEW k, k = call[c], NEW k2, NEW o,
           o = k.plan[1], NEW p, Moves(c, k, k2, o, p)
    PROVE  FormsInv'
<1>1. /\ page' = p /\ Same(k, k2) /\ call' = [call EXCEPT ![c] = k2]
      /\ \A d \in Callers \ {c} : met'[d] = met[d] \cup Changed(p)
  BY DEF Moves, DidIt, GaveUp, Touches
<1>2. call'[c] = k2 /\ \A d \in Callers \ {c} : call'[d] = call[d]
  BY <1>1 DEF RunInv, CallsInv
<1>3. FormInv(k2, p.form, met'[c])
  <2>1. CASE k.req.tool \in FormTools
    BY <2>1, DidForm, GaveUpForm DEF Moves
  <2>2. CASE k.req.tool \notin FormTools
    BY <1>1, <2>2 DEF FormInv, Same
  <2> QED
    BY <2>1, <2>2
<1>4. ASSUME NEW d \in Callers \ {c} PROVE FormInv(call[d], p.form, met'[d])
  <2>1. FormInv(call[d], page.form, met[d])
    BY DEF FormsInv
  <2>2. met[d] \subseteq met'[d] /\ \A e \in Elements \ met'[d] : p.form[e] = page.form[e]
    BY <1>1, ChangedIs
  <2> QED
    BY <2>1, <2>2, FormKept
<1> QED
  BY <1>1, <1>2, <1>3, <1>4 DEF FormsInv

----------------------------------------------------------------------------
(* The other steps.                                                        *)

ToolInv == RunInv /\ EntriesKept /\ SearchInv /\ FormsInv

LEMMA RequestIs ==
    ASSUME script \in Scripts, begun \in Nat, begun < Len(script)
    PROVE  IsRequest(script[begun + 1])
<1>1. script \in Seq(Range(script)) /\ \A r \in Range(script) : IsRequest(r)
  BY ScriptsAreRequests
<1>2. begun + 1 \in 1 .. Len(script)
  BY <1>1
<1> QED
  BY <1>1, <1>2, ItemOf

LEMMA InitIs == Init => ToolInv
<1> SUFFICES ASSUME Init PROVE ToolInv
  OBVIOUS
<1>1. page = [open |-> TRUE, doc |-> 1, form |-> Blank, log |-> {}, next |-> 1]
  BY DEF Init
<1>2. PageInv
  BY <1>1, BlankIs DEF PageInv, Pages
<1>3. CallsInv
  BY DEF Init, CallsInv, CallInv
<1>4. RunInv
  BY <1>2, <1>3 DEF Init, RunInv
<1>5. EntriesKept
  BY <1>1 DEF EntriesKept
<1>6. SearchInv
  BY DEF Init, SearchInv
<1>7. FormsInv
  BY DEF Init, FormsInv, FormInv, Quiet
<1> QED
  BY <1>4, <1>5, <1>6, <1>7 DEF ToolInv

(* A step of a call that is not running: the page stays.                   *)
LEMMA QuietStep ==
    ASSUME ToolInv, NEW c \in Callers, NEW k2, call' = [call EXCEPT ![c] = k2],
           call[c].at # "running", CallInv(k2, written), FormInv(k2, page.form, met'[c]),
           DOMAIN met' = Callers, \A d \in Callers \ {c} : met'[d] = met[d],
           script' = script, begun' \in Nat, page' = page, searches' = searches,
           excused' = excused, written' = written, told' = told, dropped' = dropped
    PROVE  ToolInv'
<1>1. call'[c] = k2 /\ \A d \in Callers \ {c} : call'[d] = call[d]
  BY DEF ToolInv, RunInv, CallsInv
<1>2. RunInv'
  <2>1. CallsInv'
    BY CallsKept DEF ToolInv, RunInv
  <2> QED
    BY <2>1 DEF ToolInv, RunInv, PageInv
<1>3. EntriesKept'
  BY DEF ToolInv, EntriesKept
<1>4. SearchInv'
  <2> SUFFICES ASSUME NEW id \in searches \ excused PROVE \E d \in Callers : Closes(call'[d], id)
    BY DEF SearchInv
  <2>1. PICK d \in Callers : Closes(call[d], id)
    BY DEF ToolInv, SearchInv
  <2>2. d # c
    BY <2>1 DEF Closes
  <2> QED
    BY <1>1, <2>1, <2>2
<1>5. FormsInv'
  BY <1>1 DEF ToolInv, FormsInv
<1> QED
  BY <1>2, <1>3, <1>4, <1>5 DEF ToolInv

LEMMA BeginKeeps ==
    ASSUME ToolInv, NEW c \in Callers, Begin(c)
    PROVE  ToolInv'
<1>1. PICK r : r = script[begun + 1]
  OBVIOUS
<1>2. begun \in Nat /\ script \in Scripts
  BY DEF ToolInv, RunInv
<1>3. IsRequest(r)
  BY <1>1, <1>2, RequestIs DEF Begin
<1>4. PICK here \in BOOLEAN : here <=> (setup.front = "native" /\ r.tool = "daemon_status")
  OBVIOUS
<1>5. PICK sent : sent = [at |-> "sent", req |-> r, id |-> begun + 1, doc |-> page.doc,
                          plan |-> <<>>, filled |-> 0, ok |-> TRUE, before |-> page.form,
                          seen |-> {}, out |-> Absent]
  OBVIOUS
<1>6. PICK k2 : k2 = IF Passes(r.tool) /\ ~here THEN sent
                     ELSE [sent EXCEPT !.at = "answer", !.ok = here]
  OBVIOUS
<1>7. /\ call' = [call EXCEPT ![c] = k2] /\ call[c].at = "idle"
      /\ met' = [met EXCEPT ![c] = {}] /\ begun' = begun + 1
      /\ script' = script /\ page' = page /\ searches' = searches /\ excused' = excused
      /\ written' = written /\ told' = told /\ dropped' = dropped
  BY <1>1, <1>4, <1>5, <1>6 DEF Begin
<1>8. /\ DOMAIN k2 = CallFields /\ k2.req = r /\ k2.seen = {} /\ k2.filled = 0
      /\ k2.before = page.form
      /\ \/ k2.at = "sent" /\ k2.ok
         \/ k2.at = "answer" /\ (k2.ok <=> here)
  BY <1>5, <1>6 DEF CallFields
<1>9. CallInv(k2, written)
  BY <1>3, <1>8 DEF CallInv
<1>10. \A e : Wanted(k2, e) = page.form[e]
  <2>1. 1 .. k2.filled = {}
    BY <1>8
  <2> QED
    BY <1>8, <2>1 DEF Wanted
<1>11. here => r.tool \notin FormTools
  BY <1>4 DEF FormTools
<1>12. FormInv(k2, page.form, met'[c])
  BY <1>8, <1>10, <1>11 DEF FormInv
<1>13. DOMAIN met' = Callers /\ \A d \in Callers \ {c} : met'[d] = met[d]
  BY <1>7 DEF ToolInv, RunInv
<1>14. begun' \in Nat /\ call[c].at # "running"
  BY <1>2, <1>7
<1> QED
  BY <1>7, <1>9, <1>12, <1>13, <1>14, QuietStep

LEMMA DispatchKeeps ==
    ASSUME ToolInv, NEW c \in Callers, Dispatch(c)
    PROVE  ToolInv'
<1>1. PICK k : k = call[c]
  OBVIOUS
<1>2. PICK plan : plan = Parts(Plan(k.req))
  OBVIOUS
<1>3. PICK k2 : k2 = [k EXCEPT !.at = "running", !.plan = plan]
  OBVIOUS
<1>4. /\ k.at = "sent" /\ call' = [call EXCEPT ![c] = k2]
      /\ script' = script /\ page' = page /\ begun' = begun /\ searches' = searches
      /\ excused' = excused /\ written' = written /\ told' = told /\ dropped' = dropped
      /\ met' = met
  BY <1>1, <1>2, <1>3 DEF Dispatch, history, ToolInv, RunInv, CallsInv
<1>5. DOMAIN k = CallFields /\ IsRequest(k.req) /\ k.ok /\ k.seen = {} /\ k.filled = 0
  BY <1>1, <1>4 DEF ToolInv, RunInv, CallsInv, CallInv, Quiet
<1>6. /\ DOMAIN k2 = CallFields /\ k2.req = k.req /\ k2.ok /\ k2.seen = {} /\ k2.filled = 0
      /\ k2.before = k.before /\ k2.plan = plan /\ k2.at = "running"
  BY <1>3, <1>5 DEF CallFields
<1>7. PlanOf(k.req, plan)
  BY <1>2, <1>5, PartsAre
<1>8. PlanLeft(k2, written)
  BY <1>6, <1>7 DEF PlanOf, Starts
<1>9. CallInv(k2, written)
  BY <1>5, <1>6, <1>8 DEF CallInv
<1>10. FormInv(k2, page.form, met'[c])
  <2>1. CASE k.req.tool \in FormTools
    <3>1. ~Settled(k2.plan[1])
      BY <1>6, <1>7, <2>1 DEF PlanOf
    <3>2. \A e \in Elements \ met[c] : page.form[e] = k.before[e]
      BY <1>1, <1>4, <2>1 DEF ToolInv, FormsInv, FormInv
    <3>3. \A e : Wanted(k2, e) = k.before[e]
      <4>1. 1 .. k2.filled = {}
        BY <1>6
      <4> QED
        BY <1>6, <4>1 DEF Wanted
    <3> QED
      BY <1>4, <1>6, <3>1, <3>2, <3>3 DEF FormInv
  <2>2. CASE k.req.tool \notin FormTools
    BY <1>6, <2>2 DEF FormInv
  <2> QED
    BY <2>1, <2>2
<1>11. /\ DOMAIN met' = Callers /\ \A d \in Callers \ {c} : met'[d] = met[d]
       /\ begun' \in Nat /\ call[c].at # "running"
  BY <1>1, <1>4 DEF ToolInv, RunInv
<1> QED
  BY <1>4, <1>9, <1>10, <1>11, QuietStep

LEMMA ReturnKeeps ==
    ASSUME ToolInv, NEW c \in Callers, Return(c)
    PROVE  ToolInv'
<1>1. /\ call[c].at # "running" /\ call' = [call EXCEPT ![c] = Quiet]
      /\ script' = script /\ page' = page /\ begun' = begun /\ searches' = searches
      /\ excused' = excused /\ written' = written /\ told' = told /\ dropped' = dropped
      /\ met' = met
  BY DEF Return, history
<1>2. CallInv(Quiet, written)
  BY DEF CallInv
<1>3. FormInv(Quiet, page.form, met'[c])
  BY DEF FormInv, Quiet
<1>4. /\ DOMAIN met' = Callers /\ \A d \in Callers \ {c} : met'[d] = met[d]
      /\ begun' \in Nat
  BY <1>1 DEF ToolInv, RunInv
<1> QED
  BY <1>1, <1>2, <1>3, <1>4, QuietStep

LEMMA MoveKeeps ==
    ASSUME ToolInv, NEW c \in Callers, Succeeds(c) \/ Fails(c) \/ Timeout(c)
    PROVE  ToolInv'
<1>1. PICK k : k = call[c]
  OBVIOUS
<1>2. PICK o : o = k.plan[1]
  OBVIOUS
<1>3. RunInv
  BY DEF ToolInv
<1>4. PICK k2, p : Moves(c, k, k2, o, p)
  <2>1. \E k2, p : Moves(c, call[c], k2, call[c].plan[1], p)
    BY <1>3, SucceedsIs, FailsIs, TimeoutIs DEF Moves
  <2> QED
    BY <1>1, <1>2, <2>1
<1>5. RunInv'
  BY <1>1, <1>2, <1>3, <1>4, RunMoves
<1>6. EntriesKept'
  BY <1>1, <1>2, <1>3, <1>4, DidEntries, GaveUpEntries DEF Moves, ToolInv
<1>7. SearchInv'
  BY <1>1, <1>2, <1>3, <1>4, SearchMoves DEF ToolInv
<1>8. FormsInv'
  BY <1>1, <1>2, <1>3, <1>4, FormsMove DEF ToolInv
<1> QED
  BY <1>5, <1>6, <1>7, <1>8 DEF ToolInv

LEMMA NavigationKeeps ==
    ASSUME ToolInv, PageNavigates
    PROVE  ToolInv'
<1>1. PICK p \in Renewed : page' = p /\ dropped' = dropped \cup page.log
  BY DEF PageNavigates
<1>2. /\ script' = script /\ call' = call /\ begun' = begun /\ searches' = searches
      /\ excused' = excused /\ written' = written /\ told' = told
      /\ met' = [c \in Callers |-> Elements]
  BY DEF PageNavigates
<1>3. PageInv' /\ p.next = page.next
  BY <1>1, RenewedIs DEF ToolInv, RunInv, PageInv
<1>4. RunInv'
  BY <1>2, <1>3 DEF ToolInv, RunInv, CallsInv
<1>5. EntriesKept'
  BY <1>1, <1>2, <1>3 DEF ToolInv, EntriesKept
<1>6. SearchInv'
  BY <1>2 DEF ToolInv, SearchInv
<1>7. FormsInv'
  <2> SUFFICES ASSUME NEW c \in Callers PROVE FormInv(call[c], page'.form, Elements)
    BY <1>2 DEF FormsInv
  <2>1. FormInv(call[c], page.form, met[c])
    BY DEF ToolInv, FormsInv
  <2>2. FormInv(call[c], page'.form, met[c] \cup Elements)
    BY <2>1, FormKept
  <2> QED
    BY <2>2, FormHasBox DEF FormInv
<1> QED
  BY <1>4, <1>5, <1>6, <1>7 DEF ToolInv

LEMMA RequestKeeps ==
    ASSUME ToolInv, PageRequests
    PROVE  ToolInv'
<1>1. page' = [page EXCEPT !.log = @ \cup {page.next}, !.next = @ + 1]
  BY DEF PageRequests
<1>2. /\ script' = script /\ call' = call /\ begun' = begun /\ searches' = searches
      /\ excused' = excused /\ written' = written /\ told' = told /\ met' = met
      /\ dropped' = dropped
  BY DEF PageRequests, history
<1>3. page \in Pages /\ page.form[Box] \in Boxes /\ page.next \in Nat
  BY DEF ToolInv, RunInv, PageInv, Pages
<1>4. /\ page' \in Pages /\ page'.form = page.form
      /\ page'.log = page.log \cup {page.next} /\ page'.next = page.next + 1
  <2>1. page.next + 1 \in Nat /\ page.log \cup {page.next} \in SUBSET Nat
    BY <1>3 DEF Pages
  <2>2. /\ page'.form = page.form /\ page'.log = page.log \cup {page.next}
        /\ page'.next = page.next + 1
    BY <1>1, <1>3 DEF Pages
  <2>3. page' \in Pages
    BY <1>1, <1>3, <2>1 DEF Pages
  <2> QED
    BY <2>2, <2>3
<1>5. RunInv'
  BY <1>2, <1>3, <1>4 DEF ToolInv, RunInv, CallsInv, PageInv
<1>6. EntriesKept'
  <2>1. \A x \in 1 .. page'.next - 1 : x \in 1 .. page.next - 1 \/ x = page.next
    BY <1>3, <1>4
  <2> QED
    BY <1>2, <1>4, <2>1 DEF ToolInv, EntriesKept
<1>7. SearchInv'
  BY <1>2 DEF ToolInv, SearchInv
<1>8. FormsInv'
  BY <1>2, <1>4 DEF ToolInv, FormsInv
<1> QED
  BY <1>5, <1>6, <1>7, <1>8 DEF ToolInv

LEMMA StepsKeep == ToolInv /\ [Next]_vars => ToolInv'
<1> SUFFICES ASSUME ToolInv, [Next]_vars PROVE ToolInv'
  OBVIOUS
<1>1. CASE UNCHANGED vars
  BY <1>1 DEF vars, ToolInv, RunInv, PageInv, CallsInv, EntriesKept, SearchInv, FormsInv
<1>2. ASSUME NEW c \in Callers,
             Begin(c) \/ Dispatch(c) \/ Succeeds(c) \/ Fails(c) \/ Timeout(c) \/ Return(c)
      PROVE  ToolInv'
  BY <1>2, BeginKeeps, DispatchKeeps, MoveKeeps, ReturnKeeps
<1>3. CASE PageNavigates
  BY <1>3, NavigationKeeps
<1>4. CASE PageRequests
  BY <1>4, RequestKeeps
<1> QED
  BY <1>1, <1>2, <1>3, <1>4 DEF Next

(* What is known of the calls holds throughout.                            *)
LEMMA ToolsInvariant == Spec => []ToolInv
  BY InitIs, StepsKeep, PTL DEF Spec

(* What fill_form, set_checked, type and select_option leave when they     *)
(* answer: the fields handled hold what was asked for, the fields behind   *)
(* the one that failed are untouched, whatever others did in between.      *)
THEOREM FieldsAreFilled == Spec => []FieldsLand
<1>1. ToolInv => FieldsLand
  <2> SUFFICES ASSUME ToolInv, NEW c \in Callers, call[c].at = "answer",
                      call[c].req.tool \in FormTools
               PROVE  LET k == call[c]
                          fields == FieldsOf(k.req) IN
                      /\ k.ok => k.filled = Len(fields)
                      /\ \A e \in Elements \ met[c] :
                          LET hits == {i \in 1 .. k.filled : fields[i].el = e} IN
                          \/ ~k.ok /\ k.filled < Len(fields) /\ fields[k.filled + 1].el = e
                          \/ page.form[e] = IF hits = {} THEN k.before[e]
                               ELSE fields[CHOOSE i \in hits : \A j \in hits : j <= i].value
    BY DEF FieldsLand
  <2>1. FormInv(call[c], page.form, met[c])
    BY DEF ToolInv, FormsInv
  <2> QED
    BY <2>1 DEF FormInv, Wanted
<1> QED
  BY <1>1, ToolsInvariant, PTL

(* What network_requests has read and cleared is in an answer or a file:   *)
(* a failure or a timeout between its read, its file and its clear loses   *)
(* no entry that it read.                                                  *)
THEOREM EntriesAreKept == Spec => []EntriesKept
<1>1. ToolInv => EntriesKept
  BY DEF ToolInv
<1> QED
  BY <1>1, ToolsInvariant, PTL

(* A search whose session was opened closes it before it answers, also     *)
(* when the extraction fails, unless the call was dropped or the close     *)
(* itself failed.                                                          *)
THEOREM OpenedSearchesEnd == Spec => []OpenedSearchesClose
<1>1. ToolInv => OpenedSearchesClose
  BY DEF ToolInv, SearchInv, OpenedSearchesClose, Unanswered, Closes
<1> QED
  BY <1>1, ToolsInvariant, PTL

----------------------------------------------------------------------------
(* Least elements.                                                         *)

(* Of some subsets of a finite set one is minimal.                         *)
LEMMA MinimalSubset ==
    ASSUME NEW S, IsFiniteSet(S), NEW T, \A x \in T : x \subseteq S, T # {}
    PROVE  \E x \in T : \A y \in T : y \subseteq x => y = x
<1>1. IsWellFoundedOn(StrictSubsetOrdering(S), SUBSET S)
  BY FS_StrictSubsetOrderingWellFounded, FS_FiniteSubsetsOfFinite
<1>2. T \in SUBSET SUBSET S
  OBVIOUS
<1>3. PICK x \in T : \A y \in T : <<y, x>> \notin StrictSubsetOrdering(S)
  BY <1>1, <1>2, WFMin
<1> QED
  BY <1>3 DEF StrictSubsetOrdering

LEMMA MinimalInterval ==
    ASSUME NEW n \in Nat, NEW T, \A x \in T : x \subseteq 1 .. n, T # {}
    PROVE  \E x \in T : \A y \in T : y \subseteq x => y = x
<1>1. IsFiniteSet(1 .. n)
  BY FS_Interval
<1> QED
  BY <1>1, MinimalSubset

(* Of some numbers one is least, and of finitely many one is greatest: the *)
(* interval up to it, or from it, is minimal.                              *)
LEMMA LeastOfSome ==
    ASSUME NEW n \in Nat, NEW S, S \subseteq 1 .. n, S # {}
    PROVE  \E i \in S : \A j \in S : i <= j
<1> DEFINE T == {1 .. i : i \in S}
<1>1. \A x \in T : x \subseteq 1 .. n
  <2> SUFFICES ASSUME NEW i \in S PROVE 1 .. i \subseteq 1 .. n
    OBVIOUS
  <2> QED
    OBVIOUS
<1>2. T # {}
  OBVIOUS
<1> HIDE DEF T
<1>3. PICK x \in T : \A y \in T : y \subseteq x => y = x
  BY <1>1, <1>2, MinimalInterval
<1>4. PICK i \in S : x = 1 .. i
  BY DEF T
<1>5. \A j \in S : ~ (j < i)
  <2> SUFFICES ASSUME NEW j \in S, j < i PROVE FALSE
    OBVIOUS
  <2>1. 1 .. j \subseteq 1 .. i /\ i \in 1 .. i /\ i \notin 1 .. j
    OBVIOUS
  <2>2. 1 .. j \in T
    BY DEF T
  <2> QED
    BY <1>3, <1>4, <2>1, <2>2
<1> QED
  BY <1>5

LEMMA GreatestOfSome ==
    ASSUME NEW n \in Nat, NEW S, S \subseteq 1 .. n, S # {}
    PROVE  \E i \in S : \A j \in S : i >= j
<1> DEFINE T == {n + 1 - i : i \in S}
<1>1. T \subseteq 1 .. n
  <2> SUFFICES ASSUME NEW i \in S PROVE n + 1 - i \in 1 .. n
    OBVIOUS
  <2> QED
    OBVIOUS
<1>2. T # {}
  OBVIOUS
<1> HIDE DEF T
<1>3. PICK t \in T : \A u \in T : t <= u
  BY <1>1, <1>2, LeastOfSome
<1>4. PICK i \in S : t = n + 1 - i
  BY DEF T
<1>5. ASSUME NEW j \in S PROVE i >= j
  <2>1. n + 1 - j \in T
    BY DEF T
  <2>2. n + 1 - i <= n + 1 - j
    BY <1>3, <1>4, <2>1
  <2> QED
    BY <2>2
<1> QED
  BY <1>5

LEMMA MaxIs ==
    ASSUME NEW n \in Nat, NEW S, S \subseteq 1 .. n, S # {}
    PROVE  Max(S) \in S /\ \A j \in S : Max(S) >= j
<1>1. \E i \in S : \A j \in S : i >= j
  BY GreatestOfSome
<1> QED
  BY <1>1 DEF Max

LEMMA MaxOfInterval ==
    ASSUME NEW i \in Nat \ {0}
    PROVE  Max(1 .. i) = i
<1>1. 1 .. i \subseteq 1 .. i /\ 1 .. i # {} /\ i \in 1 .. i
  OBVIOUS
<1>2. Max(1 .. i) \in 1 .. i /\ \A j \in 1 .. i : Max(1 .. i) >= j
  BY <1>1, MaxIs
<1> QED
  BY <1>1, <1>2

----------------------------------------------------------------------------
(* Folds.  FoldLeft chooses a recursive function on sets of positions.     *)
(* Folds says that g is one, where f is the step as a function of a        *)
(* position and of what was made before it.  It exists, is the only one,   *)
(* and passes through what is made position by position (RunOfFold): what  *)
(* a view returns is then proved by induction on the positions (Upward).   *)

Folds(f, base, S, g) ==
    g = [s \in SUBSET S |-> IF s = {} THEN base ELSE f[<<Max(s), g[s \ {Max(s)}]>>]]

Within(S, n) == n \in Nat /\ S \subseteq 1 .. n

LEMMA FoldsUnique ==
    ASSUME NEW n, NEW f, NEW base, NEW S, Within(S, n), NEW T, T \subseteq S, NEW g, NEW h,
           Folds(f, base, S, g), Folds(f, base, T, h)
    PROVE  g[T] = h[T]
<1> DEFINE Bad == {u \in SUBSET T : g[u] # h[u]}
<1>1. SUFFICES ASSUME Bad # {} PROVE FALSE
  OBVIOUS
<1>2. \A x \in Bad : x \subseteq 1 .. n
  BY DEF Within
<1> HIDE DEF Bad
<1>3. PICK u \in Bad : \A w \in Bad : w \subseteq u => w = u
  BY <1>1, <1>2, MinimalInterval DEF Within
<1>4. u \in SUBSET T /\ u \in SUBSET S /\ g[u] # h[u]
  BY DEF Bad
<1>5. g[u] = (IF u = {} THEN base ELSE f[<<Max(u), g[u \ {Max(u)}]>>])
  BY <1>4 DEF Folds
<1>6. h[u] = (IF u = {} THEN base ELSE f[<<Max(u), h[u \ {Max(u)}]>>])
  BY <1>4 DEF Folds
<1>7. u # {}
  BY <1>4, <1>5, <1>6
<1>8. Max(u) \in u
  BY <1>4, <1>7, MaxIs DEF Within
<1>9. u \ {Max(u)} \notin Bad /\ u \ {Max(u)} \in SUBSET T
  BY <1>3, <1>4, <1>8
<1>10. g[u \ {Max(u)}] = h[u \ {Max(u)}]
  BY <1>9 DEF Bad
<1> QED
  BY <1>4, <1>5, <1>6, <1>10

LEMMA FoldsExist ==
    ASSUME NEW n \in Nat, NEW f, NEW base
    PROVE  \E g : Folds(f, base, 1 .. n, g)
<1> DEFINE Bad == {s \in SUBSET (1 .. n) : ~ \E g : Folds(f, base, s, g)}
<1>1. SUFFICES ASSUME Bad # {} PROVE FALSE
  OBVIOUS
<1>2. \A x \in Bad : x \subseteq 1 .. n
  OBVIOUS
<1> HIDE DEF Bad
<1>3. PICK s \in Bad : \A w \in Bad : w \subseteq s => w = s
  BY <1>1, <1>2, MinimalInterval
<1>4. s \in SUBSET (1 .. n) /\ ~ \E g : Folds(f, base, s, g)
  BY DEF Bad
<1> DEFINE G(t) == CHOOSE g : Folds(f, base, t, g)
<1> DEFINE val(t) == IF t = {} THEN base ELSE f[<<Max(t), G(t \ {Max(t)})[t \ {Max(t)}]>>]
<1>5. \A t \in SUBSET s : t # s => Folds(f, base, t, G(t))
  <2> SUFFICES ASSUME NEW t \in SUBSET s, t # s PROVE \E g : Folds(f, base, t, g)
    OBVIOUS
  <2>1. t \in SUBSET (1 .. n) /\ t \notin Bad
    BY <1>3, <1>4
  <2> QED
    BY <2>1 DEF Bad
<1> HIDE DEF G
<1>6. \A t \in SUBSET s : t # s => G(t)[t] = val(t)
  <2> SUFFICES ASSUME NEW t \in SUBSET s, t # s, t # {} PROVE G(t)[t] = val(t)
    BY <1>5 DEF Folds
  <2> DEFINE u == t \ {Max(t)}
  <2>1. Max(t) \in t
    BY <1>4, MaxIs
  <2>2. u \in SUBSET s /\ u # s /\ u \in SUBSET t
    BY <2>1
  <2>3. Folds(f, base, t, G(t)) /\ Folds(f, base, u, G(u))
    BY <1>5, <2>2
  <2> HIDE DEF u, G
  <2>4. Within(t, n) /\ u \subseteq t
    BY <1>4, <2>2 DEF Within
  <2>5. G(t)[u] = G(u)[u]
    <3>1. PICK g, h : g = G(t) /\ h = G(u)
      OBVIOUS
    <3>2. Folds(f, base, t, g) /\ Folds(f, base, u, h)
      BY <2>3, <3>1
    <3>3. g[u] = h[u]
      BY <2>4, <3>2, FoldsUnique
    <3> QED
      BY <3>1, <3>3
  <2> QED
    BY <2>3, <2>5 DEF Folds, u
<1> DEFINE g == [t \in SUBSET s |-> val(t)]
<1>7. \A t \in SUBSET s : t # {} => g[t \ {Max(t)}] = G(t \ {Max(t)})[t \ {Max(t)}]
  <2> SUFFICES ASSUME NEW t \in SUBSET s, t # {}
               PROVE  g[t \ {Max(t)}] = G(t \ {Max(t)})[t \ {Max(t)}]
    OBVIOUS
  <2>1. Max(t) \in t
    BY <1>4, MaxIs
  <2>2. t \ {Max(t)} \in SUBSET s /\ t \ {Max(t)} # s
    BY <2>1
  <2> QED
    BY <1>6, <2>2
<1>8. Folds(f, base, s, g)
  BY <1>7 DEF Folds
<1> QED
  BY <1>4, <1>8

(* With steps within T the fold is within T, and position by position.     *)
LEMMA FoldRuns ==
    ASSUME NEW n \in Nat, NEW T, NEW base \in T, NEW f \in [(1 .. n) \X T -> T], NEW g,
           Folds(f, base, 1 .. n, g)
    PROVE  /\ g[{}] = base
           /\ \A s \in SUBSET (1 .. n) : g[s] \in T
<1> DEFINE Bad == {s \in SUBSET (1 .. n) : g[s] \notin T}
<1>1. g[{}] = base
  BY DEF Folds
<1>2. SUFFICES ASSUME Bad # {} PROVE FALSE
  BY <1>1
<1>3. \A x \in Bad : x \subseteq 1 .. n
  OBVIOUS
<1> HIDE DEF Bad
<1>4. PICK s \in Bad : \A w \in Bad : w \subseteq s => w = s
  BY <1>2, <1>3, MinimalInterval
<1>5. s \in SUBSET (1 .. n) /\ g[s] \notin T
  BY DEF Bad
<1>6. s # {}
  BY <1>1, <1>5
<1>7. Max(s) \in s /\ Max(s) \in 1 .. n
  BY <1>5, <1>6, MaxIs
<1>8. s \ {Max(s)} \in SUBSET (1 .. n) /\ s \ {Max(s)} \notin Bad
  BY <1>4, <1>5, <1>7
<1>9. g[s \ {Max(s)}] \in T
  BY <1>8 DEF Bad
<1>10. g[s] = f[<<Max(s), g[s \ {Max(s)}]>>]
  BY <1>5, <1>6 DEF Folds
<1> QED
  BY <1>5, <1>7, <1>9, <1>10

LEMMA FoldsTyped ==
    ASSUME NEW n \in Nat, NEW T, NEW base \in T, NEW f \in [(1 .. n) \X T -> T]
    PROVE  \E g \in [SUBSET (1 .. n) -> T] : Folds(f, base, 1 .. n, g)
<1>1. PICK g : Folds(f, base, 1 .. n, g)
  BY FoldsExist
<1>2. \A s \in SUBSET (1 .. n) : g[s] \in T
  BY <1>1, FoldRuns
<1>3. g \in [SUBSET (1 .. n) -> T]
  BY <1>1, <1>2 DEF Folds
<1> QED
  BY <1>1, <1>3

(* Induction on the positions of a sequence: no first one fails.           *)
LEMMA Upward ==
    ASSUME NEW n \in Nat, NEW Bad, Bad \subseteq 0 .. n, 0 \notin Bad,
           \A i \in 1 .. n : i - 1 \notin Bad => i \notin Bad
    PROVE  Bad = {}
<1>1. SUFFICES ASSUME Bad # {} PROVE FALSE
  OBVIOUS
<1>2. Bad \subseteq 1 .. n
  OBVIOUS
<1>3. PICK i \in Bad : \A j \in Bad : i <= j
  BY <1>1, <1>2, LeastOfSome
<1>4. i \in 1 .. n
  BY <1>2
<1>5. i - 1 \notin Bad
  BY <1>3, <1>4
<1> QED
  BY <1>4, <1>5

LEMMA UpTo ==
    ASSUME NEW n \in Nat, NEW i \in 1 .. n
    PROVE  /\ (1 .. i) \in SUBSET (1 .. n) /\ 1 .. i # {}
           /\ (1 .. i) \ {Max(1 .. i)} = 1 .. (i - 1) /\ Max(1 .. i) = i
<1>1. Max(1 .. i) = i
  BY MaxOfInterval
<1>2. (1 .. i) \ {i} = 1 .. (i - 1)
  OBVIOUS
<1>3. (1 .. i) \in SUBSET (1 .. n) /\ i \in 1 .. i
  OBVIOUS
<1> QED
  BY <1>1, <1>2, <1>3

(* What a fold makes position by position.  (c: as FoldLeft chooses it.)   *)
MadeBy(f, base, n, T, c, r) ==
    /\ r \in [0 .. n -> T] /\ r[0] = base /\ r[n] = c[1 .. n]
    /\ \A i \in 1 .. n : r[i] = f[<<i, r[i - 1]>>]
Steps(f, base, n, T, c) ==
    /\ c[{}] = base
    /\ \A s \in SUBSET (1 .. n) :
          s # {} /\ c[s \ {Max(s)}] \in T => c[s] = f[<<Max(s), c[s \ {Max(s)}]>>]

LEMMA RunOfFold ==
    ASSUME NEW n \in Nat, NEW T, NEW base \in T, NEW f \in [(1 .. n) \X T -> T], NEW c,
           Steps(f, base, n, T, c)
    PROVE  \E r : MadeBy(f, base, n, T, c, r)
<1> DEFINE Bad == {i \in 0 .. n : c[1 .. i] \notin T}
<1>1. c[1 .. 0] = base
  <2>1. 1 .. 0 = {}
    OBVIOUS
  <2> QED
    BY <2>1 DEF Steps
<1>2. ASSUME NEW i \in 1 .. n, c[1 .. (i - 1)] \in T
      PROVE  c[1 .. i] = f[<<i, c[1 .. (i - 1)]>>] /\ c[1 .. i] \in T
  <2>1. PICK s : s = 1 .. i
    OBVIOUS
  <2>2. s \in SUBSET (1 .. n) /\ s # {} /\ s \ {Max(s)} = 1 .. (i - 1) /\ Max(s) = i
    BY <2>1, UpTo
  <2>3. c[s] = f[<<i, c[1 .. (i - 1)]>>]
    BY <1>2, <2>2 DEF Steps
  <2> QED
    BY <1>2, <2>1, <2>3
<1>3. Bad = {}
  <2>1. 0 \notin Bad
    BY <1>1
  <2>2. ASSUME NEW i \in 1 .. n, i - 1 \notin Bad PROVE i \notin Bad
    <3>1. i - 1 \in 0 .. n
      OBVIOUS
    <3>2. c[1 .. (i - 1)] \in T
      BY <2>2, <3>1
    <3> QED
      BY <1>2, <3>2
  <2>3. Bad \subseteq 0 .. n
    OBVIOUS
  <2> HIDE DEF Bad
  <2> QED
    BY <2>1, <2>2, <2>3, Upward
<1> DEFINE r == [i \in 0 .. n |-> c[1 .. i]]
<1>4. r \in [0 .. n -> T]
  BY <1>3
<1>5. r[0] = base
  BY <1>1
<1>6. ASSUME NEW i \in 1 .. n PROVE r[i] = f[<<i, r[i - 1]>>]
  <2>1. i \in 0 .. n /\ i - 1 \in 0 .. n
    OBVIOUS
  <2>2. c[1 .. (i - 1)] \in T
    BY <1>3, <2>1
  <2> QED
    BY <1>2, <2>1, <2>2
<1>7. r[n] = c[1 .. n]
  OBVIOUS
<1> HIDE DEF r
<1> QED
  BY <1>4, <1>5, <1>6, <1>7 DEF MadeBy

----------------------------------------------------------------------------
(* The bodies within a budget.                                             *)

BodyStep(acc, size) ==
    IF size <= acc.left
    THEN [left |-> acc.left - size, kept |-> Append(acc.kept, TRUE)]
    ELSE [left |-> acc.left, kept |-> Append(acc.kept, FALSE)]
BodyAccs == [left : Nat, kept : Seq(BOOLEAN)]

BodyRun(sizes, budget, r) ==
    /\ r \in [0 .. Len(sizes) -> BodyAccs]
    /\ r[0] = [left |-> budget, kept |-> <<>>]
    /\ \A i \in 1 .. Len(sizes) : r[i] = BodyStep(r[i - 1], sizes[i])

LEMMA BodyStepTyped ==
    ASSUME NEW acc \in BodyAccs, NEW size \in Nat
    PROVE  BodyStep(acc, size) \in BodyAccs
<1>1. acc.left \in Nat /\ acc.kept \in Seq(BOOLEAN)
  BY DEF BodyAccs
<1>2. Append(acc.kept, TRUE) \in Seq(BOOLEAN) /\ Append(acc.kept, FALSE) \in Seq(BOOLEAN)
  BY <1>1
<1> QED
  BY <1>1, <1>2 DEF BodyStep, BodyAccs

LEMMA BodiesFold ==
    ASSUME NEW sizes \in Seq(Nat), NEW budget \in Nat
    PROVE  \E r : BodyRun(sizes, budget, r) /\ BodiesWithin(sizes, budget) = r[Len(sizes)].kept
<1> DEFINE n == Len(sizes)
           base == [left |-> budget, kept |-> <<>>]
           IsFold(g) == g = [s \in SUBSET DOMAIN sizes |->
                               IF s = {} THEN base
                               ELSE BodyStep(g[s \ {Max(s)}], sizes[Max(s)])]
           f == [p \in (1 .. n) \X BodyAccs |-> BodyStep(p[2], sizes[p[1]])]
           c == CHOOSE g : IsFold(g)
<1>1. BodiesWithin(sizes, budget) = c[DOMAIN sizes].kept
  BY DEF BodiesWithin, FoldLeft, MapThenFoldSet, BodyStep
<1>2. n \in Nat /\ DOMAIN sizes = 1 .. n /\ \A i \in 1 .. n : sizes[i] \in Nat
  OBVIOUS
<1>3. base \in BodyAccs
  BY DEF BodyAccs
<1>4. f \in [(1 .. n) \X BodyAccs -> BodyAccs]
  BY <1>2, BodyStepTyped
<1> HIDE DEF n, base, f
<1>5. PICK g \in [SUBSET (1 .. n) -> BodyAccs] : Folds(f, base, 1 .. n, g)
  BY <1>2, <1>3, <1>4, FoldsTyped
<1>6. IsFold(g)
  <2>1. ASSUME NEW s \in SUBSET (1 .. n), s # {}
        PROVE  g[s] = BodyStep(g[s \ {Max(s)}], sizes[Max(s)])
    <3>1. Max(s) \in s /\ Max(s) \in 1 .. n
      BY <1>2, <2>1, MaxIs
    <3>2. g[s \ {Max(s)}] \in BodyAccs
      BY <3>1
    <3>3. g[s] = f[<<Max(s), g[s \ {Max(s)}]>>]
      BY <1>5, <2>1 DEF Folds
    <3> QED
      BY <3>1, <3>2, <3>3 DEF f
  <2>2. g[{}] = base
    BY <1>5 DEF Folds
  <2> QED
    BY <1>2, <2>1, <2>2
<1> HIDE DEF IsFold
<1>7. IsFold(c)
  BY <1>6
<1> HIDE DEF c
<1>8. Steps(f, base, n, BodyAccs, c)
  <2>1. c[{}] = base
    BY <1>7 DEF IsFold
  <2>2. ASSUME NEW s \in SUBSET (1 .. n), s # {}, c[s \ {Max(s)}] \in BodyAccs
        PROVE  c[s] = f[<<Max(s), c[s \ {Max(s)}]>>]
    <3>1. Max(s) \in 1 .. n
      BY <1>2, <2>2, MaxIs
    <3>2. c[s] = BodyStep(c[s \ {Max(s)}], sizes[Max(s)])
      BY <1>2, <1>7, <2>2 DEF IsFold
    <3> QED
      BY <2>2, <3>1, <3>2 DEF f
  <2> QED
    BY <2>1, <2>2 DEF Steps
<1>9. PICK r : MadeBy(f, base, n, BodyAccs, c, r)
  BY <1>2, <1>3, <1>4, <1>8, RunOfFold
<1>10. ASSUME NEW i \in 1 .. n PROVE r[i] = BodyStep(r[i - 1], sizes[i])
  <2>1. i - 1 \in 0 .. n
    BY <1>2
  <2>2. r[i] = f[<<i, r[i - 1]>>] /\ r[i - 1] \in BodyAccs
    BY <1>9, <2>1 DEF MadeBy
  <2> QED
    BY <2>2 DEF f
<1>11. BodyRun(sizes, budget, r)
  BY <1>9, <1>10 DEF BodyRun, MadeBy, n, base
<1> QED
  BY <1>1, <1>2, <1>9, <1>11 DEF n, MadeBy

LEMMA BodyStepIs ==
    ASSUME NEW acc, NEW size
    PROVE  /\ size <= acc.left => BodyStep(acc, size).kept = Append(acc.kept, TRUE)
           /\ ~ (size <= acc.left) => BodyStep(acc, size).kept = Append(acc.kept, FALSE)
  BY DEF BodyStep

LEMMA Grown ==
    ASSUME NEW B, NEW s \in Seq(B), NEW v \in B, NEW n \in Nat \ {0}, Len(s) = n - 1,
           NEW t, t = Append(s, v)
    PROVE  Len(t) = n /\ t[n] = v /\ \A i \in 1 .. n - 1 : t[i] = s[i]
  OBVIOUS

(* The bytes returned so far.                                              *)
BytesStep(sizes, kept, sum, i) == sum + IF kept[i] THEN sizes[i] ELSE 0

BytesRun(sizes, kept, n, q) ==
    /\ q \in [0 .. n -> Nat] /\ q[0] = 0
    /\ \A i \in 1 .. n : q[i] = q[i - 1] + IF kept[i] THEN sizes[i] ELSE 0

LEMMA BytesFold ==
    ASSUME NEW n \in Nat, NEW sizes, NEW kept, \A i \in 1 .. n : sizes[i] \in Nat
    PROVE  \E q : BytesRun(sizes, kept, n, q) /\ BytesKept(sizes, kept, n) = q[n]
<1> DEFINE ids == [i \in 1 .. n |-> i]
           IsFold(g) == g = [s \in SUBSET DOMAIN ids |->
                               IF s = {} THEN 0
                               ELSE BytesStep(sizes, kept, g[s \ {Max(s)}], ids[Max(s)])]
           f == [p \in (1 .. n) \X Nat |-> BytesStep(sizes, kept, p[2], p[1])]
           c == CHOOSE g : IsFold(g)
<1>1. BytesKept(sizes, kept, n) = c[DOMAIN ids]
  BY DEF BytesKept, FoldLeft, MapThenFoldSet, BytesStep
<1>2. DOMAIN ids = 1 .. n /\ \A i \in 1 .. n : ids[i] = i
  OBVIOUS
<1>3. ASSUME NEW sum \in Nat, NEW i \in 1 .. n
      PROVE  BytesStep(sizes, kept, sum, i) \in Nat
  BY DEF BytesStep
<1>4. f \in [(1 .. n) \X Nat -> Nat] /\ 0 \in Nat
  BY <1>3
<1> HIDE DEF f, ids
<1>5. PICK g \in [SUBSET (1 .. n) -> Nat] : Folds(f, 0, 1 .. n, g)
  BY <1>4, FoldsTyped
<1>6. IsFold(g)
  <2>1. ASSUME NEW s \in SUBSET (1 .. n), s # {}
        PROVE  g[s] = BytesStep(sizes, kept, g[s \ {Max(s)}], ids[Max(s)])
    <3>1. Max(s) \in s /\ Max(s) \in 1 .. n
      BY <2>1, MaxIs
    <3>2. g[s \ {Max(s)}] \in Nat
      BY <3>1
    <3>3. g[s] = f[<<Max(s), g[s \ {Max(s)}]>>]
      BY <1>5, <2>1 DEF Folds
    <3> QED
      BY <1>2, <3>1, <3>2, <3>3 DEF f
  <2>2. g[{}] = 0
    BY <1>5 DEF Folds
  <2> QED
    BY <1>2, <2>1, <2>2
<1> HIDE DEF IsFold
<1>7. IsFold(c)
  BY <1>6
<1> HIDE DEF c
<1>8. Steps(f, 0, n, Nat, c)
  <2>1. c[{}] = 0
    BY <1>7 DEF IsFold
  <2>2. ASSUME NEW s \in SUBSET (1 .. n), s # {}, c[s \ {Max(s)}] \in Nat
        PROVE  c[s] = f[<<Max(s), c[s \ {Max(s)}]>>]
    <3>1. Max(s) \in 1 .. n
      BY <2>2, MaxIs
    <3>2. c[s] = BytesStep(sizes, kept, c[s \ {Max(s)}], Max(s))
      BY <1>2, <1>7, <2>2, <3>1 DEF IsFold
    <3> QED
      BY <2>2, <3>1, <3>2 DEF f
  <2> QED
    BY <2>1, <2>2 DEF Steps
<1>9. PICK q : MadeBy(f, 0, n, Nat, c, q)
  BY <1>4, <1>8, RunOfFold
<1>10. ASSUME NEW i \in 1 .. n PROVE q[i] = BytesStep(sizes, kept, q[i - 1], i)
  <2>1. i - 1 \in 0 .. n
    OBVIOUS
  <2>2. q[i] = f[<<i, q[i - 1]>>] /\ q[i - 1] \in Nat
    BY <1>9, <2>1 DEF MadeBy
  <2> QED
    BY <2>2 DEF f
<1>11. BytesRun(sizes, kept, n, q)
  BY <1>9, <1>10 DEF BytesRun, MadeBy, BytesStep
<1> QED
  BY <1>1, <1>2, <1>9, <1>11 DEF MadeBy

(* What is left of the budget and what was returned make up the budget.    *)
LEMMA BodiesAre ==
    ASSUME NEW sizes \in Seq(Nat), NEW budget \in Nat, NEW r, BodyRun(sizes, budget, r)
    PROVE  \A n \in 0 .. Len(sizes) :
              /\ Len(r[n].kept) = n /\ r[n].left \in Nat
              /\ \A i \in 1 .. n : r[n].kept[i] <=> sizes[i] <= r[i - 1].left
<1> DEFINE N == Len(sizes)
           Ok(n) == /\ Len(r[n].kept) = n
                    /\ \A i \in 1 .. n : r[n].kept[i] <=> sizes[i] <= r[i - 1].left
           Bad == {n \in 0 .. N : ~ Ok(n)}
<1>1. N \in Nat /\ \A i \in 1 .. N : sizes[i] \in Nat
  OBVIOUS
<1> HIDE DEF N
<1>2. \A n \in 0 .. N : r[n].left \in Nat /\ r[n].kept \in Seq(BOOLEAN)
  BY DEF BodyRun, BodyAccs, N
<1>3. 0 \notin Bad
  <2>1. r[0].kept = <<>>
    BY DEF BodyRun
  <2> QED
    BY <2>1
<1>4. ASSUME NEW n \in 1 .. N, n - 1 \notin Bad PROVE n \notin Bad
  <2>1. n - 1 \in 0 .. N /\ Ok(n - 1)
    BY <1>1, <1>4
  <2>2. r[n] = BodyStep(r[n - 1], sizes[n])
    BY DEF BodyRun, N
  <2>3. n - 1 \in Nat /\ Len(r[n - 1].kept) = n - 1 /\ r[n - 1].kept \in Seq(BOOLEAN)
    BY <1>1, <1>2, <2>1
  <2>4. \A i \in 1 .. n - 1 : r[n - 1].kept[i] <=> sizes[i] <= r[i - 1].left
    BY <2>1
  <2>5. CASE sizes[n] <= r[n - 1].left
    <3>1. r[n].kept = Append(r[n - 1].kept, TRUE)
      BY <2>2, <2>5, BodyStepIs
    <3>2. n \in Nat \ {0}
      BY <1>1
    <3>3. /\ Len(r[n].kept) = n /\ r[n].kept[n] = TRUE
          /\ \A i \in 1 .. n - 1 : r[n].kept[i] = r[n - 1].kept[i]
      <4>1. PICK B, v : B = BOOLEAN /\ v = TRUE
        OBVIOUS
      <4>2. PICK s, t : s = r[n - 1].kept /\ t = r[n].kept
        OBVIOUS
      <4>3. s \in Seq(B) /\ v \in B /\ Len(s) = n - 1 /\ t = Append(s, v)
        BY <2>3, <3>1, <4>1, <4>2
      <4>4. Len(t) = n /\ t[n] = v /\ \A i \in 1 .. n - 1 : t[i] = s[i]
        BY <3>2, <4>3, Grown
      <4> QED
        BY <4>1, <4>2, <4>4
    <3>4. ASSUME NEW i \in 1 .. n PROVE r[n].kept[i] <=> sizes[i] <= r[i - 1].left
      <4>1. CASE i = n
        BY <2>5, <3>3, <4>1
      <4>2. CASE i # n
        <5>1. i \in 1 .. n - 1
          BY <4>2
        <5> QED
          BY <2>4, <3>3, <5>1
      <4> QED
        BY <4>1, <4>2
    <3> QED
      BY <3>3, <3>4
  <2>6. CASE ~ (sizes[n] <= r[n - 1].left)
    <3>1. r[n].kept = Append(r[n - 1].kept, FALSE)
      BY <2>2, <2>6, BodyStepIs
    <3>2. n \in Nat \ {0}
      BY <1>1
    <3>3. /\ Len(r[n].kept) = n /\ r[n].kept[n] = FALSE
          /\ \A i \in 1 .. n - 1 : r[n].kept[i] = r[n - 1].kept[i]
      <4>1. PICK B, v : B = BOOLEAN /\ v = FALSE
        OBVIOUS
      <4>2. PICK s, t : s = r[n - 1].kept /\ t = r[n].kept
        OBVIOUS
      <4>3. s \in Seq(B) /\ v \in B /\ Len(s) = n - 1 /\ t = Append(s, v)
        BY <2>3, <3>1, <4>1, <4>2
      <4>4. Len(t) = n /\ t[n] = v /\ \A i \in 1 .. n - 1 : t[i] = s[i]
        BY <3>2, <4>3, Grown
      <4> QED
        BY <4>1, <4>2, <4>4
    <3>4. ASSUME NEW i \in 1 .. n PROVE r[n].kept[i] <=> sizes[i] <= r[i - 1].left
      <4>1. CASE i = n
        BY <2>6, <3>3, <4>1
      <4>2. CASE i # n
        <5>1. i \in 1 .. n - 1
          BY <4>2
        <5> QED
          BY <2>4, <3>3, <5>1
      <4> QED
        BY <4>1, <4>2
    <3> QED
      BY <3>3, <3>4
  <2> QED
    BY <2>5, <2>6
<1>5. Bad = {}
  <2>1. Bad \subseteq 0 .. N
    OBVIOUS
  <2> HIDE DEF Bad
  <2> QED
    BY <1>1, <1>3, <1>4, <2>1, Upward
<1> QED
  BY <1>2, <1>5 DEF N

LEMMA BodiesLeft ==
    ASSUME NEW sizes \in Seq(Nat), NEW budget \in Nat, NEW r, BodyRun(sizes, budget, r),
           NEW kept, kept = r[Len(sizes)].kept, NEW n \in 0 .. Len(sizes)
    PROVE  BytesKept(sizes, kept, n) + r[n].left = budget /\ BytesKept(sizes, kept, n) \in Nat
<1> DEFINE N == Len(sizes)
<1>1. N \in Nat /\ (\A i \in 1 .. N : sizes[i] \in Nat) /\ n \in Nat /\ n <= N
  OBVIOUS
<1>2. \A i \in 0 .. N : r[i].left \in Nat
  BY BodiesAre
<1>3. \A i \in 1 .. N : kept[i] <=> sizes[i] <= r[i - 1].left
  BY <1>1, BodiesAre
<1> HIDE DEF N
<1>4. \A i \in 1 .. n : i \in 1 .. N /\ sizes[i] \in Nat
  BY <1>1
<1>5. PICK q : BytesRun(sizes, kept, n, q) /\ BytesKept(sizes, kept, n) = q[n]
  BY <1>1, <1>4, BytesFold
<1> DEFINE Bad == {i \in 0 .. n : q[i] + r[i].left # budget}
<1>6. 0 \notin Bad
  BY <1>5 DEF BytesRun, BodyRun
<1>7. ASSUME NEW i \in 1 .. n, i - 1 \notin Bad PROVE i \notin Bad
  <2>1. i - 1 \in 0 .. n /\ i - 1 \in 0 .. N /\ q[i - 1] + r[i - 1].left = budget
    BY <1>1, <1>7
  <2>2. q[i] = q[i - 1] + (IF kept[i] THEN sizes[i] ELSE 0) /\ q[i - 1] \in Nat
    BY <1>5, <2>1 DEF BytesRun
  <2>3. r[i] = BodyStep(r[i - 1], sizes[i])
    BY <1>4 DEF BodyRun, N
  <2>4. r[i - 1].left \in Nat /\ sizes[i] \in Nat /\ (kept[i] <=> sizes[i] <= r[i - 1].left)
    BY <1>2, <1>3, <1>4, <2>1
  <2>5. CASE sizes[i] <= r[i - 1].left
    <3>1. r[i].left = r[i - 1].left - sizes[i]
      BY <2>3, <2>5 DEF BodyStep
    <3>2. q[i] = q[i - 1] + sizes[i]
      BY <2>2, <2>4, <2>5
    <3>3. PICK a, b, s : a = r[i - 1].left /\ b = q[i - 1] /\ s = sizes[i]
      OBVIOUS
    <3>4. a \in Nat /\ b \in Nat /\ s \in Nat /\ b + a = budget
      BY <2>1, <2>2, <2>4, <3>3
    <3>5. r[i].left = a - s /\ q[i] = b + s
      BY <3>1, <3>2, <3>3
    <3>6. (b + s) + (a - s) = budget
      BY <3>4
    <3> QED
      BY <3>5, <3>6
  <2>6. CASE ~ (sizes[i] <= r[i - 1].left)
    <3>1. r[i].left = r[i - 1].left
      BY <2>3, <2>6 DEF BodyStep
    <3>2. q[i] = q[i - 1]
      BY <2>2, <2>4, <2>6
    <3> QED
      BY <2>1, <3>1, <3>2
  <2> QED
    BY <2>5, <2>6
<1>8. Bad = {}
  <2>1. Bad \subseteq 0 .. n
    OBVIOUS
  <2> HIDE DEF Bad
  <2> QED
    BY <1>1, <1>6, <1>7, <2>1, Upward
<1>9. n \in 0 .. n /\ n \notin Bad
  BY <1>1, <1>8
<1> QED
  BY <1>5, <1>9 DEF BytesRun

LEMMA BodiesKeepTheirPromise ==
    ASSUME NEW sizes \in Seq(Nat), NEW budget \in Nat
    PROVE  BodiesPromise(sizes, budget, BodiesWithin(sizes, budget))
<1>1. PICK r : BodyRun(sizes, budget, r)
               /\ BodiesWithin(sizes, budget) = r[Len(sizes)].kept
  BY BodiesFold
<1> DEFINE N == Len(sizes)
           kept == BodiesWithin(sizes, budget)
<1>2. N \in Nat /\ DOMAIN sizes = 1 .. N /\ (\A i \in 1 .. N : sizes[i] \in Nat)
      /\ N \in 0 .. N
  OBVIOUS
<1>3. \A n \in 0 .. N : r[n].left \in Nat
  BY <1>1, BodiesAre
<1>4. Len(kept) = N /\ \A i \in 1 .. N : kept[i] <=> sizes[i] <= r[i - 1].left
  BY <1>1, <1>2, BodiesAre
<1>5. ASSUME NEW n \in 0 .. N
      PROVE  BytesKept(sizes, kept, n) + r[n].left = budget
             /\ BytesKept(sizes, kept, n) \in Nat
  BY <1>1, BodiesLeft
<1> HIDE DEF N, kept
<1>6. BytesKept(sizes, kept, N) <= budget
  <2>1. PICK a, b : a = r[N].left /\ b = BytesKept(sizes, kept, N)
    OBVIOUS
  <2>2. a \in Nat
    BY <1>2, <1>3, <2>1
  <2>3. b \in Nat /\ b + a = budget
    BY <1>2, <1>5, <2>1
  <2>4. b <= budget
    BY <2>2, <2>3
  <2> QED
    BY <2>1, <2>4
<1>7. ASSUME NEW i \in 1 .. N
      PROVE  kept[i] <=> BytesKept(sizes, kept, i - 1) + sizes[i] <= budget
  <2>1. i - 1 \in 0 .. N
    BY <1>2
  <2>2. sizes[i] <= r[i - 1].left <=> BytesKept(sizes, kept, i - 1) + sizes[i] <= budget
    <3>1. PICK a, b, s : /\ a = r[i - 1].left
                         /\ b = BytesKept(sizes, kept, i - 1)
                         /\ s = sizes[i]
      OBVIOUS
    <3>2. s \in Nat
      BY <1>2, <3>1
    <3>3. a \in Nat
      BY <1>3, <2>1, <3>1
    <3>4. b \in Nat /\ b + a = budget
      BY <1>5, <2>1, <3>1
    <3>5. s <= a <=> b + s <= budget
      BY <3>2, <3>3, <3>4
    <3> QED
      BY <3>1, <3>5
  <2> QED
    BY <1>4, <2>2
<1> QED
  BY <1>2, <1>4, <1>6, <1>7 DEF BodiesPromise, N, kept

----------------------------------------------------------------------------
(* The matches of browser_find.                                            *)

FindAccs == [matches : Seq(Nat), truncated : BOOLEAN]
FindNext(hits, cap, acc, i) == IF i \notin hits THEN acc ELSE FindStep(acc, i, cap)

FindRun(n, hits, cap, r) ==
    /\ r \in [0 .. n -> FindAccs]
    /\ r[0] = [matches |-> <<>>, truncated |-> FALSE]
    /\ \A i \in 1 .. n : r[i] = FindNext(hits, cap, r[i - 1], i)

LEMMA FindNextTyped ==
    ASSUME NEW hits, NEW cap, NEW acc \in FindAccs, NEW i \in Nat
    PROVE  FindNext(hits, cap, acc, i) \in FindAccs
<1>1. acc.matches \in Seq(Nat) /\ acc.truncated \in BOOLEAN
  BY DEF FindAccs
<1>2. Append(acc.matches, i) \in Seq(Nat)
  BY <1>1
<1>3. /\ [matches |-> acc.matches, truncated |-> TRUE] \in FindAccs
      /\ [matches |-> Append(acc.matches, i), truncated |-> acc.truncated] \in FindAccs
  BY <1>1, <1>2 DEF FindAccs
<1> QED
  BY <1>3 DEF FindNext, FindStep

LEMMA FindFold ==
    ASSUME NEW n \in Nat, NEW hits, NEW cap
    PROVE  \E r : FindRun(n, hits, cap, r) /\ FindMatches(n, hits, cap) = r[n]
<1> DEFINE ids == [i \in 1 .. n |-> i]
           base == [matches |-> <<>>, truncated |-> FALSE]
           IsFold(g) == g = [s \in SUBSET DOMAIN ids |->
                               IF s = {} THEN base
                               ELSE FindNext(hits, cap, g[s \ {Max(s)}], ids[Max(s)])]
           f == [p \in (1 .. n) \X FindAccs |-> FindNext(hits, cap, p[2], p[1])]
           c == CHOOSE g : IsFold(g)
<1>1. FindMatches(n, hits, cap) = c[DOMAIN ids]
  BY DEF FindMatches, FoldLeft, MapThenFoldSet, FindNext
<1>2. DOMAIN ids = 1 .. n /\ \A i \in 1 .. n : ids[i] = i
  OBVIOUS
<1>3. base \in FindAccs
  BY DEF FindAccs
<1>4. f \in [(1 .. n) \X FindAccs -> FindAccs]
  BY FindNextTyped
<1> HIDE DEF f, ids, base
<1>5. PICK g \in [SUBSET (1 .. n) -> FindAccs] : Folds(f, base, 1 .. n, g)
  BY <1>3, <1>4, FoldsTyped
<1>6. IsFold(g)
  <2>1. ASSUME NEW s \in SUBSET (1 .. n), s # {}
        PROVE  g[s] = FindNext(hits, cap, g[s \ {Max(s)}], ids[Max(s)])
    <3>1. Max(s) \in s /\ Max(s) \in 1 .. n
      BY <2>1, MaxIs
    <3>2. g[s \ {Max(s)}] \in FindAccs
      BY <3>1
    <3>3. g[s] = f[<<Max(s), g[s \ {Max(s)}]>>]
      BY <1>5, <2>1 DEF Folds
    <3> QED
      BY <1>2, <3>1, <3>2, <3>3 DEF f
  <2>2. g[{}] = base
    BY <1>5 DEF Folds
  <2> QED
    BY <1>2, <2>1, <2>2
<1> HIDE DEF IsFold
<1>7. IsFold(c)
  BY <1>6
<1> HIDE DEF c
<1>8. Steps(f, base, n, FindAccs, c)
  <2>1. c[{}] = base
    BY <1>7 DEF IsFold
  <2>2. ASSUME NEW s \in SUBSET (1 .. n), s # {}, c[s \ {Max(s)}] \in FindAccs
        PROVE  c[s] = f[<<Max(s), c[s \ {Max(s)}]>>]
    <3>1. Max(s) \in 1 .. n
      BY <2>2, MaxIs
    <3>2. c[s] = FindNext(hits, cap, c[s \ {Max(s)}], Max(s))
      BY <1>2, <1>7, <2>2, <3>1 DEF IsFold
    <3> QED
      BY <2>2, <3>1, <3>2 DEF f
  <2> QED
    BY <2>1, <2>2 DEF Steps
<1>9. PICK r : MadeBy(f, base, n, FindAccs, c, r)
  BY <1>3, <1>4, <1>8, RunOfFold
<1>10. ASSUME NEW i \in 1 .. n PROVE r[i] = FindNext(hits, cap, r[i - 1], i)
  <2>1. i - 1 \in 0 .. n
    OBVIOUS
  <2>2. r[i] = f[<<i, r[i - 1]>>] /\ r[i - 1] \in FindAccs
    BY <1>9, <2>1 DEF MadeBy
  <2> QED
    BY <2>2 DEF f
<1>11. FindRun(n, hits, cap, r)
  BY <1>9, <1>10 DEF FindRun, MadeBy, base
<1> QED
  BY <1>1, <1>2, <1>9, <1>11 DEF MadeBy

(* The promise about the matches among the first k nodes.                  *)
LeftOut(hits, list, k) ==
    {h \in hits : h <= k /\ \A i \in 1 .. Len(list) : list[i] # h}
Listed(hits, cap, list, k) ==
    /\ \A i \in 1 .. Len(list) : list[i] \in hits /\ list[i] <= k
    /\ \A i, j \in 1 .. Len(list) : i < j => list[i] < list[j]
    /\ Len(list) <= cap
    /\ \A h \in LeftOut(hits, list, k) :
          Len(list) = cap /\ \A i \in 1 .. Len(list) : list[i] < h

LEMMA NoHit ==
    ASSUME NEW hits \in SUBSET Nat, NEW cap \in Nat, NEW list \in Seq(Nat), NEW k \in Nat \ {0},
           Listed(hits, cap, list, k - 1), k \notin hits
    PROVE  Listed(hits, cap, list, k) /\ LeftOut(hits, list, k) = LeftOut(hits, list, k - 1)
<1>1. \A h \in hits : h <= k <=> h <= k - 1
  OBVIOUS
<1>2. LeftOut(hits, list, k) = LeftOut(hits, list, k - 1)
  BY <1>1 DEF LeftOut
<1>3. \A i \in 1 .. Len(list) : list[i] \in hits /\ list[i] <= k
  BY DEF Listed
<1> QED
  BY <1>2, <1>3 DEF Listed

LEMMA HitBeyond ==
    ASSUME NEW hits \in SUBSET Nat, NEW cap \in Nat, NEW list \in Seq(Nat), NEW k \in Nat \ {0},
           Listed(hits, cap, list, k - 1), k \in hits, Len(list) >= cap
    PROVE  Listed(hits, cap, list, k) /\ LeftOut(hits, list, k) # {}
<1>1. \A i \in 1 .. Len(list) : list[i] \in Nat /\ list[i] \in hits /\ list[i] <= k - 1
  BY DEF Listed
<1>2. \A i \in 1 .. Len(list) : list[i] <= k /\ list[i] < k /\ list[i] # k
  BY <1>1
<1>3. k \in LeftOut(hits, list, k)
  BY <1>2 DEF LeftOut
<1>4. Len(list) = cap
  BY DEF Listed
<1>5. ASSUME NEW h \in LeftOut(hits, list, k)
      PROVE  \A i \in 1 .. Len(list) : list[i] < h
  <2>1. CASE h = k
    BY <1>2, <2>1
  <2>2. CASE h # k
    <3>1. h \in LeftOut(hits, list, k - 1)
      BY <2>2 DEF LeftOut
    <3> QED
      BY <3>1 DEF Listed
  <2> QED
    BY <2>1, <2>2
<1> QED
  BY <1>1, <1>2, <1>3, <1>4, <1>5 DEF Listed

LEMMA HitWithin ==
    ASSUME NEW hits \in SUBSET Nat, NEW cap \in Nat, NEW list \in Seq(Nat), NEW k \in Nat \ {0},
           Listed(hits, cap, list, k - 1), k \in hits, ~ (Len(list) >= cap)
    PROVE  /\ Listed(hits, cap, Append(list, k), k)
           /\ LeftOut(hits, Append(list, k), k) = {} /\ LeftOut(hits, list, k - 1) = {}
<1> DEFINE L == Len(list)
<1>1. PICK t : t = Append(list, k)
  OBVIOUS
<1>2. /\ L \in Nat /\ Len(t) = L + 1 /\ t[L + 1] = k
      /\ \A i \in 1 .. L : t[i] = list[i] /\ list[i] \in Nat
  BY <1>1
<1>3. \A i \in 1 .. L : list[i] \in hits /\ list[i] <= k - 1
  BY DEF Listed
<1>4. LeftOut(hits, list, k - 1) = {}
  BY DEF Listed
<1> HIDE DEF L
<1>5. \A i \in 1 .. L + 1 : i \in 1 .. L \/ i = L + 1
  BY <1>2
<1>6. LeftOut(hits, t, k) = {}
  <2> SUFFICES ASSUME NEW h \in hits, h <= k, \A i \in 1 .. L + 1 : t[i] # h PROVE FALSE
    BY <1>2 DEF LeftOut
  <2>1. h # k
    BY <1>2
  <2>2. h \notin LeftOut(hits, list, k - 1)
    BY <1>4
  <2>3. PICK i \in 1 .. L : list[i] = h
    BY <2>1, <2>2 DEF LeftOut, L
  <2>4. i \in 1 .. L + 1 /\ t[i] = h
    BY <1>2, <2>3
  <2> QED
    BY <2>4
<1>7. \A i \in 1 .. L + 1 : t[i] \in hits /\ t[i] <= k
  BY <1>2, <1>3, <1>5
<1>8. ASSUME NEW i \in 1 .. L + 1, NEW j \in 1 .. L + 1, i < j PROVE t[i] < t[j]
  <2>1. i \in 1 .. L
    BY <1>2, <1>8
  <2>2. CASE j = L + 1
    BY <1>2, <1>3, <2>1, <2>2
  <2>3. CASE j \in 1 .. L
    <3>1. list[i] < list[j]
      BY <1>8, <2>1, <2>3 DEF Listed, L
    <3> QED
      BY <1>2, <2>1, <2>3, <3>1
  <2> QED
    BY <1>5, <2>2, <2>3
<1>9. L + 1 <= cap
  BY <1>2 DEF L
<1>10. Listed(hits, cap, t, k)
  BY <1>2, <1>6, <1>7, <1>8, <1>9 DEF Listed
<1> QED
  BY <1>1, <1>4, <1>6, <1>10

LEMMA FindNextKeeps ==
    ASSUME NEW hits \in SUBSET Nat, NEW cap \in Nat, NEW acc \in FindAccs, NEW k \in Nat \ {0},
           Listed(hits, cap, acc.matches, k - 1),
           acc.truncated <=> LeftOut(hits, acc.matches, k - 1) # {},
           NEW new, new = FindNext(hits, cap, acc, k)
    PROVE  /\ Listed(hits, cap, new.matches, k)
           /\ new.truncated <=> LeftOut(hits, new.matches, k) # {}
<1>1. PICK list : list = acc.matches
  OBVIOUS
<1>2. list \in Seq(Nat) /\ Listed(hits, cap, list, k - 1)
  BY <1>1 DEF FindAccs
<1>3. CASE k \notin hits
  <2>1. new = acc
    BY <1>3 DEF FindNext
  <2>2. Listed(hits, cap, list, k) /\ LeftOut(hits, list, k) = LeftOut(hits, list, k - 1)
    BY <1>2, <1>3, NoHit
  <2> QED
    BY <1>1, <2>1, <2>2
<1>4. CASE k \in hits /\ Len(list) >= cap
  <2>1. new = [matches |-> list, truncated |-> TRUE]
    BY <1>1, <1>4 DEF FindNext, FindStep
  <2>2. Listed(hits, cap, list, k) /\ LeftOut(hits, list, k) # {}
    BY <1>2, <1>4, HitBeyond
  <2> QED
    BY <2>1, <2>2
<1>5. CASE k \in hits /\ ~ (Len(list) >= cap)
  <2>1. new = [matches |-> Append(list, k), truncated |-> acc.truncated]
    BY <1>1, <1>5 DEF FindNext, FindStep
  <2>2. /\ Listed(hits, cap, Append(list, k), k)
        /\ LeftOut(hits, Append(list, k), k) = {} /\ LeftOut(hits, list, k - 1) = {}
    BY <1>2, <1>5, HitWithin
  <2>3. new.matches = Append(list, k) /\ (new.truncated <=> acc.truncated)
    BY <2>1
  <2>4. ~ acc.truncated
    BY <1>1, <2>2
  <2> QED
    BY <2>2, <2>3, <2>4
<1> QED
  BY <1>3, <1>4, <1>5

LEMMA FindKeepsItsPromise ==
    ASSUME NEW n \in Nat, NEW hits \in SUBSET (1 .. n), NEW cap \in Nat
    PROVE  FindPromise(hits, cap, FindMatches(n, hits, cap))
<1>1. PICK r : FindRun(n, hits, cap, r) /\ FindMatches(n, hits, cap) = r[n]
  BY FindFold
<1>2. hits \in SUBSET Nat
  OBVIOUS
<1> DEFINE Ok(k) == /\ Listed(hits, cap, r[k].matches, k)
                    /\ r[k].truncated <=> LeftOut(hits, r[k].matches, k) # {}
           Bad == {k \in 0 .. n : ~ Ok(k)}
<1>3. 0 \notin Bad
  <2>1. r[0].matches = <<>> /\ ~ r[0].truncated
    BY <1>1 DEF FindRun
  <2>2. LeftOut(hits, <<>>, 0) = {}
    <3>1. \A h \in hits : ~ (h <= 0)
      OBVIOUS
    <3> QED
      BY <3>1 DEF LeftOut
  <2>3. Listed(hits, cap, <<>>, 0)
    BY <2>2 DEF Listed
  <2> QED
    BY <2>1, <2>2, <2>3
<1>4. ASSUME NEW k \in 1 .. n, k - 1 \notin Bad PROVE k \notin Bad
  <2>1. k - 1 \in 0 .. n /\ k \in Nat \ {0} /\ Ok(k - 1)
    BY <1>4
  <2>2. PICK acc, new : acc = r[k - 1] /\ new = r[k]
    OBVIOUS
  <2>3. acc \in FindAccs /\ new = FindNext(hits, cap, acc, k)
    BY <1>1, <2>1, <2>2 DEF FindRun
  <2>4. /\ Listed(hits, cap, acc.matches, k - 1)
        /\ acc.truncated <=> LeftOut(hits, acc.matches, k - 1) # {}
    BY <2>1, <2>2
  <2>5. /\ Listed(hits, cap, new.matches, k)
        /\ new.truncated <=> LeftOut(hits, new.matches, k) # {}
    BY <1>2, <2>1, <2>3, <2>4, FindNextKeeps
  <2> QED
    BY <2>2, <2>5
<1>5. Bad = {}
  <2>1. Bad \subseteq 0 .. n
    OBVIOUS
  <2> HIDE DEF Bad
  <2> QED
    BY <1>3, <1>4, <2>1, Upward
<1>6. n \in 0 .. n
  OBVIOUS
<1>7. PICK found : found = r[n]
  OBVIOUS
<1>8. PICK list : list = found.matches
  OBVIOUS
<1>9. /\ Listed(hits, cap, list, n) /\ (found.truncated <=> LeftOut(hits, list, n) # {})
      /\ list \in Seq(Nat)
  BY <1>1, <1>5, <1>6, <1>7, <1>8 DEF FindRun, FindAccs
<1>10. DOMAIN list = 1 .. Len(list)
  BY <1>9
<1>11. {h \in hits : \A i \in DOMAIN list : list[i] # h} = LeftOut(hits, list, n)
  <2>1. \A h \in hits : h <= n
    OBVIOUS
  <2> QED
    BY <1>10, <2>1 DEF LeftOut
<1>12. FindPromise(hits, cap, found)
  <2>1. PICK rest : rest = LeftOut(hits, list, n)
    OBVIOUS
  <2>2. /\ \A i \in DOMAIN list : list[i] \in hits
        /\ \A i, j \in DOMAIN list : i < j => list[i] < list[j]
        /\ Len(list) <= cap
        /\ \A h \in rest : Len(list) = cap /\ \A i \in DOMAIN list : list[i] < h
    BY <1>9, <1>10, <2>1 DEF Listed
  <2>3. found.truncated <=> rest # {}
    BY <1>9, <2>1
  <2> QED
    BY <1>8, <1>11, <2>1, <2>2, <2>3 DEF FindPromise
<1> QED
  BY <1>1, <1>7, <1>12

----------------------------------------------------------------------------
(* What is cut out of a saved page.                                              *)

LEMMA PageKeepsItsPromise ==
    ASSUME NEW n \in Nat, NEW offset \in Nat \cup {Absent}, NEW limit \in Nat \cup {Absent}
    PROVE  PagePromise(n, offset, limit, Paginate(n, offset, limit))
<1> DEFINE skip == Upper(GivenOr(offset, 1), 1) - 1
           size == Lower(GivenOr(limit, SavedLines), MaxSavedLines)
           sum == skip + size
           first == Lower(skip, n)
           last == Lower(sum % Modulus, n)
           cut == Paginate(n, offset, limit)
<1>1. SavedLines \in Nat /\ MaxSavedLines \in Nat /\ Modulus \in Nat \ {0} /\ Absent \notin Nat
  BY TextConstants
<1>2. skip \in Nat
  BY <1>1 DEF Upper, GivenOr
<1>3. size \in Nat
  BY <1>1 DEF Lower, GivenOr
<1>4. cut = [first |-> first, last |-> last, truncated |-> last < n, panic |-> last < first]
  BY DEF Paginate
<1> HIDE DEF skip, size, cut
<1>5. CASE sum < Modulus
  <2>1. sum \in Nat /\ sum % Modulus = sum
    BY <1>1, <1>2, <1>3, <1>5
  <2>2. /\ first = IF skip <= n THEN skip ELSE n
        /\ last = IF sum <= n THEN sum ELSE n
    BY <2>1 DEF Lower
  <2>3. first \in Nat /\ last \in Nat /\ first <= last /\ skip <= sum
    BY <1>2, <1>3, <2>1, <2>2
  <2>4. (first + 1) .. last = {l \in 1 .. n : l > skip /\ l <= skip + size}
    BY <1>2, <1>3, <2>1, <2>2, <2>3
  <2>5. last < n <=> \E l \in 1 .. n : l > skip + size
    BY <1>2, <1>3, <2>1, <2>2, <2>3
  <2> HIDE DEF first, last
  <2>6. /\ cut.first = first /\ cut.last = last
        /\ (cut.truncated <=> last < n) /\ (cut.panic <=> last < first)
    BY <1>4
  <2>7. ~ cut.panic
    BY <2>3, <2>6
  <2> QED
    BY <2>4, <2>5, <2>6, <2>7 DEF PagePromise, skip, size, cut
<1>6. CASE ~ (sum < Modulus)
  BY <1>6 DEF PagePromise, skip, size
<1> QED
  BY <1>5, <1>6

----------------------------------------------------------------------------
(* The matches of a saved page.                                            *)

Blocks == Seq(Nat \X Nat)
Around(n, context, i) == <<Upper(i - context, 1), Lower(i + context, n)>>
GrepNext(n, hits, context, blocks, i) ==
    IF i \notin hits THEN blocks ELSE Join(blocks, Around(n, context, i))

GrepRun(n, hits, context, r) ==
    /\ r \in [0 .. n -> Blocks] /\ r[0] = <<>>
    /\ \A i \in 1 .. n : r[i] = GrepNext(n, hits, context, r[i - 1], i)

(* A block that is put in the place of the last, or behind it.             *)
LEMMA JoinIs ==
    ASSUME NEW s \in Blocks, NEW b \in Nat \X Nat
    PROVE  LET t == Join(s, b)
               m == Len(s) IN
           /\ t \in Blocks
           /\ \/ /\ m # 0 /\ b[1] <= s[m][2] + 1
                 /\ Len(t) = m /\ t[m] = <<s[m][1], b[2]>>
                 /\ \A i \in 1 .. m - 1 : t[i] = s[i]
              \/ /\ m # 0 => ~ (b[1] <= s[m][2] + 1)
                 /\ Len(t) = m + 1 /\ t[m + 1] = b
                 /\ \A i \in 1 .. m : t[i] = s[i]
<1> DEFINE m == Len(s)
           t == Join(s, b)
<1>1. m \in Nat /\ (s # <<>> <=> m # 0) /\ s \in Seq(Nat \X Nat)
  BY DEF Blocks
<1>2. CASE m # 0 /\ b[1] <= s[m][2] + 1
  <2> DEFINE e == <<s[m][1], b[2]>>
  <2>1. m \in 1 .. m /\ s[m] \in Nat \X Nat
    BY <1>1, <1>2, ElementOfSeq
  <2>2. e \in Nat \X Nat
    BY <2>1
  <2>3. t = [s EXCEPT ![m] = e]
    BY <1>1, <1>2 DEF Join, Last
  <2>4. m = Len(s)
    OBVIOUS
  <2> HIDE DEF e, t, m
  <2>5. PICK T : T = Nat \X Nat
    OBVIOUS
  <2>6. DOMAIN s = 1 .. m /\ \A j \in 1 .. m : s[j] \in T
    BY <1>1, <2>4, <2>5
  <2>7. t = [j \in 1 .. m |-> IF j = m THEN e ELSE s[j]]
    BY <2>1, <2>3, <2>6
  <2>8. t[m] = e /\ \A j \in 1 .. m - 1 : t[j] = s[j]
    BY <1>1, <2>1, <2>7
  <2>9. t \in [1 .. m -> T]
    BY <2>2, <2>5, <2>6, <2>7
  <2>10. t \in Seq(T) /\ Len(t) = m
    BY <1>1, <2>9
  <2> QED
    BY <1>2, <2>5, <2>8, <2>10 DEF Blocks, e, t, m
<1>3. CASE ~ (m # 0 /\ b[1] <= s[m][2] + 1)
  <2>1. t = Append(s, b)
    BY <1>1, <1>3 DEF Join, Last
  <2> HIDE DEF t
  <2>2. PICK u : u = Append(s, b)
    OBVIOUS
  <2>3. u \in Seq(Nat \X Nat) /\ Len(u) = m + 1 /\ u[m + 1] = b
        /\ \A j \in 1 .. m : u[j] = s[j]
    BY <1>1, <2>2, AppendProperties
  <2> HIDE DEF m
  <2> QED
    BY <1>3, <2>1, <2>2, <2>3 DEF Blocks, t, m
<1> QED
  BY <1>2, <1>3

LEMMA AroundIs ==
    ASSUME NEW n \in Nat, NEW context \in Nat, NEW i \in 1 .. n
    PROVE  LET b == Around(n, context, i) IN
           /\ b \in Nat \X Nat /\ 1 <= b[1] /\ b[1] <= b[2] /\ b[2] <= n
           /\ \A l \in 1 .. n : b[1] <= l /\ l <= b[2] <=> l - i \in -context .. context
<1>1. Upper(i - context, 1) \in Nat /\ Lower(i + context, n) \in Nat
  BY DEF Upper, Lower
<1>2. /\ 1 <= Upper(i - context, 1) /\ Upper(i - context, 1) <= Lower(i + context, n)
      /\ Lower(i + context, n) <= n
  BY DEF Upper, Lower
<1>3. \A l \in 1 .. n : Upper(i - context, 1) <= l /\ l <= Lower(i + context, n)
                          <=> l - i \in -context .. context
  BY DEF Upper, Lower
<1> QED
  BY <1>1, <1>2, <1>3 DEF Around

LEMMA GrepFold ==
    ASSUME NEW n \in Nat, NEW hits, NEW context \in Nat
    PROVE  \E r : GrepRun(n, hits, context, r) /\ GrepBlocks(n, hits, context) = r[n]
<1> DEFINE ids == [i \in 1 .. n |-> i]
           IsFold(g) == g = [s \in SUBSET DOMAIN ids |->
                               IF s = {} THEN <<>>
                               ELSE GrepNext(n, hits, context, g[s \ {Max(s)}], ids[Max(s)])]
           f == [p \in (1 .. n) \X Blocks |-> GrepNext(n, hits, context, p[2], p[1])]
           c == CHOOSE g : IsFold(g)
<1>1. GrepBlocks(n, hits, context) = c[DOMAIN ids]
  BY DEF GrepBlocks, FoldLeft, MapThenFoldSet, GrepNext, Around
<1>2. DOMAIN ids = 1 .. n /\ \A i \in 1 .. n : ids[i] = i
  OBVIOUS
<1>3. <<>> \in Blocks
  BY DEF Blocks
<1>4. f \in [(1 .. n) \X Blocks -> Blocks]
  <2> SUFFICES ASSUME NEW i \in 1 .. n, NEW blocks \in Blocks
               PROVE  GrepNext(n, hits, context, blocks, i) \in Blocks
    OBVIOUS
  <2>1. Around(n, context, i) \in Nat \X Nat
    BY AroundIs
  <2>2. Join(blocks, Around(n, context, i)) \in Blocks
    BY <2>1, JoinIs
  <2> QED
    BY <2>2 DEF GrepNext
<1> HIDE DEF f, ids
<1>5. PICK g \in [SUBSET (1 .. n) -> Blocks] : Folds(f, <<>>, 1 .. n, g)
  BY <1>3, <1>4, FoldsTyped
<1>6. IsFold(g)
  <2>1. ASSUME NEW s \in SUBSET (1 .. n), s # {}
        PROVE  g[s] = GrepNext(n, hits, context, g[s \ {Max(s)}], ids[Max(s)])
    <3>1. Max(s) \in s /\ Max(s) \in 1 .. n
      BY <2>1, MaxIs
    <3>2. g[s \ {Max(s)}] \in Blocks
      BY <3>1
    <3>3. g[s] = f[<<Max(s), g[s \ {Max(s)}]>>]
      BY <1>5, <2>1 DEF Folds
    <3> QED
      BY <1>2, <3>1, <3>2, <3>3 DEF f
  <2>2. g[{}] = <<>>
    BY <1>5 DEF Folds
  <2> QED
    BY <1>2, <2>1, <2>2
<1> HIDE DEF IsFold
<1>7. IsFold(c)
  BY <1>6
<1> HIDE DEF c
<1>8. Steps(f, <<>>, n, Blocks, c)
  <2>1. c[{}] = <<>>
    BY <1>7 DEF IsFold
  <2>2. ASSUME NEW s \in SUBSET (1 .. n), s # {}, c[s \ {Max(s)}] \in Blocks
        PROVE  c[s] = f[<<Max(s), c[s \ {Max(s)}]>>]
    <3>1. Max(s) \in 1 .. n
      BY <2>2, MaxIs
    <3>2. c[s] = GrepNext(n, hits, context, c[s \ {Max(s)}], Max(s))
      BY <1>2, <1>7, <2>2, <3>1 DEF IsFold
    <3> QED
      BY <2>2, <3>1, <3>2 DEF f
  <2> QED
    BY <2>1, <2>2 DEF Steps
<1>9. PICK r : MadeBy(f, <<>>, n, Blocks, c, r)
  BY <1>3, <1>4, <1>8, RunOfFold
<1>10. ASSUME NEW i \in 1 .. n PROVE r[i] = GrepNext(n, hits, context, r[i - 1], i)
  <2>1. i - 1 \in 0 .. n
    OBVIOUS
  <2>2. r[i] = f[<<i, r[i - 1]>>] /\ r[i - 1] \in Blocks
    BY <1>9, <2>1 DEF MadeBy
  <2> QED
    BY <2>2 DEF f
<1>11. GrepRun(n, hits, context, r)
  BY <1>9, <1>10 DEF GrepRun, MadeBy
<1> QED
  BY <1>1, <1>2, <1>9, <1>11 DEF MadeBy

(* The blocks of the matches up to line k.                                 *)
Holds(s, l) == \E i \in 1 .. Len(s) : s[i][1] <= l /\ l <= s[i][2]
Near(hits, context, k, l) == \E h \in hits : h <= k /\ l - h \in -context .. context

Parted(s) ==
    /\ \A i \in 1 .. Len(s) : s[i][1] <= s[i][2]
    /\ \A i \in 1 .. Len(s) - 1 : s[i][2] + 1 < s[i + 1][1]

GrepUpTo(n, hits, context, s, k) ==
    LET m == Len(s) IN
    /\ \A l \in 1 .. n : Holds(s, l) <=> Near(hits, context, k, l)
    /\ \A i \in 1 .. m : 1 <= s[i][1] /\ s[i][2] <= n
    /\ Parted(s)
    /\ m # 0 => s[m][1] <= Upper(k - context, 1) /\ s[m][2] <= Lower(k + context, n)

(* A block b that neither begins before the last block nor ends before it. *)
LEMMA JoinKeeps ==
    ASSUME NEW n \in Nat, NEW s \in Blocks, NEW b \in Nat \X Nat,
           1 <= b[1], b[1] <= b[2], b[2] <= n,
           Parted(s), \A i \in 1 .. Len(s) : 1 <= s[i][1] /\ s[i][2] <= n,
           Len(s) # 0 => s[Len(s)][1] <= b[1] /\ s[Len(s)][2] <= b[2]
    PROVE  LET t == Join(s, b) IN
           /\ Parted(t) /\ \A i \in 1 .. Len(t) : 1 <= t[i][1] /\ t[i][2] <= n
           /\ t[Len(t)][1] <= b[1] /\ t[Len(t)][2] <= b[2]
           /\ \A l \in 1 .. n : Holds(t, l) <=> Holds(s, l) \/ (b[1] <= l /\ l <= b[2])
<1>1. PICK t, m : t = Join(s, b) /\ m = Len(s)
  OBVIOUS
<1>2. /\ t \in Blocks
      /\ \/ /\ m # 0 /\ b[1] <= s[m][2] + 1
            /\ Len(t) = m /\ t[m] = <<s[m][1], b[2]>>
            /\ \A i \in 1 .. m - 1 : t[i] = s[i]
         \/ /\ m # 0 => ~ (b[1] <= s[m][2] + 1)
            /\ Len(t) = m + 1 /\ t[m + 1] = b
            /\ \A i \in 1 .. m : t[i] = s[i]
  BY <1>1, JoinIs
<1>3. m \in Nat /\ \A i \in 1 .. m : s[i] \in Nat \X Nat
  BY <1>1 DEF Blocks
<1>4. /\ \A i \in 1 .. m : s[i][1] <= s[i][2] /\ 1 <= s[i][1] /\ s[i][2] <= n
      /\ \A i \in 1 .. m - 1 : s[i][2] + 1 < s[i + 1][1]
      /\ m # 0 => s[m][1] <= b[1] /\ s[m][2] <= b[2]
  BY <1>1 DEF Parted
<1>5. CASE /\ m # 0 /\ b[1] <= s[m][2] + 1
           /\ Len(t) = m /\ t[m] = <<s[m][1], b[2]>>
           /\ \A i \in 1 .. m - 1 : t[i] = s[i]
  <2>1. t[m][1] = s[m][1] /\ t[m][2] = b[2] /\ m \in 1 .. m /\ s[m][1] <= s[m][2]
        /\ s[m] \in Nat \X Nat
    BY <1>3, <1>4, <1>5
  <2>2. \A i \in 1 .. m : i = m \/ (i \in 1 .. m - 1 /\ i # m)
    BY <1>3
  <2>3. \A i \in 1 .. m : t[i][1] = s[i][1] /\ (i # m => t[i][2] = s[i][2])
    BY <1>5, <2>1, <2>2
  <2>4. ASSUME NEW i \in 1 .. m
        PROVE  t[i][1] <= t[i][2] /\ 1 <= t[i][1] /\ t[i][2] <= n
    <3>1. CASE i = m
      BY <1>3, <1>4, <2>1, <3>1
    <3>2. CASE i # m
      BY <1>4, <2>3, <3>2
    <3> QED
      BY <3>1, <3>2
  <2>5. ASSUME NEW i \in 1 .. m - 1 PROVE t[i][2] + 1 < t[i + 1][1]
    <3>1. i \in 1 .. m /\ i + 1 \in 1 .. m /\ i # m
      BY <1>3
    <3> QED
      BY <1>4, <2>3, <3>1
  <2>6. ASSUME NEW l \in 1 .. n
        PROVE  Holds(t, l) <=> Holds(s, l) \/ (b[1] <= l /\ l <= b[2])
    <3>1. ASSUME Holds(t, l) PROVE Holds(s, l) \/ (b[1] <= l /\ l <= b[2])
      <4>1. PICK i \in 1 .. m : t[i][1] <= l /\ l <= t[i][2]
        BY <1>5, <3>1 DEF Holds
      <4>2. CASE i # m
        BY <1>1, <2>3, <4>1, <4>2 DEF Holds
      <4>3. CASE i = m
        <5>1. s[m][1] <= l /\ l <= b[2]
          BY <2>1, <4>1, <4>3
        <5>2. l <= s[m][2] \/ b[1] <= l
          BY <1>3, <1>5, <2>1
        <5> QED
          BY <1>1, <2>1, <5>1, <5>2 DEF Holds
      <4> QED
        BY <4>2, <4>3
    <3>2. ASSUME Holds(s, l) PROVE Holds(t, l)
      <4>1. PICK i \in 1 .. m : s[i][1] <= l /\ l <= s[i][2]
        BY <1>1, <3>2 DEF Holds
      <4>2. t[i][1] <= l /\ l <= t[i][2]
        <5>1. CASE i # m
          BY <2>3, <4>1, <5>1
        <5>2. CASE i = m
          BY <1>3, <1>4, <2>1, <4>1, <5>2
        <5> QED
          BY <5>1, <5>2
      <4> QED
        BY <1>5, <4>2 DEF Holds
    <3>3. ASSUME b[1] <= l /\ l <= b[2] PROVE Holds(t, l)
      <4>1. t[m][1] <= l /\ l <= t[m][2]
        BY <1>4, <1>5, <2>1, <3>3
      <4> QED
        BY <1>5, <2>1, <4>1 DEF Holds
    <3> QED
      BY <3>1, <3>2, <3>3
  <2>7. t[m][1] <= b[1] /\ t[m][2] <= b[2]
    BY <1>4, <1>5, <2>1
  <2>8. Len(t) = m
    BY <1>5
  <2> QED
    BY <1>1, <2>4, <2>5, <2>6, <2>7, <2>8 DEF Parted
<1>6. CASE /\ m # 0 => ~ (b[1] <= s[m][2] + 1)
           /\ Len(t) = m + 1 /\ t[m + 1] = b
           /\ \A i \in 1 .. m : t[i] = s[i]
  <2>1. \A i \in 1 .. m + 1 : i = m + 1 \/ i \in 1 .. m
    BY <1>3
  <2>2. m + 1 \in 1 .. m + 1 /\ \A i \in 1 .. m : i \in 1 .. m + 1
    BY <1>3
  <2>4. ASSUME NEW i \in 1 .. m + 1
        PROVE  t[i][1] <= t[i][2] /\ 1 <= t[i][1] /\ t[i][2] <= n
    BY <1>4, <1>6, <2>1
  <2>5. ASSUME NEW i \in 1 .. (m + 1) - 1 PROVE t[i][2] + 1 < t[i + 1][1]
    <3>1. i \in 1 .. m /\ (i = m \/ (i \in 1 .. m - 1 /\ i + 1 \in 1 .. m))
      BY <1>3
    <3>2. CASE i = m
      <4>1. m # 0 /\ t[i] = s[m] /\ t[i + 1] = b /\ s[m] \in Nat \X Nat
        BY <1>3, <1>6, <3>1, <3>2
      <4> QED
        BY <1>6, <4>1
    <3>3. CASE i \in 1 .. m - 1 /\ i + 1 \in 1 .. m
      BY <1>4, <1>6, <3>1, <3>3
    <3> QED
      BY <3>1, <3>2, <3>3
  <2>6. ASSUME NEW l \in 1 .. n
        PROVE  Holds(t, l) <=> Holds(s, l) \/ (b[1] <= l /\ l <= b[2])
    <3>1. ASSUME Holds(t, l) PROVE Holds(s, l) \/ (b[1] <= l /\ l <= b[2])
      <4>1. PICK i \in 1 .. m + 1 : t[i][1] <= l /\ l <= t[i][2]
        BY <1>6, <3>1 DEF Holds
      <4> QED
        BY <1>1, <1>6, <2>1, <4>1 DEF Holds
    <3>2. ASSUME Holds(s, l) PROVE Holds(t, l)
      BY <1>1, <1>6, <2>2, <3>2 DEF Holds
    <3>3. ASSUME b[1] <= l /\ l <= b[2] PROVE Holds(t, l)
      BY <1>6, <2>2, <3>3 DEF Holds
    <3> QED
      BY <3>1, <3>2, <3>3
  <2>7. t[m + 1][1] <= b[1] /\ t[m + 1][2] <= b[2]
    BY <1>6
  <2>8. Len(t) = m + 1
    BY <1>6
  <2> QED
    BY <1>1, <2>4, <2>5, <2>6, <2>7, <2>8 DEF Parted
<1> QED
  BY <1>2, <1>5, <1>6

LEMMA GrepNextKeeps ==
    ASSUME NEW n \in Nat, NEW hits, hits \subseteq 1 .. n, NEW context \in Nat,
           NEW s \in Blocks, NEW k \in 1 .. n, GrepUpTo(n, hits, context, s, k - 1),
           NEW t, t = GrepNext(n, hits, context, s, k)
    PROVE  GrepUpTo(n, hits, context, t, k)
<1>1. PICK m : m = Len(s)
  OBVIOUS
<1>2. /\ \A l \in 1 .. n : Holds(s, l) <=> Near(hits, context, k - 1, l)
      /\ \A i \in 1 .. m : 1 <= s[i][1] /\ s[i][2] <= n
      /\ Parted(s) /\ m \in Nat
      /\ m # 0 => s[m] \in Nat \X Nat
      /\ m # 0 => s[m][1] <= Upper(k - 1 - context, 1) /\ s[m][2] <= Lower(k - 1 + context, n)
  BY <1>1 DEF GrepUpTo, Blocks
<1>3. m # 0 => s[m][1] <= Upper(k - context, 1) /\ s[m][2] <= Lower(k + context, n)
  BY <1>2 DEF Upper, Lower
<1>4. \A h \in hits : h \in Nat /\ (h <= k <=> h <= k - 1 \/ h = k)
  OBVIOUS
<1>5. CASE k \notin hits
  <2>1. t = s
    BY <1>5 DEF GrepNext
  <2>2. \A l \in 1 .. n : Near(hits, context, k, l) <=> Near(hits, context, k - 1, l)
    BY <1>4, <1>5 DEF Near
  <2> QED
    BY <1>1, <1>2, <1>3, <2>1, <2>2 DEF GrepUpTo
<1>6. CASE k \in hits
  <2>1. PICK b : b = Around(n, context, k)
    OBVIOUS
  <2>2. /\ b \in Nat \X Nat /\ 1 <= b[1] /\ b[1] <= b[2] /\ b[2] <= n
        /\ \A l \in 1 .. n : b[1] <= l /\ l <= b[2] <=> l - k \in -context .. context
        /\ b[1] = Upper(k - context, 1) /\ b[2] = Lower(k + context, n)
    BY <2>1, AroundIs DEF Around
  <2>3. t = Join(s, b)
    BY <1>6, <2>1 DEF GrepNext
  <2>4. Len(s) # 0 => s[Len(s)][1] <= b[1] /\ s[Len(s)][2] <= b[2]
    BY <1>1, <1>3, <2>2
  <2>5. \A i \in 1 .. Len(s) : 1 <= s[i][1] /\ s[i][2] <= n
    BY <1>1, <1>2
  <2>6. /\ Parted(t) /\ \A i \in 1 .. Len(t) : 1 <= t[i][1] /\ t[i][2] <= n
        /\ t[Len(t)][1] <= b[1] /\ t[Len(t)][2] <= b[2]
        /\ \A l \in 1 .. n : Holds(t, l) <=> Holds(s, l) \/ (b[1] <= l /\ l <= b[2])
    BY <1>2, <2>2, <2>3, <2>4, <2>5, JoinKeeps
  <2>7. \A l \in 1 .. n : Near(hits, context, k, l)
                            <=> Near(hits, context, k - 1, l) \/ l - k \in -context .. context
    BY <1>4, <1>6 DEF Near
  <2>8. \A l \in 1 .. n : Holds(t, l) <=> Near(hits, context, k, l)
    BY <1>2, <2>2, <2>6, <2>7
  <2> QED
    BY <2>2, <2>6, <2>8 DEF GrepUpTo
<1> QED
  BY <1>5, <1>6

(* A search of a saved page, for any number of lines, any matches and any  *)
(* context: the blocks that grep_with_context builds hold every line near  *)
(* a match and no other, none twice, with a break exactly where lines are  *)
(* left out.                                                               *)
THEOREM GrepKeepsItsPromise ==
    ASSUME NEW n \in Nat, NEW hits, hits \subseteq 1 .. n, NEW context \in Nat
    PROVE  GrepPromise(n, hits, context, GrepBlocks(n, hits, context))
<1>1. PICK r : GrepRun(n, hits, context, r) /\ GrepBlocks(n, hits, context) = r[n]
  BY GrepFold
<1> DEFINE Bad == {k \in 0 .. n : ~ GrepUpTo(n, hits, context, r[k], k)}
<1>2. 0 \notin Bad
  <2>1. PICK s : s = r[0]
    OBVIOUS
  <2>2. Len(s) = 0 /\ s = <<>>
    BY <1>1, <2>1 DEF GrepRun
  <2>3. \A l : ~ Holds(s, l)
    BY <2>2 DEF Holds
  <2>4. \A l : ~ Near(hits, context, 0, l)
    BY DEF Near
  <2>5. GrepUpTo(n, hits, context, s, 0)
    BY <2>2, <2>3, <2>4 DEF GrepUpTo, Parted
  <2> QED
    BY <2>1, <2>5
<1>3. ASSUME NEW k \in 1 .. n, k - 1 \notin Bad PROVE k \notin Bad
  <2>1. k - 1 \in 0 .. n /\ GrepUpTo(n, hits, context, r[k - 1], k - 1)
    BY <1>3
  <2>2. PICK s, t : s = r[k - 1] /\ t = r[k]
    OBVIOUS
  <2>3. s \in Blocks /\ t = GrepNext(n, hits, context, s, k)
    BY <1>1, <2>1, <2>2 DEF GrepRun
  <2>4. GrepUpTo(n, hits, context, s, k - 1)
    BY <2>1, <2>2
  <2>5. GrepUpTo(n, hits, context, t, k)
    BY <2>3, <2>4, GrepNextKeeps
  <2> QED
    BY <2>2, <2>5
<1>4. Bad = {}
  <2>1. Bad \subseteq 0 .. n
    OBVIOUS
  <2> HIDE DEF Bad
  <2> QED
    BY <1>2, <1>3, <2>1, Upward
<1>5. n \in 0 .. n
  OBVIOUS
<1>6. PICK s : s = r[n]
  OBVIOUS
<1>7. s \in Seq(Nat \X Nat) /\ GrepUpTo(n, hits, context, s, n)
  BY <1>1, <1>4, <1>5, <1>6 DEF GrepRun, Blocks
<1>8. DOMAIN s = 1 .. Len(s) /\ Len(s) \in Nat /\ \A i \in 1 .. Len(s) : s[i] \in Nat \X Nat
  BY <1>7
<1>9. LinesOf(s) = {l \in 1 .. n : \E h \in hits : l - h \in -context .. context}
  <2>1. \A l \in 1 .. n : Holds(s, l) <=> \E h \in hits : l - h \in -context .. context
    BY <1>7 DEF GrepUpTo, Near
  <2>2. LinesOf(s) \subseteq 1 .. n
    BY <1>7, <1>8 DEF LinesOf, GrepUpTo
  <2>3. ASSUME NEW l \in 1 .. n PROVE l \in LinesOf(s) <=> Holds(s, l)
    <3>1. l \in LinesOf(s) <=> \E i \in 1 .. Len(s) : l \in s[i][1] .. s[i][2]
      BY <1>8 DEF LinesOf
    <3>2. ASSUME NEW i \in 1 .. Len(s)
          PROVE  l \in s[i][1] .. s[i][2] <=> s[i][1] <= l /\ l <= s[i][2]
      <4>1. PICK a, b : a = s[i][1] /\ b = s[i][2]
        OBVIOUS
      <4>2. a \in Nat /\ b \in Nat
        BY <1>8, <4>1
      <4>3. l \in a .. b <=> a <= l /\ l <= b
        BY <4>2
      <4> QED
        BY <4>1, <4>3
    <3> QED
      BY <3>1, <3>2 DEF Holds
  <2> QED
    BY <2>1, <2>2, <2>3
<1>10. GrepPromise(n, hits, context, s)
  BY <1>7, <1>8, <1>9 DEF GrepPromise, GrepUpTo, Parted
<1> QED
  BY <1>1, <1>6, <1>10

----------------------------------------------------------------------------
(* The chunks of an indexed page.                                          *)

HaveFences(s) == \A i \in 1 .. Len(s) : s[i].fences \in Nat

FencesOf(s) == FoldLeft(LAMBDA sum, p : sum + p.fences, 0, s)
FencesStep(sum, p) == sum + p.fences
FencesRun(s, q) ==
    /\ q \in [0 .. Len(s) -> Nat] /\ q[0] = 0
    /\ \A i \in 1 .. Len(s) : q[i] = q[i - 1] + s[i].fences

LEMMA FencesFold ==
    ASSUME NEW S, NEW s \in Seq(S), HaveFences(s)
    PROVE  \E q : FencesRun(s, q) /\ FencesOf(s) = q[Len(s)]
<1> DEFINE n == Len(s)
           IsFold(g) == g = [u \in SUBSET DOMAIN s |->
                               IF u = {} THEN 0
                               ELSE FencesStep(g[u \ {Max(u)}], s[Max(u)])]
           f == [p \in (1 .. n) \X Nat |-> FencesStep(p[2], s[p[1]])]
           c == CHOOSE g : IsFold(g)
<1>1. FencesOf(s) = c[DOMAIN s]
  BY DEF FencesOf, FoldLeft, MapThenFoldSet, FencesStep
<1>2. n \in Nat /\ DOMAIN s = 1 .. n /\ \A i \in 1 .. n : s[i].fences \in Nat
  BY DEF HaveFences
<1>3. ASSUME NEW sum \in Nat, NEW i \in 1 .. n PROVE FencesStep(sum, s[i]) \in Nat
  BY <1>2 DEF FencesStep
<1>4. f \in [(1 .. n) \X Nat -> Nat] /\ 0 \in Nat
  BY <1>3
<1> HIDE DEF n, f
<1>5. PICK g \in [SUBSET (1 .. n) -> Nat] : Folds(f, 0, 1 .. n, g)
  BY <1>2, <1>4, FoldsTyped
<1>6. IsFold(g)
  <2>1. ASSUME NEW u \in SUBSET (1 .. n), u # {}
        PROVE  g[u] = FencesStep(g[u \ {Max(u)}], s[Max(u)])
    <3>1. Max(u) \in u /\ Max(u) \in 1 .. n
      BY <1>2, <2>1, MaxIs
    <3>2. g[u \ {Max(u)}] \in Nat
      BY <3>1
    <3>3. g[u] = f[<<Max(u), g[u \ {Max(u)}]>>]
      BY <1>5, <2>1 DEF Folds
    <3> QED
      BY <3>1, <3>2, <3>3 DEF f
  <2>2. g[{}] = 0
    BY <1>5 DEF Folds
  <2> QED
    BY <1>2, <2>1, <2>2
<1> HIDE DEF IsFold
<1>7. IsFold(c)
  BY <1>6
<1> HIDE DEF c
<1>8. Steps(f, 0, n, Nat, c)
  <2>1. c[{}] = 0
    BY <1>7 DEF IsFold
  <2>2. ASSUME NEW u \in SUBSET (1 .. n), u # {}, c[u \ {Max(u)}] \in Nat
        PROVE  c[u] = f[<<Max(u), c[u \ {Max(u)}]>>]
    <3>1. Max(u) \in 1 .. n
      BY <1>2, <2>2, MaxIs
    <3>2. c[u] = FencesStep(c[u \ {Max(u)}], s[Max(u)])
      BY <1>2, <1>7, <2>2 DEF IsFold
    <3> QED
      BY <2>2, <3>1, <3>2 DEF f
  <2> QED
    BY <2>1, <2>2 DEF Steps
<1>9. PICK q : MadeBy(f, 0, n, Nat, c, q)
  BY <1>2, <1>4, <1>8, RunOfFold
<1>10. ASSUME NEW i \in 1 .. n PROVE q[i] = q[i - 1] + s[i].fences
  <2>1. i - 1 \in 0 .. n
    BY <1>2
  <2>2. q[i] = f[<<i, q[i - 1]>>] /\ q[i - 1] \in Nat
    BY <1>9, <2>1 DEF MadeBy
  <2> QED
    BY <2>2 DEF f, FencesStep
<1>11. FencesRun(s, q)
  BY <1>9, <1>10 DEF FencesRun, MadeBy, n
<1> QED
  BY <1>1, <1>2, <1>9, <1>11 DEF n, MadeBy

(* The markers between two places are those up to the one less those up to *)
(* the other.                                                              *)
Totals(s, t) ==
    /\ FencesRun(s, t)
    /\ \A a \in 1 .. Len(s) + 1, e \in 0 .. Len(s) :
          a - 1 <= e => FencesIn(s, a, e) = t[e] - t[a - 1]

LEMMA FencesAre ==
    ASSUME NEW S, NEW s \in Seq(S), HaveFences(s)
    PROVE  \E t : Totals(s, t)
<1>1. PICK N : N = Len(s)
  OBVIOUS
<1>2. N \in Nat /\ \A i \in 1 .. N : s[i] \in S /\ s[i].fences \in Nat
  BY <1>1, ElementOfSeq DEF HaveFences
<1>3. PICK t : FencesRun(s, t)
  BY FencesFold
<1>4. /\ \A i \in 0 .. N : t[i] \in Nat
      /\ \A i \in 1 .. N : t[i] = t[i - 1] + s[i].fences
  BY <1>1, <1>3 DEF FencesRun
<1>5. ASSUME NEW a \in 1 .. N + 1, NEW e \in 0 .. N, a - 1 <= e
      PROVE  FencesIn(s, a, e) = t[e] - t[a - 1]
  <2>1. PICK u, n : u = SubSeq(s, a, e) /\ n = e - a + 1
    OBVIOUS
  <2>2. n \in Nat /\ a \in Int /\ e \in Int /\ (\A i \in a .. e : i \in 1 .. N)
        /\ n = IF a <= e THEN e - a + 1 ELSE 0
    BY <1>2, <1>5, <2>1
  <2>3. \A i \in a .. e : s[i] \in S
    BY <1>2, <2>2
  <2>4. u \in Seq(S) /\ Len(u) = n /\ \A i \in 1 .. n : u[i] = s[a + i - 1]
    BY <2>1, <2>2, <2>3, SubSeqProperties
  <2>5. \A i \in 1 .. n : u[i].fences \in Nat
    BY <1>2, <2>1, <2>2, <2>4
  <2>6. PICK q : FencesRun(u, q) /\ FencesOf(u) = q[n]
    BY <2>4, <2>5, FencesFold DEF HaveFences
  <2> DEFINE Bad == {i \in 0 .. n : q[i] # t[a - 1 + i] - t[a - 1]}
  <2>7. 0 \notin Bad
    <3>1. a - 1 + 0 = a - 1 /\ a - 1 \in 0 .. N
      BY <1>2
    <3>2. t[a - 1] - t[a - 1] = 0
      BY <1>4, <3>1
    <3> QED
      BY <2>6, <3>1, <3>2 DEF FencesRun
  <2>8. ASSUME NEW i \in 1 .. n, i - 1 \notin Bad PROVE i \notin Bad
    <3>1. i - 1 \in 0 .. n /\ q[i - 1] = t[a - 1 + (i - 1)] - t[a - 1]
      BY <2>2, <2>8
    <3>2. q[i] = q[i - 1] + s[a + i - 1].fences
      BY <2>4, <2>6 DEF FencesRun
    <3>3. PICK j : j = a - 1 + i
      OBVIOUS
    <3>4. j \in 1 .. N /\ a + i - 1 = j /\ a - 1 + (i - 1) = j - 1 /\ a - 1 \in 0 .. N
          /\ j - 1 \in 0 .. N /\ j \in 0 .. N
      BY <1>2, <1>5, <2>1, <2>2, <3>3
    <3>5. t[j] = t[j - 1] + s[j].fences /\ t[j - 1] \in Nat /\ t[a - 1] \in Nat
          /\ s[j].fences \in Nat
      BY <1>2, <1>4, <3>4
    <3>6. q[i - 1] = t[j - 1] - t[a - 1] /\ q[i] = q[i - 1] + s[j].fences
      BY <3>1, <3>2, <3>4
    <3>7. q[i] = t[j] - t[a - 1]
      BY <3>5, <3>6
    <3> QED
      BY <3>3, <3>7
  <2>9. Bad = {}
    <3>1. Bad \subseteq 0 .. n
      OBVIOUS
    <3> HIDE DEF Bad
    <3> QED
      BY <2>2, <2>7, <2>8, <3>1, Upward
  <2>10. n \in 0 .. n /\ a - 1 + n = e
    BY <2>1, <2>2
  <2>11. q[n] = t[e] - t[a - 1]
    BY <2>9, <2>10
  <2>12. FencesIn(s, a, e) = FencesOf(u)
    BY <2>1 DEF FencesIn, FencesOf
  <2> QED
    BY <2>6, <2>11, <2>12
<1> QED
  BY <1>1, <1>3, <1>5 DEF Totals

Headings(s) == {Absent} \cup {s[i].heading : i \in 1 .. Len(s)}
ChunkOf(H) == [from : Nat, to : Nat, heading : H]
ChunkAccs(H) == [at : Nat, open : BOOLEAN, heading : H, pending : Nat, chunks : Seq(ChunkOf(H))]
NoChunk == [at |-> 0, open |-> FALSE, heading |-> Absent, pending |-> 1, chunks |-> <<>>]
ChunkEnd(s, end) ==
    IF end.pending > Len(s) THEN end.chunks
    ELSE Append(end.chunks, [from |-> end.pending, to |-> Len(s), heading |-> end.heading])

ChunkRun(s, r) ==
    /\ r \in [0 .. Len(s) -> ChunkAccs(Headings(s))] /\ r[0] = NoChunk
    /\ \A i \in 1 .. Len(s) : r[i] = ChunkStep(r[i - 1], s[i])

(* A step over one piece: its parts one by one.                            *)
LEMMA ChunkStepIs ==
    ASSUME NEW H, NEW acc \in ChunkAccs(H), NEW piece, piece.heading \in H \cup {Absent},
           NEW new, new = ChunkStep(acc, piece)
    PROVE  LET heading == IF piece.heading = Absent THEN acc.heading ELSE piece.heading
               chunk == [from |-> acc.pending, to |-> acc.at + 1, heading |-> heading] IN
           /\ new \in ChunkAccs(H)
           /\ new.at = acc.at + 1 /\ new.heading = heading
           /\ new.open <=> ~ (acc.open <=> piece.fences % 2 = 1)
           /\ new.open => new.pending = acc.pending /\ new.chunks = acc.chunks
           /\ ~ new.open => /\ new.pending = acc.at + 2
                            /\ new.chunks = Append(acc.chunks, chunk)
<1> DEFINE heading == IF piece.heading = Absent THEN acc.heading ELSE piece.heading
           chunk == [from |-> acc.pending, to |-> acc.at + 1, heading |-> heading]
<1>1. /\ acc.at \in Nat /\ acc.heading \in H /\ acc.pending \in Nat
      /\ acc.chunks \in Seq(ChunkOf(H)) /\ acc.open \in BOOLEAN
  BY DEF ChunkAccs
<1>2. heading \in H
  BY <1>1
<1>3. acc.at + 1 \in Nat /\ chunk \in ChunkOf(H) /\ acc.at + 1 + 1 = acc.at + 2
      /\ acc.at + 1 + 1 \in Nat
  BY <1>1, <1>2 DEF ChunkOf
<1>4. Append(acc.chunks, chunk) \in Seq(ChunkOf(H))
  BY <1>1, <1>3
<1>5. Fence(acc.open, piece) <=> ~ (acc.open <=> piece.fences % 2 = 1)
  BY <1>1, Zenon DEF Fence
<1>6. Fence(acc.open, piece) \in BOOLEAN
  BY Zenon DEF Fence
<1> HIDE DEF heading, chunk
<1>7. new = [at |-> acc.at + 1, open |-> Fence(acc.open, piece), heading |-> heading,
             pending |-> IF Fence(acc.open, piece) THEN acc.pending ELSE acc.at + 1 + 1,
             chunks |-> IF Fence(acc.open, piece) THEN acc.chunks
                        ELSE Append(acc.chunks, chunk)]
  BY DEF ChunkStep, heading, chunk
<1>8. CASE Fence(acc.open, piece)
  <2>1. /\ new.at = acc.at + 1 /\ new.heading = heading
        /\ new.pending = acc.pending /\ new.chunks = acc.chunks
    BY <1>7, <1>8
  <2>2. new.open <=> Fence(acc.open, piece)
    BY <1>7
  <2>3. new \in ChunkAccs(H)
    BY <1>1, <1>2, <1>3, <1>6, <1>7, <1>8 DEF ChunkAccs
  <2> QED
    BY <1>5, <1>8, <2>1, <2>2, <2>3 DEF heading, chunk
<1>9. CASE ~ Fence(acc.open, piece)
  <2>1. /\ new.at = acc.at + 1 /\ new.heading = heading
        /\ new.pending = acc.at + 2 /\ new.chunks = Append(acc.chunks, chunk)
    BY <1>3, <1>7, <1>9
  <2>2. new.open <=> Fence(acc.open, piece)
    BY <1>7
  <2>3. new \in ChunkAccs(H)
    BY <1>2, <1>3, <1>4, <1>6, <1>7, <1>9 DEF ChunkAccs
  <2> QED
    BY <1>5, <1>9, <2>1, <2>2, <2>3 DEF heading, chunk
<1> QED
  BY <1>8, <1>9

LEMMA ChunkFold ==
    ASSUME NEW S, NEW s \in Seq(S)
    PROVE  \E r : ChunkRun(s, r) /\ Chunk(s) = ChunkEnd(s, r[Len(s)])
<1>1. PICK H : H = Headings(s)
  OBVIOUS
<1> DEFINE n == Len(s)
           T == ChunkAccs(H)
           base == [at |-> 0, open |-> FALSE, heading |-> Absent, pending |-> 1, chunks |-> <<>>]
           IsFold(g) == g = [u \in SUBSET DOMAIN s |->
                               IF u = {} THEN base
                               ELSE ChunkStep(g[u \ {Max(u)}], s[Max(u)])]
           f == [p \in (1 .. n) \X T |-> ChunkStep(p[2], s[p[1]])]
           c == CHOOSE g : IsFold(g)
<1>2. Chunk(s) = ChunkEnd(s, c[DOMAIN s])
  BY DEF Chunk, FoldLeft, MapThenFoldSet, ChunkEnd
<1>3. n \in Nat /\ DOMAIN s = 1 .. n /\ Absent \in H /\ \A i \in 1 .. n : s[i].heading \in H
  BY <1>1 DEF Headings
<1>4. base \in T /\ base = NoChunk
  <2>1. <<>> \in Seq(ChunkOf(H)) /\ Absent \in H
    BY <1>3
  <2> QED
    BY <2>1 DEF ChunkAccs, NoChunk
<1>5. f \in [(1 .. n) \X T -> T]
  <2> SUFFICES ASSUME NEW i \in 1 .. n, NEW acc \in T PROVE ChunkStep(acc, s[i]) \in T
    OBVIOUS
  <2>1. PICK piece, new : piece = s[i] /\ new = ChunkStep(acc, piece)
    OBVIOUS
  <2>2. piece.heading \in H \cup {Absent}
    BY <1>3, <2>1
  <2>3. new \in ChunkAccs(H)
    BY <2>1, <2>2, ChunkStepIs
  <2> QED
    BY <2>1, <2>3
<1> HIDE DEF n, T, base, f
<1>6. PICK g \in [SUBSET (1 .. n) -> T] : Folds(f, base, 1 .. n, g)
  BY <1>3, <1>4, <1>5, FoldsTyped
<1>7. IsFold(g)
  <2>1. ASSUME NEW u \in SUBSET (1 .. n), u # {}
        PROVE  g[u] = ChunkStep(g[u \ {Max(u)}], s[Max(u)])
    <3>1. Max(u) \in u /\ Max(u) \in 1 .. n
      BY <1>3, <2>1, MaxIs
    <3>2. g[u \ {Max(u)}] \in T
      BY <3>1
    <3>3. g[u] = f[<<Max(u), g[u \ {Max(u)}]>>]
      BY <1>6, <2>1 DEF Folds
    <3> QED
      BY <3>1, <3>2, <3>3 DEF f
  <2>2. g[{}] = base
    BY <1>6 DEF Folds
  <2> QED
    BY <1>3, <2>1, <2>2
<1> HIDE DEF IsFold
<1>8. IsFold(c)
  BY <1>7
<1> HIDE DEF c
<1>9. Steps(f, base, n, T, c)
  <2>1. c[{}] = base
    BY <1>8 DEF IsFold
  <2>2. ASSUME NEW u \in SUBSET (1 .. n), u # {}, c[u \ {Max(u)}] \in T
        PROVE  c[u] = f[<<Max(u), c[u \ {Max(u)}]>>]
    <3>1. Max(u) \in 1 .. n
      BY <1>3, <2>2, MaxIs
    <3>2. c[u] = ChunkStep(c[u \ {Max(u)}], s[Max(u)])
      BY <1>3, <1>8, <2>2 DEF IsFold
    <3> QED
      BY <2>2, <3>1, <3>2 DEF f
  <2> QED
    BY <2>1, <2>2 DEF Steps
<1>10. PICK r : MadeBy(f, base, n, T, c, r)
  BY <1>3, <1>4, <1>5, <1>9, RunOfFold
<1>11. ASSUME NEW i \in 1 .. n PROVE r[i] = ChunkStep(r[i - 1], s[i])
  <2>1. i - 1 \in 0 .. n
    BY <1>3
  <2>2. r[i] = f[<<i, r[i - 1]>>] /\ r[i - 1] \in T
    BY <1>10, <2>1 DEF MadeBy
  <2> QED
    BY <2>2 DEF f
<1>12. ChunkRun(s, r)
  BY <1>1, <1>4, <1>10, <1>11 DEF ChunkRun, MadeBy, n, T
<1> QED
  BY <1>2, <1>3, <1>10, <1>12 DEF n, MadeBy

(* The heading h is the last one up to place k.                            *)
Carries(s, k, h) ==
    \/ h = Absent /\ \A p \in 1 .. k : s[p].heading = Absent
    \/ \E q \in 1 .. k : /\ s[q].heading # Absent /\ h = s[q].heading
                         /\ \A p \in 1 .. k : s[p].heading # Absent => p <= q

(* A chunk: no fence is open before it and none after it, as is one at     *)
(* every place between, given the totals t.                                *)
Bounded(s, t, c) ==
    /\ c.from \in 1 .. c.to /\ c.to \in 1 .. Len(s)
    /\ t[c.from - 1] % 2 = 0 /\ \A e \in c.from .. c.to - 1 : t[e] % 2 = 1
    /\ Carries(s, c.to, c.heading)
Closed(s, t, c) == Bounded(s, t, c) /\ t[c.to] % 2 = 0

(* Chunks that follow one another up to place next.                        *)
Chain(chunks, next) ==
    LET m == Len(chunks) IN
    /\ \A i \in 1 .. m : chunks[i].from = IF i = 1 THEN 1 ELSE chunks[i - 1].to + 1
    /\ m = 0 => next = 1
    /\ m # 0 => chunks[m].to + 1 = next

ChunksUpTo(s, t, acc, k) ==
    /\ acc.at = k /\ (acc.open <=> t[k] % 2 = 1) /\ Carries(s, k, acc.heading)
    /\ acc.pending \in 1 .. k + 1 /\ t[acc.pending - 1] % 2 = 0
    /\ \A e \in acc.pending .. k : t[e] % 2 = 1
    /\ \A i \in 1 .. Len(acc.chunks) : Closed(s, t, acc.chunks[i])
    /\ Chain(acc.chunks, acc.pending)

LEMMA Parity ==
    ASSUME NEW a \in Nat, NEW b \in Nat
    PROVE  /\ (a + b) % 2 = 1 <=> ~ (a % 2 = 1 <=> b % 2 = 1)
           /\ a % 2 = 0 \/ a % 2 = 1
           /\ b % 2 = 0 /\ b <= a => ((a - b) % 2 = 0 <=> a % 2 = 0)
  OBVIOUS

LEMMA CarriesOn ==
    ASSUME NEW s, NEW k \in Nat \ {0}, NEW h, Carries(s, k - 1, h)
    PROVE  Carries(s, k, IF s[k].heading = Absent THEN h ELSE s[k].heading)
<1>1. k \in 1 .. k /\ \A p \in 1 .. k : p \in 1 .. k - 1 \/ p = k
  OBVIOUS
<1>2. \A p \in 1 .. k - 1 : p \in 1 .. k
  OBVIOUS
<1>3. CASE s[k].heading # Absent
  <2>1. \A p \in 1 .. k : p <= k
    OBVIOUS
  <2> QED
    BY <1>1, <1>3, <2>1 DEF Carries
<1>4. CASE s[k].heading = Absent
  <2>1. CASE h = Absent /\ \A p \in 1 .. k - 1 : s[p].heading = Absent
    BY <1>1, <1>4, <2>1 DEF Carries
  <2>2. ASSUME NEW q \in 1 .. k - 1, s[q].heading # Absent, h = s[q].heading,
               \A p \in 1 .. k - 1 : s[p].heading # Absent => p <= q
        PROVE  Carries(s, k, h)
    <3>1. \A p \in 1 .. k : s[p].heading # Absent => p <= q
      BY <1>1, <1>4, <2>2
    <3> QED
      BY <1>2, <2>2, <3>1 DEF Carries
  <2> QED
    BY <1>4, <2>1, <2>2 DEF Carries
<1> QED
  BY <1>3, <1>4

LEMMA ChainGrows ==
    ASSUME NEW chunks, Len(chunks) \in Nat, NEW c, NEW all, Chain(chunks, c.from),
           Len(all) = Len(chunks) + 1, all[Len(chunks) + 1] = c,
           \A i \in 1 .. Len(chunks) : all[i] = chunks[i]
    PROVE  Chain(all, c.to + 1)
<1>1. PICK m : m = Len(chunks)
  OBVIOUS
<1>2. m \in Nat /\ Len(all) = m + 1 /\ all[m + 1] = c
      /\ \A i \in 1 .. m : all[i] = chunks[i]
  BY <1>1
<1>3. ASSUME NEW i \in 1 .. m + 1
      PROVE  all[i].from = IF i = 1 THEN 1 ELSE all[i - 1].to + 1
  <2>1. CASE i # m + 1
    <3>1. i \in 1 .. m /\ (i # 1 => i - 1 \in 1 .. m)
      BY <1>2, <2>1
    <3> QED
      BY <1>1, <1>2, <3>1 DEF Chain
  <2>2. CASE i = m + 1
    <3>1. (m = 0 <=> i = 1) /\ (m # 0 => i - 1 = m /\ m \in 1 .. m)
      BY <1>2, <2>2
    <3> QED
      BY <1>1, <1>2, <2>2, <3>1 DEF Chain
  <2> QED
    BY <2>1, <2>2
<1>4. m + 1 # 0
  BY <1>2
<1> QED
  BY <1>2, <1>3, <1>4 DEF Chain

LEMMA ChunkStepKeeps ==
    ASSUME NEW S, NEW s \in Seq(S), HaveFences(s), NEW t, FencesRun(s, t),
           NEW acc \in ChunkAccs(Headings(s)), NEW k \in 1 .. Len(s),
           ChunksUpTo(s, t, acc, k - 1), NEW new, new = ChunkStep(acc, s[k])
    PROVE  ChunksUpTo(s, t, new, k)
<1> DEFINE heading == IF s[k].heading = Absent THEN acc.heading ELSE s[k].heading
           c == [from |-> acc.pending, to |-> acc.at + 1, heading |-> heading]
<1>1. PICK N, H : N = Len(s) /\ H = Headings(s)
  OBVIOUS
<1>2. PICK piece : piece = s[k]
  OBVIOUS
<1>3. piece.heading \in H \cup {Absent} /\ acc \in ChunkAccs(H) /\ new = ChunkStep(acc, piece)
  BY <1>1, <1>2 DEF Headings
<1>4. /\ new \in ChunkAccs(H)
      /\ new.at = acc.at + 1 /\ new.heading = heading
      /\ new.open <=> ~ (acc.open <=> piece.fences % 2 = 1)
      /\ new.open => new.pending = acc.pending /\ new.chunks = acc.chunks
      /\ ~ new.open => new.pending = acc.at + 2 /\ new.chunks = Append(acc.chunks, c)
  BY <1>2, <1>3, ChunkStepIs
<1>5. N \in Nat /\ k \in Nat \ {0} /\ k \in 1 .. N /\ k \in 0 .. N /\ k - 1 \in 0 .. N
  BY <1>1
<1>6. t[k] = t[k - 1] + piece.fences /\ t[k - 1] \in Nat /\ piece.fences \in Nat
      /\ t[k] \in Nat
  BY <1>1, <1>2, <1>5 DEF FencesRun, HaveFences
<1>7. /\ acc.at = k - 1 /\ (acc.open <=> t[k - 1] % 2 = 1) /\ Carries(s, k - 1, acc.heading)
      /\ acc.pending \in 1 .. k - 1 + 1 /\ t[acc.pending - 1] % 2 = 0
      /\ \A e \in acc.pending .. k - 1 : t[e] % 2 = 1
      /\ \A i \in 1 .. Len(acc.chunks) : Closed(s, t, acc.chunks[i])
      /\ Chain(acc.chunks, acc.pending)
  BY DEF ChunksUpTo
<1>8. acc.at + 1 = k /\ acc.at + 2 = k + 1 /\ acc.pending \in 1 .. k
  BY <1>5, <1>7
<1>9. Carries(s, k, heading)
  BY <1>5, <1>7, CarriesOn
<1>10. (new.open <=> t[k] % 2 = 1) /\ (t[k] % 2 = 0 \/ t[k] % 2 = 1)
  <2>1. PICK a, b : a = t[k - 1] /\ b = piece.fences
    OBVIOUS
  <2>2. a \in Nat /\ b \in Nat /\ t[k] = a + b
    BY <1>6, <2>1
  <2>3. (a + b) % 2 = 1 <=> ~ (a % 2 = 1 <=> b % 2 = 1)
    BY <2>2, Parity
  <2>4. t[k] % 2 = 0 \/ t[k] % 2 = 1
    BY <1>6
  <2> QED
    BY <1>4, <1>7, <2>1, <2>2, <2>3, <2>4
<1>11. acc.chunks \in Seq(ChunkOf(H)) /\ new.chunks \in Seq(ChunkOf(H)) /\ c \in ChunkOf(H)
  <2>1. heading \in H
    BY <1>4 DEF ChunkAccs
  <2> QED
    BY <1>3, <1>4, <1>5, <1>8, <2>1 DEF ChunkAccs, ChunkOf
<1> HIDE DEF heading
<1>12. CASE new.open
  <2>1. acc.pending \in 1 .. k + 1
    BY <1>5, <1>8
  <2>2. \A e \in acc.pending .. k : e = k \/ e \in acc.pending .. k - 1
    BY <1>5, <1>8
  <2>3. \A e \in acc.pending .. k : t[e] % 2 = 1
    BY <1>7, <1>10, <1>12, <2>2
  <2> HIDE DEF c
  <2> QED
    BY <1>4, <1>7, <1>8, <1>9, <1>10, <1>12, <2>1, <2>3 DEF ChunksUpTo
<1>13. CASE ~ new.open
  <2>1. c.from = acc.pending /\ c.to = k /\ c.heading = heading
    BY <1>8
  <2> HIDE DEF c
  <2>2. c.from \in 1 .. c.to /\ c.to \in 1 .. N /\ t[c.to] % 2 = 0
    BY <1>5, <1>8, <1>10, <1>13, <2>1
  <2>3. Closed(s, t, c)
    BY <1>1, <1>7, <1>9, <2>1, <2>2 DEF Closed, Bounded
  <2>4. PICK all, m, old, next :
            all = new.chunks /\ m = Len(acc.chunks) /\ old = acc.chunks /\ next = acc.pending
    OBVIOUS
  <2>11. /\ old \in Seq(ChunkOf(H)) /\ Chain(old, next) /\ c.from = next
         /\ all = Append(old, c) /\ c \in ChunkOf(H)
    BY <1>4, <1>7, <1>11, <1>13, <2>1, <2>4
  <2>5. Chain(all, c.to + 1) /\ Len(all) = m + 1 /\ all[Len(all)] = c
        /\ \A i \in 1 .. m : all[i] = acc.chunks[i]
    <3>1. Len(old) \in Nat /\ Len(all) = Len(old) + 1 /\ all[Len(old) + 1] = c
          /\ \A i \in 1 .. Len(old) : all[i] = old[i]
      BY <2>11, AppendProperties
    <3>2. Chain(old, c.from)
      BY <2>11
    <3>3. Chain(all, c.to + 1)
      BY <3>1, <3>2, ChainGrows
    <3> QED
      BY <2>4, <3>1, <3>3
  <2>6. \A i \in 1 .. m + 1 : i \in 1 .. m \/ i = m + 1
    BY <1>11, <2>4
  <2>7. \A i \in 1 .. Len(all) : Closed(s, t, all[i])
    BY <1>7, <2>3, <2>4, <2>5, <2>6
  <2>8. new.pending = k + 1 /\ k + 1 \in 1 .. k + 1 /\ k + 1 - 1 = k
        /\ \A e \in k + 1 .. k : FALSE
    BY <1>4, <1>5, <1>8, <1>13
  <2>9. t[k] % 2 = 0 /\ Chain(new.chunks, k + 1)
    BY <1>10, <1>13, <2>1, <2>4, <2>5
  <2>10. t[new.pending - 1] % 2 = 0
    BY <2>8, <2>9
  <2> QED
    BY <1>4, <1>8, <1>9, <1>10, <2>4, <2>7, <2>8, <2>9, <2>10 DEF ChunksUpTo
<1> QED
  BY <1>12, <1>13

LEMMA ChunksAre ==
    ASSUME NEW S, NEW s \in Seq(S), HaveFences(s), NEW t, FencesRun(s, t),
           NEW r, ChunkRun(s, r)
    PROVE  ChunksUpTo(s, t, r[Len(s)], Len(s))
<1>1. PICK N : N = Len(s)
  OBVIOUS
<1>2. N \in Nat
  BY <1>1
<1> DEFINE Bad == {k \in 0 .. N : ~ ChunksUpTo(s, t, r[k], k)}
<1>3. 0 \notin Bad
  <2>1. PICK acc : acc = r[0]
    OBVIOUS
  <2>2. /\ acc.at = 0 /\ acc.heading = Absent /\ acc.pending = 1 /\ acc.chunks = <<>>
        /\ ~ acc.open
    BY <2>1 DEF ChunkRun, NoChunk
  <2>3. t[0] = 0
    BY DEF FencesRun
  <2>4. Carries(s, 0, Absent)
    BY DEF Carries
  <2>5. Chain(<<>>, 1) /\ Len(acc.chunks) = 0
    BY <2>2 DEF Chain
  <2>6. 0 % 2 = 0 /\ 1 \in 1 .. 0 + 1 /\ 1 - 1 = 0 /\ \A e \in 1 .. 0 : FALSE
    OBVIOUS
  <2>7. acc.pending \in 1 .. 0 + 1 /\ t[acc.pending - 1] % 2 = 0
    BY <2>2, <2>3, <2>6
  <2>8. ChunksUpTo(s, t, acc, 0)
    BY <2>2, <2>3, <2>4, <2>5, <2>6, <2>7 DEF ChunksUpTo
  <2> QED
    BY <2>1, <2>8
<1>4. ASSUME NEW k \in 1 .. N, k - 1 \notin Bad PROVE k \notin Bad
  <2>1. k - 1 \in 0 .. N /\ ChunksUpTo(s, t, r[k - 1], k - 1)
    BY <1>2, <1>4
  <2>2. PICK acc, new : acc = r[k - 1] /\ new = r[k]
    OBVIOUS
  <2>3. acc \in ChunkAccs(Headings(s)) /\ new = ChunkStep(acc, s[k]) /\ k \in 1 .. Len(s)
    BY <1>1, <2>1, <2>2 DEF ChunkRun
  <2>4. ChunksUpTo(s, t, acc, k - 1)
    BY <2>1, <2>2
  <2>5. ChunksUpTo(s, t, new, k)
    BY <2>3, <2>4, ChunkStepKeeps
  <2> QED
    BY <2>2, <2>5
<1>5. Bad = {}
  <2>1. Bad \subseteq 0 .. N
    OBVIOUS
  <2> HIDE DEF Bad
  <2> QED
    BY <1>2, <1>3, <1>4, <2>1, Upward
<1>6. N \in 0 .. N
  BY <1>2
<1> QED
  BY <1>1, <1>5, <1>6

(* What becomes of the pieces behind the last cut.                         *)
LEMMA ChunkEndIs ==
    ASSUME NEW S, NEW s \in Seq(S), NEW t, NEW end \in ChunkAccs(Headings(s)),
           ChunksUpTo(s, t, end, Len(s)), NEW all, all = ChunkEnd(s, end)
    PROVE  /\ all \in Seq(ChunkOf(Headings(s))) /\ Chain(all, Len(s) + 1)
           /\ \A i \in 1 .. Len(all) : /\ Bounded(s, t, all[i])
                                       /\ all[i].to < Len(s) => t[all[i].to] % 2 = 0
<1>1. PICK N, H, old, next : N = Len(s) /\ H = Headings(s) /\ old = end.chunks
                              /\ next = end.pending
  OBVIOUS
<1>2. /\ N \in Nat /\ old \in Seq(ChunkOf(H)) /\ next \in 1 .. N + 1 /\ end.heading \in H
      /\ (\A i \in 1 .. Len(old) : Closed(s, t, old[i])) /\ Chain(old, next)
      /\ Carries(s, N, end.heading) /\ t[next - 1] % 2 = 0
      /\ \A e \in next .. N : t[e] % 2 = 1
  BY <1>1 DEF ChunksUpTo, ChunkAccs
<1>3. CASE next > N
  <2>1. all = old /\ next = N + 1
    BY <1>1, <1>2, <1>3 DEF ChunkEnd
  <2> QED
    BY <1>1, <1>2, <2>1 DEF Closed
<1>4. CASE ~ (next > N)
  <2> DEFINE c == [from |-> next, to |-> N, heading |-> end.heading]
  <2>1. all = Append(old, c)
    BY <1>1, <1>4 DEF ChunkEnd
  <2>2. next \in 1 .. N /\ N \in 1 .. N /\ \A e \in next .. N - 1 : e \in next .. N
    BY <1>2, <1>4
  <2>3. c \in ChunkOf(H) /\ c.from = next /\ c.to = N /\ c.heading = end.heading
    BY <1>2, <2>2 DEF ChunkOf
  <2> HIDE DEF c
  <2>4. Bounded(s, t, c)
    BY <1>1, <1>2, <2>2, <2>3 DEF Bounded
  <2>5. PICK m : m = Len(old)
    OBVIOUS
  <2>6. Chain(all, c.to + 1) /\ Len(all) = m + 1 /\ all[Len(all)] = c
        /\ \A i \in 1 .. m : all[i] = old[i]
    <3>1. Len(old) \in Nat /\ Len(all) = Len(old) + 1 /\ all[Len(old) + 1] = c
          /\ \A i \in 1 .. Len(old) : all[i] = old[i]
      BY <1>2, <2>1, <2>3, AppendProperties
    <3>2. Chain(old, c.from)
      BY <1>2, <2>3
    <3>3. Chain(all, c.to + 1)
      BY <3>1, <3>2, ChainGrows
    <3> QED
      BY <2>5, <3>1, <3>3
  <2>7. m \in Nat /\ \A i \in 1 .. m + 1 : i \in 1 .. m \/ i = m + 1
    BY <1>2, <2>5
  <2>8. all \in Seq(ChunkOf(H))
    BY <1>2, <2>1, <2>3
  <2>9. ASSUME NEW i \in 1 .. Len(all)
        PROVE  Bounded(s, t, all[i]) /\ (all[i].to < N => t[all[i].to] % 2 = 0)
    <3>1. CASE i \in 1 .. m
      BY <1>2, <2>5, <2>6, <3>1 DEF Closed
    <3>2. CASE i = m + 1
      <4>1. all[i] = c
        BY <2>6, <3>2
      <4>2. ~ (c.to < N)
        BY <1>2, <2>3
      <4> QED
        BY <2>4, <4>1, <4>2
    <3> QED
      BY <2>6, <2>7, <3>1, <3>2
  <2> QED
    BY <1>1, <2>3, <2>6, <2>8, <2>9
<1> QED
  BY <1>3, <1>4

LEMMA HeadingIs ==
    ASSUME NEW s, NEW k \in Nat, NEW h, Carries(s, k, h)
    PROVE  LET marked == {p \in 1 .. k : s[p].heading # Absent} IN
           h = IF marked = {} THEN Absent
               ELSE s[CHOOSE p \in marked : \A q \in marked : q <= p].heading
<1> DEFINE marked == {p \in 1 .. k : s[p].heading # Absent}
           top == CHOOSE p \in marked : \A q \in marked : q <= p
<1>1. CASE marked = {}
  BY <1>1 DEF Carries
<1>2. CASE marked # {}
  <2>1. PICK q \in 1 .. k : /\ s[q].heading # Absent /\ h = s[q].heading
                            /\ \A p \in 1 .. k : s[p].heading # Absent => p <= q
    BY <1>2 DEF Carries
  <2>2. q \in marked /\ \A p \in marked : p <= q
    BY <2>1
  <2> HIDE DEF marked
  <2>3. top \in marked /\ \A p \in marked : p <= top
    BY <2>2
  <2> HIDE DEF top
  <2>4. q \in Nat /\ top \in Nat
    BY <2>1, <2>3 DEF marked
  <2>5. top = q
    BY <2>2, <2>3, <2>4
  <2> QED
    BY <1>2, <2>1, <2>5 DEF top, marked
<1> QED
  BY <1>1, <1>2

(* What chunk_markdown makes of any sequence of pieces: chunks that follow *)
(* one another over the whole text, each up to the first place where no    *)
(* fence is open, under the last heading up to there.                      *)
THEOREM ChunkKeepsItsPromise ==
    ASSUME NEW S, NEW pieces \in Seq(S), HaveFences(pieces)
    PROVE  ChunkPromise(pieces, Chunk(pieces))
<1>1. PICK t : Totals(pieces, t)
  BY FencesAre
<1>2. PICK r : ChunkRun(pieces, r) /\ Chunk(pieces) = ChunkEnd(pieces, r[Len(pieces)])
  BY ChunkFold
<1>3. PICK N, H, all, end : /\ N = Len(pieces) /\ H = Headings(pieces)
                            /\ all = Chunk(pieces) /\ end = r[Len(pieces)]
  OBVIOUS
<1>4. N \in Nat /\ N \in 0 .. N /\ (pieces = <<>> <=> N = 0)
  BY <1>3
<1>5. end \in ChunkAccs(Headings(pieces)) /\ all = ChunkEnd(pieces, end)
  BY <1>2, <1>3, <1>4 DEF ChunkRun
<1>6. ChunksUpTo(pieces, t, end, Len(pieces))
  BY <1>1, <1>2, <1>3, ChunksAre DEF Totals
<1>7. /\ all \in Seq(ChunkOf(H)) /\ Chain(all, N + 1)
      /\ \A i \in 1 .. Len(all) : /\ Bounded(pieces, t, all[i])
                                  /\ all[i].to < N => t[all[i].to] % 2 = 0
  BY <1>3, <1>5, <1>6, ChunkEndIs
<1>8. PICK m : m = Len(all)
  OBVIOUS
<1>9. /\ m \in Nat /\ DOMAIN all = 1 .. m /\ (all = <<>> <=> m = 0)
      /\ \A i \in 1 .. m : all[i].from \in Nat /\ all[i].to \in Nat
  <2>1. m \in Nat /\ DOMAIN all = 1 .. m /\ (all = <<>> <=> m = 0)
    BY <1>7, <1>8
  <2>2. ASSUME NEW i \in 1 .. m PROVE all[i] \in ChunkOf(H)
    BY <1>7, <1>8, ElementOfSeq
  <2> QED
    BY <2>1, <2>2 DEF ChunkOf
<1>10. /\ \A i \in 1 .. m : all[i].from = IF i = 1 THEN 1 ELSE all[i - 1].to + 1
       /\ m = 0 => N = 0
       /\ m # 0 => all[m].to = N
  BY <1>4, <1>7, <1>8, <1>9 DEF Chain
<1>11. \A i \in 1 .. m : all[i].from \in 1 .. all[i].to /\ all[i].to \in 1 .. N
  BY <1>3, <1>7, <1>8 DEF Bounded
<1>12. pieces = <<>> <=> all = <<>>
  <2>1. m # 0 => m \in 1 .. m
    BY <1>9
  <2>2. m # 0 => N # 0
    BY <1>4, <1>11, <2>1
  <2> QED
    BY <1>4, <1>9, <1>10, <2>2
<1>13. ASSUME NEW i \in 1 .. m
       PROVE  LET c == all[i] IN
              /\ c.to = N <=> i = m
              /\ \A e \in c.from .. c.to : FencesIn(pieces, c.from, e) % 2 = 0 => e = c.to
              /\ c.to < N => FencesIn(pieces, c.from, c.to) % 2 = 0
              /\ Carries(pieces, c.to, c.heading)
  <2>1. PICK c : c = all[i]
    OBVIOUS
  <2>2. /\ c.from \in Nat /\ c.to \in Nat /\ c.from \in 1 .. c.to /\ c.to \in 1 .. N
        /\ c.from - 1 \in 0 .. N
    BY <1>4, <1>9, <1>11, <2>1
  <2>3. /\ t[c.from - 1] % 2 = 0 /\ (\A e \in c.from .. c.to - 1 : t[e] % 2 = 1)
        /\ Carries(pieces, c.to, c.heading) /\ (c.to < N => t[c.to] % 2 = 0)
    BY <1>7, <1>8, <2>1 DEF Bounded
  <2>4. c.to = N <=> i = m
    <3>1. CASE i = m
      BY <1>9, <1>10, <2>1, <3>1
    <3>2. CASE i # m
      <4>1. i + 1 \in 1 .. m /\ i + 1 # 1 /\ i + 1 - 1 = i
        BY <1>9, <3>2
      <4>2. all[i + 1].from = c.to + 1
        BY <1>10, <2>1, <4>1
      <4>3. all[i + 1].from \in 1 .. all[i + 1].to /\ all[i + 1].to \in 1 .. N
        BY <1>11, <4>1
      <4>4. c.to + 1 <= N
        BY <1>4, <2>2, <4>2, <4>3
      <4> QED
        BY <1>4, <2>2, <3>2, <4>4
    <3> QED
      BY <3>1, <3>2
  <2>5. ASSUME NEW e \in c.from .. c.to
        PROVE  FencesIn(pieces, c.from, e) % 2 = 0 <=> t[e] % 2 = 0
    <3>1. e \in 0 .. N /\ c.from \in 1 .. N + 1 /\ c.from - 1 <= e /\ c.from - 1 \in 0 .. N
      BY <1>4, <2>2
    <3>2. PICK a, b : a = t[e] /\ b = t[c.from - 1]
      OBVIOUS
    <3>3. FencesIn(pieces, c.from, e) = a - b /\ b % 2 = 0
      BY <1>1, <1>3, <2>3, <3>1, <3>2 DEF Totals
    <3>4. a \in Nat /\ b \in Nat
      BY <1>1, <1>3, <3>1, <3>2 DEF Totals, FencesRun
    <3>5. (a - b) % 2 = 0 <=> a % 2 = 0
      BY <3>3, <3>4
    <3> QED
      BY <3>2, <3>3, <3>5
  <2>6. ASSUME NEW e \in c.from .. c.to, FencesIn(pieces, c.from, e) % 2 = 0
        PROVE  e = c.to
    <3>1. t[e] % 2 = 0
      BY <2>5, <2>6
    <3>2. e \notin c.from .. c.to - 1
      BY <2>3, <3>1
    <3> QED
      BY <2>2, <3>2
  <2>7. c.to < N => FencesIn(pieces, c.from, c.to) % 2 = 0
    <3>1. c.to \in c.from .. c.to
      BY <2>2
    <3> QED
      BY <2>3, <2>5, <3>1
  <2> QED
    BY <2>1, <2>3, <2>4, <2>6, <2>7
<1>14. ChunkPromise(pieces, all)
  <2>1. ASSUME NEW i \in 1 .. m
        PROVE  LET c == all[i]
                   marked == {p \in 1 .. c.to : pieces[p].heading # Absent} IN
               c.heading = IF marked = {} THEN Absent
                     ELSE pieces[CHOOSE p \in marked : \A q \in marked : q <= p].heading
    <3>1. PICK k, h : k = all[i].to /\ h = all[i].heading
      OBVIOUS
    <3>2. k \in Nat /\ Carries(pieces, k, h)
      BY <1>9, <1>13, <3>1
    <3> DEFINE marked == {p \in 1 .. k : pieces[p].heading # Absent}
    <3>3. h = IF marked = {} THEN Absent
              ELSE pieces[CHOOSE p \in marked : \A q \in marked : q <= p].heading
      BY <3>2, HeadingIs
    <3> QED
      BY <3>1, <3>3
  <2> QED
    BY <1>3, <1>8, <1>9, <1>10, <1>12, <1>13, <2>1 DEF ChunkPromise
<1> QED
  BY <1>3, <1>14

----------------------------------------------------------------------------
(* What the answers say of a text.                                         *)

LEMMA ViewIsRight ==
    ASSUME NEW v, IsView(v)
    PROVE  View(v) = Absent \/ Promised(v, View(v))
<1>1. CASE v.kind = "none"
  BY <1>1 DEF View
<1>2. CASE v.kind = "grep"
  <2>1. PICK n, hits, context : n = v.lines /\ hits = v.hits /\ context = v.context
    OBVIOUS
  <2>2. n \in Nat /\ context \in Nat /\ hits \subseteq 1 .. n
    BY <1>2, <2>1 DEF IsView
  <2>3. GrepPromise(n, hits, context, GrepBlocks(n, hits, context))
    BY <2>2, GrepKeepsItsPromise
  <2>4. View(v) = GrepBlocks(n, hits, context)
    BY <1>2, <2>1 DEF View
  <2> QED
    BY <1>2, <2>1, <2>3, <2>4 DEF Promised
<1>3. CASE v.kind = "page"
  <2>1. PICK n, offset, limit : n = v.lines /\ offset = v.offset /\ limit = v.limit
    OBVIOUS
  <2>2. n \in Nat /\ offset \in Nat \cup {Absent} /\ limit \in Nat \cup {Absent}
    BY <1>3, <2>1 DEF IsView
  <2>3. PagePromise(n, offset, limit, Paginate(n, offset, limit))
    BY <2>2, PageKeepsItsPromise
  <2>4. View(v) = Paginate(n, offset, limit)
    BY <1>3, <2>1 DEF View
  <2> QED
    BY <1>3, <2>1, <2>3, <2>4 DEF Promised
<1>4. CASE v.kind = "chunk"
  <2>1. PICK pieces, S : pieces = v.pieces /\ S = Range(v.pieces)
    OBVIOUS
  <2>2. pieces \in Seq(S) /\ \A p \in S : p.fences \in Nat
    BY <1>4, <2>1 DEF IsView
  <2>3. HaveFences(pieces)
    BY <2>2, ElementOfSeq DEF HaveFences
  <2>4. ChunkPromise(pieces, Chunk(pieces))
    BY <2>2, <2>3, ChunkKeepsItsPromise
  <2>5. View(v) = Chunk(pieces)
    BY <1>4, <2>1 DEF View
  <2> QED
    BY <1>4, <2>1, <2>4, <2>5 DEF Promised
<1>5. CASE v.kind = "find"
  <2>1. PICK n, hits : n = v.nodes /\ hits = v.hits
    OBVIOUS
  <2>2. n \in Nat /\ hits \in SUBSET (1 .. n) /\ FindCap \in Nat
    BY <1>5, <2>1, Caps DEF IsView
  <2>3. FindPromise(hits, FindCap, FindMatches(n, hits, FindCap))
    BY <2>2, FindKeepsItsPromise
  <2>4. View(v) = FindMatches(n, hits, FindCap)
    BY <1>5, <2>1 DEF View
  <2> QED
    BY <1>5, <2>1, <2>3, <2>4 DEF Promised
<1>6. CASE v.kind = "bodies"
  <2>1. PICK sizes : sizes = v.sizes
    OBVIOUS
  <2>2. sizes \in Seq(Nat) /\ BodyBudget \in Nat
    BY <1>6, <2>1, Caps DEF IsView
  <2>3. BodiesPromise(sizes, BodyBudget, BodiesWithin(sizes, BodyBudget))
    BY <2>2, BodiesKeepTheirPromise
  <2>4. View(v) = BodiesWithin(sizes, BodyBudget)
    BY <1>6, <2>1 DEF View
  <2> QED
    BY <1>6, <2>1, <2>3, <2>4 DEF Promised
<1>7. CASE v.kind = "count"
  <2>1. PICK count, out : count = v.count /\ out = SearchCount(count)
    OBVIOUS
  <2>2. count \in Nat \cup {Absent} /\ Absent \notin Nat
        /\ CountCeiling \in Nat /\ CountDefault \in 1 .. CountCeiling
    BY <1>7, <2>1, Caps, TextConstants DEF IsView
  <2>3. out \in 1 .. CountCeiling /\ (count \in 1 .. CountCeiling => out = count)
    BY <2>1, <2>2 DEF SearchCount, Lower
  <2>4. View(v) = out
    BY <1>7, <2>1 DEF View
  <2> QED
    BY <1>7, <2>1, <2>3, <2>4 DEF Promised
<1> QED
  BY <1>1, <1>2, <1>3, <1>4, <1>5, <1>6, <1>7 DEF IsView

(* A call holds no answer yet, or the view it was asked for.               *)
Holding(k) == k.at # "idle" => k.out = Absent \/ k.out = View(k.req.view)
OutInv == \A c \in Callers : Holding(call[c])

LEMMA HoldingGoes ==
    ASSUME NEW c, NEW k, DOMAIN k = CallFields, NEW rest, GoesOn(c, k, rest)
    PROVE  \E k2 : call' = [call EXCEPT ![c] = k2] /\ Holding(k2)
<1>1. PICK k2 : k2 = [k EXCEPT !.plan = rest, !.at = IF rest = <<>> THEN "answer" ELSE "running",
                         !.out = IF rest = <<>> /\ k.ok THEN View(k.req.view) ELSE Absent]
  OBVIOUS
<1>2. call' = [call EXCEPT ![c] = k2]
  BY <1>1 DEF GoesOn
<1>3. k2.req = k.req /\ k2.out = IF rest = <<>> /\ k.ok THEN View(k.req.view) ELSE Absent
  BY <1>1 DEF CallFields
<1> QED
  BY <1>2, <1>3 DEF Holding

(* The call a caller's step leaves.                                        *)
LEMMA HoldingKept ==
    ASSUME ToolInv, OutInv, NEW c \in Callers,
           Begin(c) \/ Dispatch(c) \/ Succeeds(c) \/ Fails(c) \/ Timeout(c) \/ Return(c)
    PROVE  \E k2 : call' = [call EXCEPT ![c] = k2] /\ Holding(k2)
<1>1. PICK k : k = call[c]
  OBVIOUS
<1>2. Holding(k) /\ (k = Quiet \/ DOMAIN k = CallFields)
  BY <1>1 DEF OutInv, ToolInv, RunInv, CallsInv, CallInv
<1>3. CASE Begin(c)
  <2>1. PICK r, sent : sent = [at |-> "sent", req |-> r, id |-> begun + 1, doc |-> page.doc,
                plan |-> <<>>, filled |-> 0, ok |-> TRUE, before |-> page.form,
                seen |-> {}, out |-> Absent]
           /\ call' = [call EXCEPT ![c] =
                         IF Passes(r.tool) /\ ~(setup.front = "native" /\ r.tool = "daemon_status")
                         THEN sent
                         ELSE [sent EXCEPT !.at = "answer",
                                 !.ok = setup.front = "native" /\ r.tool = "daemon_status"]]
    BY <1>3 DEF Begin
  <2>2. PICK k2 : k2 = IF Passes(r.tool) /\ ~(setup.front = "native" /\ r.tool = "daemon_status")
                       THEN sent
                       ELSE [sent EXCEPT !.at = "answer",
                               !.ok = setup.front = "native" /\ r.tool = "daemon_status"]
    OBVIOUS
  <2>3. k2.out = Absent
    BY <2>1, <2>2
  <2> QED
    BY <2>1, <2>2, <2>3 DEF Holding
<1>4. CASE Dispatch(c)
  <2>1. PICK plan : plan = Parts(Plan(k.req))
    OBVIOUS
  <2>2. k.at = "sent" /\ DOMAIN k = CallFields /\ DOMAIN call = Callers
    BY <1>1, <1>2, <1>4 DEF Dispatch, Quiet, ToolInv, RunInv, CallsInv
  <2>3. PICK k2 : k2 = [k EXCEPT !.at = "running", !.plan = plan]
    OBVIOUS
  <2>4. call' = [call EXCEPT ![c] = k2]
    BY <1>1, <1>4, <2>1, <2>2, <2>3 DEF Dispatch
  <2>5. k2.out = k.out /\ k2.req = k.req
    BY <2>2, <2>3 DEF CallFields
  <2> QED
    BY <1>2, <2>2, <2>4, <2>5 DEF Holding
<1>5. CASE Succeeds(c)
  <2>1. k.at = "running" /\ DOMAIN k = CallFields
    <3>1. k.at = "running"
      BY <1>1, <1>5 DEF Succeeds
    <3>2. k # Quiet
      BY <3>1 DEF Quiet
    <3> QED
      BY <1>2, <3>1, <3>2
  <2>2. PICK seen, filled, rest : GoesOn(c, [k EXCEPT !.seen = seen, !.filled = filled], rest)
    BY <1>1, <1>5, <2>1 DEF Succeeds
  <2>3. PICK m : m = [k EXCEPT !.seen = seen, !.filled = filled]
    OBVIOUS
  <2>4. DOMAIN m = CallFields /\ GoesOn(c, m, rest)
    BY <2>1, <2>2, <2>3
  <2> QED
    BY <2>4, HoldingGoes
<1>6. CASE Fails(c)
  <2>1. k.at = "running" /\ DOMAIN k = CallFields
    <3>1. k.at = "running"
      BY <1>1, <1>6 DEF Fails
    <3>2. k # Quiet
      BY <3>1 DEF Quiet
    <3> QED
      BY <1>2, <3>1, <3>2
  <2>2. PICK m, rest : m = [k EXCEPT !.ok = Head(k.plan).op \in {"closeSearch", "closeAll"} /\ @]
                       /\ GoesOn(c, m, rest)
    BY <1>1, <1>6 DEF Fails
  <2>3. DOMAIN m = CallFields
    BY <2>1, <2>2
  <2> QED
    BY <2>2, <2>3, HoldingGoes
<1>7. CASE Timeout(c)
  <2>1. k.at = "running" /\ DOMAIN k = CallFields
    <3>1. k.at = "running"
      BY <1>1, <1>7 DEF Timeout
    <3>2. k # Quiet
      BY <3>1 DEF Quiet
    <3> QED
      BY <1>2, <3>1, <3>2
  <2>2. PICK k2 : k2 = [k EXCEPT !.ok = FALSE, !.at = "answer"]
    OBVIOUS
  <2>3. call' = [call EXCEPT ![c] = k2]
    BY <1>1, <1>7, <2>2 DEF Timeout
  <2>4. k2.out = k.out /\ k2.req = k.req
    BY <2>1, <2>2 DEF CallFields
  <2> QED
    BY <1>2, <2>1, <2>3, <2>4 DEF Holding
<1>8. CASE Return(c)
  <2>1. call' = [call EXCEPT ![c] = Quiet] /\ Quiet.at = "idle"
    BY <1>8 DEF Return, Quiet
  <2> QED
    BY <2>1 DEF Holding
<1> QED
  BY <1>3, <1>4, <1>5, <1>6, <1>7, <1>8

LEMMA OutKept == ToolInv /\ OutInv /\ [Next]_vars => OutInv'
<1> SUFFICES ASSUME ToolInv, OutInv, [Next]_vars PROVE OutInv'
  OBVIOUS
<1>1. DOMAIN call = Callers
  BY DEF ToolInv, RunInv, CallsInv
<1>2. CASE call' = call
  BY <1>2 DEF OutInv
<1>3. ASSUME NEW c \in Callers,
             Begin(c) \/ Dispatch(c) \/ Succeeds(c) \/ Fails(c) \/ Timeout(c) \/ Return(c)
      PROVE  OutInv'
  <2>1. PICK k2 : call' = [call EXCEPT ![c] = k2] /\ Holding(k2)
    BY <1>3, HoldingKept
  <2>2. \A d \in Callers : call'[d] = IF d = c THEN k2 ELSE call[d]
    BY <1>1, <2>1
  <2>3. ASSUME NEW d \in Callers PROVE Holding(call'[d])
    BY <2>1, <2>2 DEF OutInv
  <2> QED
    BY <2>3 DEF OutInv
<1>4. CASE PageNavigates \/ PageRequests
  BY <1>2, <1>4 DEF PageNavigates, PageRequests
<1> QED
  BY <1>2, <1>3, <1>4 DEF Next, vars

(* What read_saved_page, index_docs, browser_find, network_requests and    *)
(* the searches return of a text is what their arguments ask for, for      *)
(* texts and arguments of any size: lines around matches without gap or    *)
(* repetition, the page that was asked for, whole code fences, the first   *)
(* matches, the bodies that fit, a count within its ceiling.               *)
THEOREM TextsAreRight == Spec => []TextViewsAgree
<1>1. Init => OutInv
  <2> SUFFICES ASSUME Init, NEW c \in Callers PROVE Holding(call[c])
    BY DEF OutInv
  <2> QED
    BY DEF Init, Holding, Quiet
<1>2. ToolInv /\ OutInv => TextViewsAgree
  <2> SUFFICES ASSUME ToolInv, OutInv, NEW c \in Callers, call[c].at = "answer",
                      call[c].out # Absent
               PROVE  Promised(call[c].req.view, call[c].out)
    BY DEF TextViewsAgree
  <2>1. PICK k, v : k = call[c] /\ v = k.req.view
    OBVIOUS
  <2>2. IsRequest(k.req) /\ k.out = View(v)
    BY <2>1 DEF ToolInv, OutInv, RunInv, CallsInv, CallInv, Holding, Quiet
  <2>3. IsView(v)
    BY <2>1, <2>2 DEF IsRequest
  <2> QED
    BY <2>1, <2>2, <2>3, ViewIsRight
<1> QED
  BY <1>1, <1>2, ToolsInvariant, OutKept, PTL DEF Spec

----------------------------------------------------------------------------
(* The vault, for any lanes, domains, fields and bounds: overlapping calls *)
(* share one run, and every answer was logged.                             *)
(*                                                                         *)
(* That no two runs resolve one reference is inductive only together with  *)
(* what `pending` means: the entry of a reference is the run under way for *)
(* it, and every run under way is the entry of its reference, although     *)
(* callers come and go and nothing but the run removes the entry.          *)

(* `pending` and the runs under way are the same thing.                    *)
PendingIsRunning ==
    /\ \A ref \in CredentialRefs : pending[ref] # NoRun =>
          Running(pending[ref]) /\ refOf[pending[ref]] = ref
    /\ \A r \in Runs : Running(r) =>
          refOf[r] \in CredentialRefs /\ pending[refOf[r]] = r

RunsInOrder ==
    /\ \A r \in Runs : r < nextRun <=> stage[r] # "none"
    /\ \A r \in Runs : stage[r] = "done" => r \in log

(* A caller's run was begun for the reference the caller asked for, and it *)
(* has ended if the caller has an answer.                                  *)
JoinedRuns ==
    \A c \in Lanes : at[c] # "idle" =>
        /\ joined[c] \in Runs /\ stage[joined[c]] # "none"
        /\ refOf[joined[c]] = wants[c]
        /\ at[c] = "answered" => stage[joined[c]] = "done"

VaultInv == VaultTypeOK /\ PendingIsRunning /\ RunsInOrder /\ JoinedRuns

----------------------------------------------------------------------------

LEMMA InitVault == VaultInit => VaultInv
  BY VaultConstants DEF VaultInit, VaultInv, VaultTypeOK, PendingIsRunning, RunsInOrder,
     JoinedRuns, Running, Runs, NoRun, Stages, Results, OpErrors

LEMMA KeepsJoin ==
    ASSUME VaultInv, NEW c \in Lanes, NEW ref \in CredentialRefs,
           ResolveJoins(c, ref)
    PROVE  VaultInv'
  <1> USE DEF VaultInv, ResolveJoins, Waits, runVars
  <1>1. pending[ref] \in Runs /\ stage[pending[ref]] \notin {"none", "done"}
        /\ refOf[pending[ref]] = ref
    BY DEF VaultTypeOK, PendingIsRunning, Running
  <1>2. VaultTypeOK'
    <2>1. calls' \in [Lanes -> 0 .. MaxCalls]
      BY VaultConstants DEF VaultTypeOK
    <2>2. QED
      BY <1>1, <2>1 DEF VaultTypeOK
  <1>3. PendingIsRunning' /\ RunsInOrder'
    BY DEF PendingIsRunning, RunsInOrder, Running
  <1>4. JoinedRuns'
    BY <1>1 DEF JoinedRuns, VaultTypeOK
  <1>5. QED
    BY <1>2, <1>3, <1>4

LEMMA KeepsStart ==
    ASSUME VaultInv, NEW c \in Lanes, NEW ref \in CredentialRefs,
           ResolveStarts(c, ref)
    PROVE  VaultInv'
  <1> USE DEF VaultInv, ResolveStarts, Waits
  <1>1. nextRun \in Runs /\ nextRun # NoRun /\ stage[nextRun] = "none"
    BY DEF VaultTypeOK, RunsInOrder, Runs, NoRun
  <1>2. VaultTypeOK'
    <2>1. calls' \in [Lanes -> 0 .. MaxCalls]
      BY VaultConstants DEF VaultTypeOK
    <2>2. nextRun' \in 1 .. MaxRuns + 1
      BY VaultConstants DEF Runs
    <2>3. QED
      BY <1>1, <2>1, <2>2 DEF VaultTypeOK, Stages
  <1>3. PendingIsRunning'
    <2>1. \A q \in CredentialRefs : pending[q] # nextRun
      BY <1>1 DEF PendingIsRunning, Running
    <2>2. /\ \A q \in CredentialRefs :
                pending'[q] = IF q = ref THEN nextRun ELSE pending[q]
          /\ \A q \in Runs : /\ stage'[q] = IF q = nextRun THEN "start" ELSE stage[q]
                             /\ refOf'[q] = IF q = nextRun THEN ref ELSE refOf[q]
      BY <1>1 DEF VaultTypeOK
    <2>3. ASSUME NEW q \in CredentialRefs, pending'[q] # NoRun
          PROVE  Running(pending[q])' /\ (refOf[pending[q]])' = q
      <3>1. CASE q = ref
        BY <1>1, <2>2, <3>1 DEF Running
      <3>2. CASE q # ref
        <4>1. pending'[q] = pending[q] /\ pending[q] \in Runs /\ pending[q] # nextRun
          BY <2>1, <2>2, <2>3, <3>2 DEF VaultTypeOK, PendingIsRunning
        <4>2. Running(pending[q]) /\ refOf[pending[q]] = q
          BY <2>3, <4>1 DEF PendingIsRunning
        <4>3. QED
          BY <2>2, <4>1, <4>2 DEF Running
      <3>3. QED
        BY <3>1, <3>2
    <2>4. ASSUME NEW r \in Runs, Running(r)'
          PROVE  refOf'[r] \in CredentialRefs /\ pending'[refOf'[r]] = r
      <3>1. CASE r = nextRun
        BY <2>2, <3>1
      <3>2. CASE r # nextRun
        <4>1. Running(r) /\ refOf'[r] = refOf[r]
          BY <2>2, <2>4, <3>2 DEF Running
        <4>2. refOf[r] \in CredentialRefs /\ pending[refOf[r]] = r /\ r # NoRun
          BY <4>1 DEF PendingIsRunning, Runs, NoRun
        <4>3. QED
          BY <2>2, <4>1, <4>2
      <3>3. QED
        BY <3>1, <3>2
    <2>5. QED
      BY <2>3, <2>4 DEF PendingIsRunning
  <1>4. RunsInOrder'
    BY <1>1, VaultConstants DEF RunsInOrder, VaultTypeOK, Runs
  <1>5. JoinedRuns'
    BY <1>1 DEF JoinedRuns, VaultTypeOK
  <1>6. QED
    BY <1>2, <1>3, <1>4, <1>5

LEMMA KeepsCaller ==
    ASSUME VaultInv, NEW c \in Lanes, Answered(c) \/ Dropped(c)
    PROVE  VaultInv'
  <1> USE DEF VaultInv, Answered, Dropped, runVars
  <1>1. VaultTypeOK'
    BY DEF VaultTypeOK, NoRun, NoCredential
  <1>2. PendingIsRunning' /\ RunsInOrder'
    BY DEF PendingIsRunning, RunsInOrder, Running
  <1>3. JoinedRuns'
    BY DEF JoinedRuns, VaultTypeOK
  <1>4. QED
    BY <1>1, <1>2, <1>3

(* A run that goes on to its next await.                                   *)
LEMMA KeepsGoing ==
    ASSUME VaultInv, NEW r \in Runs, NEW s \in Stages \ {"none", "done"},
           Goes(r, s), idCache' \in [Domains -> Items \cup {"none"}]
    PROVE  VaultInv'
  <1> USE DEF VaultInv, Goes, Polled, callerVars
  <1>1. VaultTypeOK'
    BY DEF VaultTypeOK
  <1>2. \A q \in Runs : Running(q)' <=> Running(q)
    BY DEF Running, VaultTypeOK
  <1>3. PendingIsRunning'
    BY <1>2 DEF PendingIsRunning, Running, VaultTypeOK
  <1>4. RunsInOrder'
    BY DEF RunsInOrder, Running, VaultTypeOK
  <1>5. JoinedRuns'
    BY DEF JoinedRuns, VaultTypeOK, Running
  <1>6. QED
    BY <1>1, <1>3, <1>4, <1>5

(* A run that ends.                                                        *)
LEMMA KeepsEnd ==
    ASSUME VaultInv, NEW r \in Runs, NEW res \in Results, Ends(r, res),
           UNCHANGED idCache
    PROVE  VaultInv'
  <1> USE DEF VaultInv, Ends, Polled, callerVars
  <1>1. refOf[r] \in CredentialRefs /\ pending[refOf[r]] = r /\ Running(r)
    BY DEF PendingIsRunning
  <1>2. VaultTypeOK'
    BY <1>1 DEF VaultTypeOK, Stages, NoRun
  <1>3. PendingIsRunning'
    <2>1. \A q \in Runs : Running(q)' <=> Running(q) /\ q # r
      BY DEF Running, VaultTypeOK
    <2>2. \A ref \in CredentialRefs :
              pending'[ref] = IF ref = refOf[r] THEN NoRun ELSE pending[ref]
      BY DEF VaultTypeOK
    <2>3. ASSUME NEW ref \in CredentialRefs, pending'[ref] # NoRun
          PROVE  Running(pending[ref])' /\ refOf[pending[ref]] = ref /\ pending'[ref] = pending[ref]
      <3>1. ref # refOf[r] /\ pending[ref] # NoRun /\ pending'[ref] = pending[ref]
        BY <2>2, <2>3
      <3>2. refOf[pending[ref]] = ref /\ Running(pending[ref]) /\ pending[ref] # r
            /\ pending[ref] \in Runs
        BY <3>1 DEF PendingIsRunning, VaultTypeOK
      <3>3. stage'[pending[ref]] = stage[pending[ref]]
        BY <3>2 DEF VaultTypeOK
      <3>4. QED
        BY <3>1, <3>2, <3>3 DEF Running
    <2>4. QED
      BY <2>1, <2>2, <2>3 DEF PendingIsRunning, Running
  <1>4. RunsInOrder'
    BY <1>1 DEF RunsInOrder, Running, VaultTypeOK
  <1>5. JoinedRuns'
    BY <1>1 DEF JoinedRuns, VaultTypeOK, Running
  <1>6. QED
    BY <1>2, <1>3, <1>4, <1>5

LEMMA KeepsAdvance ==
    ASSUME VaultInv, NEW r \in Runs, Advance(r)
    PROVE  VaultInv'
  <1>1. idCache \in [Domains -> Items \cup {"none"}]
    BY DEF VaultInv, VaultTypeOK
  <1>2. CASE CacheHit(r)
    BY <1>1, <1>2, KeepsGoing DEF CacheHit, Stages
  <1>3. CASE CacheMiss(r)
    BY <1>1, <1>3, KeepsGoing DEF CacheMiss, Stages
  <1>4. CASE LookupFinds(r)
    <2>1. idCache' \in [Domains -> Items \cup {"none"}]
      BY <1>1, <1>4 DEF LookupFinds
    <2>2. QED
      BY <1>4, <2>1, KeepsGoing DEF LookupFinds, Stages
  <1>5. CASE LookupRejects(r)
    BY <1>5, KeepsEnd DEF LookupRejects, Results
  <1>6. CASE ReadSucceeds(r)
    BY <1>6, KeepsEnd DEF ReadSucceeds, Results
  <1>7. CASE OpFails(r)
    BY <1>7, KeepsEnd DEF OpFails, Results
  <1>8. CASE OpLimited(r)
    BY <1>1, <1>8, KeepsGoing DEF OpLimited, Stages
  <1>9. CASE LimitTold(r)
    BY <1>9, KeepsEnd DEF LimitTold, Results, OpErrors
  <1>10. QED
    BY <1>2, <1>3, <1>4, <1>5, <1>6, <1>7, <1>8, <1>9 DEF Advance

LEMMA KeepsVault ==
    ASSUME VaultInv, NEW d \in Domains, VaultChanges(d)
    PROVE  VaultInv'
  BY DEF VaultInv, VaultChanges, runVars, callerVars, VaultTypeOK, PendingIsRunning,
     RunsInOrder, JoinedRuns, Running

LEMMA KeepsStutter == ASSUME VaultInv, UNCHANGED vaultVars PROVE VaultInv'
  BY DEF VaultInv, vaultVars, runVars, callerVars, VaultTypeOK, PendingIsRunning,
     RunsInOrder, JoinedRuns, Running

LEMMA VaultAlways == VaultSpec => []VaultInv
  <1>1. ASSUME VaultInv, [VaultNext]_vaultVars PROVE VaultInv'
    BY <1>1, KeepsJoin, KeepsStart, KeepsCaller, KeepsAdvance, KeepsVault,
       KeepsStutter DEF VaultNext
  <1>2. QED
    BY InitVault, <1>1, PTL DEF VaultSpec

----------------------------------------------------------------------------

(* References, runs and callers stay within their types.                   *)
THEOREM VaultTypeCorrect == VaultSpec => []VaultTypeOK
  <1>1. VaultInv => VaultTypeOK
    BY DEF VaultInv
  <1>2. QED
    BY <1>1, VaultAlways, PTL

(* However calls join, are dropped and come again, and however runs end,   *)
(* no two runs ever resolve one reference at a time.                       *)
THEOREM RunsAreShared == VaultSpec => []OneRunPerRef
  <1>1. VaultInv => OneRunPerRef
    BY DEF VaultInv, PendingIsRunning, OneRunPerRef
  <1>2. QED
    BY <1>1, VaultAlways, PTL

(* Whoever has an answer has it from a run for the reference asked for,    *)
(* whose line is in the audit log.                                         *)
THEOREM AnswersAreLogged == VaultSpec => []AnswersLogged
  <1>1. VaultInv => AnswersLogged
    BY DEF VaultInv, JoinedRuns, RunsInOrder, AnswersLogged
  <1>2. QED
    BY <1>1, VaultAlways, PTL
=============================================================================
