------------------------- MODULE BrowserPageProofs -------------------------
(***************************************************************************)
(* Proofs about BrowserPage for any tabs, bounds and node ids: a ref names *)
(* elements of one tab only, a navigation hands out refs that nobody has,  *)
(* and a secret is typed into a field of a page of its host, or where a    *)
(* later page uses a node id again.                                        *)
(*                                                                         *)
(* The first two rest on the session's counter: every ref that a tab ever  *)
(* installed is below it, the refs of the last capture are among those,    *)
(* and a capture takes what it does not reuse from the counter on.  The    *)
(* last rests on documents being numbered: as long as the tab shows the    *)
(* document that was checked, an id names the node that takes secrets, and *)
(* any later document comes after the one that the id was taken from.      *)
(***************************************************************************)
EXTENDS BrowserPage, FiniteSetTheorems, SequenceTheorems, TLAPS

PagesInv ==
    /\ doc \in [Tabs -> 0 .. MaxDocs]
    /\ live \in [Tabs -> SUBSET Elements]
    /\ host \in [Docs -> Hosts]
    /\ unseen \subseteq Docs
    /\ nextDoc \in 1 .. MaxDocs + 1
    /\ \A t \in Tabs : doc[t] < nextDoc
    /\ \A t \in Tabs : \A e \in live[t] : e[1] = doc[t]

(* No two refs of a capture could be reused for the same node.             *)
OneRefEach ==
    \A t \in Tabs : \A x, y \in latest[t] :
        ~x.oopif /\ ~y.oopif /\ x.backend = y.backend => x = y

RefsInv ==
    /\ latest \in [Tabs -> SUBSET Resolved]
    /\ known \in [Tabs -> [Refs -> Nat \cup {None}]]
    /\ gen \in [Tabs -> Nat]
    /\ latestUrl \in [Tabs -> 0 .. MaxDocs]
    /\ nextRef \in 0 .. MaxRefs
    /\ \A t \in Tabs : \A x \in latest[t] :
          known[t][x.ref] # None /\ x = Resolve1(x.elem, x.ref)
    /\ \A t \in Tabs, r \in Refs : known[t][r] # None => r < nextRef
    /\ RefsNameOneTab /\ OneRefEach

(* The documents that refs are about have been loaded.                     *)
LoadedInv == \A t \in Tabs : \A x \in latest[t] : x.elem[1] < nextDoc

CountsInv ==
    /\ exists \subseteq Tabs /\ active \in exists
    /\ issued \in [Refs -> [landed : Nat, tried : Nat]]
    /\ landed \in [Tabs -> Nat] /\ tried \in [Tabs -> Nat]
    /\ blocked \in BOOLEAN
    /\ calls \in 0 .. MaxCalls
    /\ answer \in [kind : Outcomes, tab : Tabs, ref : Refs \cup {None}]

(* What is left of type_secret from its k-th await on.                     *)
From(k) == [i \in 1 .. 9 - k |-> SecretSteps[k + i - 1]]

(* The node that a call resolved was one of a document loaded by then.     *)
NodeOf(c, n) == \E e \in Elements : e[1] < n /\ Backend(e) = c.node

(* The tab still shows the document that the call checked, or one that was *)
(* loaded later.                                                           *)
OnSite(c) ==
    /\ c.url \in Docs /\ host[c.url] = "site" /\ c.url < nextDoc
    /\ NodeOf(c, nextDoc)
    /\ doc[c.tab] = c.url \/ NodeOf(c, doc[c.tab])

(* Unless its tab has left the document, the node takes secrets.           *)
TakesSecrets(c) ==
    doc[c.tab] = c.url => Backend(<<c.url, "password">>) = c.node

SecretAt(c, k) ==
    /\ c.todo = From(k)
    /\ k \in 2 .. 5 => OnSite(c)
    /\ k = 5 => TakesSecrets(c)

CallInv ==
    /\ call \in Calls
    /\ call.op = "secret" => \E k \in 1 .. 8 : SecretAt(call, k)

(* The documents written to have been loaded.                              *)
WrittenInv ==
    /\ written \subseteq (0 .. MaxDocs) \X Elements
    /\ \A w \in written : w[1] < nextDoc
    /\ SecretInItsField

PageInv == PagesInv /\ RefsInv /\ LoadedInv /\ CountsInv /\ CallInv /\ WrittenInv

----------------------------------------------------------------------------
(* The awaits of type_secret.                                              *)

LEMMA SecretStepsAre ==
    /\ SecretSteps[1] = "resolve" /\ SecretSteps[2] = "vault" /\ SecretSteps[3] = "verify"
    /\ SecretSteps[4] = "accepts" /\ SecretSteps[5] = "write" /\ SecretSteps[6] = "grace"
    /\ SecretSteps[7] = "url" /\ SecretSteps[8] = "tree" /\ Len(SecretSteps) = 8
    /\ SecretSteps \in Seq(StepNames)
    /\ \A i \in 1 .. 8 : SecretSteps[i] \in StepNames
  <1>1. Len(SecretSteps) = 8
    BY DEF SecretSteps
  <1>2. SecretSteps \in Seq(StepNames)
    BY DEF SecretSteps, StepNames
  <1>3. \A i \in 1 .. 8 : SecretSteps[i] \in StepNames
    BY <1>1, <1>2, ElementOfSeq
  <1>4. QED
    BY <1>1, <1>2, <1>3 DEF SecretSteps

LEMMA FromIs ==
    ASSUME NEW k \in 1 .. 8
    PROVE  /\ From(k) \in Seq(StepNames) /\ Len(From(k)) = 9 - k
           /\ Head(From(k)) = SecretSteps[k] /\ From(k) # <<>>
           /\ k < 8 => Tail(From(k)) = From(k + 1)
           /\ From(1) = SecretSteps
  <1>1. \A i \in 1 .. 8 : SecretSteps[i] \in StepNames
    BY SecretStepsAre
  <1>2. From(k) \in Seq(StepNames) /\ Len(From(k)) = 9 - k
        /\ \A i \in 1 .. 9 - k : From(k)[i] = SecretSteps[k + i - 1]
    BY <1>1 DEF From
  <1>3. Head(From(k)) = SecretSteps[k] /\ From(k) # <<>>
    BY <1>2
  <1>4. ASSUME k < 8 PROVE Tail(From(k)) = From(k + 1)
    <2>1. /\ Tail(From(k)) \in Seq(StepNames) /\ Len(Tail(From(k))) = 8 - k
          /\ \A i \in 1 .. 8 - k : Tail(From(k))[i] = SecretSteps[k + i]
      BY <1>2, <1>3
    <2>2. /\ From(k + 1) \in Seq(StepNames) /\ Len(From(k + 1)) = 8 - k
          /\ \A i \in 1 .. 8 - k : From(k + 1)[i] = SecretSteps[k + i]
      BY <1>1, <1>4 DEF From
    <2>3. QED
      BY <2>1, <2>2, SeqEqual
  <1>5. From(1) = SecretSteps
    <2>1. From(1) \in Seq(StepNames) /\ Len(From(1)) = 8
          /\ \A i \in 1 .. 8 : From(1)[i] = SecretSteps[i]
      BY <1>1 DEF From
    <2>2. QED
      BY <2>1, SecretStepsAre, SeqEqual
  <1>6. QED
    BY <1>2, <1>3, <1>4, <1>5

LEMMA StepsAre == \A op \in Ops : StepsOf(op) \in Seq(StepNames)
  <1>1. /\ StepsOf("act") = ActSteps /\ StepsOf("secret") = SecretSteps
        /\ StepsOf("evaluate") = EvaluateSteps /\ StepsOf("blind") = BlindSteps
        /\ StepsOf("snapshot") = SnapshotSteps /\ StepsOf("navigate") = NavigateSteps
        /\ StepsOf("tabNew") = TabNewSteps /\ StepsOf("tabSelect") = TabSelectSteps
    BY DEF StepsOf
  <1>2. ActSteps \in Seq(StepNames) /\ EvaluateSteps \in Seq(StepNames)
        /\ BlindSteps \in Seq(StepNames) /\ SnapshotSteps \in Seq(StepNames)
    BY DEF ActSteps, EvaluateSteps, BlindSteps, SnapshotSteps, StepNames
  <1>3. NavigateSteps \in Seq(StepNames) /\ TabNewSteps \in Seq(StepNames)
        /\ TabSelectSteps \in Seq(StepNames)
    BY DEF NavigateSteps, TabNewSteps, TabSelectSteps, StepNames
  <1>4. QED
    BY <1>1, <1>2, <1>3, SecretStepsAre DEF Ops, RefOps

LEMMA NoCallIs ==
    NoCall \in Calls /\ NoCall.op = "none" /\ NoCall.todo = <<>>
  <1>1. <<>> \in Seq(StepNames)
    OBVIOUS
  <1>2. QED
    BY <1>1, PageConstants DEF NoCall, Calls

LEMMA AnswerKeeps ==
    ASSUME PageInv, NEW kind \in Outcomes, Answer(kind)
    PROVE  CallInv' /\ answer' \in [kind : Outcomes, tab : Tabs, ref : Refs \cup {None}]
  <1>1. call \in Calls
    BY DEF PageInv, CallInv
  <1>2. answer' \in [kind : Outcomes, tab : Tabs, ref : Refs \cup {None}]
    BY <1>1 DEF Answer, Calls
  <1>3. CallInv'
    BY NoCallIs DEF Answer, CallInv
  <1>4. QED
    BY <1>2, <1>3

(* A call starts where its method does.                                    *)
LEMMA StartKeeps ==
    ASSUME PageInv, NEW op \in Ops, NEW t \in Tabs, NEW ref \in Refs \cup {None},
           Start(op, t, ref)
    PROVE  CallInv' /\ calls' \in 0 .. MaxCalls /\ answer' = answer
           /\ call'.op = op /\ call'.tab = t
  <1> DEFINE c == [NoCall EXCEPT !.op = op, !.tab = t, !.ref = ref, !.todo = StepsOf(op)]
  <1>1. c \in Calls /\ c.op = op /\ c.tab = t /\ c.todo = StepsOf(op)
    BY NoCallIs, StepsAre DEF Calls
  <1>2. call' = c
    BY DEF Start
  <1> HIDE DEF c
  <1>3. CallInv'
    <2>1. ASSUME op = "secret" PROVE SecretAt(call, 1)'
      <3>1. StepsOf(op) = SecretSteps
        BY <2>1 DEF StepsOf
      <3>2. From(1) = SecretSteps
        BY FromIs
      <3>3. QED
        BY <1>1, <1>2, <3>1, <3>2 DEF SecretAt
    <2>2. QED
      BY <1>1, <1>2, <2>1 DEF CallInv
  <1>4. calls' \in 0 .. MaxCalls
    BY PageConstants DEF Start, PageInv, CountsInv
  <1>5. QED
    BY <1>1, <1>2, <1>3, <1>4 DEF Start

(* And goes on, with what it knows by then.                                *)
GoesOn(c, k) ==
    c.todo = From(k) /\ (k < 5 => OnSite(c)) /\ (k = 4 => TakesSecrets(c))

LEMMA ContinueKeeps ==
    ASSUME PageInv, NEW c \in Calls, c.todo # <<>>,
           c.op = "secret" => \E k \in 1 .. 8 : GoesOn(c, k),
           Continue(c), c.tab = call.tab, UNCHANGED <<doc, host, nextDoc>>
    PROVE  CallInv' /\ answer' \in [kind : Outcomes, tab : Tabs, ref : Refs \cup {None}]
  <1>1. CASE Len(c.todo) = 1
    BY <1>1, AnswerKeeps DEF Continue, Outcomes
  <1>2. CASE Len(c.todo) # 1
    <2> DEFINE d == [c EXCEPT !.todo = Tail(@)]
    <2>1. call' = d /\ answer' = answer
      BY <1>2 DEF Continue
    <2>2. /\ d \in Calls /\ d.op = c.op /\ d.tab = c.tab /\ d.node = c.node
          /\ d.url = c.url /\ d.todo = Tail(c.todo)
      <3>1. c.todo \in Seq(StepNames) /\ Tail(c.todo) \in Seq(StepNames)
        BY HeadTailProperties DEF Calls
      <3>2. QED
        BY <3>1 DEF Calls
    <2> HIDE DEF d
    <2>3. ASSUME c.op = "secret" PROVE \E k \in 1 .. 8 : SecretAt(call, k)'
      <3>1. PICK k \in 1 .. 8 : GoesOn(c, k)
        BY <2>3
      <3>2. Len(From(k)) = 9 - k /\ (k < 8 => Tail(From(k)) = From(k + 1))
        BY FromIs
      <3>3. d.todo = From(k + 1) /\ k + 1 \in 1 .. 8
        BY <1>2, <2>2, <3>1, <3>2 DEF GoesOn
      <3>4. (k < 5 => OnSite(d)) /\ (k = 4 => TakesSecrets(d))
        BY <2>2, <3>1 DEF GoesOn, OnSite, NodeOf, TakesSecrets
      <3>5. SecretAt(d, k + 1)
        BY <3>3, <3>4 DEF SecretAt
      <3>6. SecretAt(call, k + 1)'
        BY <2>1, <3>5 DEF SecretAt, OnSite, NodeOf, TakesSecrets
      <3>7. QED
        BY <3>3, <3>6
    <2>4. CallInv'
      BY <2>1, <2>2, <2>3 DEF CallInv
    <2>5. QED
      BY <2>1, <2>4 DEF PageInv, CountsInv
  <1>3. QED
    BY <1>1, <1>2

(* A call at a step of type_secret is where that step is.                  *)
LEMMA SecretPlace ==
    ASSUME PageInv, NEW step, At(step), call.op = "secret"
    PROVE  \E k \in 1 .. 8 : SecretAt(call, k) /\ step = SecretSteps[k]
  <1>1. PICK k \in 1 .. 8 : SecretAt(call, k)
    BY DEF PageInv, CallInv
  <1>2. Head(From(k)) = SecretSteps[k]
    BY FromIs
  <1>3. QED
    BY <1>1, <1>2 DEF At, SecretAt

(* Steps that change nothing but the call: the rest of the invariant.      *)
LEMMA RestKeeps ==
    ASSUME PageInv, UNCHANGED <<pageVars, refVars, written>>,
           CallInv', CountsInv'
    PROVE  PageInv'
  <1>1. PagesInv' /\ LoadedInv'
    BY DEF PageInv, PagesInv, LoadedInv, pageVars, refVars
  <1>2. RefsInv'
    BY DEF PageInv, RefsInv, OneRefEach, RefsNameOneTab, refVars
  <1>3. WrittenInv'
    BY DEF PageInv, WrittenInv, SecretInItsField, pageVars
  <1>4. QED
    BY <1>1, <1>2, <1>3 DEF PageInv

(* A step of a call that only goes on or returns.                          *)
LEMMA KeepsCall ==
    ASSUME PageInv, UNCHANGED <<pageVars, tabVars, refVars, ghostVars, blocked, calls>>,
           CallInv', answer' \in [kind : Outcomes, tab : Tabs, ref : Refs \cup {None}]
    PROVE  PageInv'
  <1>1. CountsInv'
    BY DEF PageInv, CountsInv, tabVars, refVars, ghostVars
  <1>2. QED
    BY <1>1, RestKeeps DEF ghostVars

LEMMA KeepsAnswer ==
    ASSUME PageInv, NEW kind \in Outcomes, Answer(kind),
           UNCHANGED <<pageVars, tabVars, refVars, ghostVars, blocked, calls>>
    PROVE  PageInv'
  BY AnswerKeeps, KeepsCall

(* A call as it is goes on, whatever it does and wherever it is.           *)
LEMMA SameGoesOn ==
    ASSUME PageInv, NEW step, At(step), step # "resolve", step # "accepts", Continue(call),
           UNCHANGED <<doc, host, nextDoc>>
    PROVE  CallInv' /\ answer' \in [kind : Outcomes, tab : Tabs, ref : Refs \cup {None}]
  <1>1. call \in Calls /\ call.todo # <<>>
    BY DEF At, PageInv, CallInv
  <1>2. ASSUME call.op = "secret" PROVE \E k \in 1 .. 8 : GoesOn(call, k)
    <2>1. PICK k \in 1 .. 8 : SecretAt(call, k) /\ step = SecretSteps[k]
      BY <1>2, SecretPlace
    <2>2. k # 1 /\ k # 4
      BY <2>1, SecretStepsAre
    <2>3. QED
      BY <2>1, <2>2 DEF SecretAt, GoesOn
  <1>3. QED
    BY <1>1, <1>2, ContinueKeeps

----------------------------------------------------------------------------
(* Calls and their steps.                                                  *)

LEMMA ElementsAre == Elements = Docs \X {"button", "password", "frame"}
  <1>1. DOMAIN Names = {1, 2, 3} /\ Names[1] = "button" /\ Names[2] = "password"
        /\ Names[3] = "frame"
    BY DEF Names
  <1>2. {Names[i] : i \in DOMAIN Names} = {"button", "password", "frame"}
    BY <1>1
  <1>3. QED
    BY <1>2 DEF Elements

(* Backend node ids are numbers, different ones within a document.         *)
LEMMA BackendIs ==
    /\ \A e \in Elements : Backend(e) \in Nat
    /\ \A e, f \in Elements :
          e[1] = f[1] /\ ~IsOopif(e) /\ ~IsOopif(f) /\ Backend(e) = Backend(f) => e = f
  <1> DEFINE Name(e) == IF IsOopif(e) THEN "button" ELSE e[2]
  <1>1. \A e \in Elements : /\ e = <<e[1], e[2]>> /\ e[1] \in Docs
                            /\ e[2] \in {"button", "password", "frame"}
    BY ElementsAre
  <1>2. \A e \in Elements : Name(e) \in FormNames /\ <<e[1], Name(e)>> \in Docs \X FormNames
                            /\ Backend(e) = NodeId[<<e[1], Name(e)>>]
                            /\ (~IsOopif(e) => Name(e) = e[2])
    BY <1>1 DEF IsOopif, FormNames, Backend
  <1> HIDE DEF Name
  <1>3. \A e \in Elements : Backend(e) \in Nat
    BY <1>2, PageConstants
  <1>4. ASSUME NEW e \in Elements, NEW f \in Elements, e[1] = f[1], ~IsOopif(e), ~IsOopif(f),
               Backend(e) = Backend(f)
        PROVE  e = f
    <2>1. e[2] \in {"button", "password"} /\ f[2] \in {"button", "password"}
      BY <1>2, <1>4 DEF FormNames
    <2>2. NodeId[<<e[1], e[2]>>] = NodeId[<<e[1], f[2]>>] /\ e[1] \in Docs
      BY <1>1, <1>2, <1>4
    <2>3. e[2] = f[2]
      BY <2>1, <2>2, PageConstants
    <2>4. QED
      BY <1>1, <1>4, <2>3
  <1>5. QED
    BY <1>3, <1>4

LEMMA Resolve1Is ==
    ASSUME NEW e \in Elements, NEW r \in Refs
    PROVE  /\ Resolve1(e, r) \in Resolved
           /\ Resolve1(e, r).elem = e /\ Resolve1(e, r).ref = r
           /\ Resolve1(e, r).oopif = IsOopif(e)
           /\ Resolve1(e, r).backend = Backend(e) /\ Resolve1(e, r).role = Role(e)
  <1>1. IsOopif(e) \in BOOLEAN
    BY DEF IsOopif
  <1>2. Backend(e) \in Nat /\ Role(e) \in {"textbox", "button", "link"}
    BY BackendIs DEF Role
  <1>3. QED
    BY <1>1, <1>2 DEF Resolve1, Resolved

LEMMA InitPage == Init => PageInv
  <1> SUFFICES ASSUME Init PROVE PageInv
    OBVIOUS
  <1> USE PageConstants DEF Init
  <1>1. 1 \in Docs /\ 2 \in 1 .. MaxDocs + 1 /\ 0 \in Refs /\ 1 \in Refs
        /\ \A i \in DOMAIN Names : i \in {1, 2, 3}
    BY DEF Docs, Refs, Names
  <1>2. <<1, "button">> \in Elements /\ <<1, "password">> \in Elements
    BY <1>1, ElementsAre
  <1>3. PagesInv
    <2>1. {1} \X FormNames \subseteq Elements
      BY <1>1, ElementsAre DEF FormNames
    <2>2. doc \in [Tabs -> 0 .. MaxDocs] /\ live \in [Tabs -> SUBSET Elements]
          /\ host \in [Docs -> Hosts] /\ unseen \subseteq Docs
          /\ nextDoc \in 1 .. MaxDocs + 1
      BY <1>1, <2>1 DEF Docs, Hosts
    <2>3. \A t \in Tabs : doc[t] < nextDoc /\ \A e \in live[t] : e[1] = doc[t]
      OBVIOUS
    <2>4. QED
      BY <2>2, <2>3 DEF PagesInv
  <1>4. \A x \in FirstRefs : x \in Resolved /\ x = Resolve1(x.elem, x.ref)
                             /\ x.elem[1] = 1 /\ x.ref \in {0, 1}
    <2> DEFINE a == Resolve1(<<1, "button">>, 0)
               b == Resolve1(<<1, "password">>, 1)
    <2>1. a \in Resolved /\ a.elem = <<1, "button">> /\ a.ref = 0
          /\ b \in Resolved /\ b.elem = <<1, "password">> /\ b.ref = 1
      BY <1>1, <1>2, Resolve1Is
    <2>2. a = Resolve1(a.elem, a.ref) /\ b = Resolve1(b.elem, b.ref)
      BY <2>1
    <2>3. FirstRefs = {a, b}
      BY DEF FirstRefs
    <2> HIDE DEF a, b
    <2>4. a.elem[1] = 1 /\ b.elem[1] = 1 /\ a.ref \in {0, 1} /\ b.ref \in {0, 1}
      BY <2>1
    <2>5. QED
      BY <2>1, <2>2, <2>3, <2>4, Zenon
  <1>5. \A x, y \in FirstRefs : x.ref = y.ref => x = y
    <2>1. Resolve1(<<1, "button">>, 0).ref = 0 /\ Resolve1(<<1, "password">>, 1).ref = 1
      BY <1>1, <1>2, Resolve1Is
    <2>2. QED
      BY <2>1 DEF FirstRefs
  <1>6. \A t \in Tabs : latest[t] = IF t = First THEN FirstRefs ELSE {}
    OBVIOUS
  <1>7. \A t \in Tabs, r \in Refs :
           known[t][r] = IF t = First /\ (\E x \in FirstRefs : x.ref = r) THEN 0 ELSE None
    OBVIOUS
  <1>8. RefsNameOneTab
    BY <1>5, <1>6, <1>7 DEF RefsNameOneTab
  <1>9. RefsInv
    <2>0. OneRefEach
      <3>1. Resolve1(<<1, "button">>, 0).backend # Resolve1(<<1, "password">>, 1).backend
        <4>1. ~IsOopif(<<1, "button">>) /\ ~IsOopif(<<1, "password">>)
              /\ <<1, "button">>[1] = <<1, "password">>[1] /\ <<1, "button">> # <<1, "password">>
          BY DEF IsOopif
        <4>2. Backend(<<1, "button">>) # Backend(<<1, "password">>)
          BY <1>2, <4>1, BackendIs
        <4>3. QED
          BY <1>1, <1>2, <4>2, Resolve1Is
      <3>2. QED
        BY <1>6, <3>1 DEF OneRefEach, FirstRefs
    <2>1. latest \in [Tabs -> SUBSET Resolved]
      BY <1>4
    <2>2. known \in [Tabs -> [Refs -> Nat \cup {None}]] /\ gen \in [Tabs -> Nat]
          /\ latestUrl \in [Tabs -> 0 .. MaxDocs] /\ nextRef \in 0 .. MaxRefs
      OBVIOUS
    <2>3. \A t \in Tabs : \A x \in latest[t] :
             known[t][x.ref] # None /\ x = Resolve1(x.elem, x.ref)
      <3>1. \A x \in FirstRefs : x.ref \in Refs /\ x = Resolve1(x.elem, x.ref)
        BY <1>1, <1>4, Zenon
      <3>2. \A t \in Tabs : \A x \in latest[t] : t = First /\ x \in FirstRefs
        BY <1>6
      <3>3. 0 # None
        BY DEF None
      <3>4. QED
        BY <1>7, <3>1, <3>2, <3>3
    <2>4. \A t \in Tabs, r \in Refs : known[t][r] # None => r < nextRef
      <3>1. \A t \in Tabs, r \in Refs : known[t][r] # None => r \in {0, 1}
        <4>1. ASSUME NEW t \in Tabs, NEW r \in Refs, known[t][r] # None
              PROVE  \E x \in FirstRefs : x.ref = r
          BY <1>7, <4>1
        <4>2. QED
          BY <1>4, <4>1
      <3>2. nextRef = 2
        OBVIOUS
      <3>3. \A r : r \in {0, 1} => r < nextRef
        BY <3>2
      <3>4. QED
        BY <3>1, <3>3, Zenon
    <2>5. QED
      BY <1>8, <2>0, <2>1, <2>2, <2>3, <2>4 DEF RefsInv
  <1>10. LoadedInv
    BY <1>4, <1>6 DEF LoadedInv
  <1>11. CountsInv
    <2>1. exists \subseteq Tabs /\ active \in exists /\ landed \in [Tabs -> Nat]
          /\ tried \in [Tabs -> Nat] /\ calls \in 0 .. MaxCalls
          /\ issued \in [Refs -> [landed : Nat, tried : Nat]]
      OBVIOUS
    <2>2. blocked \in BOOLEAN
      OBVIOUS
    <2>3. answer \in [kind : Outcomes, tab : Tabs, ref : Refs \cup {None}]
      BY DEF Outcomes
    <2>4. QED
      BY <2>1, <2>2, <2>3 DEF CountsInv
  <1>12. CallInv
    BY NoCallIs DEF CallInv
  <1>13. WrittenInv
    BY DEF WrittenInv, SecretInItsField
  <1>14. QED
    BY <1>3, <1>9, <1>10, <1>11, <1>12, <1>13 DEF PageInv

LEMMA TabIs == PageInv => call.tab \in Tabs /\ call.op \in Ops \cup {"none"} /\ call \in Calls
  BY DEF PageInv, CallInv, Calls

LEMMA KeepsBegin ==
    ASSUME PageInv,
           \/ Refused \/ Navigate
           \/ \E op \in RefOps, r \in Refs : RefCall(op, r)
           \/ \E op \in {"blind", "snapshot"} : PlainCall(op)
           \/ \E t \in Tabs : TabNew(t) \/ TabSelect(t)
    PROVE  PageInv'
  <1>1. active \in Tabs /\ calls \in 0 .. MaxCalls /\ None \in Refs \cup {None}
    BY DEF PageInv, CountsInv
  <1>2. CASE Refused
    <2>1. CallInv'
      BY <1>2 DEF Refused, PageInv, CallInv, SecretAt, OnSite, NodeOf, TakesSecrets, pageVars
    <2>2. CountsInv'
      <3>1. answer' \in [kind : Outcomes, tab : Tabs, ref : Refs \cup {None}]
        BY <1>1, <1>2 DEF Refused, Outcomes
      <3>2. calls' \in 0 .. MaxCalls
        BY <1>1, <1>2, PageConstants DEF Refused
      <3>3. QED
        BY <1>2, <3>1, <3>2 DEF Refused, PageInv, CountsInv, tabVars, refVars, ghostVars
    <2>3. QED
      BY <1>2, <2>1, <2>2, RestKeeps DEF Refused, ghostVars
  <1>3. CASE Navigate
    <2>1. CallInv' /\ calls' \in 0 .. MaxCalls /\ answer' = answer
      BY <1>1, <1>3, StartKeeps DEF Navigate, Ops
    <2>2. blocked' \in BOOLEAN /\ tried' \in [Tabs -> Nat]
      <3>1. tried' \in [Tabs -> Nat]
        BY <1>1, <1>3 DEF Navigate, PageInv, CountsInv
      <3>2. blocked' \in BOOLEAN
        BY <1>3, Zenon DEF Navigate
      <3>3. QED
        BY <3>1, <3>2
    <2>3. CountsInv'
      BY <1>3, <2>1, <2>2 DEF Navigate, PageInv, CountsInv, tabVars, refVars
    <2>4. QED
      BY <1>3, <2>1, <2>3, RestKeeps DEF Navigate
  <1>4. ASSUME NEW op \in RefOps \cup {"blind", "snapshot"}, NEW r \in Refs \cup {None},
               Start(op, active, r),
               UNCHANGED <<pageVars, tabVars, refVars, ghostVars, blocked>>
        PROVE  PageInv'
    <2>1. CallInv' /\ calls' \in 0 .. MaxCalls /\ answer' = answer
      BY <1>1, <1>4, StartKeeps DEF Ops
    <2>2. CountsInv'
      BY <1>4, <2>1 DEF PageInv, CountsInv, tabVars, refVars, ghostVars
    <2>3. QED
      BY <1>4, <2>1, <2>2, RestKeeps DEF ghostVars
  <1>5. ASSUME NEW t \in Tabs, TabNew(t) PROVE PageInv'
    <2>1. CallInv' /\ calls' \in 0 .. MaxCalls /\ answer' = answer
      BY <1>1, <1>5, StartKeeps DEF TabNew, Ops
    <2>2. CountsInv'
      BY <1>5, <2>1 DEF TabNew, PageInv, CountsInv, tabVars, refVars, ghostVars
    <2>3. PagesInv'
      <3>1. \A u \in Tabs : u # t => doc'[u] = doc[u] /\ live'[u] = live[u]
        BY <1>5 DEF TabNew, PageInv, PagesInv
      <3>0. doc'[t] = 0 /\ live'[t] = {}
        BY <1>5 DEF TabNew, PageInv, PagesInv
      <3>2. doc' \in [Tabs -> 0 .. MaxDocs] /\ live' \in [Tabs -> SUBSET Elements]
        BY <1>5, PageConstants DEF TabNew, PageInv, PagesInv
      <3>3. nextDoc \in Int /\ 0 < nextDoc
        BY PageConstants DEF PageInv, PagesInv
      <3>4. UNCHANGED <<host, unseen, nextDoc>>
        BY <1>5 DEF TabNew
      <3>5. \A u \in Tabs : doc'[u] < nextDoc'
        BY <3>1, <3>3, <3>4, <3>0 DEF PageInv, PagesInv
      <3>6. \A u \in Tabs : \A e \in live'[u] : e[1] = doc'[u]
        BY <3>1, <3>0 DEF PageInv, PagesInv
      <3>7. QED
        BY <3>2, <3>4, <3>5, <3>6 DEF PageInv, PagesInv
    <2>4. RefsInv' /\ LoadedInv'
      BY <1>5 DEF TabNew, PageInv, RefsInv, OneRefEach, LoadedInv, RefsNameOneTab, refVars
    <2>5. WrittenInv'
      BY <1>5 DEF TabNew, PageInv, WrittenInv, SecretInItsField, ghostVars
    <2>6. QED
      BY <2>1, <2>2, <2>3, <2>4, <2>5 DEF PageInv
  <1>6. ASSUME NEW t \in Tabs, TabSelect(t) PROVE PageInv'
    <2>1. CallInv' /\ calls' \in 0 .. MaxCalls /\ answer' = answer
      BY <1>1, <1>6, StartKeeps DEF TabSelect, Ops
    <2>2. CountsInv'
      BY <1>6, <2>1 DEF TabSelect, PageInv, CountsInv, refVars, ghostVars
    <2>3. QED
      BY <1>6, <2>1, <2>2, RestKeeps DEF TabSelect, ghostVars
  <1>7. QED
    BY <1>1, <1>2, <1>3, <1>4, <1>5, <1>6 DEF RefCall, PlainCall

LEMMA KeepsResolveRef == ASSUME PageInv, ResolveRef PROVE PageInv'
  <1> DEFINE C(r) == [call EXCEPT !.node = r.backend, !.role = r.role, !.url = doc[call.tab]]
  <1>1. PICK r \in latest[call.tab] :
            /\ r.ref = call.ref /\ ~r.oopif
            /\ call.op = "secret" => DomainMatches(call.tab)
            /\ Continue(C(r))
    BY DEF ResolveRef
  <1> DEFINE c == C(r)
  <1>2. call \in Calls /\ call.tab \in Tabs /\ call.todo # <<>>
    BY TabIs DEF ResolveRef, At
  <1>3. r \in Resolved /\ r = Resolve1(r.elem, r.ref) /\ r.elem[1] < nextDoc
        /\ r.elem \in Elements /\ r.ref \in Refs
    BY <1>1, <1>2 DEF PageInv, RefsInv, LoadedInv, Resolved
  <1>4. r.backend = Backend(r.elem)
    BY <1>3, Resolve1Is
  <1>5. doc[call.tab] \in 0 .. MaxDocs /\ doc[call.tab] < nextDoc
    BY <1>2 DEF PageInv, PagesInv
  <1>6. c \in Calls /\ c.node = r.backend /\ c.op = call.op /\ c.tab = call.tab
        /\ c.todo = call.todo /\ c.url = doc[call.tab]
    BY <1>2, <1>3, <1>5 DEF Calls, Resolved
  <1>7. Continue(c) /\ UNCHANGED <<doc, host, nextDoc>>
    BY <1>1 DEF ResolveRef, pageVars
  <1> HIDE DEF c
  <1>8. ASSUME c.op = "secret" PROVE \E k \in 1 .. 8 : GoesOn(c, k)
    <2>1. PICK k \in 1 .. 8 : SecretAt(call, k) /\ "resolve" = SecretSteps[k]
      BY <1>6, <1>8, SecretPlace DEF ResolveRef
    <2>2. k # 4
      BY <2>1, SecretStepsAre
    <2>3. doc[call.tab] # 0 /\ host[doc[call.tab]] = "site"
      BY <1>1, <1>6, <1>8 DEF DomainMatches
    <2>4. NodeOf(c, nextDoc) /\ doc[call.tab] \in Docs
      BY <1>3, <1>4, <1>5, <1>6, <2>3, PageConstants DEF NodeOf, Docs
    <2>5. OnSite(c)
      BY <1>5, <1>6, <2>3, <2>4 DEF OnSite
    <2>6. QED
      BY <1>6, <2>1, <2>2, <2>5 DEF SecretAt, GoesOn
  <1>9. CallInv' /\ answer' \in [kind : Outcomes, tab : Tabs, ref : Refs \cup {None}]
    BY <1>2, <1>6, <1>7, <1>8, ContinueKeeps
  <1>10. QED
    BY <1>9, KeepsCall DEF ResolveRef

LEMMA KeepsChecks ==
    ASSUME PageInv, RejectRef \/ Vault \/ Verify \/ Accepts \/ GotoFails \/ CallFails \/ Timeout
    PROVE  PageInv'
  <1>1. CASE \E kind \in Outcomes : Answer(kind)
    BY <1>1, KeepsAnswer DEF RejectRef, Vault, Verify, Accepts, GotoFails, CallFails, Timeout
  <1>2. CASE RejectRef
    <2>1. Rejection(call.tab, call.ref) \in Outcomes
      BY DEF Rejection, Outcomes
    <2>2. QED
      BY <1>1, <1>2, <2>1 DEF RejectRef, Outcomes
  <1>3. CASE GotoFails \/ CallFails \/ Timeout
    BY <1>1, <1>3 DEF GotoFails, CallFails, Timeout, Outcomes
  <1>4. ASSUME Vault \/ Verify, Continue(call) PROVE PageInv'
    <2>1. PICK step \in {"vault", "verify"} : At(step)
      BY <1>4 DEF Vault, Verify
    <2>2. UNCHANGED <<doc, host, nextDoc>>
      BY <1>4 DEF Vault, Verify, pageVars
    <2>3. CallInv' /\ answer' \in [kind : Outcomes, tab : Tabs, ref : Refs \cup {None}]
      BY <1>4, <2>1, <2>2, SameGoesOn
    <2>4. QED
      BY <1>4, <2>3, KeepsCall DEF Vault, Verify
  <1>5. CASE Vault \/ Verify
    BY <1>1, <1>4, <1>5 DEF Vault, Verify, Outcomes
  <1>6. ASSUME Accepts, Continue(call),
               NEW e \in NodesWith(call.tab, call.node), AcceptsSecretWrite(e)
        PROVE  PageInv'
    <2>1. call.tab \in Tabs /\ call \in Calls /\ call.todo # <<>>
      BY <1>6, TabIs DEF Accepts, At
    <2>2. TakesSecrets(call)
      <3>1. e \in Elements /\ e[1] = doc[call.tab] /\ e[2] = "password"
            /\ Backend(e) = call.node
        BY <1>6, <2>1 DEF NodesWith, AcceptsSecretWrite, PageInv, PagesInv
      <3>2. e = <<doc[call.tab], "password">>
        BY <3>1, ElementsAre
      <3>3. QED
        BY <3>1, <3>2 DEF TakesSecrets
    <2>3. ASSUME call.op = "secret" PROVE \E k \in 1 .. 8 : GoesOn(call, k)
      <3>1. PICK k \in 1 .. 8 : SecretAt(call, k) /\ "accepts" = SecretSteps[k]
        BY <1>6, <2>3, SecretPlace DEF Accepts
      <3>2. k # 1
        BY <3>1, SecretStepsAre
      <3>3. QED
        BY <2>2, <3>1, <3>2 DEF SecretAt, GoesOn
    <2>4. UNCHANGED <<doc, host, nextDoc>>
      BY <1>6 DEF Accepts, pageVars
    <2>5. CallInv' /\ answer' \in [kind : Outcomes, tab : Tabs, ref : Refs \cup {None}]
      BY <1>6, <2>1, <2>3, <2>4, ContinueKeeps
    <2>6. QED
      BY <1>6, <2>5, KeepsCall DEF Accepts
  <1>7. CASE Accepts
    BY <1>1, <1>6, <1>7 DEF Accepts, Outcomes
  <1>8. QED
    BY <1>2, <1>3, <1>5, <1>7

LEMMA KeepsWrite == ASSUME PageInv, Write PROVE PageInv'
  <1>1. UNCHANGED <<pageVars, tabVars, refVars, landed, tried, blocked, calls>>
        /\ At("write") /\ call.tab \in Tabs
    BY TabIs DEF Write
  <1>2. ASSUME NEW e \in NodesWith(call.tab, call.node), Continue(call),
               written' = IF call.op = "secret"
                          THEN written \cup {<<call.url, e>>}
                          ELSE written
        PROVE  PageInv'
    <2>1. CallInv' /\ answer' \in [kind : Outcomes, tab : Tabs, ref : Refs \cup {None}]
      BY <1>1, <1>2, SameGoesOn DEF pageVars
    <2>2. e \in Elements /\ e[1] = doc[call.tab] /\ e[1] \in Docs /\ ~IsOopif(e)
          /\ Backend(e) = call.node
      BY <1>1, <1>2, ElementsAre DEF NodesWith, PageInv, PagesInv
    <2>3. ASSUME call.op = "secret"
          PROVE  /\ call.url \in Docs /\ call.url < nextDoc /\ host[call.url] = "site"
                 /\ \/ e[1] = call.url /\ AcceptsSecretWrite(e)
                    \/ \E f \in Elements : f[1] < e[1] /\ Backend(f) = Backend(e)
      <3>1. PICK k \in 1 .. 8 : SecretAt(call, k) /\ "write" = SecretSteps[k]
        BY <1>1, <2>3, SecretPlace
      <3>2. k = 5
        BY <3>1, SecretStepsAre
      <3>3. TakesSecrets(call) /\ OnSite(call)
        BY <3>1, <3>2 DEF SecretAt
      <3>4. CASE doc[call.tab] = call.url
        <4>1. <<call.url, "password">> \in Elements /\ ~IsOopif(<<call.url, "password">>)
              /\ Backend(<<call.url, "password">>) = Backend(e)
          BY <2>2, <3>3, <3>4, ElementsAre DEF IsOopif, TakesSecrets
        <4>2. e = <<call.url, "password">>
          BY <2>2, <3>4, <4>1, BackendIs
        <4>3. QED
          BY <3>3, <4>2 DEF OnSite, AcceptsSecretWrite
      <3>5. CASE doc[call.tab] # call.url
        BY <2>2, <3>3, <3>5 DEF OnSite, NodeOf
      <3>6. QED
        BY <3>4, <3>5
    <2>4. WrittenInv'
      <3>1. ASSUME call.op = "secret"
            PROVE  <<call.url, e>> \in (0 .. MaxDocs) \X Elements /\ call.url # 0
        BY <2>2, <2>3, <3>1 DEF Docs
      <3>2. UNCHANGED <<host, nextDoc>>
        BY <1>1 DEF pageVars
      <3>3. \A w \in written' : w \in written \/ (call.op = "secret" /\ w = <<call.url, e>>)
        BY <1>2
      <3>4. written' \subseteq (0 .. MaxDocs) \X Elements /\ \A w \in written' : w[1] < nextDoc'
        BY <2>3, <3>1, <3>2, <3>3 DEF PageInv, WrittenInv
      <3>5. SecretInItsField'
        BY <2>3, <3>1, <3>2, <3>3 DEF PageInv, WrittenInv, SecretInItsField, AcceptsSecretWrite
      <3>6. QED
        BY <3>4, <3>5 DEF WrittenInv
    <2>5. CountsInv'
      BY <1>1, <2>1 DEF PageInv, CountsInv, tabVars, refVars
    <2>6. PagesInv' /\ RefsInv' /\ LoadedInv'
      BY <1>1 DEF PageInv, PagesInv, RefsInv, OneRefEach, RefsNameOneTab, LoadedInv, pageVars, refVars
    <2>7. QED
      BY <2>1, <2>4, <2>5, <2>6 DEF PageInv
  <1>3. CASE Answer("failed") /\ UNCHANGED written
    BY <1>1, <1>3, KeepsAnswer DEF Outcomes, ghostVars
  <1>4. QED
    BY <1>2, <1>3 DEF Write

----------------------------------------------------------------------------
(* Documents.                                                              *)

(* What a commit in a tab does to the numbering, whoever made it.          *)
LEMMA CommitKeeps ==
    ASSUME PageInv, NEW t \in Tabs, NEW h \in Hosts, NEW names \in PageNames,
           Commit(t, h, names),
           UNCHANGED <<tabVars, refVars, ghostVars, blocked, call, calls, answer>>
    PROVE  PageInv'
  <1>1. nextDoc \in Docs /\ nextDoc \in Int /\ 1 <= nextDoc /\ nextDoc <= MaxDocs
        /\ nextDoc' = nextDoc + 1
    BY PageConstants DEF Commit, Docs
  <1>2. \A u \in Tabs : /\ doc[u] \in Int /\ 0 <= doc[u] /\ doc[u] < nextDoc
                        /\ doc'[u] = IF u = t THEN nextDoc ELSE doc[u]
                        /\ live'[u] = IF u = t THEN {nextDoc} \X names ELSE live[u]
    BY DEF Commit, PageInv, PagesInv
  <1>3. \A d \in Docs : d # nextDoc => host'[d] = host[d]
    BY DEF Commit, PageInv, PagesInv
  <1>4. PagesInv'
    <2>1. names \subseteq {"button", "password", "frame"}
      BY DEF PageNames, FormNames
    <2>2. {nextDoc} \X names \subseteq Elements
      BY <1>1, <2>1, ElementsAre
    <2>3. doc' \in [Tabs -> 0 .. MaxDocs]
      BY <1>1 DEF Commit, PageInv, PagesInv
    <2>4. live' \in [Tabs -> SUBSET Elements]
      BY <2>2 DEF Commit, PageInv, PagesInv
    <2>5. host' \in [Docs -> Hosts] /\ unseen' \subseteq Docs
      BY <1>1 DEF Commit, PageInv, PagesInv
    <2>6. nextDoc' \in 1 .. MaxDocs + 1
      BY <1>1, PageConstants
    <2>7. \A u \in Tabs : doc'[u] < nextDoc'
      BY <1>1, <1>2
    <2>8. \A u \in Tabs : \A e \in live'[u] : e[1] = doc'[u]
      BY <1>2 DEF PageInv, PagesInv
    <2>9. QED
      BY <2>3, <2>4, <2>5, <2>6, <2>7, <2>8 DEF PagesInv
  <1>5. RefsInv'
    BY DEF PageInv, RefsInv, OneRefEach, RefsNameOneTab, refVars
  <1>6. LoadedInv'
    <2>1. \A u \in Tabs : \A x \in latest[u] : x.elem[1] \in Int
      BY ElementsAre DEF PageInv, RefsInv, Resolved, Docs
    <2>2. QED
      BY <1>1, <2>1 DEF PageInv, LoadedInv, refVars
  <1>7. CountsInv'
    BY DEF PageInv, CountsInv, tabVars, refVars, ghostVars
  <1>8. CallInv'
    <2>1. call \in Calls /\ call.tab \in Tabs
      BY TabIs
    <2>2. \A e \in Elements : e[1] < nextDoc => e[1] < nextDoc'
      BY <1>1, ElementsAre DEF Docs
    <2>3. ASSUME OnSite(call) PROVE OnSite(call)'
      <3>1. call.url \in Docs /\ host'[call.url] = "site" /\ call.url < nextDoc'
        BY <1>1, <1>3, <2>3 DEF OnSite, Docs
      <3>2. NodeOf(call, nextDoc)'
        BY <2>2, <2>3 DEF OnSite, NodeOf
      <3>3. doc'[call.tab] = call.url \/ NodeOf(call, doc[call.tab])'
        BY <1>2, <2>1, <2>3 DEF OnSite, NodeOf
      <3>4. QED
        BY <3>1, <3>2, <3>3 DEF OnSite
    <2>4. ASSUME OnSite(call), TakesSecrets(call) PROVE TakesSecrets(call)'
      <3>1. call.url # nextDoc
        BY <1>1, <2>4 DEF OnSite, Docs
      <3>2. QED
        BY <1>2, <2>1, <2>4, <3>1 DEF TakesSecrets
    <2>5. \A k \in 1 .. 8 : SecretAt(call, k) => SecretAt(call, k)'
      BY <2>3, <2>4 DEF SecretAt
    <2>6. QED
      BY <2>1, <2>5 DEF PageInv, CallInv
  <1>9. WrittenInv'
    <2>1. \A w \in written : w[1] \in 0 .. MaxDocs /\ w[1] # 0 /\ w[1] \in Docs /\ w[1] < nextDoc
      BY PageConstants DEF PageInv, WrittenInv, SecretInItsField, Docs
    <2>2. \A w \in written : host'[w[1]] = host[w[1]] /\ w[1] < nextDoc'
      BY <1>1, <1>3, <2>1 DEF Docs
    <2>3. SecretInItsField'
      BY <2>2 DEF PageInv, WrittenInv, SecretInItsField, ghostVars
    <2>4. QED
      BY <2>2, <2>3 DEF PageInv, WrittenInv, ghostVars
  <1>10. QED
    BY <1>4, <1>5, <1>6, <1>7, <1>8, <1>9 DEF PageInv

LEMMA KeepsCommits ==
    ASSUME PageInv, GotoCommits \/ \E t \in Tabs : PageNavigates(t)
    PROVE  PageInv'
  <1>1. CASE GotoCommits
    <2>1. call.tab \in Tabs
      BY TabIs
    <2>2. QED
      BY <1>1, <2>1, CommitKeeps DEF GotoCommits
  <1>2. ASSUME NEW t \in Tabs, PageNavigates(t) PROVE PageInv'
    BY <1>2, CommitKeeps DEF PageNavigates
  <1>3. QED
    BY <1>1, <1>2

LEMMA KeepsGoto ==
    ASSUME PageInv, GotoReturns \/ GotoBlocked \/ Grace \/ CaptureUrl
    PROVE  PageInv'
  <1>1. call.tab \in Tabs /\ call \in Calls
    BY TabIs
  <1>2. ASSUME At("goto") \/ At("grace"), Continue(call), UNCHANGED pageVars
        PROVE  CallInv' /\ answer' \in [kind : Outcomes, tab : Tabs, ref : Refs \cup {None}]
    BY <1>2, SameGoesOn DEF pageVars
  <1>3. CASE GotoReturns \/ GotoBlocked
    <2>1. CallInv' /\ answer' \in [kind : Outcomes, tab : Tabs, ref : Refs \cup {None}]
      BY <1>2, <1>3, AnswerKeeps DEF GotoReturns, GotoBlocked, Outcomes
    <2>2. gen' \in [Tabs -> Nat] /\ landed' \in [Tabs -> Nat]
      <3>1. Settled
        BY <1>3 DEF GotoReturns, GotoBlocked
      <3>2. gen \in [Tabs -> Nat] /\ landed \in [Tabs -> Nat]
        BY DEF PageInv, RefsInv, CountsInv
      <3>3. [gen EXCEPT ![call.tab] = @ + 1] \in [Tabs -> Nat]
            /\ [landed EXCEPT ![call.tab] = @ + 1] \in [Tabs -> Nat]
        BY <1>1, <3>2
      <3>4. QED
        BY <3>1, <3>2, <3>3 DEF Settled
    <2>3. UNCHANGED <<pageVars, tabVars, latest, known, latestUrl, nextRef, issued,
                      tried, written, blocked, calls>>
      BY <1>3 DEF GotoReturns, GotoBlocked
    <2>4. CountsInv'
      BY <2>1, <2>2, <2>3 DEF PageInv, CountsInv, tabVars
    <2>5. RefsInv'
      BY <2>2, <2>3 DEF PageInv, RefsInv, OneRefEach, RefsNameOneTab
    <2>6. PagesInv' /\ LoadedInv' /\ WrittenInv'
      BY <2>3 DEF PageInv, PagesInv, LoadedInv, WrittenInv, SecretInItsField, pageVars
    <2>7. QED
      BY <2>1, <2>4, <2>5, <2>6 DEF PageInv
  <1>4. CASE Grace
    <2>1. CallInv' /\ answer' \in [kind : Outcomes, tab : Tabs, ref : Refs \cup {None}]
      BY <1>2, <1>4, AnswerKeeps DEF Grace, Outcomes
    <2>2. exists' \subseteq Tabs /\ active' \in exists'
      BY <1>1, <1>4 DEF Grace, PageInv, CountsInv, tabVars
    <2>3. CountsInv'
      BY <1>4, <2>1, <2>2 DEF Grace, PageInv, CountsInv, refVars, ghostVars
    <2>4. QED
      BY <1>4, <2>1, <2>3, RestKeeps DEF Grace, ghostVars
  <1>5. CASE CaptureUrl
    <2> DEFINE c == [call EXCEPT !.url = doc[call.tab]]
    <2>1. doc[call.tab] \in 0 .. MaxDocs /\ call.todo # <<>>
      BY <1>1, <1>5 DEF PageInv, PagesInv, CaptureUrl, At
    <2>2. c \in Calls /\ c.op = call.op /\ c.tab = call.tab /\ c.todo = call.todo
      BY <1>1, <2>1 DEF Calls
    <2>3. Continue(c) /\ UNCHANGED <<doc, host, nextDoc>>
      BY <1>5 DEF CaptureUrl, pageVars
    <2> HIDE DEF c
    <2>4. ASSUME c.op = "secret" PROVE \E k \in 1 .. 8 : GoesOn(c, k)
      <3>1. PICK k \in 1 .. 8 : SecretAt(call, k) /\ "url" = SecretSteps[k]
        BY <1>5, <2>2, <2>4, SecretPlace DEF CaptureUrl
      <3>2. k = 7
        BY <3>1, SecretStepsAre
      <3>3. QED
        BY <2>2, <3>1, <3>2 DEF SecretAt, GoesOn
    <2>5. CallInv' /\ answer' \in [kind : Outcomes, tab : Tabs, ref : Refs \cup {None}]
      BY <2>1, <2>2, <2>3, <2>4, ContinueKeeps
    <2>6. QED
      BY <1>5, <2>5, KeepsCall DEF CaptureUrl
  <1>6. QED
    BY <1>3, <1>4, <1>5

LEMMA KeepsPage ==
    ASSUME PageInv,
           (\E t \in Tabs : PageChanges(t)) \/ \E d \in Docs : FrameNavigated(d)
    PROVE  PageInv'
  <1>1. ASSUME NEW t \in Tabs, PageChanges(t) PROVE PageInv'
    <2>1. PICK names \in PageNames : live' = [live EXCEPT ![t] = {doc[t]} \X names]
      BY <1>1 DEF PageChanges
    <2>2. names \subseteq {"button", "password", "frame"}
      BY DEF PageNames, FormNames
    <2>3. doc[t] \in Docs
      BY <1>1, PageConstants DEF PageChanges, PageInv, PagesInv, Docs
    <2>4. {doc[t]} \X names \in SUBSET Elements
      BY <2>2, <2>3, ElementsAre
    <2>5. live' \in [Tabs -> SUBSET Elements]
      BY <2>1, <2>4 DEF PageInv, PagesInv
    <2>6. \A u \in Tabs : \A e \in live'[u] : e[1] = doc[u]
      <3>1. \A u \in Tabs : u # t => live'[u] = live[u]
        BY <2>1 DEF PageInv, PagesInv
      <3>2. live'[t] = {doc[t]} \X names
        BY <2>1 DEF PageInv, PagesInv
      <3>3. QED
        BY <3>1, <3>2 DEF PageInv, PagesInv
    <2>7. PagesInv'
      BY <1>1, <2>5, <2>6 DEF PageChanges, PageInv, PagesInv
    <2>8. RefsInv' /\ LoadedInv'
      BY <1>1 DEF PageChanges, PageInv, RefsInv, OneRefEach, RefsNameOneTab, LoadedInv, refVars
    <2>9. CountsInv'
      BY <1>1 DEF PageChanges, PageInv, CountsInv, tabVars, refVars, ghostVars
    <2>10. CallInv' /\ WrittenInv'
      BY <1>1 DEF PageChanges, PageInv, CallInv, SecretAt, OnSite, NodeOf, TakesSecrets,
         WrittenInv, SecretInItsField, ghostVars
    <2>11. QED
      BY <2>7, <2>8, <2>9, <2>10 DEF PageInv
  <1>2. ASSUME NEW d \in Docs, FrameNavigated(d) PROVE PageInv'
    <2>1. PagesInv'
      BY <1>2 DEF FrameNavigated, PageInv, PagesInv
    <2>2. RefsInv' /\ LoadedInv'
      BY <1>2 DEF FrameNavigated, PageInv, RefsInv, OneRefEach, RefsNameOneTab, LoadedInv, refVars
    <2>3. CountsInv'
      <3>1. blocked' \in BOOLEAN
        BY <1>2, Zenon DEF FrameNavigated
      <3>2. QED
        BY <1>2, <3>1 DEF FrameNavigated, PageInv, CountsInv, tabVars, refVars, ghostVars
    <2>4. CallInv' /\ WrittenInv'
      BY <1>2 DEF FrameNavigated, PageInv, CallInv, SecretAt, OnSite, NodeOf, TakesSecrets,
         WrittenInv, SecretInItsField, ghostVars
    <2>5. QED
      BY <2>1, <2>2, <2>3, <2>4 DEF PageInv
  <1>3. QED
    BY <1>1, <1>2

----------------------------------------------------------------------------
(* A capture.                                                              *)

(* The nodes that come before a fresh one are fewer than the fresh ones,   *)
(* and two of them have different numbers of nodes before.                 *)
LEMMA Ranks ==
    ASSUME NEW N \in Nat, NEW S \in SUBSET (1 .. N)
    PROVE  /\ Cardinality(S) \in Nat
           /\ \A i \in S : Cardinality({j \in S : j < i}) \in Nat
                           /\ Cardinality({j \in S : j < i}) < Cardinality(S)
           /\ \A i, k \in S : i < k =>
                 Cardinality({j \in S : j < i}) < Cardinality({j \in S : j < k})
  <1> DEFINE Before(i) == {j \in S : j < i}
  <1>1. IsFiniteSet(S) /\ Cardinality(S) \in Nat
    <2>1. IsFiniteSet(1 .. N)
      BY FS_Interval
    <2>2. QED
      BY <2>1, FS_Subset, FS_CardinalityType
  <1>2. \A i \in S : IsFiniteSet(Before(i)) /\ Cardinality(Before(i)) \in Nat
                     /\ Cardinality(Before(i)) < Cardinality(S)
    <2> SUFFICES ASSUME NEW i \in S
                 PROVE  IsFiniteSet(Before(i)) /\ Cardinality(Before(i)) \in Nat
                        /\ Cardinality(Before(i)) < Cardinality(S)
      OBVIOUS
    <2>1. Before(i) \in SUBSET S /\ Before(i) # S
      OBVIOUS
    <2>2. IsFiniteSet(Before(i)) /\ Cardinality(Before(i)) <= Cardinality(S)
          /\ (Cardinality(Before(i)) = Cardinality(S) => S = Before(i))
      BY <1>1, <2>1, FS_Subset
    <2>3. Cardinality(Before(i)) \in Nat
      BY <2>2, FS_CardinalityType
    <2>4. QED
      BY <1>1, <2>1, <2>2, <2>3
  <1>3. ASSUME NEW i \in S, NEW k \in S, i < k
        PROVE  Cardinality(Before(i)) < Cardinality(Before(k))
    <2>1. i \in Before(k) /\ i \notin Before(i)
      BY <1>3
    <2>2. \A x \in S : x < i => x < k
      BY <1>3
    <2>3. Before(i) \in SUBSET Before(k)
      BY <2>2
    <2>4. Cardinality(Before(i)) <= Cardinality(Before(k))
          /\ (Cardinality(Before(i)) = Cardinality(Before(k)) => Before(k) = Before(i))
      BY <1>2, <2>3, FS_Subset
    <2>5. QED
      BY <1>2, <2>1, <2>4
  <1>4. QED
    BY <1>1, <1>2, <1>3

LEMMA NamesAre ==
    /\ DOMAIN Names = {1, 2, 3} /\ Names[1] = "button" /\ Names[2] = "password"
    /\ Names[3] = "frame"
  BY DEF Names

(* Refs B for the document of a tab, n of them new and the others of the   *)
(* capture before, one for each node.                                      *)
NamesOnce(t, B, n, previous) ==
    /\ n \in Nat
    /\ \A x \in B : /\ x \in Resolved /\ x = Resolve1(x.elem, x.ref)
                    /\ x.elem[1] = doc[t] /\ x.ref < nextRef + n
                    /\ x.ref >= nextRef \/ \E r \in previous : r.ref = x.ref
    /\ \A x, y \in B : x.ref = y.ref => x = y
    /\ \A x, y \in B : ~x.oopif /\ ~y.oopif /\ x.backend = y.backend => x = y
    /\ \A x \in B, r \in previous : x.elem = r.elem /\ ~r.oopif => x.ref = r.ref

(* What build_tree gives the nodes of a document that has a tab: their     *)
(* refs are new ones or those of the capture before, one for each node.    *)
LEMMA BuiltIs ==
    ASSUME PageInv, NEW t \in Tabs, doc[t] \in Docs,
           NEW nodes \in SUBSET (DOMAIN Names), NEW previous \in SUBSET latest[t],
           nextRef + Cardinality(Fresh(doc[t], nodes, previous)) <= MaxRefs
    PROVE  NamesOnce(t, Built(doc[t], nodes, previous),
                     Cardinality(Fresh(doc[t], nodes, previous)), previous)
  <1> DEFINE E(i) == <<doc[t], Names[i]>>
             new == Fresh(doc[t], nodes, previous)
             Old(i) == CHOOSE r \in Reusable(E(i), previous) : TRUE
             Ref(i) == IF i \in new THEN nextRef + Cardinality({j \in new : j < i})
                       ELSE Old(i).ref
             B == Built(doc[t], nodes, previous)
             n == Cardinality(new)
  <1>1. B = {Resolve1(E(i), Ref(i)) : i \in nodes}
    BY DEF Built
  <1>2. \A i \in nodes : i \in {1, 2, 3} /\ E(i) \in Elements /\ E(i)[1] = doc[t]
                         /\ E(i)[2] = Names[i]
    BY NamesAre, ElementsAre
  <1>3. \A i, k \in nodes : ~IsOopif(E(i)) /\ ~IsOopif(E(k)) /\ Backend(E(i)) = Backend(E(k))
            => i = k
    <2>1. \A i, k \in nodes : ~IsOopif(E(i)) /\ ~IsOopif(E(k)) /\ Backend(E(i)) = Backend(E(k))
              => E(i) = E(k)
      BY <1>2, BackendIs
    <2>2. \A i, k \in nodes : Names[i] = Names[k] => i = k
      BY <1>2, NamesAre
    <2>3. QED
      BY <1>2, <2>1, <2>2
  <1>4. nextRef \in 0 .. MaxRefs
        /\ \A r \in latest[t] : /\ r.ref \in Refs /\ r.ref < nextRef /\ r.ref \in Int
                                /\ r.elem \in Elements /\ r = Resolve1(r.elem, r.ref)
    <2>1. /\ nextRef \in 0 .. MaxRefs /\ latest[t] \subseteq Resolved
          /\ \A r \in latest[t] : known[t][r.ref] # None /\ r = Resolve1(r.elem, r.ref)
          /\ \A i \in Refs : known[t][i] # None => i < nextRef
      BY DEF PageInv, RefsInv
    <2>2. \A r \in Resolved : r.ref \in Refs /\ r.ref \in Int /\ r.elem \in Elements
      BY DEF Resolved, Refs
    <2>3. QED
      BY <2>1, <2>2
  <1>5. new \subseteq {1, 2, 3} /\ new \subseteq nodes
    BY NamesAre DEF Fresh
  <1>6. /\ n \in Nat
        /\ \A i \in new : Cardinality({j \in new : j < i}) \in Nat
                          /\ Cardinality({j \in new : j < i}) < n
        /\ \A i, k \in new : i < k =>
              Cardinality({j \in new : j < i}) < Cardinality({j \in new : j < k})
    <2>1. 3 \in Nat /\ new \in SUBSET (1 .. 3)
      BY <1>5
    <2>2. QED
      BY <2>1, Ranks
  <1>7. \A i \in nodes : i \notin new =>
            Old(i) \in previous /\ ~Old(i).oopif /\ Old(i).backend = Backend(E(i))
            /\ ~IsOopif(E(i))
    <2> SUFFICES ASSUME NEW i \in nodes, i \notin new
                 PROVE  Old(i) \in previous /\ ~Old(i).oopif
                        /\ Old(i).backend = Backend(E(i)) /\ ~IsOopif(E(i))
      OBVIOUS
    <2>1. Reusable(E(i), previous) # {}
      BY DEF Fresh
    <2>2. Old(i) \in Reusable(E(i), previous)
      BY <2>1
    <2> HIDE DEF Old
    <2>3. QED
      BY <2>2 DEF Reusable
  <1>8. \A i \in nodes : i \in new => \A r \in previous :
            ~r.oopif => r.backend # Backend(E(i)) \/ IsOopif(E(i))
    BY DEF Fresh, Reusable
  <1>0. nextRef + n <= MaxRefs
    OBVIOUS
  <1> HIDE DEF new, Old, B, n
  <1>9. \A i \in nodes : i \in new =>
            Ref(i) \in Refs /\ Ref(i) >= nextRef /\ Ref(i) < nextRef + n
    BY <1>4, <1>6, <1>0, PageConstants DEF Refs
  <1>10. \A i \in nodes : i \notin new =>
            /\ Ref(i) = Old(i).ref /\ Ref(i) \in Refs /\ Ref(i) < nextRef
            /\ Ref(i) < nextRef + n
    <2> SUFFICES ASSUME NEW i \in nodes, i \notin new
                 PROVE  /\ Ref(i) = Old(i).ref /\ Ref(i) \in Refs /\ Ref(i) < nextRef
                        /\ Ref(i) < nextRef + n
      OBVIOUS
    <2>1. Old(i) \in latest[t] /\ Ref(i) = Old(i).ref
      BY <1>7
    <2>2. QED
      BY <1>4, <1>6, <2>1
  <1>11. \A i, k \in nodes : Ref(i) = Ref(k) => i = k
    <2> SUFFICES ASSUME NEW i \in nodes, NEW k \in nodes, Ref(i) = Ref(k) PROVE i = k
      OBVIOUS
    <2>1. CASE i \in new /\ k \in new
      <3>1. i \in {1, 2, 3} /\ k \in {1, 2, 3}
        BY <1>5, <2>1
      <3>2. Cardinality({j \in new : j < i}) = Cardinality({j \in new : j < k})
        BY <1>4, <1>6, <2>1
      <3>3. ASSUME NEW a \in new, NEW b \in new, a < b,
                   Cardinality({j \in new : j < a}) = Cardinality({j \in new : j < b})
            PROVE  FALSE
        <4>1. Cardinality({j \in new : j < a}) \in Nat
              /\ Cardinality({j \in new : j < a}) < Cardinality({j \in new : j < b})
          BY <1>6, <3>3
        <4>2. QED
          BY <3>3, <4>1
      <3>4. QED
        BY <2>1, <3>1, <3>2, <3>3
    <2>2. CASE i \notin new /\ k \notin new
      <3>1. Old(i) \in latest[t] /\ Old(k) \in latest[t] /\ Old(i).ref = Old(k).ref
        BY <1>7, <1>10, <2>2
      <3>2. Old(i) = Old(k)
        BY <3>1 DEF PageInv, RefsInv, RefsNameOneTab
      <3>3. QED
        BY <1>3, <1>7, <2>2, <3>2
    <2>3. CASE (i \in new /\ k \notin new) \/ (i \notin new /\ k \in new)
      <3>1. nextRef \in Int /\ Ref(i) \in Int /\ Ref(k) \in Int
        BY <1>4, <1>9, <1>10 DEF Refs
      <3>2. QED
        BY <1>9, <1>10, <2>3, <3>1
    <2>4. QED
      BY <2>1, <2>2, <2>3
  <1>12. \A i \in nodes : Ref(i) \in Refs /\ Ref(i) < nextRef + n
    BY <1>9, <1>10
  <1>13. \A i \in nodes : Ref(i) >= nextRef \/ \E r \in previous : r.ref = Ref(i)
    BY <1>7, <1>9, <1>10
  <1>14. \A i \in nodes, r \in previous : E(i) = r.elem /\ ~r.oopif => Ref(i) = r.ref
    <2> SUFFICES ASSUME NEW i \in nodes, NEW r \in previous, E(i) = r.elem, ~r.oopif
                 PROVE  Ref(i) = r.ref
      OBVIOUS
    <2>1. r \in latest[t] /\ r.elem \in Elements /\ r.ref \in Refs
          /\ r = Resolve1(r.elem, r.ref)
      BY <1>4
    <2>2. r.backend = Backend(E(i)) /\ r.oopif = IsOopif(E(i))
      BY <2>1, Resolve1Is
    <2>3. i \notin new
      BY <1>8, <2>2
    <2>4. Old(i) \in latest[t] /\ ~Old(i).oopif /\ Old(i).backend = r.backend
      BY <1>7, <2>2, <2>3
    <2>5. Old(i) = r
      BY <2>1, <2>4 DEF PageInv, RefsInv, OneRefEach
    <2>6. QED
      BY <1>10, <2>3, <2>5
  <1> HIDE DEF E, Ref
  <1>15. \A i \in nodes :
            LET x == Resolve1(E(i), Ref(i)) IN
            /\ x \in Resolved /\ x.elem = E(i) /\ x.ref = Ref(i)
            /\ x.oopif = IsOopif(E(i)) /\ x.backend = Backend(E(i))
    BY <1>2, <1>12, Resolve1Is
  <1>16. QED
    <2>1. \A x \in B : \E i \in nodes :
              /\ x = Resolve1(E(i), Ref(i)) /\ x \in Resolved /\ x.elem = E(i)
              /\ x.ref = Ref(i) /\ x.oopif = IsOopif(E(i)) /\ x.backend = Backend(E(i))
      BY <1>1, <1>15
    <2>2. \A x \in B : /\ x \in Resolved /\ x = Resolve1(x.elem, x.ref)
                       /\ x.elem[1] = doc[t] /\ x.ref < nextRef + n
                       /\ x.ref >= nextRef \/ \E r \in previous : r.ref = x.ref
      BY <1>2, <1>12, <1>13, <2>1
    <2>3. \A x, y \in B : x.ref = y.ref => x = y
      BY <1>11, <2>1
    <2>4. \A x, y \in B : ~x.oopif /\ ~y.oopif /\ x.backend = y.backend => x = y
      BY <1>3, <2>1
    <2>5. \A x \in B, r \in previous : x.elem = r.elem /\ ~r.oopif => x.ref = r.ref
      BY <1>14, <2>1
    <2>6. QED
      BY <1>6, <2>2, <2>3, <2>4, <2>5 DEF NamesOnce, B, n, new

(* A capture of the call's tab, and the refs it installs.                  *)
LEMMA CaptureIs ==
    ASSUME PageInv, CaptureTree
    PROVE  \E B \in SUBSET Resolved, n \in Nat :
              /\ nextRef + n <= MaxRefs /\ Install(call.tab, call.url, B, n)
              /\ NamesOnce(call.tab, B, n, Previous(call.tab))
  <1> DEFINE t == call.tab
             p == Previous(t)
  <1>1. PICK frames \in BOOLEAN :
            LET nodes == Captured(t, frames)
                fresh == Cardinality(Fresh(doc[t], nodes, p))
            IN  /\ nextRef + fresh <= MaxRefs
                /\ Install(t, call.url, Built(doc[t], nodes, p), fresh)
    BY DEF CaptureTree
  <1> DEFINE nodes == Captured(t, frames)
             B == Built(doc[t], nodes, p)
             n == Cardinality(Fresh(doc[t], nodes, p))
  <1>2. t \in Tabs /\ p \in SUBSET latest[t] /\ nodes \in SUBSET (DOMAIN Names)
    BY TabIs DEF Previous, Captured
  <1>3. CASE doc[t] \in Docs
    <2>1. nextRef + n <= MaxRefs /\ Install(t, call.url, B, n)
      BY <1>1
    <2>0. B = Built(doc[t], nodes, p) /\ n = Cardinality(Fresh(doc[t], nodes, p))
      OBVIOUS
    <2> HIDE DEF t, p, nodes, B, n
    <2>2. NamesOnce(t, B, n, p)
      BY <1>2, <1>3, <2>0, <2>1, BuiltIs
    <2>3. B \in SUBSET Resolved /\ n \in Nat
      BY <2>2 DEF NamesOnce
    <2>4. QED
      BY <2>1, <2>2, <2>3 DEF t, p
  <1>4. CASE doc[t] \notin Docs
    <2>1. \A i \in DOMAIN Names : <<doc[t], Names[i]>> \notin live[t]
      BY <1>2, <1>4, ElementsAre DEF PageInv, PagesInv
    <2>2. nodes = {}
      BY <2>1 DEF Captured
    <2>3. Fresh(doc[t], nodes, p) = {} /\ B = {}
      BY <2>2 DEF Fresh, Built
    <2>4. n = 0
      BY <2>3, FS_EmptySet
    <2>5. nextRef + 0 <= MaxRefs /\ Install(t, call.url, {}, 0)
      BY <1>1, <2>3, <2>4
    <2>6. {} \in SUBSET Resolved /\ 0 \in Nat /\ NamesOnce(t, {}, 0, p)
      BY DEF NamesOnce
    <2>7. QED
      BY <2>5, <2>6
  <1>5. QED
    BY <1>3, <1>4

LEMMA KeepsCaptureTree == ASSUME PageInv, CaptureTree PROVE PageInv'
  <1> DEFINE t == call.tab
  <1>0. PICK B \in SUBSET Resolved, n \in Nat :
              /\ nextRef + n <= MaxRefs /\ Install(t, call.url, B, n)
              /\ NamesOnce(t, B, n, Previous(t))
    BY CaptureIs
  <1>1. /\ nextRef + n <= MaxRefs /\ Install(t, call.url, B, n)
        /\ \A x \in B : /\ x = Resolve1(x.elem, x.ref)
                        /\ x.elem[1] = doc[t] /\ x.ref < nextRef + n
                        /\ x.ref >= nextRef \/ \E r \in Previous(t) : r.ref = x.ref
        /\ \A x, y \in B : x.ref = y.ref => x = y
        /\ \A x, y \in B : ~x.oopif /\ ~y.oopif /\ x.backend = y.backend => x = y
    BY <1>0 DEF NamesOnce
  <1>2. t \in Tabs /\ call.url \in 0 .. MaxDocs /\ Previous(t) \subseteq latest[t]
    BY TabIs DEF Calls, Previous
  <1>3. nextRef \in 0 .. MaxRefs /\ gen[t] \in Nat /\ gen[t] # None
        /\ \A r \in Refs : r \in Int
    BY <1>2 DEF PageInv, RefsInv, None, Refs
  <1> HIDE DEF t
  <1>4. /\ latest' = [latest EXCEPT ![t] = B] /\ nextRef' = nextRef + n
        /\ latestUrl' = [latestUrl EXCEPT ![t] = call.url] /\ gen' = gen
        /\ known' = [known EXCEPT ![t] = [r \in Refs |->
                        IF known[t][r] = None /\ (\E x \in B : x.ref = r)
                        THEN gen[t] ELSE known[t][r]]]
    BY <1>1, <1>2 DEF Install
  <1>5. /\ latest'[t] = B /\ \A u \in Tabs : u # t => latest'[u] = latest[u]
        /\ \A u \in Tabs, r \in Refs :
              known'[u][r] = IF u = t /\ known[u][r] = None /\ (\E x \in B : x.ref = r)
                             THEN gen[t] ELSE known[u][r]
    <2>1. /\ latest'[t] = B /\ \A u \in Tabs : u # t => latest'[u] = latest[u]
      BY <1>2, <1>4 DEF PageInv, RefsInv
    <2>2. \A u \in Tabs : known'[u] = IF u = t THEN [r \in Refs |->
                        IF known[t][r] = None /\ (\E x \in B : x.ref = r)
                        THEN gen[t] ELSE known[t][r]] ELSE known[u]
      BY <1>2, <1>4 DEF PageInv, RefsInv
    <2>3. ASSUME NEW u \in Tabs, NEW r \in Refs
          PROVE  known'[u][r] = IF u = t /\ known[u][r] = None /\ (\E x \in B : x.ref = r)
                                THEN gen[t] ELSE known[u][r]
      <3>1. CASE u = t
        BY <2>2, <3>1
      <3>2. CASE u # t
        BY <2>2, <3>2
      <3>3. QED
        BY <3>1, <3>2
    <2>4. QED
      BY <2>1, <2>3
  <1>6. \A x \in B : x.ref \in Refs /\ x.ref \in Int
    BY <1>1, <1>3 DEF Resolved
  (* A ref that this capture makes known was known to no tab.              *)
  <1>7. \A r \in Refs : known[t][r] = None /\ (\E x \in B : x.ref = r) =>
            r >= nextRef /\ r < nextRef + n /\ \A u \in Tabs : known[u][r] = None
    <2> SUFFICES ASSUME NEW x \in B, known[t][x.ref] = None
                 PROVE  x.ref >= nextRef /\ x.ref < nextRef + n
                        /\ \A u \in Tabs : known[u][x.ref] = None
      BY <1>6
    <2>1. \A r \in latest[t] : known[t][r.ref] # None
      BY <1>2 DEF PageInv, RefsInv
    <2>2. x.ref >= nextRef /\ x.ref < nextRef + n
      BY <1>1, <1>2, <2>1
    <2>3. \A u \in Tabs : known[u][x.ref] # None => x.ref < nextRef
      BY <1>6 DEF PageInv, RefsInv
    <2>4. QED
      BY <1>3, <1>6, <2>2, <2>3
  <1>8. RefsInv'
    <2>1. latest' \in [Tabs -> SUBSET Resolved] /\ gen' \in [Tabs -> Nat]
          /\ latestUrl' \in [Tabs -> 0 .. MaxDocs] /\ nextRef' \in 0 .. MaxRefs
      BY <1>1, <1>2, <1>3, <1>4, PageConstants DEF PageInv, RefsInv
    <2>2. known' \in [Tabs -> [Refs -> Nat \cup {None}]]
      <3>1. [r \in Refs |-> IF known[t][r] = None /\ (\E x \in B : x.ref = r)
                            THEN gen[t] ELSE known[t][r]] \in [Refs -> Nat \cup {None}]
        BY <1>2, <1>3 DEF PageInv, RefsInv
      <3>2. QED
        BY <1>4, <3>1 DEF PageInv, RefsInv
    <2>3. \A u \in Tabs : \A x \in latest'[u] :
             known'[u][x.ref] # None /\ x = Resolve1(x.elem, x.ref)
      <3>1. \A x \in latest'[t] : known'[t][x.ref] # None /\ x = Resolve1(x.elem, x.ref)
        BY <1>1, <1>2, <1>3, <1>5, <1>6
      <3>2. ASSUME NEW u \in Tabs, u # t, NEW x \in latest'[u]
            PROVE  known'[u][x.ref] # None /\ x = Resolve1(x.elem, x.ref)
        <4>1. x \in latest[u] /\ x.ref \in Refs
          BY <1>5, <3>2 DEF PageInv, RefsInv, Resolved
        <4>2. QED
          BY <1>5, <3>2, <4>1 DEF PageInv, RefsInv
      <3>3. QED
        BY <3>1, <3>2
    <2>4. \A u \in Tabs, r \in Refs : known'[u][r] # None => r < nextRef'
      <3>1. \A u \in Tabs, r \in Refs : known[u][r] # None => r < nextRef
        BY DEF PageInv, RefsInv
      <3>2. \A u \in Tabs, r \in Refs : known'[u][r] # None => r < nextRef \/ r < nextRef + n
        BY <1>5, <1>7, <3>1
      <3>3. QED
        BY <1>3, <1>4, <3>2
    <2>5. RefsNameOneTab'
      <3>1. \A u, v \in Tabs, r \in Refs :
                u # v /\ known'[u][r] # None => known'[v][r] = None
        BY <1>2, <1>5, <1>7 DEF PageInv, RefsInv, RefsNameOneTab
      <3>2. \A u \in Tabs : \A x, y \in latest'[u] : x.ref = y.ref => x = y
        BY <1>1, <1>5 DEF PageInv, RefsInv, RefsNameOneTab
      <3>3. QED
        BY <3>1, <3>2 DEF RefsNameOneTab
    <2>6. OneRefEach'
      BY <1>1, <1>5 DEF PageInv, RefsInv, OneRefEach
    <2>7. QED
      BY <2>1, <2>2, <2>3, <2>4, <2>5, <2>6 DEF RefsInv
  <1>9. LoadedInv'
    BY <1>1, <1>2, <1>5 DEF CaptureTree, PageInv, PagesInv, LoadedInv, pageVars
  <1>10. CallInv' /\ answer' \in [kind : Outcomes, tab : Tabs, ref : Refs \cup {None}]
    BY SameGoesOn DEF CaptureTree, pageVars
  <1>11. CountsInv'
    <2>1. issued' \in [Refs -> [landed : Nat, tried : Nat]]
      <3>1. landed[t] \in Nat /\ tried[t] \in Nat
        BY <1>2 DEF PageInv, CountsInv
      <3>2. issued' = [r \in Refs |->
                   IF r >= nextRef /\ (\E x \in B : x.ref = r)
                   THEN [landed |-> landed[t], tried |-> tried[t]] ELSE issued[r]]
        BY <1>1 DEF Install
      <3>3. QED
        BY <3>1, <3>2 DEF PageInv, CountsInv
    <2>2. QED
      BY <1>10, <2>1 DEF CaptureTree, PageInv, CountsInv, tabVars, ghostVars
  <1>12. PagesInv' /\ WrittenInv'
    BY DEF CaptureTree, PageInv, PagesInv, WrittenInv, SecretInItsField, pageVars, ghostVars
  <1>13. QED
    BY <1>8, <1>9, <1>10, <1>11, <1>12 DEF PageInv

----------------------------------------------------------------------------
(* The specification.                                                      *)

LEMMA PageNext == ASSUME PageInv, [Next]_vars PROVE PageInv'
  <1>1. CASE UNCHANGED vars
    <2>1. CallInv'
      BY <1>1 DEF vars, pageVars, PageInv, CallInv, SecretAt, OnSite, NodeOf, TakesSecrets
    <2>2. CountsInv'
      BY <1>1 DEF vars, tabVars, refVars, ghostVars, PageInv, CountsInv
    <2>3. QED
      BY <1>1, <2>1, <2>2, RestKeeps DEF vars, ghostVars
  <1>2. CASE Next
    BY <1>2, KeepsBegin, KeepsResolveRef, KeepsChecks, KeepsWrite, KeepsCommits, KeepsGoto,
       KeepsCaptureTree, KeepsPage DEF Next
  <1>3. QED
    BY <1>1, <1>2

LEMMA PageAlways == Spec => []PageInv
  BY InitPage, PageNext, PTL DEF Spec

(* Only a capture changes the refs of a tab.                               *)
LEMMA OnlyCaptures == [Next]_vars => CaptureTree \/ latest' = latest
  BY DEF Next, vars, refVars, Refused, Navigate, RefCall, PlainCall, TabNew, TabSelect,
     PageNavigates, PageChanges, ResolveRef, RejectRef, Vault, Verify, Accepts, Write,
     GotoCommits, GotoReturns, GotoBlocked, GotoFails, Grace, CaptureUrl, CallFails,
     Timeout, FrameNavigated

LEMMA CaptureInstalls ==
    ASSUME PageInv, CaptureTree
    PROVE  /\ call.tab \in Tabs
           /\ \A u \in Tabs : u # call.tab => latest'[u] = latest[u]
           /\ \A x \in latest'[call.tab] : x.ref \in Refs /\
                 (x.ref >= nextRef \/ \E r \in Previous(call.tab) : r.ref = x.ref)
           /\ \A x \in latest'[call.tab], r \in Previous(call.tab) :
                 x.elem = r.elem /\ ~r.oopif => x.ref = r.ref
  <1> DEFINE t == call.tab
  <1>0. PICK B \in SUBSET Resolved, n \in Nat :
              Install(t, call.url, B, n) /\ NamesOnce(t, B, n, Previous(t))
    BY CaptureIs
  <1>1. /\ Install(t, call.url, B, n)
        /\ \A x \in B : x.ref >= nextRef \/ \E r \in Previous(t) : r.ref = x.ref
        /\ \A x \in B, r \in Previous(t) : x.elem = r.elem /\ ~r.oopif => x.ref = r.ref
    BY <1>0 DEF NamesOnce
  <1>2. t \in Tabs /\ DOMAIN latest = Tabs
    BY TabIs DEF PageInv, RefsInv
  <1>3. latest' = [latest EXCEPT ![t] = B]
    BY <1>1 DEF Install
  <1>4. latest'[t] = B /\ \A u \in Tabs : u # t => latest'[u] = latest[u]
    BY <1>2, <1>3
  <1>5. \A x \in B : x.ref \in Refs
    BY DEF Resolved
  <1>6. QED
    BY <1>1, <1>2, <1>4, <1>5

(* Every variable keeps its type.                                          *)
THEOREM TypeCorrect == Spec => []TypeOK
  <1>1. PageInv => TypeOK
    BY DEF PageInv, PagesInv, RefsInv, CountsInv, CallInv, WrittenInv, TypeOK
  <1>2. QED
    BY <1>1, PageAlways, PTL

(* A ref kept from one tab is never taken for an element of another, and a *)
(* snapshot gives no ref twice, with any tabs, documents and captures.     *)
THEOREM RefsAreOfOneTab == Spec => []RefsNameOneTab
  <1>1. PageInv => RefsNameOneTab
    BY DEF PageInv, RefsInv
  <1>2. QED
    BY <1>1, PageAlways, PTL

(* The refs that a navigation hands out were known to no tab before.       *)
THEOREM NavigationsNameAnew == Spec => FreshAfterNavigate
  <1>1. ASSUME PageInv, [Next]_vars
        PROVE  \A t \in Tabs :
                  call.op \in {"navigate", "tabNew"} /\ latest'[t] # latest[t] =>
                     \A x \in latest'[t], u \in Tabs : known[u][x.ref] = None
    <2> SUFFICES ASSUME NEW t \in Tabs, call.op \in {"navigate", "tabNew"},
                        latest'[t] # latest[t], NEW x \in latest'[t], NEW u \in Tabs
                 PROVE  known[u][x.ref] = None
      OBVIOUS
    <2>1. CaptureTree
      BY <1>1, OnlyCaptures
    <2>2. t = call.tab /\ Previous(call.tab) = {}
      BY <1>1, <2>1, CaptureInstalls DEF Previous
    <2>3. x.ref \in Refs /\ x.ref >= nextRef
      BY <1>1, <2>1, <2>2, CaptureInstalls
    <2>4. known[u][x.ref] # None => x.ref < nextRef
      BY <1>1, <2>3 DEF PageInv, RefsInv
    <2>5. nextRef \in Int /\ x.ref \in Int
      BY <1>1, <2>3 DEF PageInv, RefsInv, Refs
    <2>6. QED
      BY <2>3, <2>4, <2>5
  <1>2. QED
    BY <1>1, PageAlways, PTL DEF Spec, FreshAfterNavigate

(* A click, a read or a snapshot does not rename the elements it finds     *)
(* again, whatever it was that they were found among.                      *)
THEOREM RefsAreStable == Spec => StableRefs
  <1>1. ASSUME PageInv, [Next]_vars
        PROVE  \A t \in Tabs :
                  call.op \notin {"navigate", "tabNew"} =>
                     \A x \in latest[t], y \in latest'[t] :
                        x.elem = y.elem /\ ~x.oopif => x.ref = y.ref
    <2> SUFFICES ASSUME NEW t \in Tabs, call.op \notin {"navigate", "tabNew"},
                        NEW x \in latest[t], NEW y \in latest'[t], x.elem = y.elem, ~x.oopif
                 PROVE  x.ref = y.ref
      OBVIOUS
    <2>1. CASE latest'[t] = latest[t]
      <3>1. \A z \in latest[t] : z.elem \in Elements /\ z.ref \in Refs
                                 /\ z = Resolve1(z.elem, z.ref)
        BY <1>1 DEF PageInv, RefsInv, Resolved
      <3>2. \A z \in latest[t] : z.oopif = IsOopif(z.elem) /\ z.backend = Backend(z.elem)
        BY <3>1, Resolve1Is
      <3>3. ~y.oopif /\ x.backend = y.backend
        BY <2>1, <3>2
      <3>4. x = y
        BY <1>1, <2>1, <3>3 DEF PageInv, RefsInv, OneRefEach
      <3>5. QED
        BY <3>4
    <2>2. CASE latest'[t] # latest[t]
      <3>1. CaptureTree
        BY <1>1, <2>2, OnlyCaptures
      <3>2. t = call.tab /\ Previous(call.tab) = latest[t]
        BY <1>1, <2>2, <3>1, CaptureInstalls DEF Previous
      <3>3. QED
        BY <1>1, <3>1, <3>2, CaptureInstalls
    <2>3. QED
      BY <2>1, <2>2
  <1>2. QED
    BY <1>1, PageAlways, PTL DEF Spec, StableRefs

(* Whatever ids Chrome gives and however the tab navigates while the vault *)
(* is asked, a secret is typed into a field that takes one on a page of    *)
(* its host, or where a later page uses the id of an earlier one's node.   *)
THEOREM SecretsGoToTheirFields == Spec => []SecretInItsField
  <1>1. PageInv => SecretInItsField
    BY DEF PageInv, WrittenInv
  <1>2. QED
    BY <1>1, PageAlways, PTL

----------------------------------------------------------------------------
(* The hint in a refusal.  The generation of a tab is the number of its    *)
(* completed navigations, and the one that a ref is known by the number    *)
(* when it was handed out.  A navigation that completes after a ref was    *)
(* handed out was begun after that, as long as no capture is made between  *)
(* its beginning and its completion: a call that navigates captures last.  *)

NavPlaces == {NavigateSteps, <<"grace", "url", "tree">>, <<"url", "tree">>, <<"tree">>}

Going(t) == call.op = "navigate" /\ call.tab = t /\ call.todo = NavigateSteps

HintAt(t, r) ==
    known[t][r] # None =>
        /\ known[t][r] = issued[r].landed
        /\ issued[r].landed <= landed[t] /\ issued[r].tried <= tried[t]
        /\ landed[t] > issued[r].landed \/ Going(t) => tried[t] > issued[r].tried

HintInv ==
    /\ gen = landed
    /\ call.op = "navigate" => call.todo \in NavPlaces
    /\ \A t \in Tabs, r \in Refs : HintAt(t, r)
    /\ HintTruthful

LEMMA NavPlacesAre ==
    ASSUME NEW p \in NavPlaces
    PROVE  /\ Head(p) = "goto" <=> p = NavigateSteps
           /\ Len(p) # 1 => Tail(p) \in NavPlaces
           /\ Tail(p) # NavigateSteps
           /\ Head(p) = "tree" => Len(p) = 1
  <1>1. CASE p = NavigateSteps
    <2>1. Tail(p) = <<"grace", "url", "tree">> /\ Head(p) = "goto"
      BY <1>1 DEF NavigateSteps
    <2> QED BY <1>1, <2>1 DEF NavPlaces, NavigateSteps
  <1>2. CASE p = <<"grace", "url", "tree">>
    <2>1. Tail(p) = <<"url", "tree">> /\ Head(p) = "grace"
      BY <1>2
    <2> QED BY <1>2, <2>1 DEF NavPlaces, NavigateSteps
  <1>3. CASE p = <<"url", "tree">>
    <2>1. Tail(p) = <<"tree">> /\ Head(p) = "url"
      BY <1>3
    <2> QED BY <1>3, <2>1 DEF NavPlaces, NavigateSteps
  <1>4. CASE p = <<"tree">>
    <2>1. Tail(p) = <<>> /\ Head(p) = "tree" /\ Len(p) = 1
      BY <1>4
    <2> QED BY <1>4, <2>1 DEF NavPlaces, NavigateSteps
  <1> QED BY <1>1, <1>2, <1>3, <1>4 DEF NavPlaces

(* How a step moves the call: it goes on in its steps, or there is none,   *)
(* or one begins that does not navigate.                                   *)
CallMoves ==
    /\ call'.op = "navigate" => call.op = "navigate" /\ call'.todo \in NavPlaces
    /\ \A t \in Tabs : ~(call'.op = "navigate" /\ call'.tab = t /\ call'.todo = NavigateSteps)
                        \/ Going(t)

LEMMA ContinueMoves ==
    ASSUME HintInv, NEW c \in Calls, c.op = call.op, c.tab = call.tab,
           c.todo = call.todo, call.op # "none", Continue(c)
    PROVE  /\ CallMoves /\ (call' # NoCall \/ answer'.kind = "ok")
           /\ call.op = "navigate" => ~(call'.op = "navigate" /\ call'.todo = NavigateSteps)
           /\ call.op = "navigate" /\ Head(call.todo) = "tree" => call'.op # "navigate"
  <1>1. CASE Len(c.todo) = 1
    BY <1>1, NoCallIs DEF Continue, Answer, CallMoves
  <1>2. CASE Len(c.todo) # 1
    <2> DEFINE d == [c EXCEPT !.todo = Tail(@)]
    <2>1. call' = d
      BY <1>2 DEF Continue
    <2>2. d.op = call.op /\ d.tab = call.tab /\ d.todo = Tail(call.todo)
      BY DEF Calls
    <2> HIDE DEF d
    <2>3. ASSUME call.op = "navigate"
          PROVE  /\ d.todo \in NavPlaces /\ d.todo # NavigateSteps
                 /\ Head(call.todo) # "tree"
      BY <1>2, <2>2, <2>3, NavPlacesAre DEF HintInv
    <2>4. call' # NoCall
      BY <2>1, <2>2, NoCallIs
    <2> QED
      BY <2>1, <2>2, <2>3, <2>4 DEF CallMoves
  <1> QED BY <1>1, <1>2

LEMMA StartMoves ==
    ASSUME NEW op \in Ops \ {"navigate"}, NEW t, NEW ref, Start(op, t, ref)
    PROVE  CallMoves /\ call' # NoCall
  <1>1. call'.op = op
    BY DEF Start, NoCall
  <1> QED BY <1>1, NoCallIs DEF CallMoves, Ops, RefOps

(* What refs are known by does not change: only the hint given counts.     *)
LEMMA HintKeeps ==
    ASSUME HintInv, CallMoves, UNCHANGED <<refVars, landed, tried>>, HintTruthful'
    PROVE  HintInv'
  <1>1. \A t \in Tabs, r \in Refs : HintAt(t, r)'
    BY DEF HintInv, HintAt, CallMoves, Going, refVars
  <1> QED BY <1>1 DEF HintInv, CallMoves, refVars

(* A call that is still under way, or that ended in another way than by    *)
(* the refusal of a ref, has given no hint.                                *)
LEMMA NoHint ==
    ASSUME \/ call' # NoCall
           \/ answer'.kind \notin {"navigated", "unknown"}
    PROVE  HintTruthful'
  BY DEF HintTruthful

LEMMA AnswerMoves ==
    ASSUME NEW kind, Answer(kind)
    PROVE  CallMoves /\ answer'.kind = kind /\ call' = NoCall
           /\ answer' = [kind |-> kind, tab |-> call.tab, ref |-> call.ref]
  BY NoCallIs DEF Answer, CallMoves

(* The refusal of a ref: known by an earlier generation or by this one.    *)
LEMMA HintReject ==
    ASSUME PageInv, HintInv, RejectRef
    PROVE  HintInv'
  <1>1. UNCHANGED <<refVars, landed, tried>>
    BY DEF RejectRef, ghostVars
  <1>2. PICK kind : Answer(kind) /\ (kind \in {"navigated", "unknown"} =>
                                       kind = Rejection(call.tab, call.ref))
    BY DEF RejectRef, Rejection
  <1>3. /\ CallMoves
        /\ answer' = [kind |-> kind, tab |-> call.tab, ref |-> call.ref]
    BY <1>2, AnswerMoves
  <1> DEFINE t == call.tab
             r == call.ref
  <1>4. t \in Tabs /\ r \in Refs \cup {None} /\ gen = landed
        /\ (r # None => gen[t] \in Nat /\ known[t][r] \in Nat \cup {None})
    BY TabIs DEF Calls, PageInv, RefsInv, HintInv
  <1>5. HintTruthful'
    <2> SUFFICES ASSUME r # None, known[t][r] # None,
                        kind \in {"navigated", "unknown"}
                 PROVE  /\ kind = "navigated" => tried[t] > issued[r].tried
                        /\ kind = "unknown" => landed[t] = issued[r].landed
      BY <1>1, <1>3 DEF HintTruthful, refVars
    <2>1. r \in Refs /\ HintAt(t, r)
      BY <1>4 DEF HintInv
    <2>2. /\ known[t][r] = issued[r].landed /\ issued[r].landed <= gen[t]
          /\ landed[t] > issued[r].landed => tried[t] > issued[r].tried
      BY <1>4, <2>1 DEF HintAt
    <2>3. CASE known[t][r] < gen[t]
      <3>1. kind = "navigated"
        BY <1>2, <2>3 DEF Rejection
      <3> QED BY <1>4, <2>2, <2>3, <3>1
    <2>4. CASE ~(known[t][r] < gen[t])
      <3>1. kind = "unknown"
        BY <1>2, <2>4 DEF Rejection
      <3> QED BY <1>4, <2>2, <2>4, <3>1
    <2> QED BY <2>3, <2>4
  <1> QED BY <1>1, <1>3, <1>5, HintKeeps

LEMMA HintNavigate ==
    ASSUME PageInv, HintInv, Navigate
    PROVE  HintInv'
  <1>1. /\ call'.op = "navigate" /\ call'.tab = active /\ call'.todo = NavigateSteps
        /\ UNCHANGED <<refVars, landed>>
    BY DEF Navigate, Start, NoCall, StepsOf
  <1>2. HintTruthful'
    BY <1>1, NoCallIs, NoHint
  <1>3. active \in Tabs /\ \A t \in Tabs :
            tried[t] \in Nat /\ tried'[t] = IF t = active THEN tried[t] + 1 ELSE tried[t]
    BY DEF Navigate, PageInv, CountsInv
  <1>4. call = NoCall
    BY DEF Navigate, Start
  <1>5. ASSUME NEW t \in Tabs, NEW r \in Refs PROVE HintAt(t, r)'
    <2>1. HintAt(t, r) /\ issued[r].tried \in Nat
      BY DEF HintInv, PageInv, CountsInv
    <2>2. Going(t)' => t = active
      BY <1>1 DEF Going
    <2> QED BY <1>1, <1>3, <2>1, <2>2 DEF HintAt, refVars
  <1> QED BY <1>1, <1>2, <1>5 DEF HintInv, NavPlaces, refVars

(* goto ends: the navigation under way was begun after every ref.          *)
LEMMA HintGoto ==
    ASSUME PageInv, HintInv, GotoReturns \/ GotoBlocked
    PROVE  HintInv'
  <1> DEFINE t == call.tab
  <1>1. At("goto") /\ Settled /\ UNCHANGED <<latest, known, issued, tried>>
    BY DEF GotoReturns, GotoBlocked
  <1>2. t \in Tabs /\ call \in Calls /\ call.op # "none"
    BY <1>1, TabIs DEF At
  <1>3. CallMoves /\ HintTruthful'
        /\ (call.op = "navigate" => ~(call'.op = "navigate" /\ call'.todo = NavigateSteps))
    <2>1. CASE GotoReturns
      BY <1>2, <2>1, ContinueMoves, NoHint DEF GotoReturns
    <2>2. CASE GotoBlocked
      BY <2>2, AnswerMoves, NoHint, NoCallIs DEF GotoBlocked
    <2> QED BY <2>1, <2>2
  <1>4. CASE call.op # "navigate"
    <2>1. UNCHANGED <<gen, landed>>
      BY <1>1, <1>4 DEF Settled
    <2>2. \A u \in Tabs, r \in Refs : HintAt(u, r)'
      BY <1>1, <1>3, <1>4, <2>1 DEF HintInv, HintAt, Going, CallMoves
    <2> QED BY <1>3, <2>1, <2>2 DEF HintInv, CallMoves
  <1>5. CASE call.op = "navigate"
    <2>1. Going(t)
      BY <1>1, <1>5, NavPlacesAre DEF Going, HintInv, At
    <2>2. gen' = [gen EXCEPT ![t] = @ + 1] /\ landed' = [landed EXCEPT ![t] = @ + 1]
      BY <1>1, <1>5 DEF Settled
    <2>3. gen' = landed'
      BY <2>2 DEF HintInv
    <2>4. \A u \in Tabs : landed[u] \in Nat
                          /\ landed'[u] = IF u = t THEN landed[u] + 1 ELSE landed[u]
      BY <1>2, <2>2 DEF PageInv, CountsInv
    <2>5. ASSUME NEW u \in Tabs, NEW r \in Refs PROVE HintAt(u, r)'
      <3>1. HintAt(u, r) /\ ~Going(u)' /\ issued[r].landed \in Nat
        BY <1>3, <1>5 DEF HintInv, Going, PageInv, CountsInv
      <3> QED BY <1>1, <2>1, <2>4, <3>1 DEF HintAt
    <2> QED BY <1>3, <2>3, <2>5 DEF HintInv, CallMoves
  <1> QED BY <1>4, <1>5

(* A capture: new refs are known by the generation of their capture.       *)
LEMMA HintCapture ==
    ASSUME PageInv, HintInv, CaptureTree
    PROVE  HintInv'
  <1> DEFINE t == call.tab
  <1>1. t \in Tabs /\ call \in Calls /\ At("tree") /\ call.op # "none"
        /\ Continue(call) /\ UNCHANGED <<landed, tried>>
    BY TabIs DEF CaptureTree, At, ghostVars
  <1>2. CallMoves /\ HintTruthful' /\ \A u \in Tabs : ~Going(u)'
    BY <1>1, ContinueMoves, NoHint DEF At, Going, CallMoves
  <1>3. PICK B \in SUBSET Resolved, n \in Nat :
            Install(t, call.url, B, n) /\ NamesOnce(t, B, n, Previous(t))
    BY CaptureIs
  <1>4. \A x \in B : x.ref >= nextRef \/ \E q \in Previous(t) : q.ref = x.ref
    BY <1>3 DEF NamesOnce
  <1>5. Previous(t) \subseteq latest[t]
    BY DEF Previous
  <1> HIDE DEF t
  <1>6. \A u \in Tabs, r \in Refs :
            known'[u][r] = IF u = t /\ known[u][r] = None /\ (\E x \in B : x.ref = r)
                           THEN gen[t] ELSE known[u][r]
    <2>1. known' = [known EXCEPT ![t] = [r \in Refs |->
                        IF known[t][r] = None /\ (\E x \in B : x.ref = r)
                        THEN gen[t] ELSE known[t][r]]]
      BY <1>3 DEF Install
    <2>2. \A u \in Tabs : known'[u] = IF u = t THEN [r \in Refs |->
                        IF known[t][r] = None /\ (\E x \in B : x.ref = r)
                        THEN gen[t] ELSE known[t][r]] ELSE known[u]
      BY <1>1, <2>1 DEF PageInv, RefsInv
    <2>3. ASSUME NEW u \in Tabs, NEW r \in Refs
          PROVE  known'[u][r] = IF u = t /\ known[u][r] = None /\ (\E x \in B : x.ref = r)
                                THEN gen[t] ELSE known[u][r]
      <3>1. CASE u = t
        BY <2>2, <3>1
      <3>2. CASE u # t
        BY <2>2, <3>2
      <3> QED BY <3>1, <3>2
    <2> QED BY <2>3
  <1>7. /\ \A r \in Refs : issued'[r] =
               IF r >= nextRef /\ (\E x \in B : x.ref = r)
               THEN [landed |-> landed[t], tried |-> tried[t]] ELSE issued[r]
        /\ gen' = gen
    BY <1>3 DEF Install
  <1>8. ASSUME NEW u \in Tabs, NEW r \in Refs, known'[u][r] # None
        PROVE  /\ known'[u][r] = issued'[r].landed
               /\ issued'[r].landed <= landed[u] /\ issued'[r].tried <= tried[u]
               /\ landed[u] > issued'[r].landed => tried[u] > issued'[r].tried
    <2>1. r \in Int /\ nextRef \in Int /\ landed[u] \in Nat /\ tried[u] \in Nat
          /\ gen = landed
      BY DEF PageInv, RefsInv, CountsInv, Refs, HintInv
    <2>2. CASE known[u][r] # None
      <3>1. known'[u][r] = known[u][r]
        BY <1>6, <2>2
      <3>2. issued'[r] = issued[r]
        BY <1>7, <2>1, <2>2 DEF PageInv, RefsInv
      <3>3. HintAt(u, r)
        BY DEF HintInv
      <3> QED BY <2>2, <3>1, <3>2, <3>3 DEF HintAt
    <2>3. CASE known[u][r] = None
      <3>1. u = t /\ known'[u][r] = gen[t]
        BY <1>6, <1>8, <2>3
      <3>2. PICK x \in B : x.ref = r
        BY <1>6, <1>8, <2>3
      <3>3. \A q \in latest[t] : known[t][q.ref] # None
        BY <1>1 DEF PageInv, RefsInv
      <3>4. r >= nextRef
        BY <1>4, <1>5, <2>3, <3>1, <3>2, <3>3
      <3>5. issued'[r] = [landed |-> landed[t], tried |-> tried[t]]
        BY <1>7, <3>2, <3>4
      <3> QED BY <2>1, <3>1, <3>5
    <2> QED BY <2>2, <2>3
  <1>9. \A u \in Tabs, r \in Refs : HintAt(u, r)'
    BY <1>1, <1>2, <1>8 DEF HintAt
  <1> QED BY <1>1, <1>2, <1>7, <1>9 DEF HintInv, CallMoves

LEMMA HintStep == ASSUME PageInv, HintInv, [Next]_vars PROVE HintInv'
  <1> DEFINE Same == UNCHANGED <<refVars, landed, tried>>
  <1>1. CASE RejectRef \/ Navigate \/ GotoReturns \/ GotoBlocked \/ CaptureTree
    BY <1>1, HintReject, HintNavigate, HintGoto, HintCapture
  <1>2. CASE Refused
    <2>1. Same /\ CallMoves
      BY <1>2 DEF Refused, ghostVars, CallMoves, HintInv, Going
    <2>2. HintTruthful'
      BY <1>2, NoHint DEF Refused
    <2> QED BY <2>1, <2>2, HintKeeps
  <1>3. ASSUME NEW op \in Ops \ {"navigate"}, NEW t, NEW ref, Start(op, t, ref), Same
        PROVE  HintInv'
    BY <1>3, StartMoves, NoHint, HintKeeps
  <1>4. ASSUME NEW c \in Calls, c.op = call.op, c.tab = call.tab, c.todo = call.todo,
               call.op # "none", Continue(c), Same
        PROVE  HintInv'
    BY <1>4, ContinueMoves, NoHint, HintKeeps
  <1>5. ASSUME NEW kind, Answer(kind), kind \notin {"navigated", "unknown"}, Same
        PROVE  HintInv'
    BY <1>5, AnswerMoves, NoHint, HintKeeps
  <1>6. CASE UNCHANGED <<call, answer>> /\ Same
    <2>1. CallMoves /\ HintTruthful'
      BY <1>6 DEF CallMoves, HintInv, Going, HintTruthful, refVars
    <2> QED BY <1>6, <2>1, HintKeeps
  <1>7. CASE \/ \E op \in RefOps, r \in Refs : RefCall(op, r)
             \/ \E op \in {"blind", "snapshot"} : PlainCall(op)
             \/ \E t \in Tabs : TabNew(t) \/ TabSelect(t)
    BY <1>3, <1>7 DEF RefCall, PlainCall, TabNew, TabSelect, ghostVars, Ops, RefOps
  <1>8. CASE ResolveRef
    <2>1. PICK r \in latest[call.tab] :
             Continue([call EXCEPT !.node = r.backend, !.role = r.role, !.url = doc[call.tab]])
      BY <1>8 DEF ResolveRef
    <2>2. call \in Calls /\ call.op # "none" /\ Same /\ call.tab \in Tabs
      BY <1>8, TabIs DEF ResolveRef, At, ghostVars
    <2>3. r \in Resolved /\ doc[call.tab] \in 0 .. MaxDocs
      BY <2>2 DEF PageInv, RefsInv, PagesInv
    <2> DEFINE c == [call EXCEPT !.node = r.backend, !.role = r.role, !.url = doc[call.tab]]
    <2>4. c \in Calls /\ c.op = call.op /\ c.tab = call.tab /\ c.todo = call.todo
      BY <2>2, <2>3 DEF Calls, Resolved
    <2> QED BY <1>4, <2>1, <2>2, <2>4
  <1>9. CASE CaptureUrl
    <2>1. call \in Calls /\ call.op # "none" /\ Same /\ call.tab \in Tabs
      BY <1>9, TabIs DEF CaptureUrl, At, ghostVars
    <2> DEFINE c == [call EXCEPT !.url = doc[call.tab]]
    <2>2. c \in Calls /\ c.op = call.op /\ c.tab = call.tab /\ c.todo = call.todo
      BY <2>1 DEF Calls, PageInv, PagesInv
    <2> QED BY <1>4, <1>9, <2>1, <2>2 DEF CaptureUrl
  <1>10. CASE Vault \/ Verify \/ Accepts \/ Write \/ Grace
    <2>1. call \in Calls /\ call.op # "none" /\ Same
      BY <1>10, TabIs DEF Vault, Verify, Accepts, Write, Grace, At, ghostVars
    <2>2. Continue(call) \/ \E kind \in {"vault", "stale", "shape", "failed", "blocked"} : Answer(kind)
      BY <1>10 DEF Vault, Verify, Accepts, Write, Grace
    <2> QED BY <1>4, <1>5, <2>1, <2>2
  <1>11. CASE GotoFails \/ CallFails \/ Timeout
    BY <1>5, <1>11 DEF GotoFails, CallFails, Timeout, ghostVars
  <1>12. CASE \/ GotoCommits
              \/ \E t \in Tabs : PageNavigates(t) \/ PageChanges(t)
              \/ \E d \in Docs : FrameNavigated(d)
              \/ UNCHANGED vars
    BY <1>6, <1>12 DEF GotoCommits, PageNavigates, PageChanges, FrameNavigated,
                       ghostVars, vars
  <1> QED
    BY <1>1, <1>2, <1>7, <1>8, <1>9, <1>10, <1>11, <1>12 DEF Next

(* The hint in a refusal is true, whatever navigations failed, were        *)
(* blocked, timed out or were the page's own.                              *)
THEOREM HintsAreTrue == Spec => []HintTruthful
  <1>1. Init => HintInv
    <2> SUFFICES ASSUME Init PROVE HintInv
      OBVIOUS
    <2>1. \A t \in Tabs, r \in Refs : HintAt(t, r)
      BY NoCallIs DEF Init, HintAt, Going, None
    <2> QED BY <2>1, NoCallIs DEF Init, HintInv, HintTruthful, None
  <1>2. PageInv /\ HintInv /\ [Next]_vars => HintInv'
    BY HintStep
  <1>3. HintInv => HintTruthful
    BY DEF HintInv
  <1> QED
    BY InitPage, PageNext, <1>1, <1>2, <1>3, PTL DEF Spec
=============================================================================
