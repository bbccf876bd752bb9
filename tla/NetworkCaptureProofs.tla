------------------------ MODULE NetworkCaptureProofs ------------------------
(***************************************************************************)
(* Proofs about NetworkCapture for any requests, redirects, log size,      *)
(* yields and navigations: nothing recorded before a navigation comes back *)
(* after it, and no hop is finalised twice.                                *)
(*                                                                         *)
(* For the first, every partial and every start on its way is of the page  *)
(* navigated to, or was still on its way at the reset.  For the second, a  *)
(* request's hops arrive in order although the streams do not: the hop     *)
(* under way was not finalised yet, and those still to come are later.     *)
(***************************************************************************)
EXTENDS NetworkCapture, SequenceTheorems, TLAPS

(* The hop is of the page navigated to, or was told after the reset.       *)
Since(q, h) == q \in own \/ <<q, h>> \in late

Current ==
    \A q \in Requests :
        /\ Known(q) => Since(q, partial[q].hop)
        /\ \A h \in Hops : <<"request", q, h>> \in coming => Since(q, h)

OnceEach == \A x \in Requests \X Hops : logged[x] <= 1

(* The hop under way, the hops on their way, and those not sent yet.       *)
HopsInOrder ==
    \A q \in Requests :
        /\ partial[q].hop <= sent[q]
        /\ Known(q) => logged[<<q, partial[q].hop>>] = 0
        /\ \A h \in Hops : <<"request", q, h>> \in coming =>
              h <= sent[q] /\ partial[q].hop < h /\ logged[<<q, h>>] = 0
        /\ \A h \in Hops : sent[q] < h => logged[<<q, h>>] = 0

Bounded == Len(entries) <= MaxEntries /\ (truncated <=> dropped # {})

LogInv == EntriesSinceReset /\ Bounded /\ OnceEach
NetInv == TypeOK /\ Current /\ HopsInOrder /\ LogInv

----------------------------------------------------------------------------
(* What an entry, or the loss of one, does to the log.                     *)

LEMMA EmptyLog == <<>> \in Seq(Entry) /\ Len(<<>>) = 0
  OBVIOUS

LEMMA InitNet == Init => NetInv
  <1> SUFFICES ASSUME Init PROVE NetInv
    OBVIOUS
  <1> USE NetworkConstants DEF Init
  <1>1. TypeOK
    <2>1. Absent \in [hop : 0 .. MaxHops, seen : BOOLEAN]
      BY DEF Absent
    <2>2. [at |-> "none", yields |-> 0] \in [at : {"none", "waiting", "fetching"},
                                            yields : 0 .. MaxYields]
      OBVIOUS
    <2>3. /\ sent \in [Requests -> 0 .. MaxHops] /\ logged \in [Requests \X Hops -> Nat]
          /\ resets \in 0 .. MaxResets /\ committed \in BOOLEAN
          /\ own \subseteq Requests /\ late \subseteq Requests \X Hops
      OBVIOUS
    <2>4. /\ ended \subseteq Requests /\ answered \subseteq Requests
          /\ coming \subseteq ({"request", "response"} \cup Finals) \X Requests \X Hops
          /\ dropped \subseteq Requests \X Hops /\ truncated \in BOOLEAN
      OBVIOUS
    <2>5. entries \in Seq(Entry)
      BY EmptyLog
    <2>6. QED
      BY <2>1, <2>2, <2>3, <2>4, <2>5 DEF TypeOK
  <1>2. Current /\ HopsInOrder
    BY DEF Current, HopsInOrder, Known, Absent, Hops
  <1>3. LogInv
    BY DEF LogInv, EntriesSinceReset, Bounded, OnceEach
  <1>4. QED
    BY <1>1, <1>2, <1>3 DEF NetInv

LEMMA KnownTypes ==
    ASSUME NetInv, NEW q \in Requests
    PROVE  /\ partial[q] \in [hop : 0 .. MaxHops, seen : BOOLEAN]
           /\ sent[q] \in 0 .. MaxHops /\ partial[q].hop \in 0 .. MaxHops
           /\ Known(q) => partial[q].hop \in Hops /\ <<q, partial[q].hop>> \in Requests \X Hops
  BY NetworkConstants DEF NetInv, TypeOK, Known, Hops

(* What is known of one request's hops.                                    *)
HopsOf(q) ==
    /\ sent[q] \in Nat /\ partial[q].hop \in Nat
    /\ partial[q].hop <= sent[q] /\ sent[q] <= MaxHops
    /\ Known(q) => partial[q].hop \in Hops /\ logged[<<q, partial[q].hop>>] = 0
    /\ \A h \in Hops : h \in Nat /\ 1 <= h /\ h <= MaxHops
    /\ \A h \in Hops : <<"request", q, h>> \in coming => h <= sent[q]
    /\ \A h \in Hops : <<"request", q, h>> \in coming => partial[q].hop < h
    /\ \A h \in Hops : <<"request", q, h>> \in coming => logged[<<q, h>>] = 0
    /\ \A h \in Hops : sent[q] < h => logged[<<q, h>>] = 0

LEMMA HopFacts == ASSUME NetInv, NEW q \in Requests PROVE HopsOf(q)
  <1>1. HopsInOrder
    BY DEF NetInv
  <1>2. sent[q] \in 0 .. MaxHops /\ partial[q].hop \in 0 .. MaxHops
        /\ (Known(q) => partial[q].hop \in Hops)
    BY KnownTypes
  <1>3. sent[q] \in Nat /\ partial[q].hop \in Nat /\ sent[q] <= MaxHops
        /\ \A h \in Hops : h \in Nat /\ 1 <= h /\ h <= MaxHops
    BY <1>2, NetworkConstants DEF Hops
  <1>4. QED
    BY <1>1, <1>2, <1>3, Zenon DEF HopsInOrder, HopsOf

(* The part of the types that concerns what was logged.                    *)
LogTypes ==
    /\ entries \in Seq(Entry) /\ truncated \in BOOLEAN
    /\ dropped \subseteq Requests \X Hops
    /\ logged \in [Requests \X Hops -> Nat]

LEMMA PushLogs ==
    ASSUME NetInv, NEW q \in Requests, NEW body \in BOOLEAN, Known(q),
           Push(q, body), UNCHANGED pageVars
    PROVE  /\ LogTypes' /\ LogInv'
           /\ \A x \in Requests \X Hops :
                 logged'[x] = IF x = <<q, partial[q].hop>> THEN 1 ELSE logged[x]
  <1> DEFINE p == partial[q]
             e == [id |-> q, hop |-> p.hop, body |-> body /\ q \notin Binary]
  <1>1. <<q, p.hop>> \in Requests \X Hops /\ p.hop \in Hops
        /\ logged[<<q, p.hop>>] = 0 /\ Since(q, p.hop)
    BY KnownTypes DEF NetInv, HopsInOrder, Current
  <1>2. e \in Entry
    <2>1. (body /\ q \notin Binary) \in BOOLEAN
      OBVIOUS
    <2>2. QED
      BY <1>1, <2>1 DEF Entry
  <1>3. /\ logged' \in [Requests \X Hops -> Nat]
        /\ \A x \in Requests \X Hops :
              logged'[x] = IF x = <<q, p.hop>> THEN 1 ELSE logged[x]
    BY <1>1 DEF Push, NetInv, TypeOK
  <1>4. OnceEach'
    BY <1>3 DEF NetInv, LogInv, OnceEach
  <1>5. entries \in Seq(Entry) /\ Len(entries) \in Nat
    BY DEF NetInv, TypeOK
  <1>6. CASE Len(entries) >= MaxEntries
    <2>1. truncated' = TRUE /\ dropped' = dropped \cup {<<q, p.hop>>} /\ entries' = entries
      BY <1>6 DEF Push
    <2>2. LogTypes'
      BY <1>1, <1>3, <2>1 DEF LogTypes, NetInv, TypeOK
    <2>3. EntriesSinceReset' /\ Bounded'
      BY <2>1 DEF NetInv, LogInv, EntriesSinceReset, Bounded, pageVars
    <2>4. QED
      BY <1>3, <1>4, <2>2, <2>3 DEF LogInv
  <1>7. CASE ~(Len(entries) >= MaxEntries)
    <2>1. truncated' = truncated /\ dropped' = dropped /\ entries' = Append(entries, e)
      BY <1>7 DEF Push
    <2>2. /\ entries' \in Seq(Entry) /\ Len(entries') = Len(entries) + 1
          /\ \A i \in 1 .. Len(entries') :
                entries'[i] = IF i = Len(entries) + 1 THEN e ELSE entries[i]
      BY <1>2, <1>5, <2>1, AppendProperties
    <2>3. LogTypes'
      BY <1>3, <2>1, <2>2 DEF LogTypes, NetInv, TypeOK
    <2>4. EntriesSinceReset'
      <3>1. \A i \in 1 .. Len(entries) : Since(entries[i].id, entries[i].hop)
        BY DEF NetInv, LogInv, EntriesSinceReset, Since
      <3>2. e.id = q /\ e.hop = p.hop
        OBVIOUS
      <3>3. ASSUME NEW i \in 1 .. Len(entries')
            PROVE  Since(entries'[i].id, entries'[i].hop)
        BY <1>1, <1>5, <2>2, <3>1, <3>2
      <3>4. QED
        BY <3>3 DEF EntriesSinceReset, Since, pageVars
    <2>5. Bounded'
      BY <1>5, <1>7, <2>1, <2>2, NetworkConstants DEF NetInv, LogInv, Bounded
    <2>6. QED
      BY <1>3, <1>4, <2>3, <2>4, <2>5 DEF LogInv
  <1>8. QED
    BY <1>6, <1>7

(* A request is finalised, if it is known, while nothing is sent and the   *)
(* hops on their way are the same or fewer.                                *)
LEMMA KeepsFinalise ==
    ASSUME NetInv, NEW q \in Requests, NEW body \in BOOLEAN, Finalise(q, body),
           coming' \subseteq coming, UNCHANGED <<sent, ended, answered, pageVars>>,
           handler' \in [Requests -> [at : {"none", "waiting", "fetching"},
                                      yields : 0 .. MaxYields]]
    PROVE  NetInv'
  <1>1. CASE ~Known(q)
    <2>1. UNCHANGED <<partial, entries, truncated, dropped, logged>>
      BY <1>1 DEF Finalise
    <2>2. TypeOK'
      BY <2>1 DEF NetInv, TypeOK, pageVars
    <2>3. Current' /\ HopsInOrder' /\ LogInv'
      BY <2>1 DEF NetInv, Current, HopsInOrder, LogInv, Known, EntriesSinceReset,
         Bounded, OnceEach, Since, pageVars
    <2>4. QED
      BY <2>2, <2>3 DEF NetInv
  <1>2. CASE Known(q)
    <2>1. Push(q, body) /\ partial' = [partial EXCEPT ![q] = Absent]
      BY <1>2 DEF Finalise
    <2>2. /\ LogTypes' /\ LogInv'
          /\ \A x \in Requests \X Hops :
                logged'[x] = IF x = <<q, partial[q].hop>> THEN 1 ELSE logged[x]
      BY <1>2, <2>1, PushLogs
    <2>3. Absent \in [hop : 0 .. MaxHops, seen : BOOLEAN]
          /\ Absent.hop = 0
      BY NetworkConstants DEF Absent
    <2>4. \A r \in Requests : partial'[r] = IF r = q THEN Absent ELSE partial[r]
      BY <2>1 DEF NetInv, TypeOK
    <2>5. TypeOK'
      BY <2>1, <2>2, <2>3 DEF NetInv, TypeOK, LogTypes, pageVars
    <2>6. Current'
      BY <2>3, <2>4 DEF NetInv, Current, Known, Since, pageVars
    <2>7. ASSUME NEW r \in Requests
          PROVE  /\ partial'[r].hop <= sent[r]
                 /\ partial'[r].hop # 0 => logged'[<<r, partial'[r].hop>>] = 0
                 /\ \A h \in Hops : <<"request", r, h>> \in coming' =>
                       h <= sent[r] /\ partial'[r].hop < h /\ logged'[<<r, h>>] = 0
                 /\ \A h \in Hops : sent[r] < h => logged'[<<r, h>>] = 0
      <3>1. sent[r] \in Nat /\ partial[r].hop \in Nat /\ partial[r].hop <= sent[r]
            /\ (Known(r) => partial[r].hop \in Hops)
        BY HopFacts DEF HopsOf
      <3>2. \A h \in Hops : h # partial[r].hop \/ r # q => logged'[<<r, h>>] = logged[<<r, h>>]
        BY <2>2
      <3>3. CASE r = q
        <4>1. partial'[r].hop = 0
          BY <2>3, <2>4, <3>3
        <4>2. \A h \in Hops : <<"request", r, h>> \in coming =>
                  h <= sent[r] /\ 0 < h /\ logged'[<<r, h>>] = 0
          <5>1. HopsOf(r)
            BY HopFacts
          <5>2. QED
            BY <3>1, <3>2, <5>1 DEF HopsOf
        <4>3. \A h \in Hops : sent[r] < h => logged'[<<r, h>>] = 0
          <5>1. HopsOf(r)
            BY HopFacts
          <5>2. QED
            BY <3>1, <3>2, <5>1 DEF HopsOf
        <4>4. QED
          BY <3>1, <4>1, <4>2, <4>3
      <3>4. CASE r # q
        BY <2>4, <3>1, <3>2, <3>4 DEF NetInv, HopsInOrder, Known
      <3>5. QED
        BY <3>3, <3>4
    <2>8. HopsInOrder'
      BY <2>7 DEF HopsInOrder, Known
    <2>9. QED
      BY <2>2, <2>5, <2>6, <2>8 DEF NetInv
  <1>3. QED
    BY <1>1, <1>2

----------------------------------------------------------------------------
(* Chrome.                                                                 *)

LEMMA KeepsSend == ASSUME NetInv, NEW q \in Requests, Send(q) PROVE NetInv'
  <1> USE DEF NetInv, Send
  <1>1. sent[q] \in Nat /\ sent[q] + 1 \in Hops
    <2>1. sent[q] \in 0 .. MaxHops
      BY KnownTypes
    <2>2. QED
      BY <2>1, NetworkConstants DEF Hops
  <1>2. TypeOK'
    <2>1. sent' \in [Requests -> 0 .. MaxHops]
      BY <1>1, NetworkConstants DEF TypeOK, Hops
    <2>2. coming' \subseteq ({"request", "response"} \cup Finals) \X Requests \X Hops
      BY <1>1 DEF TypeOK
    <2>3. own' \subseteq Requests /\ late' \subseteq Requests \X Hops
      BY <1>1 DEF TypeOK
    <2>4. QED
      BY <2>1, <2>2, <2>3 DEF TypeOK
  <1>3. Current' /\ LogInv'
    <2>1. own \subseteq own' /\ late \subseteq late'
          /\ (q \in own' \/ <<q, sent[q] + 1>> \in late')
      OBVIOUS
    <2>2. \A r \in Requests, h \in Hops :
              <<"request", r, h>> \in coming' =>
                  <<"request", r, h>> \in coming \/ (r = q /\ h = sent[q] + 1)
      OBVIOUS
    <2>3. Current'
      BY <2>1, <2>2 DEF Current, Known, Since
    <2>4. LogInv'
      BY <2>1 DEF LogInv, EntriesSinceReset, Bounded, OnceEach
    <2>5. QED
      BY <2>3, <2>4
  <1>4. ASSUME NEW r \in Requests
        PROVE  /\ partial[r].hop <= sent'[r]
               /\ \A h \in Hops : <<"request", r, h>> \in coming' =>
                     h <= sent'[r] /\ partial[r].hop < h /\ logged[<<r, h>>] = 0
               /\ \A h \in Hops : sent'[r] < h => logged[<<r, h>>] = 0
    <2>1. sent[r] \in Nat /\ partial[r].hop \in Nat /\ partial[r].hop <= sent[r]
          /\ sent'[r] = IF r = q THEN sent[r] + 1 ELSE sent[r]
      BY HopFacts DEF TypeOK, HopsOf
    <2>2. \A h \in Hops : <<"request", r, h>> \in coming' =>
              <<"request", r, h>> \in coming \/ (r = q /\ h = sent[q] + 1)
      OBVIOUS
    <2>3. \A h \in Hops : h \in Nat
      BY DEF Hops
    <2>4. QED
      <3>1. CASE r = q
        <4>1. \A h \in Hops : <<"request", r, h>> \in coming \/ h = sent[r] + 1 =>
                  h <= sent'[r] /\ partial[r].hop < h /\ logged[<<r, h>>] = 0
          <5>1. HopsOf(r)
            BY HopFacts
          <5>2. QED
            BY <1>1, <2>1, <3>1, <5>1 DEF HopsOf
        <4>2. \A h \in Hops : sent'[r] < h => logged[<<r, h>>] = 0
          <5>1. HopsOf(r)
            BY HopFacts
          <5>2. QED
            BY <1>1, <2>1, <3>1, <5>1 DEF HopsOf
        <4>3. QED
          BY <2>1, <2>2, <3>1, <4>1, <4>2
      <3>2. CASE r # q
        BY <2>1, <2>2, <3>2, HopFacts DEF HopsOf
      <3>3. QED
        BY <3>1, <3>2
  <1>5. HopsInOrder'
    BY <1>4 DEF HopsInOrder, Known
  <1>6. QED
    BY <1>2, <1>3, <1>5

(* Other events on their way say nothing of a request's hops.              *)
LEMMA KeepsNews ==
    ASSUME NetInv, UNCHANGED <<sent, partial, entries, truncated, handler, pageVars,
                               dropped, logged>>,
           answered' \subseteq Requests, ended' \subseteq Requests,
           coming' \subseteq ({"request", "response"} \cup Finals) \X Requests \X Hops,
           \A q \in Requests, h \in Hops :
               <<"request", q, h>> \in coming' => <<"request", q, h>> \in coming
    PROVE  NetInv'
  <1>1. TypeOK'
    BY DEF NetInv, TypeOK, pageVars
  <1>2. Current' /\ HopsInOrder' /\ LogInv'
    BY DEF NetInv, Current, HopsInOrder, LogInv, Known, EntriesSinceReset, Bounded,
       OnceEach, Since, pageVars
  <1>3. QED
    BY <1>1, <1>2 DEF NetInv

LEMMA KeepsTold ==
    ASSUME NetInv, NEW q \in Requests,
           Respond(q) \/ \E how \in Finals : End(q, how)
    PROVE  NetInv'
  <1>1. sent[q] \in 0 .. MaxHops
    BY KnownTypes
  <1>2. CASE Respond(q)
    <2>1. sent[q] \in Hops
      BY <1>1, <1>2, NetworkConstants DEF Respond, Hops
    <2>2. QED
      <3>1. answered' \subseteq Requests /\ ended' \subseteq Requests
            /\ coming' \subseteq ({"request", "response"} \cup Finals) \X Requests \X Hops
        BY <1>2, <2>1 DEF Respond, NetInv, TypeOK
      <3>2. \A r \in Requests, h \in Hops :
                <<"request", r, h>> \in coming' => <<"request", r, h>> \in coming
        BY <1>2 DEF Respond
      <3>3. QED
        BY <1>2, <3>1, <3>2, KeepsNews DEF Respond
  <1>3. ASSUME NEW how \in Finals, End(q, how)
        PROVE  NetInv'
    <2>1. sent[q] \in Hops /\ how # "request"
      BY <1>1, <1>3, NetworkConstants DEF End, Hops, Finals
    <2>2. QED
      <3>1. answered' \subseteq Requests /\ ended' \subseteq Requests
            /\ coming' \subseteq ({"request", "response"} \cup Finals) \X Requests \X Hops
        BY <1>3, <2>1 DEF End, NetInv, TypeOK
      <3>2. \A r \in Requests, h \in Hops :
                <<"request", r, h>> \in coming' => <<"request", r, h>> \in coming
        BY <1>3, <2>1 DEF End
      <3>3. QED
        BY <1>3, <3>1, <3>2, KeepsNews DEF End
  <1>4. QED
    BY <1>2, <1>3

----------------------------------------------------------------------------
(* The streams.                                                            *)

LEMMA KeepsRequest ==
    ASSUME NetInv, NEW q \in Requests, NEW h \in Hops, OnRequest(q, h)
    PROVE  NetInv'
  <1> USE DEF OnRequest, Delivers
  <1>1. <<"request", q, h>> \in coming /\ h \in Nat /\ h <= sent[q]
        /\ partial[q].hop < h /\ logged[<<q, h>>] = 0
    <2>1. <<"request", q, h>> \in coming
      OBVIOUS
    <2>2. QED
      BY <2>1, HopFacts DEF HopsOf
  <1>2. /\ LogTypes' /\ LogInv'
        /\ \A x \in Requests \X Hops : x # <<q, partial[q].hop>> => logged'[x] = logged[x]
    <2>1. CASE Known(q)
      BY <2>1, PushLogs
    <2>2. CASE ~Known(q)
      BY <2>2 DEF NetInv, TypeOK, LogTypes, LogInv, EntriesSinceReset, Bounded, OnceEach,
         pageVars
    <2>3. QED
      BY <2>1, <2>2
  <1>3. resets \in 0 .. MaxResets /\ h \in 0 .. MaxHops
    BY NetworkConstants DEF NetInv, TypeOK, Hops
  <1> DEFINE new == [hop |-> h, seen |-> FALSE]
  <1>4. new \in [hop : 0 .. MaxHops, seen : BOOLEAN]
        /\ new.hop = h
    BY <1>3
  <1>5. /\ \A r \in Requests : partial'[r] = IF r = q THEN new ELSE partial[r]
        /\ partial' \in [Requests -> [hop : 0 .. MaxHops, seen : BOOLEAN]]
    BY <1>4 DEF NetInv, TypeOK
  <1> HIDE DEF new
  <1>6. TypeOK'
    BY <1>2, <1>5 DEF NetInv, TypeOK, LogTypes, pageVars
  <1>7. Current'
    <2>1. Since(q, h) /\ \A r \in Requests : Known(r) => Since(r, partial[r].hop)
      BY <1>1 DEF NetInv, Current
    <2>2. \A r \in Requests, g \in Hops :
              <<"request", r, g>> \in coming' => Since(r, g)
      BY DEF NetInv, Current
    <2>3. \A r \in Requests : Known(r)' => Since(r, partial'[r].hop)
      BY <1>4, <1>5, <2>1 DEF Known
    <2>4. QED
      BY <2>2, <2>3 DEF Current, Known, Since, pageVars
  <1>8. ASSUME NEW r \in Requests
        PROVE  /\ partial'[r].hop <= sent[r]
               /\ partial'[r].hop # 0 => logged'[<<r, partial'[r].hop>>] = 0
               /\ \A g \in Hops : <<"request", r, g>> \in coming' =>
                     g <= sent[r] /\ partial'[r].hop < g /\ logged'[<<r, g>>] = 0
               /\ \A g \in Hops : sent[r] < g => logged'[<<r, g>>] = 0
    <2>1. sent[r] \in Nat /\ partial[r].hop \in Nat /\ partial[r].hop <= sent[r]
          /\ (Known(r) => partial[r].hop \in Hops)
      BY HopFacts DEF HopsOf
    <2>2. \A g \in Hops : g \in Nat /\
              (g # partial[r].hop \/ r # q => logged'[<<r, g>>] = logged[<<r, g>>])
      BY <1>2 DEF Hops
    <2>3. CASE r = q
      <3>1. \A g \in Hops : <<"request", q, g>> \in coming' => g # h /\ g >= h
        <4> SUFFICES ASSUME NEW g \in Hops, <<"request", q, g>> \in coming'
                     PROVE  g # h /\ g >= h
          OBVIOUS
        <4>1. <<"request", q, g>> \in coming /\ g # h
          OBVIOUS
        <4>2. QED
          BY <4>1
      <3>2. partial'[r].hop = h
        BY <1>4, <1>5, <2>3
      <3>3. logged'[<<q, h>>] = 0
        BY <1>1, <2>1, <2>2, <2>3
      <3>4. \A g \in Hops : <<"request", q, g>> \in coming' =>
                g <= sent[q] /\ h < g /\ logged'[<<q, g>>] = 0
        <4> SUFFICES ASSUME NEW g \in Hops, <<"request", q, g>> \in coming'
                     PROVE  g <= sent[q] /\ h < g /\ logged'[<<q, g>>] = 0
          OBVIOUS
        <4>1. <<"request", q, g>> \in coming /\ h < g
          BY <1>1, <2>2, <3>1
        <4>2. g <= sent[q] /\ partial[q].hop < g /\ logged[<<q, g>>] = 0
          BY <4>1, HopFacts DEF HopsOf
        <4>3. QED
          BY <2>1, <2>2, <2>3, <4>1, <4>2
      <3>5. \A g \in Hops : sent[q] < g => logged'[<<q, g>>] = 0
        <4> SUFFICES ASSUME NEW g \in Hops, sent[q] < g
                     PROVE  logged'[<<q, g>>] = 0
          OBVIOUS
        <4>1. logged[<<q, g>>] = 0 /\ g # partial[q].hop
          <5>1. HopsOf(q)
            BY HopFacts
          <5>2. QED
            BY <2>1, <2>2, <2>3, <5>1 DEF HopsOf
        <4>2. QED
          BY <2>2, <2>3, <4>1
      <3>6. QED
        BY <1>1, <2>3, <3>2, <3>3, <3>4, <3>5
    <2>4. CASE r # q
      <3>1. partial'[r] = partial[r] /\ \A g \in Hops : logged'[<<r, g>>] = logged[<<r, g>>]
        BY <1>5, <2>2, <2>4
      <3>2. QED
        BY <2>1, <3>1 DEF NetInv, HopsInOrder, Known
    <2>5. QED
      BY <2>3, <2>4
  <1>9. HopsInOrder'
    BY <1>8 DEF HopsInOrder, Known
  <1>10. QED
    BY <1>2, <1>6, <1>7, <1>9 DEF NetInv

LEMMA KeepsResponse ==
    ASSUME NetInv, NEW q \in Requests, NEW h \in Hops, OnResponse(q, h)
    PROVE  NetInv'
  <1> USE DEF OnResponse, Delivers
  <1>1. /\ \A r \in Requests : partial'[r].hop = partial[r].hop
        /\ partial' \in [Requests -> [hop : 0 .. MaxHops, seen : BOOLEAN]]
    BY DEF NetInv, TypeOK
  <1>2. TypeOK'
    BY <1>1 DEF NetInv, TypeOK, pageVars
  <1>3. Current' /\ HopsInOrder' /\ LogInv'
    BY <1>1 DEF NetInv, Current, HopsInOrder, LogInv, Known, EntriesSinceReset,
       Bounded, OnceEach, Since, pageVars
  <1>4. QED
    BY <1>2, <1>3 DEF NetInv

(* The type of a loadingFinished task.                                     *)
Handlers == [at : {"none", "waiting", "fetching"}, yields : 0 .. MaxYields]

(* The task of a request: at most the log and its partial change.          *)
LEMMA KeepsHandler ==
    ASSUME NetInv, NEW q \in Requests,
           \/ \E h \in Hops : OnFailed(q, h) \/ OnFinished(q, h)
           \/ Yield(q) \/ FetchBody(q) \/ CompleteWithout(q) \/ CompleteFetched(q)
    PROVE  NetInv'
  <1>1. handler \in [Requests -> Handlers] /\ [at |-> "none", yields |-> 0] \in Handlers
        /\ [at |-> "waiting", yields |-> 0] \in Handlers
    BY NetworkConstants DEF NetInv, TypeOK, Handlers
  <1>2. ASSUME NEW h \in Hops, OnFailed(q, h) PROVE NetInv'
    BY <1>1, <1>2, KeepsFinalise DEF OnFailed, Delivers, Handlers
  <1>3. CASE CompleteWithout(q)
    <2>1. handler' \in [Requests -> Handlers]
      BY <1>1, <1>3 DEF CompleteWithout
    <2>2. QED
      BY <1>3, <2>1, KeepsFinalise DEF CompleteWithout, Handlers, chromeVars
  <1>4. CASE CompleteFetched(q)
    <2>1. handler' \in [Requests -> Handlers]
      BY <1>1, <1>4 DEF CompleteFetched
    <2>2. PICK body \in BOOLEAN : Finalise(q, body)
      BY <1>4 DEF CompleteFetched
    <2>3. QED
      BY <1>4, <2>1, <2>2, KeepsFinalise DEF CompleteFetched, Handlers, chromeVars
  <1>5. ASSUME handler' \in [Requests -> Handlers], coming' \subseteq coming,
               UNCHANGED <<sent, ended, answered, partial, entries, truncated, pageVars,
                           dropped, logged>>
        PROVE  NetInv'
    <2>1. TypeOK'
      BY <1>5 DEF NetInv, TypeOK, Handlers, pageVars
    <2>2. Current' /\ HopsInOrder' /\ LogInv'
      BY <1>5 DEF NetInv, Current, HopsInOrder, LogInv, Known, EntriesSinceReset,
         Bounded, OnceEach, Since, pageVars
    <2>3. QED
      BY <2>1, <2>2 DEF NetInv
  <1>6. ASSUME NEW h \in Hops, OnFinished(q, h) PROVE NetInv'
    BY <1>1, <1>5, <1>6 DEF OnFinished, Delivers
  <1>7. CASE Yield(q)
    <2>1. handler' \in [Requests -> Handlers]
      BY <1>1, <1>7, NetworkConstants DEF Yield, Handlers
    <2>2. QED
      BY <1>5, <1>7, <2>1 DEF Yield, chromeVars
  <1>8. CASE FetchBody(q)
    <2>1. handler' \in [Requests -> Handlers]
      BY <1>1, <1>8 DEF FetchBody, Handlers
    <2>2. QED
      BY <1>5, <1>8, <2>1 DEF FetchBody, chromeVars
  <1>9. QED
    BY <1>2, <1>3, <1>4, <1>6, <1>7, <1>8

----------------------------------------------------------------------------
(* Emptying the log.                                                       *)

LEMMA KeepsEmptied ==
    ASSUME NetInv, Reset \/ QueryClear
    PROVE  NetInv'
  <1> USE DEF NetInv
  <1>1. CASE Reset
    <2>1. Absent \in [hop : 0 .. MaxHops, seen : BOOLEAN]
          /\ Absent.hop = 0
      BY NetworkConstants DEF Absent
    <2>2. \A q \in Requests : partial'[q].hop = 0
      BY <1>1, <2>1 DEF Reset
    <2>3. TypeOK'
      <3>1. partial' \in [Requests -> [hop : 0 .. MaxHops, seen : BOOLEAN]]
        BY <1>1, <2>1 DEF Reset
      <3>2. resets' \in 0 .. MaxResets
        BY <1>1, NetworkConstants DEF Reset, Leaves, TypeOK
      <3>3. entries' \in Seq(Entry) /\ truncated' \in BOOLEAN
            /\ dropped' \subseteq Requests \X Hops
            /\ committed' \in BOOLEAN /\ own' \subseteq Requests
            /\ late' \subseteq Requests \X Hops
        BY <1>1, EmptyLog DEF Reset, Leaves
      <3>4. QED
        BY <1>1, <3>1, <3>2, <3>3 DEF Reset, TypeOK, chromeVars
    <2>4. Current'
      <3>1. \A q \in Requests, h \in Hops :
                <<"request", q, h>> \in coming' => <<q, h>> \in late'
        BY <1>1 DEF Reset, Leaves, chromeVars
      <3>2. QED
        BY <2>2, <3>1 DEF Current, Known, Since
    <2>5. LogInv'
      BY <1>1, <2>2, NetworkConstants DEF Reset, LogInv, EntriesSinceReset, Bounded,
         OnceEach, chromeVars
    <2>6. HopsInOrder'
      <3> SUFFICES ASSUME NEW q \in Requests
                   PROVE  /\ partial'[q].hop <= sent[q] /\ partial'[q].hop = 0
                          /\ \A h \in Hops : <<"request", q, h>> \in coming =>
                                h <= sent[q] /\ partial'[q].hop < h
                                /\ logged[<<q, h>>] = 0
                          /\ \A h \in Hops : sent[q] < h => logged[<<q, h>>] = 0
        BY <1>1 DEF Reset, chromeVars, HopsInOrder, Known
      <3>1. partial'[q].hop = 0 /\ sent[q] \in Nat
        BY <2>2, HopFacts DEF HopsOf
      <3>2. \A h \in Hops : partial'[q].hop < h
        <4>1. HopsOf(q)
          BY HopFacts
        <4>2. QED
          BY <3>1, <4>1 DEF HopsOf
      <3>3. QED
        <4>1. HopsOf(q)
          BY HopFacts
        <4>2. QED
          BY <3>1, <3>2, <4>1 DEF HopsOf
    <2>7. QED
      BY <2>3, <2>4, <2>5, <2>6
  <1>2. CASE QueryClear
    <2>1. TypeOK'
      BY <1>2, EmptyLog DEF QueryClear, TypeOK, chromeVars, pageVars
    <2>2. Current' /\ HopsInOrder'
      BY <1>2 DEF QueryClear, chromeVars, Current, HopsInOrder, Known, Since, pageVars
    <2>3. LogInv'
      BY <1>2, NetworkConstants DEF QueryClear, LogInv, EntriesSinceReset, Bounded,
         OnceEach
    <2>4. QED
      BY <2>1, <2>2, <2>3
  <1>3. QED
    BY <1>1, <1>2

(* The page is replaced.                                                   *)
LEMMA KeepsCommit == ASSUME NetInv, Commit PROVE NetInv'
  <1>1. TypeOK'
    BY DEF NetInv, TypeOK, Commit, chromeVars
  <1>2. Current' /\ HopsInOrder'
    BY DEF NetInv, Commit, chromeVars, Current, HopsInOrder, Known, Since
  <1>3. LogInv'
    BY DEF NetInv, Commit, LogInv, EntriesSinceReset, Bounded, OnceEach
  <1>4. QED
    BY <1>1, <1>2, <1>3 DEF NetInv

LEMMA NetAlways == Spec => []NetInv
  <1>1. ASSUME NetInv, [Next]_vars PROVE NetInv'
    <2>1. CASE UNCHANGED vars
      BY <1>1, <2>1 DEF vars, NetInv, TypeOK, Current, HopsInOrder, LogInv, Known,
         EntriesSinceReset, Bounded, OnceEach, Since, pageVars
    <2>2. ASSUME NEW q \in Requests, Handle(q) PROVE NetInv'
      BY <1>1, <2>2, KeepsRequest, KeepsResponse, KeepsHandler DEF Handle
    <2>3. QED
      BY <1>1, <2>1, <2>2, KeepsSend, KeepsTold, KeepsCommit,
         KeepsEmptied DEF Next
  <1>2. QED
    BY InitNet, <1>1, PTL DEF Spec

----------------------------------------------------------------------------

(* Requests, events, the log and the tasks stay within their types.        *)
THEOREM TypeCorrect == Spec => []TypeOK
  <1>1. NetInv => TypeOK
    BY DEF NetInv
  <1>2. QED
    BY <1>1, NetAlways, PTL

(* Nothing recorded before a navigation comes back after it: what the log  *)
(* holds is of the page navigated to, or of a request whose start Chrome   *)
(* had yet to tell at the reset.                                           *)
THEOREM LogForgetsAtReset == Spec => []EntriesSinceReset
  <1>1. NetInv => EntriesSinceReset
    BY DEF NetInv, LogInv
  <1>2. QED
    BY <1>1, NetAlways, PTL

(* In any order of the streams every hop is finalised once at most, the    *)
(* log is bounded, and `truncated` says exactly whether an entry was lost. *)
THEOREM LogIsAccounted == Spec => []LogAccounts
  <1>1. NetInv => LogAccounts
    BY DEF NetInv, LogInv, Bounded, OnceEach, LogAccounts
  <1>2. QED
    BY <1>1, NetAlways, PTL
=============================================================================
