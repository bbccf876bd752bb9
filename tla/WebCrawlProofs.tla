--------------------------- MODULE WebCrawlProofs ---------------------------
(***************************************************************************)
(* Proofs about WebCrawl for any calls, sites, limits and bounds: the flag *)
(* of the interactive login is set exactly while a call waits, the page    *)
(* cache holds nothing that was read behind a login, and a crawl stays in  *)
(* its bounds and is complete.                                             *)
(*                                                                         *)
(* All are about every call at once, but a step changes one.  For the      *)
(* first two, what is inductive (WebInv) says of each call which types its *)
(* fields have and what it may be about to store, and of all that one      *)
(* waits when the flag is set.  For the crawls it says of each how far its *)
(* walk has come (CrawlInv): what it met is in reach (Bounded), what it    *)
(* returned and what is left of its budget are together what it may return *)
(* (Returned), and as long as nothing was missed, everything met was asked *)
(* for or is queued, level after level (BreadthFirst).                     *)
(*                                                                         *)
(* The levels of a site and the size of what is returned are recursive     *)
(* functions.  That they exist and do what their definitions say is proved *)
(* by a least counterexample, of a number (LeastOfSome) or of a set        *)
(* (MinimalSubset).                                                        *)
(***************************************************************************)
EXTENDS WebCrawl, FiniteSetTheorems, SequenceTheorems, TLAPS

Fields == {"at", "kind", "seed", "url", "depth", "maxDepth", "maxPages", "allowance",
           "budget", "robot", "queue", "visited", "content", "pages", "required",
           "failedHosts", "polls", "fetched", "whole"}

States == {"idle", "robots", "next", "lookup", "get", "browser", "login", "reload",
           "store", "deliver", "save", "done"}

(* One call, wherever it is.                                               *)
CallInv(k) ==
    /\ DOMAIN k = Fields
    /\ k.at \in States /\ k.kind \in {"none", "read", "download", "fetch"}
    /\ k.polls \in {0, 1} /\ k.depth \in Nat
    /\ k.visited \subseteq Urls /\ k.fetched \subseteq Urls
    /\ k.queue \in Seq(Urls \X Nat)
    /\ k.at # "idle" => k.seed \in Urls /\ k.url \in Urls
    /\ k.at = "store" => k.content = "public" /\ k.url \notin Gated

CallsInv == DOMAIN call = Calls /\ \A c \in Calls : CallInv(call[c])

CacheInv ==
    /\ cache \subseteq [url : Urls, content : {"public", "private"}]
    /\ CacheIsPublic

WebInv ==
    /\ CallsInv /\ CacheInv /\ OneLoginAtATime
    /\ authInProgress \in BOOLEAN /\ begun \in 0 .. MaxBegun

----------------------------------------------------------------------------
(* Sets of numbers.                                                        *)

LEMMA SomeOfInterval ==
    ASSUME NEW N \in Nat, NEW S \in SUBSET (1 .. N)
    PROVE  IsFiniteSet(S) /\ Cardinality(S) \in Nat
  <1>1. IsFiniteSet(1 .. N)
    BY FS_Interval
  <1>2. QED
    BY <1>1, FS_Subset, FS_CardinalityType

(* Later elements have more below them, though never all.                  *)
LEMMA BelowGrows ==
    ASSUME NEW N \in Nat, NEW S \in SUBSET (1 .. N), NEW i \in S, NEW j \in S, i < j
    PROVE  Cardinality({x \in S : x < i}) < Cardinality({x \in S : x < j})
  <1> DEFINE Below(y) == {x \in S : x < y}
  <1>1. IsFiniteSet(S)
    BY SomeOfInterval
  <1>2. \A x \in S : x \in Int
    OBVIOUS
  <1>3. \A x \in S : x < i => x < j
    BY <1>2
  <1>4. Below(i) \in SUBSET Below(j) /\ i \in Below(j) /\ i \notin Below(i)
    <2>1. i \in Below(j) /\ i \notin Below(i)
      BY <1>2
    <2>2. Below(i) \in SUBSET Below(j)
      BY <1>3
    <2>3. QED
      BY <2>1, <2>2
  <1>5. Below(j) \in SUBSET S
    OBVIOUS
  <1>6. IsFiniteSet(Below(i)) /\ IsFiniteSet(Below(j))
    BY <1>1, <1>4, <1>5, FS_Subset
  <1> HIDE DEF Below
  <1>7. /\ Cardinality(Below(i)) \in Nat /\ Cardinality(Below(j)) \in Nat
        /\ Cardinality(Below(i)) <= Cardinality(Below(j))
        /\ Cardinality(Below(j)) = Cardinality(Below(i)) => Below(j) = Below(i)
    BY <1>4, <1>6, FS_Subset, FS_CardinalityType
  <1>8. Cardinality(Below(i)) < Cardinality(Below(j))
    BY <1>4, <1>7
  <1>9. QED
    BY <1>8 DEF Below

(* The n-th exists: NewLinks takes the n-th new link.                      *)
LEMMA NthExists ==
    ASSUME NEW N \in Nat, NEW S \in SUBSET (1 .. N), NEW n \in 1 .. Cardinality(S)
    PROVE  \E i \in S : Cardinality({j \in S : j < i}) = n - 1
  <1> DEFINE Below(i) == {j \in S : j < i}
             T == 0 .. Cardinality(S) - 1
             f == [i \in S |-> Cardinality(Below(i))]
  <1>1. IsFiniteSet(S) /\ Cardinality(S) \in Nat
    BY SomeOfInterval
  <1>2. \A i \in S : IsFiniteSet(Below(i)) /\ Cardinality(Below(i)) \in Nat
    <2> SUFFICES ASSUME NEW i \in S
                 PROVE  IsFiniteSet(Below(i)) /\ Cardinality(Below(i)) \in Nat
      OBVIOUS
    <2>1. Below(i) \in SUBSET S
      OBVIOUS
    <2>2. QED
      BY <1>1, <2>1, FS_Subset, FS_CardinalityType
  <1>3. \A i \in S : Cardinality(Below(i)) < Cardinality(S)
    <2> SUFFICES ASSUME NEW i \in S PROVE Cardinality(Below(i)) < Cardinality(S)
      OBVIOUS
    <2>1. Below(i) \in SUBSET S /\ Below(i) # S
      OBVIOUS
    <2>2. QED
      BY <1>1, <1>2, <2>1, FS_Subset
  <1>4. \A i, j \in S : i < j => Cardinality(Below(i)) < Cardinality(Below(j))
    BY BelowGrows
  <1>5. IsFiniteSet(T) /\ Cardinality(T) = Cardinality(S)
    <2>1. 0 \in Int /\ Cardinality(S) - 1 \in Int
      BY <1>1
    <2>2. /\ IsFiniteSet(T)
          /\ Cardinality(T) = IF 0 > Cardinality(S) - 1 THEN 0
                              ELSE Cardinality(S) - 1 - 0 + 1
      BY <2>1, FS_Interval
    <2>3. QED
      BY <1>1, <2>2
  <1>6. f \in Injection(S, T)
    <2>1. f \in [S -> T]
      BY <1>1, <1>2, <1>3
    <2>2. \A i, j \in S : f[i] = f[j] => i = j
      <3> SUFFICES ASSUME NEW i \in S, NEW j \in S, i # j PROVE f[i] # f[j]
        OBVIOUS
      <3>1. i < j \/ j < i
        OBVIOUS
      <3>2. QED
        BY <1>2, <1>4, <3>1
    <2> HIDE DEF f
    <2>3. QED
      BY <2>1, <2>2 DEF Injection, IsInjective
  <1> HIDE DEF f, T
  <1>7. f \in Surjection(S, T)
    BY <1>1, <1>5, <1>6, FS_Injection
  <1>8. n - 1 \in T
    BY <1>1 DEF T
  <1>9. PICK i \in S : f[i] = n - 1
    BY <1>7, <1>8 DEF Surjection
  <1>10. QED
    BY <1>9 DEF f

LEMMA LeastOfSome ==
    ASSUME NEW N \in Nat, NEW S \in SUBSET (1 .. N), S # {}
    PROVE  \E i \in S : \A j \in S : i <= j
  <1>1. IsFiniteSet(S) /\ Cardinality(S) \in Nat /\ Cardinality(S) # 0
    <2>1. IsFiniteSet(1 .. N)
      BY FS_Interval
    <2>2. IsFiniteSet(S)
      BY <2>1, FS_Subset
    <2>3. QED
      BY <2>2, FS_CardinalityType, FS_EmptySet
  <1>2. 1 \in 1 .. Cardinality(S)
    BY <1>1
  <1>3. PICK i \in S : Cardinality({j \in S : j < i}) = 1 - 1
    BY <1>2, NthExists
  <1>4. IsFiniteSet({j \in S : j < i})
    BY <1>1, FS_Subset
  <1>5. {j \in S : j < i} = {}
    BY <1>3, <1>4, FS_EmptySet
  <1>6. \A j \in S : j \in Int /\ i \in Int /\ ~ (j < i)
    BY <1>5
  <1>7. QED
    BY <1>6

----------------------------------------------------------------------------
(* The new links of a page: each is in the queue once.                     *)

LEMMA BelowCounts ==
    ASSUME NEW N \in Nat, NEW S \in SUBSET (1 .. N), NEW i \in S
    PROVE  Cardinality({x \in S : x < i}) + 1 \in 1 .. Cardinality(S)
  <1> DEFINE B == {x \in S : x < i}
  <1>1. IsFiniteSet(S) /\ Cardinality(S) \in Nat
    BY SomeOfInterval
  <1>2. B \in SUBSET S /\ i \notin B
    OBVIOUS
  <1> HIDE DEF B
  <1>3. IsFiniteSet(B) /\ Cardinality(B) <= Cardinality(S)
        /\ (Cardinality(S) = Cardinality(B) => S = B)
    BY <1>1, <1>2, FS_Subset
  <1>4. Cardinality(B) \in Nat /\ Cardinality(B) # Cardinality(S)
    BY <1>2, <1>3, FS_CardinalityType
  <1>5. Cardinality(B) + 1 \in 1 .. Cardinality(S)
    BY <1>1, <1>3, <1>4
  <1>6. QED
    BY <1>5 DEF B

IsNewLink(k, v) ==
    /\ v \in Urls /\ SameHost(v, k.seed) /\ v \notin k.visited \cup Blocked
    /\ \E i \in 1 .. Len(Links[k.url]) : Links[k.url][i] = v

LEMMA NewLinksAre ==
    ASSUME NEW k, k.url \in Urls
    PROVE  /\ NewLinks(k) \in Seq(Urls)
           /\ \A m, n \in 1 .. Len(NewLinks(k)) : NewLinks(k)[m] = NewLinks(k)[n] => m = n
           /\ \A m \in 1 .. Len(NewLinks(k)) : IsNewLink(k, NewLinks(k)[m])
           /\ \A v : IsNewLink(k, v) => \E m \in 1 .. Len(NewLinks(k)) : NewLinks(k)[m] = v
  <1> DEFINE page == Links[k.url]
             new == {i \in 1 .. Len(page) :
                        /\ SameHost(page[i], k.seed)
                        /\ page[i] \notin k.visited \cup Blocked
                        /\ \A j \in 1 .. i - 1 : page[j] # page[i]}
             below(i) == Cardinality({j \in new : j < i})
             nth(n) == CHOOSE i \in new : below(i) = n - 1
             C == Cardinality(new)
  <1>1. page \in Seq(Urls) /\ Len(page) \in Nat
        /\ \A i \in 1 .. Len(page) : page[i] \in Urls
    BY WebConstants
  <1>2. new \in SUBSET (1 .. Len(page)) /\ C \in Nat
    <2>1. new \in SUBSET (1 .. Len(page))
      OBVIOUS
    <2> HIDE DEF new
    <2>2. QED
      BY <1>1, <2>1, SomeOfInterval
  <1>3. NewLinks(k) = [n \in 1 .. C |-> page[nth(n)]]
    BY DEF NewLinks
  <1>4. \A i \in new : IsNewLink(k, page[i])
    BY <1>1 DEF IsNewLink
  <1>5. \A i, j \in new : page[i] = page[j] => i = j
    BY <1>1
  <1>6. ASSUME NEW v, IsNewLink(k, v) PROVE \E i \in new : page[i] = v
    <2> DEFINE at == {i \in 1 .. Len(page) : page[i] = v}
    <2>1. at # {} /\ at \in SUBSET (1 .. Len(page))
      BY <1>6 DEF IsNewLink
    <2> HIDE DEF at
    <2>2. PICK i \in at : \A j \in at : i <= j
      BY <1>1, <2>1, LeastOfSome
    <2>3. i \in 1 .. Len(page) /\ page[i] = v
      BY DEF at
    <2>4. \A j \in 1 .. i - 1 : j \in 1 .. Len(page) /\ ~ (i <= j)
      BY <1>1, <2>3
    <2>5. \A j \in 1 .. i - 1 : page[j] # page[i]
      BY <2>2, <2>3, <2>4 DEF at
    <2>6. i \in new
      BY <1>6, <2>3, <2>5 DEF IsNewLink
    <2>7. QED
      BY <2>3, <2>6
  <1> HIDE DEF new, page
  <1>7. \A n \in 1 .. C : nth(n) \in new /\ below(nth(n)) = n - 1
    <2> SUFFICES ASSUME NEW n \in 1 .. C PROVE nth(n) \in new /\ below(nth(n)) = n - 1
      OBVIOUS
    <2>1. \E i \in new : below(i) = n - 1
      BY <1>1, <1>2, NthExists
    <2>2. QED
      BY <2>1
  <1>8. \A i, j \in new : below(i) = below(j) => i = j
    <2> SUFFICES ASSUME NEW i \in new, NEW j \in new, i # j PROVE below(i) # below(j)
      OBVIOUS
    <2>1. i \in Int /\ j \in Int
      BY <1>1, <1>2
    <2>2. below(i) + 1 \in 1 .. C /\ below(j) + 1 \in 1 .. C
      BY <1>1, <1>2, BelowCounts
    <2>3. i < j => below(i) < below(j)
      BY <1>1, <1>2, BelowGrows
    <2>4. j < i => below(j) < below(i)
      BY <1>1, <1>2, BelowGrows
    <2> HIDE DEF below
    <2>5. below(i) \in Int /\ below(j) \in Int
      <3>1. \A x : Cardinality({y \in new : y < x}) = below(x)
        BY DEF below
      <3>2. {y \in new : y < i} \in SUBSET (1 .. Len(page))
            /\ {y \in new : y < j} \in SUBSET (1 .. Len(page))
        BY <1>2
      <3>3. /\ Cardinality({y \in new : y < i}) \in Nat
            /\ Cardinality({y \in new : y < j}) \in Nat
        BY <1>1, <3>2, SomeOfInterval
      <3>4. QED
        BY <3>1, <3>3
    <2>6. QED
      BY <2>1, <2>3, <2>4, <2>5
  <1>9. \A i \in new : below(i) + 1 \in 1 .. C /\ below(i) \in Int
    <2> SUFFICES ASSUME NEW i \in new PROVE below(i) + 1 \in 1 .. C /\ below(i) \in Int
      OBVIOUS
    <2>1. below(i) + 1 \in 1 .. C
      BY <1>1, <1>2, BelowCounts
    <2>2. {y \in new : y < i} \in SUBSET (1 .. Len(page))
      BY <1>2
    <2>3. Cardinality({y \in new : y < i}) \in Nat
      <3> DEFINE B == {y \in new : y < i}
      <3> HIDE DEF B
      <3>1. B \in SUBSET (1 .. Len(page))
        BY <2>2 DEF B
      <3>2. Cardinality(B) \in Nat
        BY <1>1, <3>1, SomeOfInterval
      <3>3. QED
        BY <3>2 DEF B
    <2>4. QED
      BY <2>1, <2>3
  <1> HIDE DEF nth, below
  <1>10. DOMAIN NewLinks(k) = 1 .. C /\ \A n \in 1 .. C : NewLinks(k)[n] = page[nth(n)]
    BY <1>3
  <1>11. NewLinks(k) \in Seq(Urls) /\ Len(NewLinks(k)) = C
    <2>1. \A n \in 1 .. C : page[nth(n)] \in Urls
      BY <1>1, <1>2, <1>7
    <2>2. QED
      BY <1>2, <1>3, <2>1
  <1>12. \A m, n \in 1 .. C : NewLinks(k)[m] = NewLinks(k)[n] => m = n
    <2> SUFFICES ASSUME NEW m \in 1 .. C, NEW n \in 1 .. C,
                        NewLinks(k)[m] = NewLinks(k)[n]
                 PROVE  m = n
      OBVIOUS
    <2>1. nth(m) = nth(n)
      BY <1>5, <1>7, <1>10
    <2>2. m - 1 = n - 1
      BY <1>7, <2>1
    <2>3. QED
      BY <1>2, <2>2
  <1>13. \A v : IsNewLink(k, v) => \E m \in 1 .. C : NewLinks(k)[m] = v
    <2> SUFFICES ASSUME NEW v, IsNewLink(k, v) PROVE \E m \in 1 .. C : NewLinks(k)[m] = v
      OBVIOUS
    <2>1. PICK i \in new : page[i] = v
      BY <1>6
    <2>2. PICK m \in 1 .. C : m = below(i) + 1
      BY <1>9
    <2>3. m - 1 = below(i)
      BY <1>9, <2>2
    <2>4. nth(m) = i
      BY <1>7, <1>8, <2>3
    <2>5. QED
      BY <1>10, <2>1, <2>4
  <1>14. \A m \in 1 .. C : IsNewLink(k, NewLinks(k)[m])
    BY <1>4, <1>7, <1>10
  <1>15. QED
    BY <1>11, <1>12, <1>13, <1>14

(* The first of the urls that robots.txt allows is one of the queue.       *)
LEMMA NextUrlIsQueued ==
    ASSUME NEW k, CallInv(k), NextUrl(k) # 0
    PROVE  /\ NextUrl(k) \in 1 .. Len(k.queue) /\ Len(k.queue) \in Nat
           /\ k.queue[NextUrl(k)] \in Urls \X Nat
  <1> DEFINE ok == {i \in 1 .. Len(k.queue) : k.robot => k.queue[i][1] \notin Disallowed}
  <1>1. Len(k.queue) \in Nat /\ k.queue \in Seq(Urls \X Nat)
    BY DEF CallInv
  <1>2. ok \in SUBSET (1 .. Len(k.queue)) /\ ok # {}
        /\ NextUrl(k) = CHOOSE i \in ok : \A j \in ok : i <= j
    BY DEF NextUrl
  <1> HIDE DEF ok
  <1>3. \E i \in ok : \A j \in ok : i <= j
    BY <1>1, <1>2, LeastOfSome
  <1>4. NextUrl(k) \in ok
    BY <1>2, <1>3
  <1>5. NextUrl(k) \in 1 .. Len(k.queue)
    BY <1>2, <1>4
  <1>6. QED
    BY <1>1, <1>5, ElementOfSeq

----------------------------------------------------------------------------
(* Steps.                                                                  *)

LEMMA NoCallInv == CallInv(NoCall) /\ NoCall.at = "idle"
  <1>1. <<>> \in Seq(Urls \X Nat)
    OBVIOUS
  <1>2. DOMAIN NoCall = Fields
    BY DEF NoCall, Fields
  <1>3. QED
    BY <1>1, <1>2 DEF NoCall, CallInv, States

LEMMA InitWeb == Init => WebInv
  <1> SUFFICES ASSUME Init PROVE WebInv
    OBVIOUS
  <1>1. \A c \in Calls : call[c] = NoCall
    BY DEF Init
  <1>2. CallsInv
    <2>1. DOMAIN call = Calls
      BY DEF Init
    <2>2. QED
      BY <1>1, <2>1, NoCallInv DEF CallsInv
  <1>3. CacheInv
    BY DEF Init, CacheInv, CacheIsPublic
  <1>4. OneLoginAtATime
    BY <1>1, NoCallInv DEF Init, OneLoginAtATime, Waiting
  <1>5. begun \in 0 .. MaxBegun
    BY WebConstants DEF Init
  <1>6. authInProgress \in BOOLEAN
    BY Zenon DEF Init
  <1>7. QED
    BY <1>2, <1>3, <1>4, <1>5, <1>6 DEF WebInv

(* A step of one call keeps the invariant when the flag goes with the wait *)
(* of that call.                                                           *)
LEMMA OneStep ==
    ASSUME WebInv, NEW c \in Calls, NEW v, CallInv(v),
           call' = [call EXCEPT ![c] = v], CacheInv', begun' \in 0 .. MaxBegun,
           \/ authInProgress' = authInProgress /\ (v.at \in Waiting <=> call[c].at \in Waiting)
           \/ ~authInProgress /\ authInProgress' = TRUE /\ v.at \in Waiting
           \/ call[c].at \in Waiting /\ v.at \notin Waiting /\ authInProgress' = FALSE
    PROVE  WebInv'
  <1>1. DOMAIN call' = Calls /\ call'[c] = v /\ \A d \in Calls : d # c => call'[d] = call[d]
    BY DEF WebInv, CallsInv
  <1>2. CallsInv'
    BY <1>1 DEF WebInv, CallsInv
  <1>3. authInProgress' \in BOOLEAN
    BY DEF WebInv
  <1>4. /\ \A d, e \in Calls : call[d].at \in Waiting /\ call[e].at \in Waiting => d = e
        /\ authInProgress <=> \E d \in Calls : call[d].at \in Waiting
    BY DEF WebInv, OneLoginAtATime
  <1>5. CASE authInProgress' = authInProgress /\ (v.at \in Waiting <=> call[c].at \in Waiting)
    <2>1. \A d \in Calls : call'[d].at \in Waiting <=> call[d].at \in Waiting
      BY <1>1, <1>5
    <2>2. OneLoginAtATime'
      BY <1>4, <1>5, <2>1 DEF OneLoginAtATime
    <2>3. QED
      BY <1>2, <1>3, <2>2 DEF WebInv
  <1>6. CASE ~authInProgress /\ authInProgress' = TRUE /\ v.at \in Waiting
    <2>1. \A d \in Calls : call'[d].at \in Waiting <=> d = c
      BY <1>1, <1>4, <1>6
    <2>2. OneLoginAtATime'
      BY <1>6, <2>1 DEF OneLoginAtATime
    <2>3. QED
      BY <1>2, <1>3, <2>2 DEF WebInv
  <1>7. CASE call[c].at \in Waiting /\ v.at \notin Waiting /\ authInProgress' = FALSE
    <2>1. \A d \in Calls : call'[d].at \notin Waiting
      BY <1>1, <1>4, <1>7
    <2>2. OneLoginAtATime'
      BY <1>7, <2>1 DEF OneLoginAtATime
    <2>3. QED
      BY <1>2, <1>3, <2>2 DEF WebInv
  <1>8. QED
    BY <1>5, <1>6, <1>7

(* Most steps touch neither the cache nor the flag.                        *)
LEMMA QuietStep ==
    ASSUME WebInv, NEW c \in Calls, NEW v, CallInv(v),
           call' = [call EXCEPT ![c] = v], UNCHANGED <<cache, authInProgress>>,
           begun' \in 0 .. MaxBegun, v.at \in Waiting <=> call[c].at \in Waiting
    PROVE  WebInv'
  <1>1. CacheInv'
    BY DEF WebInv, CacheInv, CacheIsPublic
  <1>2. QED
    BY <1>1, OneStep

(* And those that end a wait.                                              *)
LEMMA WaitEndsStep ==
    ASSUME WebInv, NEW c \in Calls, NEW v, CallInv(v), call[c].at \in Waiting,
           call' = [call EXCEPT ![c] = v], authInProgress' = FALSE,
           UNCHANGED <<cache, begun>>, v.at \notin Waiting
    PROVE  WebInv'
  <1>1. CacheInv' /\ begun' \in 0 .. MaxBegun
    BY DEF WebInv, CacheInv, CacheIsPublic
  <1>2. QED
    BY <1>1, OneStep

LEMMA CallFacts ==
    ASSUME WebInv, NEW c \in Calls
    PROVE  CallInv(call[c]) /\ begun \in 0 .. MaxBegun /\ DOMAIN call = Calls
           /\ DOMAIN call[c] = Fields
  BY DEF WebInv, CallsInv, CallInv

(* The crawler.                                                            *)

LEMMA KeepsBegin ==
    ASSUME WebInv, NEW c \in Calls, NEW kind \in {"read", "download", "fetch"},
           NEW seed \in Urls, NEW d, NEW p, NEW i, Begin(c, kind, seed, d, p, i)
    PROVE  WebInv'
  <1> DEFINE v == [NoCall EXCEPT !.kind = kind, !.seed = seed,
                       !.at = IF kind = "fetch" THEN "browser" ELSE "robots",
                       !.url = seed,
                       !.maxDepth = ResolveDepth(d), !.maxPages = ResolvePages(p),
                       !.allowance = ResolveInline(i), !.budget = ResolveInline(i)]
  <1>1. /\ v.at \in {"browser", "robots"} /\ v.kind = kind /\ v.seed = seed /\ v.url = seed
        /\ DOMAIN v = Fields /\ v.polls = NoCall.polls /\ v.depth = NoCall.depth
        /\ v.visited = NoCall.visited /\ v.fetched = NoCall.fetched
        /\ v.queue = NoCall.queue
    BY NoCallInv DEF CallInv, Fields
  <1>2. call' = [call EXCEPT ![c] = v] /\ call[c].at = "idle"
    BY DEF Begin
  <1> HIDE DEF v
  <1>3. CallInv(v)
    BY <1>1, NoCallInv DEF CallInv, States
  <1>4. begun' \in 0 .. MaxBegun
    BY CallFacts, WebConstants DEF Begin
  <1>5. QED
    BY <1>1, <1>2, <1>3, <1>4, QuietStep DEF Begin, Waiting

LEMMA KeepsNewCrawler == ASSUME WebInv, NEW c \in Calls, NewCrawler(c) PROVE WebInv'
  <1>1. CallInv(call[c]) /\ begun' \in 0 .. MaxBegun /\ call[c].at = "robots"
    BY CallFacts DEF NewCrawler
  <1>2. CASE call' = [call EXCEPT ![c] = NoCall]
    BY <1>1, <1>2, NoCallInv, QuietStep DEF NewCrawler, Waiting
  <1>3. ASSUME NEW robot \in BOOLEAN, call' = [call EXCEPT ![c] =
                   [@ EXCEPT !.at = "next", !.robot = robot, !.visited = {call[c].seed},
                             !.queue = <<<<call[c].seed, 0>>>>]]
        PROVE  WebInv'
    <2> DEFINE v == [call[c] EXCEPT !.at = "next", !.robot = robot,
                         !.visited = {call[c].seed}, !.queue = <<<<call[c].seed, 0>>>>]
    <2>1. call[c].seed \in Urls
      BY <1>1 DEF CallInv
    <2>2. <<<<call[c].seed, 0>>>> \in Seq(Urls \X Nat)
      BY <2>1
    <2>3. /\ DOMAIN v = Fields /\ v.at = "next" /\ v.visited = {call[c].seed}
          /\ v.queue = <<<<call[c].seed, 0>>>> /\ v.kind = call[c].kind
          /\ v.polls = call[c].polls /\ v.depth = call[c].depth
          /\ v.fetched = call[c].fetched /\ v.seed = call[c].seed /\ v.url = call[c].url
      BY <1>1 DEF CallInv, Fields
    <2>4. call' = [call EXCEPT ![c] = v]
      BY <1>3, CallFacts
    <2> HIDE DEF v
    <2>5. CallInv(v)
      BY <1>1, <2>1, <2>2, <2>3 DEF CallInv, States
    <2>6. QED
      BY <1>1, <2>3, <2>4, <2>5, QuietStep DEF NewCrawler, Waiting
  <1>4. QED
    BY <1>2, <1>3 DEF NewCrawler

LEMMA KeepsPop == ASSUME WebInv, NEW c \in Calls, Pop(c) PROVE WebInv'
  <1> DEFINE k == call[c]
             i == NextUrl(k)
             rest == IF i < Len(k.queue) THEN SubSeq(k.queue, i + 1, Len(k.queue))
                     ELSE SubSeq(k.queue, 1, 0)
             v == [k EXCEPT !.url = k.queue[i][1], !.depth = k.queue[i][2],
                       !.queue = rest, !.content = "none",
                       !.at = IF k.kind = "read" THEN "lookup" ELSE "get"]
  <1>1. CallInv(k) /\ begun' \in 0 .. MaxBegun /\ k.at = "next" /\ i # 0
        /\ call' = [call EXCEPT ![c] = v]
    BY CallFacts DEF Pop
  <1>2. i \in 1 .. Len(k.queue) /\ k.queue[i] \in Urls \X Nat
    BY <1>1, NextUrlIsQueued
  <1>3. rest \in Seq(Urls \X Nat)
    <2>1. k.queue \in Seq(Urls \X Nat)
      BY <1>1 DEF CallInv
    <2> HIDE DEF i, k
    <2>2. SubSeq(k.queue, i + 1, Len(k.queue)) \in Seq(Urls \X Nat)
      BY <1>2, <2>1, SubSeqProperties
    <2>3. SubSeq(k.queue, 1, 0) \in Seq(Urls \X Nat)
      BY <2>1, SubSeqProperties
    <2>4. QED
      BY <2>2, <2>3
  <1> HIDE DEF i, rest
  <1>4. /\ DOMAIN v = Fields /\ v.at \in {"lookup", "get"} /\ v.url = k.queue[i][1]
        /\ v.depth = k.queue[i][2] /\ v.queue = rest /\ v.kind = k.kind
        /\ v.polls = k.polls /\ v.fetched = k.fetched /\ v.visited = k.visited
        /\ v.seed = k.seed
    BY <1>1 DEF CallInv, Fields
  <1> HIDE DEF v
  <1>5. CallInv(v)
    BY <1>1, <1>2, <1>3, <1>4 DEF CallInv, States
  <1>6. QED
    BY <1>1, <1>4, <1>5, QuietStep DEF Pop, Waiting

(* The call goes to another place with no more than its url to remember.   *)
LEMMA KeepsMoves ==
    ASSUME WebInv, NEW c \in Calls, NEW v, NEW to \in States \ (Waiting \cup {"store"}),
           call[c].at \notin Waiting \cup {"idle"},
           call' = [call EXCEPT ![c] = v], UNCHANGED <<cache, authInProgress, begun>>,
           DOMAIN v = Fields, v.at = to, v.kind = call[c].kind, v.seed = call[c].seed,
           v.url = call[c].url, v.depth = call[c].depth, v.queue = call[c].queue,
           v.visited = call[c].visited, v.polls = call[c].polls,
           v.fetched \subseteq call[c].fetched \cup {call[c].url}
    PROVE  WebInv'
  <1>1. CallInv(call[c]) /\ begun' \in 0 .. MaxBegun
    BY CallFacts
  <1>2. CallInv(v)
    BY <1>1 DEF CallInv
  <1>3. QED
    BY <1>1, <1>2, QuietStep

(* The call ends.                                                          *)
LEMMA KeepsEnd ==
    ASSUME WebInv, NEW c \in Calls, call[c].at \notin Waiting,
           call' = [call EXCEPT ![c] = NoCall], UNCHANGED <<cache, authInProgress, begun>>
    PROVE  WebInv'
  <1>1. begun' \in 0 .. MaxBegun /\ NoCall.at \notin Waiting
    BY CallFacts, NoCallInv DEF Waiting
  <1>2. QED
    BY <1>1, NoCallInv, QuietStep

LEMMA KeepsFinish == ASSUME WebInv, NEW c \in Calls, Finish(c) PROVE WebInv'
  <1> DEFINE k == call[c]
             v == [k EXCEPT !.at = "done"]
  <1>1. DOMAIN call = Calls /\ DOMAIN k = Fields
    BY CallFacts
  <1>2. /\ call' = [call EXCEPT ![c] = v] /\ UNCHANGED <<cache, authInProgress, begun>>
        /\ k.at \notin Waiting \cup {"idle"}
    BY <1>1 DEF Finish, Waiting
  <1>3. /\ DOMAIN v = Fields /\ v.kind = k.kind /\ v.seed = k.seed /\ v.url = k.url
        /\ v.depth = k.depth /\ v.queue = k.queue /\ v.visited = k.visited
        /\ v.polls = k.polls /\ v.fetched \subseteq k.fetched \cup {k.url}
        /\ v.at \in {"done"}
    BY <1>1 DEF Fields
  <1>4. v.at \in States \ (Waiting \cup {"store"})
    BY <1>3 DEF States, Waiting
  <1> HIDE DEF v
  <1>5. QED
    BY <1>2, <1>3, <1>4, KeepsMoves

LEMMA KeepsCacheMiss == ASSUME WebInv, NEW c \in Calls, CacheMiss(c) PROVE WebInv'
  <1> DEFINE k == call[c]
             v == [k EXCEPT !.at = "get"]
  <1>1. DOMAIN call = Calls /\ DOMAIN k = Fields
    BY CallFacts
  <1>2. /\ call' = [call EXCEPT ![c] = v] /\ UNCHANGED <<cache, authInProgress, begun>>
        /\ k.at \notin Waiting \cup {"idle"}
    BY <1>1 DEF CacheMiss, Waiting
  <1>3. /\ DOMAIN v = Fields /\ v.kind = k.kind /\ v.seed = k.seed /\ v.url = k.url
        /\ v.depth = k.depth /\ v.queue = k.queue /\ v.visited = k.visited
        /\ v.polls = k.polls /\ v.fetched \subseteq k.fetched \cup {k.url}
        /\ v.at \in {"get"}
    BY <1>1 DEF Fields
  <1>4. v.at \in States \ (Waiting \cup {"store"})
    BY <1>3 DEF States, Waiting
  <1> HIDE DEF v
  <1>5. QED
    BY <1>2, <1>3, <1>4, KeepsMoves

LEMMA KeepsFetchFails == ASSUME WebInv, NEW c \in Calls, FetchFails(c) PROVE WebInv'
  <1> DEFINE k == call[c]
             v == [k EXCEPT !.at = "next", !.whole = FALSE,
                            !.fetched = @ \cup {k.url}]
  <1>1. DOMAIN call = Calls /\ DOMAIN k = Fields
    BY CallFacts
  <1>2. /\ call' = [call EXCEPT ![c] = v] /\ UNCHANGED <<cache, authInProgress, begun>>
        /\ k.at \notin Waiting \cup {"idle"}
    <2>1. call[c].at = "get"
      BY DEF FetchFails
    <2>2. call' = [call EXCEPT ![c] = v] /\ UNCHANGED <<cache, authInProgress, begun>>
      BY <1>1 DEF FetchFails
    <2>3. QED
      BY <2>1, <2>2 DEF Waiting
  <1>3. /\ DOMAIN v = Fields /\ v.kind = k.kind /\ v.seed = k.seed /\ v.url = k.url
        /\ v.depth = k.depth /\ v.queue = k.queue /\ v.visited = k.visited
        /\ v.polls = k.polls /\ v.fetched \subseteq k.fetched \cup {k.url}
        /\ v.at \in {"next"}
    BY <1>1 DEF Fields
  <1>4. v.at \in States \ (Waiting \cup {"store"})
    BY <1>3 DEF States, Waiting
  <1> HIDE DEF v
  <1>5. QED
    BY <1>2, <1>3, <1>4, KeepsMoves

LEMMA KeepsFetchGated == ASSUME WebInv, NEW c \in Calls, FetchGated(c) PROVE WebInv'
  <1> DEFINE k == call[c]
             v == [k EXCEPT
                     !.at = IF k.kind = "download" \/ HostOf[k.url] \in k.failedHosts
                            THEN "next" ELSE "browser",
                     !.required = IF k.kind = "read" /\ HostOf[k.url] \in k.failedHosts
                                  THEN @ \cup {k.url} ELSE @,
                     !.fetched = @ \cup {k.url}]
  <1>1. DOMAIN call = Calls /\ DOMAIN k = Fields
    BY CallFacts
  <1>2. /\ call' = [call EXCEPT ![c] = v] /\ UNCHANGED <<cache, authInProgress, begun>>
        /\ k.at \notin Waiting \cup {"idle"}
    BY <1>1 DEF FetchGated, Waiting
  <1>3. /\ DOMAIN v = Fields /\ v.kind = k.kind /\ v.seed = k.seed /\ v.url = k.url
        /\ v.depth = k.depth /\ v.queue = k.queue /\ v.visited = k.visited
        /\ v.polls = k.polls /\ v.fetched \subseteq k.fetched \cup {k.url}
        /\ v.at \in {"next", "browser"}
    BY <1>1 DEF Fields
  <1>4. v.at \in States \ (Waiting \cup {"store"})
    BY <1>3 DEF States, Waiting
  <1> HIDE DEF v
  <1>5. QED
    BY <1>2, <1>3, <1>4, KeepsMoves

LEMMA KeepsInline == ASSUME WebInv, NEW c \in Calls, Inline(c) PROVE WebInv'
  <1> DEFINE k == call[c]
             v == [k EXCEPT !.at = "next", !.budget = @ - SizeOf[k.url],
                            !.pages = @ \cup {[url |-> k.url, how |-> "inline"]}]
  <1>1. DOMAIN call = Calls /\ DOMAIN k = Fields
    BY CallFacts
  <1>2. /\ call' = [call EXCEPT ![c] = v] /\ UNCHANGED <<cache, authInProgress, begun>>
        /\ k.at \notin Waiting \cup {"idle"}
    BY <1>1 DEF Inline, Waiting
  <1>3. /\ DOMAIN v = Fields /\ v.kind = k.kind /\ v.seed = k.seed /\ v.url = k.url
        /\ v.depth = k.depth /\ v.queue = k.queue /\ v.visited = k.visited
        /\ v.polls = k.polls /\ v.fetched \subseteq k.fetched \cup {k.url}
        /\ v.at \in {"next"}
    BY <1>1 DEF Fields
  <1>4. v.at \in States \ (Waiting \cup {"store"})
    BY <1>3 DEF States, Waiting
  <1> HIDE DEF v
  <1>5. QED
    BY <1>2, <1>3, <1>4, KeepsMoves

LEMMA KeepsDivert == ASSUME WebInv, NEW c \in Calls, NEW ok \in BOOLEAN, Divert(c, ok) PROVE WebInv'
  <1> DEFINE k == call[c]
             v == [k EXCEPT !.at = "next",
                            !.pages = @ \cup {[url |-> k.url,
                                               how |-> IF ok THEN "saved" ELSE "unsaved"]}]
  <1>1. DOMAIN call = Calls /\ DOMAIN k = Fields
    BY CallFacts
  <1>2. /\ call' = [call EXCEPT ![c] = v] /\ UNCHANGED <<cache, authInProgress, begun>>
        /\ k.at \notin Waiting \cup {"idle"}
    BY <1>1 DEF Divert, Waiting
  <1>3. /\ DOMAIN v = Fields /\ v.kind = k.kind /\ v.seed = k.seed /\ v.url = k.url
        /\ v.depth = k.depth /\ v.queue = k.queue /\ v.visited = k.visited
        /\ v.polls = k.polls /\ v.fetched \subseteq k.fetched \cup {k.url}
        /\ v.at \in {"next"}
    BY <1>1 DEF Fields
  <1>4. v.at \in States \ (Waiting \cup {"store"})
    BY <1>3 DEF States, Waiting
  <1> HIDE DEF v
  <1>5. QED
    BY <1>2, <1>3, <1>4, KeepsMoves

LEMMA KeepsDownloaded == ASSUME WebInv, NEW c \in Calls, Download(c), call'[c] # NoCall PROVE WebInv'
  <1> DEFINE k == call[c]
             v == [k EXCEPT !.at = IF k.kind = "fetch" THEN "done" ELSE "next",
                            !.pages = @ \cup {[url |-> k.url, how |-> "saved"]}]
  <1>1. DOMAIN call = Calls /\ DOMAIN k = Fields
    BY CallFacts
  <1>2. /\ call' = [call EXCEPT ![c] = v] /\ UNCHANGED <<cache, authInProgress, begun>>
        /\ k.at \notin Waiting \cup {"idle"}
    BY <1>1 DEF Download, Waiting
  <1>3. /\ DOMAIN v = Fields /\ v.kind = k.kind /\ v.seed = k.seed /\ v.url = k.url
        /\ v.depth = k.depth /\ v.queue = k.queue /\ v.visited = k.visited
        /\ v.polls = k.polls /\ v.fetched \subseteq k.fetched \cup {k.url}
        /\ v.at \in {"done", "next"}
    BY <1>1 DEF Fields
  <1>4. v.at \in States \ (Waiting \cup {"store"})
    BY <1>3 DEF States, Waiting
  <1> HIDE DEF v
  <1>5. QED
    BY <1>2, <1>3, <1>4, KeepsMoves

LEMMA KeepsCacheHit == ASSUME WebInv, NEW c \in Calls, CacheHit(c) PROVE WebInv'
  <1> DEFINE k == call[c]
  <1>1. DOMAIN call = Calls /\ DOMAIN k = Fields
    BY CallFacts
  <1>2. PICK e \in cache : call' = [call EXCEPT ![c] =
            [k EXCEPT !.at = "deliver", !.whole = FALSE, !.content = e.content]]
    BY DEF CacheHit
  <1> DEFINE v == [k EXCEPT !.at = "deliver", !.whole = FALSE, !.content = e.content]
  <1>3. /\ call' = [call EXCEPT ![c] = v] /\ UNCHANGED <<cache, authInProgress, begun>>
        /\ k.at \notin Waiting \cup {"idle"}
    BY <1>2 DEF CacheHit, Waiting
  <1>4. /\ DOMAIN v = Fields /\ v.kind = k.kind /\ v.seed = k.seed /\ v.url = k.url
        /\ v.depth = k.depth /\ v.queue = k.queue /\ v.visited = k.visited
        /\ v.polls = k.polls /\ v.fetched \subseteq k.fetched \cup {k.url}
        /\ v.at = "deliver"
    BY <1>1 DEF Fields
  <1>5. v.at \in States \ (Waiting \cup {"store"})
    BY <1>4 DEF States, Waiting
  <1> HIDE DEF v
  <1>6. QED
    BY <1>3, <1>4, <1>5, KeepsMoves

LEMMA KeepsFetchOk == ASSUME WebInv, NEW c \in Calls, FetchOk(c) PROVE WebInv'
  <1> DEFINE k == call[c]
             new == IF k.depth < k.maxDepth THEN NewLinks(k) ELSE <<>>
             more == [i \in 1 .. Len(new) |-> <<new[i], k.depth + 1>>]
             v == [k EXCEPT !.at = IF k.kind = "read" THEN "store" ELSE "save",
                       !.content = "public", !.fetched = @ \cup {k.url},
                       !.visited = @ \cup {new[i] : i \in 1 .. Len(new)},
                       !.queue = @ \o more]
  <1>1. CallInv(k) /\ begun' \in 0 .. MaxBegun /\ call' = [call EXCEPT ![c] = v]
        /\ k.at = "get" /\ k.url \notin Gated
    BY CallFacts DEF FetchOk
  <1>2. k.url \in Urls /\ k.depth \in Nat /\ k.queue \in Seq(Urls \X Nat)
    BY <1>1 DEF CallInv
  <1>3. new \in Seq(Urls)
    <2>1. <<>> \in Seq(Urls)
      OBVIOUS
    <2>2. NewLinks(k) \in Seq(Urls)
      BY <1>2, NewLinksAre
    <2>3. QED
      BY <2>1, <2>2
  <1> HIDE DEF new
  <1>4. \A i \in 1 .. Len(new) : new[i] \in Urls
    BY <1>3
  <1>5. more \in Seq(Urls \X Nat)
    <2>1. Len(new) \in Nat /\ \A i \in 1 .. Len(new) : <<new[i], k.depth + 1>> \in Urls \X Nat
      BY <1>2, <1>3, <1>4
    <2>2. QED
      BY <2>1
  <1>6. k.queue \o more \in Seq(Urls \X Nat)
    <2> HIDE DEF more
    <2>1. QED
      BY <1>2, <1>5, ConcatProperties
  <1> HIDE DEF more
  <1>7. /\ DOMAIN v = Fields /\ v.at = (IF k.kind = "read" THEN "store" ELSE "save")
        /\ v.content = "public" /\ v.fetched = k.fetched \cup {k.url}
        /\ v.visited = k.visited \cup {new[i] : i \in 1 .. Len(new)}
        /\ v.queue = k.queue \o more /\ v.kind = k.kind /\ v.seed = k.seed
        /\ v.url = k.url /\ v.depth = k.depth /\ v.polls = k.polls
    BY <1>1 DEF CallInv, Fields
  <1> HIDE DEF v
  <1>8. CallInv(v)
    <2>1. v.visited \subseteq Urls /\ v.fetched \subseteq Urls
      BY <1>1, <1>2, <1>4, <1>7 DEF CallInv
    <2>2. v.at \in States /\ v.kind \in {"none", "read", "download", "fetch"}
          /\ v.polls \in {0, 1} /\ v.depth \in Nat
      BY <1>1, <1>7 DEF CallInv, States
    <2>3. v.seed \in Urls /\ v.url \in Urls /\ v.content = "public" /\ v.url \notin Gated
      BY <1>1, <1>7 DEF CallInv
    <2>4. QED
      BY <1>6, <1>7, <2>1, <2>2, <2>3 DEF CallInv
  <1>9. v.at \in Waiting <=> k.at \in Waiting
    BY <1>1, <1>7 DEF Waiting
  <1>10. QED
    BY <1>1, <1>8, <1>9, QuietStep DEF FetchOk

----------------------------------------------------------------------------
(* The browser.                                                            *)

LEMMA ExtractedType ==
    ASSUME NEW c \in Calls, NEW keep \in BOOLEAN, CallInv(call[c]), call[c].at # "idle"
    PROVE  CallInv(Extracted(c, keep)) /\ Extracted(c, keep).at \in {"deliver", "save", "done"}
  <1> DEFINE k == call[c]
             v == Extracted(c, keep)
  <1>1. /\ DOMAIN v = Fields /\ v.at \in {"deliver", "save", "done"}
        /\ v.kind = k.kind /\ v.seed = k.seed /\ v.url = k.url /\ v.depth = k.depth
        /\ v.queue = k.queue /\ v.visited = k.visited /\ v.polls = k.polls
        /\ v.fetched = k.fetched
    BY DEF Extracted, CallInv, Fields
  <1> HIDE DEF v
  <1>2. CallInv(v)
    BY <1>1 DEF CallInv, States
  <1>3. QED
    BY <1>1, <1>2 DEF v

LEMMA NotExtractedType ==
    ASSUME NEW c \in Calls, CallInv(call[c]), call[c].at # "idle"
    PROVE  CallInv(NotExtracted(c)) /\ NotExtracted(c).at \in {"done", "next"}
  <1> DEFINE k == call[c]
             v == NotExtracted(c)
  <1>1. /\ DOMAIN v = Fields /\ v.at \in {"done", "next"}
        /\ v.kind = k.kind /\ v.seed = k.seed /\ v.url = k.url /\ v.depth = k.depth
        /\ v.queue = k.queue /\ v.visited = k.visited /\ v.polls = k.polls
        /\ v.fetched = k.fetched
    BY DEF NotExtracted, CallInv, Fields
  <1> HIDE DEF v
  <1>2. CallInv(v)
    BY <1>1 DEF CallInv, States
  <1>3. QED
    BY <1>1, <1>2 DEF v

LEMMA KeepsLoad ==
    ASSUME WebInv, NEW c \in Calls, LoadsOpen(c) \/ LoadFails(c) \/ WallRefused(c)
    PROVE  WebInv'
  <1>1. CallInv(call[c]) /\ begun' \in 0 .. MaxBegun /\ call[c].at = "browser"
        /\ UNCHANGED <<cache, authInProgress>>
    BY CallFacts DEF LoadsOpen, LoadFails, WallRefused
  <1>2. ASSUME NEW keep \in BOOLEAN, call' = [call EXCEPT ![c] = Extracted(c, keep)]
        PROVE  WebInv'
    <2>1. CallInv(Extracted(c, keep)) /\ Extracted(c, keep).at \in {"deliver", "save", "done"}
      BY <1>1, ExtractedType
    <2>2. Extracted(c, keep).at \in Waiting <=> call[c].at \in Waiting
      BY <1>1, <2>1 DEF Waiting
    <2>3. QED
      BY <1>1, <1>2, <2>1, <2>2, QuietStep
  <1>3. ASSUME call' = [call EXCEPT ![c] = NotExtracted(c)] PROVE WebInv'
    <2>1. CallInv(NotExtracted(c)) /\ NotExtracted(c).at \in {"done", "next"}
      BY <1>1, NotExtractedType
    <2>2. NotExtracted(c).at \in Waiting <=> call[c].at \in Waiting
      BY <1>1, <2>1 DEF Waiting
    <2>3. QED
      BY <1>1, <1>3, <2>1, <2>2, QuietStep
  <1>4. QED
    BY <1>2, <1>3 DEF LoadsOpen, LoadFails, WallRefused

LEMMA KeepsWallWaits == ASSUME WebInv, NEW c \in Calls, WallWaits(c) PROVE WebInv'
  <1> DEFINE k == call[c]
             v == [k EXCEPT !.at = "login", !.polls = 0]
  <1>1. CallInv(k) /\ DOMAIN call = Calls /\ begun' \in 0 .. MaxBegun /\ k.at = "browser"
    BY CallFacts DEF WallWaits
  <1>2. call' = [call EXCEPT ![c] = v] /\ ~authInProgress /\ authInProgress' = TRUE
        /\ UNCHANGED cache
    BY <1>1 DEF WallWaits
  <1>3. /\ DOMAIN v = Fields /\ v.at = "login" /\ v.polls = 0
        /\ v.kind = k.kind /\ v.seed = k.seed /\ v.url = k.url /\ v.depth = k.depth
        /\ v.queue = k.queue /\ v.visited = k.visited /\ v.fetched = k.fetched
    BY <1>1 DEF CallInv, Fields
  <1> HIDE DEF v
  <1>4. CallInv(v)
    BY <1>1, <1>3 DEF CallInv, States
  <1>5. CacheInv'
    BY <1>2 DEF WebInv, CacheInv, CacheIsPublic
  <1>6. v.at \in Waiting
    BY <1>3 DEF Waiting
  <1>7. QED
    BY <1>1, <1>2, <1>4, <1>5, <1>6, OneStep

LEMMA KeepsPoll ==
    ASSUME WebInv, NEW c \in Calls, NEW clean \in BOOLEAN, Poll(c, clean)
    PROVE  WebInv'
  <1> DEFINE k == call[c]
  <1>1. CallInv(k) /\ DOMAIN call = Calls /\ begun' \in 0 .. MaxBegun /\ k.at = "login"
        /\ UNCHANGED <<cache, authInProgress>>
    BY CallFacts DEF Poll
  <1>2. PICK to \in {"login", "reload"}, n \in {0, 1} :
            call' = [call EXCEPT ![c] = [k EXCEPT !.at = to, !.polls = n]]
    <2>1. [k EXCEPT !.polls = 0] = [k EXCEPT !.at = "login", !.polls = 0]
          /\ [k EXCEPT !.polls = 1] = [k EXCEPT !.at = "login", !.polls = 1]
      BY <1>1 DEF CallInv, Fields
    <2>2. QED
      BY <1>1, <2>1 DEF Poll
  <1> DEFINE v == [k EXCEPT !.at = to, !.polls = n]
  <1>3. /\ DOMAIN v = Fields /\ v.at = to /\ v.polls = n
        /\ v.kind = k.kind /\ v.seed = k.seed /\ v.url = k.url /\ v.depth = k.depth
        /\ v.queue = k.queue /\ v.visited = k.visited /\ v.fetched = k.fetched
    BY <1>1 DEF CallInv, Fields
  <1>4. call' = [call EXCEPT ![c] = v]
    BY <1>2
  <1> HIDE DEF v
  <1>5. CallInv(v)
    BY <1>1, <1>3 DEF CallInv, States
  <1>6. QED
    BY <1>1, <1>3, <1>4, <1>5, QuietStep DEF Waiting

LEMMA KeepsLoginEnds ==
    ASSUME WebInv, NEW c \in Calls, LoginFails(c) \/ LoginOk(c)
    PROVE  WebInv'
  <1>1. CallInv(call[c]) /\ call[c].at \in Waiting /\ call[c].at # "idle"
        /\ authInProgress' = FALSE /\ UNCHANGED <<cache, begun>>
    BY CallFacts DEF LoginFails, LoginOk, Waiting
  <1>2. ASSUME NEW keep \in BOOLEAN, call' = [call EXCEPT ![c] = Extracted(c, keep)]
        PROVE  WebInv'
    <2>1. CallInv(Extracted(c, keep)) /\ Extracted(c, keep).at \in {"deliver", "save", "done"}
      BY <1>1, ExtractedType
    <2>2. Extracted(c, keep).at \notin Waiting
      BY <2>1 DEF Waiting
    <2>3. QED
      BY <1>1, <1>2, <2>1, <2>2, WaitEndsStep
  <1>3. ASSUME call' = [call EXCEPT ![c] = NotExtracted(c)] PROVE WebInv'
    <2>1. CallInv(NotExtracted(c)) /\ NotExtracted(c).at \in {"done", "next"}
      BY <1>1, NotExtractedType
    <2>2. NotExtracted(c).at \notin Waiting
      BY <2>1 DEF Waiting
    <2>3. QED
      BY <1>1, <1>3, <2>1, <2>2, WaitEndsStep
  <1>4. QED
    BY <1>2, <1>3 DEF LoginFails, LoginOk

----------------------------------------------------------------------------
(* Files, answers and the request timeout.                                 *)

LEMMA KeepsStore == ASSUME WebInv, NEW c \in Calls, Store(c) PROVE WebInv'
  <1> DEFINE k == call[c]
             v == [k EXCEPT !.at = "deliver"]
             e == [url |-> k.url, content |-> k.content]
  <1>1. CallInv(k) /\ DOMAIN call = Calls /\ begun' \in 0 .. MaxBegun /\ k.at = "store"
        /\ authInProgress' = authInProgress /\ call' = [call EXCEPT ![c] = v]
    BY CallFacts DEF Store
  <1>2. k.url \in Urls \ Gated /\ k.content = "public"
    BY <1>1 DEF CallInv
  <1>3. CacheInv'
    <2>1. cache' = cache \/ cache' = {x \in cache : x.url # k.url} \cup {e}
      BY DEF Store
    <2>2. e \in [url : Urls, content : {"public", "private"}]
          /\ e.content = "public" /\ e.url \notin Gated
      BY <1>2
    <2> HIDE DEF e
    <2>3. CASE cache' = cache
      BY <2>3 DEF WebInv, CacheInv, CacheIsPublic
    <2>4. CASE cache' = {x \in cache : x.url # k.url} \cup {e}
      BY <2>2, <2>4 DEF WebInv, CacheInv, CacheIsPublic
    <2>5. QED
      BY <2>1, <2>3, <2>4
  <1>4. /\ DOMAIN v = Fields /\ v.at = "deliver" /\ v.polls = k.polls
        /\ v.kind = k.kind /\ v.seed = k.seed /\ v.url = k.url /\ v.depth = k.depth
        /\ v.queue = k.queue /\ v.visited = k.visited /\ v.fetched = k.fetched
    BY <1>1 DEF CallInv, Fields
  <1> HIDE DEF v
  <1>5. CallInv(v)
    BY <1>1, <1>4 DEF CallInv, States
  <1>6. v.at \in Waiting <=> k.at \in Waiting
    BY <1>1, <1>4 DEF Waiting
  <1>7. QED
    BY <1>1, <1>3, <1>5, <1>6, OneStep

LEMMA KeepsEnds ==
    ASSUME WebInv, NEW c \in Calls, ExtractFails(c) \/ Answer(c)
    PROVE  WebInv'
  BY KeepsEnd DEF ExtractFails, Answer, Waiting

LEMMA KeepsDownload == ASSUME WebInv, NEW c \in Calls, Download(c) PROVE WebInv'
  <1>1. CASE call' = [call EXCEPT ![c] = NoCall]
    BY <1>1, KeepsEnd DEF Download, Waiting
  <1>2. CASE call' # [call EXCEPT ![c] = NoCall]
    BY <1>2, KeepsDownloaded DEF Download
  <1>3. QED
    BY <1>1, <1>2

LEMMA KeepsTimeout == ASSUME WebInv, NEW c \in Calls, Timeout(c) PROVE WebInv'
  <1>1. call' = [call EXCEPT ![c] = NoCall] /\ UNCHANGED <<cache, begun>>
    BY DEF Timeout
  <1>2. CASE call[c].at \in Waiting
    <2>1. authInProgress' = FALSE /\ NoCall.at \notin Waiting
      BY <1>2, NoCallInv DEF Timeout, Waiting
    <2>2. QED
      BY <1>1, <1>2, <2>1, NoCallInv, WaitEndsStep
  <1>3. CASE call[c].at \notin Waiting
    <2>1. authInProgress' = authInProgress
      BY <1>3 DEF Timeout, WebInv
    <2>2. QED
      BY <1>1, <1>3, <2>1, KeepsEnd
  <1>4. QED
    BY <1>2, <1>3

LEMMA WebNext == ASSUME WebInv, [Next]_vars PROVE WebInv'
  <1>1. CASE UNCHANGED vars
    BY <1>1 DEF vars, WebInv, CallsInv, CacheInv, CacheIsPublic, OneLoginAtATime
  <1>2. ASSUME NEW c \in Calls, NEW kind \in {"read", "download"}, NEW seed \in Seeds,
               NEW d \in DepthArgs, NEW p \in PageArgs, NEW i \in InlineArgs,
               Begin(c, kind, seed, d, p, i)
        PROVE  WebInv'
    BY <1>2, KeepsBegin, WebConstants
  <1>3. ASSUME NEW c \in Calls, NEW seed \in Urls,
               Begin(c, "fetch", seed, NoArg, NoArg, NoArg)
        PROVE  WebInv'
    BY <1>3, KeepsBegin
  <1>4. ASSUME NEW c \in Calls,
               NewCrawler(c) \/ Pop(c) \/ Finish(c) \/ CacheMiss(c) \/ CacheHit(c)
               \/ FetchOk(c) \/ FetchFails(c) \/ FetchGated(c)
        PROVE  WebInv'
    BY <1>4, KeepsNewCrawler, KeepsPop, KeepsFinish, KeepsCacheMiss, KeepsCacheHit,
       KeepsFetchOk, KeepsFetchFails, KeepsFetchGated
  <1>5. ASSUME NEW c \in Calls,
               LoadsOpen(c) \/ LoadFails(c) \/ WallRefused(c) \/ WallWaits(c)
               \/ (\E clean \in BOOLEAN : Poll(c, clean)) \/ LoginFails(c) \/ LoginOk(c)
        PROVE  WebInv'
    BY <1>5, KeepsLoad, KeepsWallWaits, KeepsPoll, KeepsLoginEnds
  <1>6. ASSUME NEW c \in Calls,
               ExtractFails(c) \/ Store(c) \/ Inline(c) \/ (\E ok \in BOOLEAN : Divert(c, ok))
               \/ Download(c) \/ Answer(c) \/ Timeout(c)
        PROVE  WebInv'
    BY <1>6, KeepsEnds, KeepsStore, KeepsInline, KeepsDivert, KeepsDownload, KeepsTimeout
  <1>7. QED
    BY <1>1, <1>2, <1>3, <1>4, <1>5, <1>6 DEF Next

LEMMA WebAlways == Spec => []WebInv
  BY InitWeb, WebNext, PTL DEF Spec

----------------------------------------------------------------------------
(* Every variable keeps its type.                                          *)
THEOREM TypeCorrect == Spec => []TypeOK
  <1>1. WebInv => TypeOK
    BY DEF WebInv, CallsInv, CallInv, CacheInv, States, TypeOK
  <1>2. QED
    BY <1>1, WebAlways, PTL

(* Whatever ends the wait for a login (the login, its own limit, a second  *)
(* wall, the request timeout), the flag of NativeBrowser goes with it: one *)
(* call waits when it is set and none when it is not, for any number of    *)
(* calls and any site.                                                     *)
THEOREM LoginsAreExclusive == Spec => []OneLoginAtATime
  <1>1. WebInv => OneLoginAtATime
    BY DEF WebInv
  <1>2. QED
    BY <1>1, WebAlways, PTL

(* The page cache holds nothing that was read behind a login, whichever    *)
(* calls share it and however the crawls interleave.                       *)
THEOREM CacheStaysPublic == Spec => []CacheIsPublic
  <1>1. WebInv => CacheIsPublic
    BY DEF WebInv, CacheInv
  <1>2. QED
    BY <1>1, WebAlways, PTL

----------------------------------------------------------------------------
(* Sums over finite sets: what InlineSize adds up.                         *)

(* Induction over the subsets of a finite set: of some of them, one is     *)
(* minimal.                                                                *)
LEMMA MinimalSubset ==
    ASSUME NEW S, IsFiniteSet(S), NEW T \in SUBSET SUBSET S, T # {}
    PROVE  \E x \in T : \A y \in T : y \subseteq x => y = x
  <1>1. IsWellFoundedOn(StrictSubsetOrdering(S), SUBSET S)
    BY FS_StrictSubsetOrderingWellFounded, FS_FiniteSubsetsOfFinite
  <1>2. PICK x \in T : \A y \in T : <<y, x>> \notin StrictSubsetOrdering(S)
    BY <1>1, WFMin
  <1>3. QED
    BY <1>2 DEF StrictSubsetOrdering

(* g sums f over the subsets of S, in the order of CHOOSE.                 *)
AnyOf(s) == CHOOSE x \in s : TRUE
Sums(f, S, g) ==
    g = [s \in SUBSET S |-> IF s = {} THEN 0 ELSE f[AnyOf(s)] + g[s \ {AnyOf(s)}]]

LEMMA SumsUnique ==
    ASSUME NEW f, NEW S, IsFiniteSet(S), NEW T \in SUBSET S, NEW g, NEW h,
           Sums(f, S, g), Sums(f, T, h)
    PROVE  g[T] = h[T]
  <1> DEFINE Bad == {u \in SUBSET T : g[u] # h[u]}
  <1>1. SUFFICES ASSUME Bad # {} PROVE FALSE
    OBVIOUS
  <1>2. Bad \in SUBSET SUBSET S
    OBVIOUS
  <1> HIDE DEF Bad
  <1>3. PICK u \in Bad : \A w \in Bad : w \subseteq u => w = u
    BY <1>1, <1>2, MinimalSubset
  <1> USE DEF Bad
  <1>4. u \in SUBSET T /\ u \in SUBSET S /\ g[u] # h[u]
    OBVIOUS
  <1>5. g[u] = (IF u = {} THEN 0 ELSE f[AnyOf(u)] + g[u \ {AnyOf(u)}])
    BY <1>4 DEF Sums
  <1>6. h[u] = (IF u = {} THEN 0 ELSE f[AnyOf(u)] + h[u \ {AnyOf(u)}])
    BY <1>4 DEF Sums
  <1>7. u # {} /\ AnyOf(u) \in u
    BY <1>4, <1>5, <1>6 DEF AnyOf
  <1>8. u \ {AnyOf(u)} \notin Bad
    BY <1>3, <1>7
  <1>9. g[u \ {AnyOf(u)}] = h[u \ {AnyOf(u)}]
    BY <1>4, <1>8
  <1>10. QED
    BY <1>4, <1>5, <1>6, <1>9

LEMMA SumsExist ==
    ASSUME NEW f, NEW S, IsFiniteSet(S)
    PROVE  \E g : Sums(f, S, g)
  <1> DEFINE Bad == {s \in SUBSET S : ~ \E g : Sums(f, s, g)}
  <1>1. SUFFICES ASSUME Bad # {} PROVE FALSE
    OBVIOUS
  <1>2. Bad \in SUBSET SUBSET S
    OBVIOUS
  <1> HIDE DEF Bad
  <1>3. PICK s \in Bad : \A w \in Bad : w \subseteq s => w = s
    BY <1>1, <1>2, MinimalSubset
  <1> USE DEF Bad
  <1> DEFINE G(t) == CHOOSE g : Sums(f, t, g)
             v(t) == G(t)[t]
             h == [t \in SUBSET s |->
                     IF t = {} THEN 0 ELSE f[AnyOf(t)] + v(t \ {AnyOf(t)})]
  <1>4. s \in SUBSET S /\ ~ \E g : Sums(f, s, g)
    OBVIOUS
  <1>5. \A t \in SUBSET s : t # s => Sums(f, t, G(t))
    <2> TAKE t \in SUBSET s
    <2> HAVE t # s
    <2>1. t \notin Bad
      BY <1>3
    <2>2. \E g : Sums(f, t, g)
      BY <1>4, <2>1
    <2>3. QED
      BY <2>2
  <1>6. \A t \in SUBSET s : t # {} => AnyOf(t) \in t
    BY DEF AnyOf
  <1>7. \A t \in SUBSET s : IsFiniteSet(t)
    BY <1>4, FS_Subset
  <1> HIDE DEF Bad, G
  <1>8. \A t \in SUBSET s : t # s => v(t) = h[t]
    <2> SUFFICES ASSUME NEW t \in SUBSET s, t # s PROVE v(t) = h[t]
      OBVIOUS
    <2>1. v(t) = IF t = {} THEN 0 ELSE f[AnyOf(t)] + G(t)[t \ {AnyOf(t)}]
      <3> DEFINE g == G(t)
      <3>1. Sums(f, t, g)
        BY <1>5
      <3> HIDE DEF g
      <3>2. g[t] = IF t = {} THEN 0 ELSE f[AnyOf(t)] + g[t \ {AnyOf(t)}]
        BY <3>1 DEF Sums
      <3>3. QED
        BY <3>2 DEF g
    <2>2. CASE t = {}
      BY <2>1, <2>2
    <2>3. CASE t # {}
      <3> DEFINE r == t \ {AnyOf(t)}
      <3>1. r \in SUBSET t /\ r \in SUBSET s /\ r # s
        BY <1>6, <2>3
      <3>2. Sums(f, t, G(t)) /\ Sums(f, r, G(r)) /\ IsFiniteSet(t)
        BY <1>5, <1>7, <3>1
      <3>3. G(t)[r] = G(r)[r]
        <4> HIDE DEF r
        <4>1. QED
          BY <3>1, <3>2, SumsUnique
      <3>4. QED
        BY <2>1, <2>3, <3>3
    <2>4. QED
      BY <2>2, <2>3
  <1>9. Sums(f, s, h)
    <2>1. \A t \in SUBSET s : t # {} => v(t \ {AnyOf(t)}) = h[t \ {AnyOf(t)}]
      <3> TAKE t \in SUBSET s
      <3> HAVE t # {}
      <3>1. t \ {AnyOf(t)} \in SUBSET s /\ t \ {AnyOf(t)} # s
        BY <1>6
      <3> HIDE DEF v, h
      <3>2. QED
        BY <1>8, <3>1
    <2> DEFINE H == h
    <2>2. h = [t \in SUBSET s |-> IF t = {} THEN 0 ELSE f[AnyOf(t)] + H[t \ {AnyOf(t)}]]
      <3> HIDE DEF v, H
      <3>1. \A t \in SUBSET s : t # {} => v(t \ {AnyOf(t)}) = H[t \ {AnyOf(t)}]
        BY <2>1 DEF H
      <3>2. QED
        BY <3>1
    <2> HIDE DEF h
    <2>3. QED
      BY <2>2 DEF Sums, H
  <1>10. QED
    BY <1>4, <1>9

LEMMA SumIs ==
    ASSUME NEW f, NEW S, IsFiniteSet(S)
    PROVE  \E g : Sums(f, S, g) /\ SumFunctionOnSet(f, S) = g[S]
  <1> DEFINE g == CHOOSE g : Sums(f, S, g)
  <1>1. Sums(f, S, g)
    BY SumsExist
  <1>2. SumFunctionOnSet(f, S) = g[S]
    BY DEF SumFunctionOnSet, FoldFunctionOnSet, MapThenFoldSet, Sums, AnyOf
  <1>3. QED
    BY <1>1, <1>2

(* The sum does not depend on that order: any element may be taken off.    *)
LEMMA SumsTakeOff ==
    ASSUME NEW f, NEW S, IsFiniteSet(S), \A x \in S : f[x] \in Nat, NEW g, Sums(f, S, g)
    PROVE  \A s \in SUBSET S : g[s] \in Nat /\ \A x \in s : g[s] = f[x] + g[s \ {x}]
  <1> DEFINE Good(s) == g[s] \in Nat /\ \A x \in s : g[s] = f[x] + g[s \ {x}]
             Bad == {s \in SUBSET S : ~ Good(s)}
  <1>1. SUFFICES ASSUME Bad # {} PROVE FALSE
    OBVIOUS
  <1>2. Bad \in SUBSET SUBSET S
    OBVIOUS
  <1> HIDE DEF Bad, Good
  <1>3. PICK s \in Bad : \A w \in Bad : w \subseteq s => w = s
    BY <1>1, <1>2, MinimalSubset
  <1>4. s \in SUBSET S /\ ~ Good(s)
    BY DEF Bad
  <1>5. \A t \in SUBSET s : t # s => Good(t)
    BY <1>3, <1>4 DEF Bad
  <1>6. \A t \in SUBSET S : g[t] = IF t = {} THEN 0 ELSE f[AnyOf(t)] + g[t \ {AnyOf(t)}]
    BY DEF Sums
  <1>7. CASE s = {}
    <2>1. g[s] = 0
      BY <1>4, <1>6, <1>7
    <2>2. Good(s)
      BY <1>7, <2>1 DEF Good
    <2>3. QED
      BY <1>4, <2>2
  <1>8. CASE s # {}
    <2> DEFINE y == AnyOf(s)
               r == s \ {y}
    <2>1. y \in s /\ y \in S /\ f[y] \in Nat
      BY <1>4, <1>8 DEF AnyOf
    <2>2. g[s] = f[y] + g[r]
      BY <1>4, <1>6, <1>8
    <2> HIDE DEF y
    <2>3. r \in SUBSET s /\ r # s
      BY <2>1
    <2>4. Good(r)
      BY <1>5, <2>3
    <2>5. g[r] \in Nat /\ g[s] \in Nat
      BY <2>1, <2>2, <2>4 DEF Good
    <2>6. ASSUME NEW x \in s, x # y PROVE g[s] = f[x] + g[s \ {x}]
      <3> DEFINE q == s \ {x}
                 b == r \ {x}
      <3>1. x \in r /\ y \in q /\ q \in SUBSET s /\ q # s /\ q \ {y} = b
            /\ b \in SUBSET s /\ b # s /\ f[x] \in Nat
        BY <1>4, <2>1, <2>6
      <3> HIDE DEF q, b, r
      <3>2. g[r] = f[x] + g[b]
        BY <2>4, <3>1 DEF Good, b
      <3>3. Good(q) /\ Good(b)
        BY <1>5, <3>1
      <3>4. g[q] = f[y] + g[b] /\ g[b] \in Nat
        BY <3>1, <3>3 DEF Good
      <3>5. QED
        BY <2>1, <2>2, <3>1, <3>2, <3>4 DEF q
    <2>7. \A x \in s : g[s] = f[x] + g[s \ {x}]
      BY <2>2, <2>6
    <2>8. QED
      BY <1>4, <2>5, <2>7 DEF Good
  <1>9. QED
    BY <1>7, <1>8

(* What the sum of the community modules amounts to.                       *)
LEMMA SumType ==
    ASSUME NEW f, NEW S, IsFiniteSet(S), \A x \in S : f[x] \in Nat
    PROVE  SumFunctionOnSet(f, S) \in Nat
  BY SumIs, SumsTakeOff

LEMMA SumEmpty ==
    ASSUME NEW f
    PROVE  SumFunctionOnSet(f, {}) = 0
  <1>1. IsFiniteSet({})
    BY FS_EmptySet
  <1>2. PICK g : Sums(f, {}, g) /\ SumFunctionOnSet(f, {}) = g[{}]
    BY <1>1, SumIs
  <1>3. QED
    BY <1>2 DEF Sums

LEMMA SumSplit ==
    ASSUME NEW f, NEW S, IsFiniteSet(S), \A x \in S : f[x] \in Nat, NEW x \in S
    PROVE  SumFunctionOnSet(f, S) = f[x] + SumFunctionOnSet(f, S \ {x})
  <1> DEFINE r == S \ {x}
  <1>1. r \in SUBSET S /\ IsFiniteSet(r)
    BY FS_Subset
  <1> HIDE DEF r
  <1>2. PICK g : Sums(f, S, g) /\ SumFunctionOnSet(f, S) = g[S]
    BY SumIs
  <1>3. PICK h : Sums(f, r, h) /\ SumFunctionOnSet(f, r) = h[r]
    BY <1>1, SumIs
  <1>4. g[S] = f[x] + g[r]
    BY <1>2, SumsTakeOff DEF r
  <1>5. g[r] = h[r]
    BY <1>1, <1>2, <1>3, SumsUnique
  <1>6. QED
    BY <1>2, <1>3, <1>4, <1>5 DEF r

LEMMA SumAdd ==
    ASSUME NEW f, NEW S, IsFiniteSet(S), NEW x, \A y \in S \cup {x} : f[y] \in Nat
    PROVE  SumFunctionOnSet(f, S \cup {x})
             = SumFunctionOnSet(f, S) + IF x \in S THEN 0 ELSE f[x]
  <1>1. SumFunctionOnSet(f, S) \in Nat
    BY SumType
  <1>2. CASE x \in S
    <2> DEFINE T == S \cup {x}
               n == SumFunctionOnSet(f, S)
    <2>1. T = S
      BY <1>2
    <2> HIDE DEF T
    <2>2. SumFunctionOnSet(f, T) = n
      BY <2>1
    <2>3. n + (IF x \in S THEN 0 ELSE f[x]) = n
      BY <1>1, <1>2
    <2>4. QED
      BY <2>2, <2>3 DEF T
  <1>3. CASE x \notin S
    <2> DEFINE T == S \cup {x}
    <2>1. IsFiniteSet(T) /\ x \in T /\ T \ {x} = S
      BY <1>3, FS_AddElement
    <2>2. \A y \in T : f[y] \in Nat
      OBVIOUS
    <2> HIDE DEF T
    <2>3. SumFunctionOnSet(f, T) = f[x] + SumFunctionOnSet(f, T \ {x})
      BY <2>1, <2>2, SumSplit
    <2>4. f[x] \in Nat
      OBVIOUS
    <2>5. QED
      BY <1>1, <1>3, <2>1, <2>3, <2>4 DEF T
  <1>4. QED
    BY <1>2, <1>3

----------------------------------------------------------------------------
(* The levels of a site.                                                   *)

(* g is the function that Within defines.                                  *)
Climbs(seed, robot, depth, g) ==
    g = [n \in 0 .. depth |->
            IF n = 0 THEN {seed} ELSE g[n - 1] \cup Onward(seed, robot, g[n - 1])]

LEMMA ClimbsExist ==
    ASSUME NEW seed, NEW robot, NEW D \in Nat
    PROVE  \E g : Climbs(seed, robot, D, g)
  <1> DEFINE Bad == {m \in 1 .. D : ~ \E g : Climbs(seed, robot, m, g)}
  <1>1. \E g : Climbs(seed, robot, 0, g)
    <2> DEFINE h == [n \in 0 .. 0 |-> {seed}]
    <2>1. \A n \in 0 .. 0 : n = 0
      OBVIOUS
    <2>2. h = [n \in 0 .. 0 |->
                  IF n = 0 THEN {seed} ELSE h[n - 1] \cup Onward(seed, robot, h[n - 1])]
      BY <2>1
    <2> HIDE DEF h
    <2>3. Climbs(seed, robot, 0, h)
      BY <2>2 DEF Climbs
    <2>4. QED
      BY <2>3
  <1>2. SUFFICES ASSUME Bad # {} PROVE FALSE
    <2>1. CASE D = 0
      BY <1>1, <2>1
    <2>2. CASE D \in 1 .. D
      BY <1>2, <2>2
    <2>3. QED
      BY <2>1, <2>2
  <1>3. Bad \in SUBSET (1 .. D)
    OBVIOUS
  <1> HIDE DEF Bad
  <1>4. PICK m \in Bad : \A j \in Bad : m <= j
    BY <1>2, <1>3, LeastOfSome
  <1>5. m \in 1 .. D /\ ~ \E g : Climbs(seed, robot, m, g)
    BY DEF Bad
  <1>6. PICK g : Climbs(seed, robot, m - 1, g)
    <2>1. CASE m = 1
      BY <1>1, <2>1
    <2>2. CASE m # 1
      <3>1. m - 1 \in 1 .. D /\ ~ (m <= m - 1)
        BY <1>5, <2>2
      <3>2. m - 1 \notin Bad
        BY <1>4, <3>1
      <3>3. QED
        BY <3>1, <3>2 DEF Bad
    <2>3. QED
      BY <2>1, <2>2
  <1> DEFINE h == [n \in 0 .. m |->
                      IF n < m THEN g[n] ELSE g[m - 1] \cup Onward(seed, robot, g[m - 1])]
  <1>7. \A n \in 0 .. m - 1 : g[n] =
           IF n = 0 THEN {seed} ELSE g[n - 1] \cup Onward(seed, robot, g[n - 1])
    BY <1>6 DEF Climbs
  <1>8. \A n \in 0 .. m : h[n] =
           IF n = 0 THEN {seed} ELSE h[n - 1] \cup Onward(seed, robot, h[n - 1])
    <2> SUFFICES ASSUME NEW n \in 0 .. m
                 PROVE  h[n] = IF n = 0 THEN {seed}
                               ELSE h[n - 1] \cup Onward(seed, robot, h[n - 1])
      OBVIOUS
    <2>1. CASE n = 0
      <3>1. 0 \in 0 .. m - 1 /\ 0 \in 0 .. m /\ 0 < m
        BY <1>5
      <3>2. g[0] = {seed}
        BY <1>7, <3>1
      <3>3. h[0] = g[0]
        BY <3>1
      <3>4. QED
        BY <2>1, <3>2, <3>3
    <2>2. CASE n # 0
      <3>1. h[n - 1] = g[n - 1]
        BY <1>5, <2>2
      <3>2. h[n] = g[n - 1] \cup Onward(seed, robot, g[n - 1])
        <4>1. CASE n < m
          <5>1. n \in 0 .. m - 1 /\ h[n] = g[n]
            BY <1>5, <4>1
          <5>2. QED
            BY <1>7, <2>2, <5>1
        <4>2. CASE n = m
          BY <1>5, <4>2
        <4>3. QED
          BY <1>5, <4>1, <4>2
      <3>3. QED
        BY <2>2, <3>1, <3>2
    <2>3. QED
      BY <2>1, <2>2
  <1>9. DOMAIN h = 0 .. m /\ h = [n \in 0 .. m |-> h[n]]
    OBVIOUS
  <1> HIDE DEF h
  <1>10. Climbs(seed, robot, m, h)
    BY <1>8, <1>9 DEF Climbs
  <1>11. QED
    BY <1>5, <1>10

(* The levels: the first is the seed, each adds what follows from the one  *)
(* before, so none loses an url.                                           *)
LEMMA LevelSteps ==
    ASSUME NEW seed, NEW robot, NEW D \in Nat
    PROVE  /\ Within(seed, robot, D)[0] = {seed}
           /\ \A n \in 0 .. D : n # 0 =>
                 Within(seed, robot, D)[n] = Within(seed, robot, D)[n - 1]
                     \cup Onward(seed, robot, Within(seed, robot, D)[n - 1])
  <1> DEFINE w == CHOOSE g : Climbs(seed, robot, D, g)
  <1>1. Climbs(seed, robot, D, w)
    BY ClimbsExist
  <1>5. Within(seed, robot, D) = w
    BY DEF Within, Climbs
  <1> HIDE DEF w
  <1>2. \A n \in 0 .. D :
            w[n] = IF n = 0 THEN {seed} ELSE w[n - 1] \cup Onward(seed, robot, w[n - 1])
    BY <1>1 DEF Climbs
  <1>3. 0 \in 0 .. D
    OBVIOUS
  <1>4. QED
    BY <1>2, <1>3, <1>5

LEMMA LevelsGrow ==
    ASSUME NEW seed, NEW robot, NEW D \in Nat, NEW m \in 0 .. D, NEW n \in m .. D
    PROVE  Within(seed, robot, D)[m] \subseteq Within(seed, robot, D)[n]
  <1> DEFINE w == Within(seed, robot, D)
             Bad == {i \in 1 .. D : m <= i /\ ~ (w[m] \subseteq w[i])}
  <1>1. SUFFICES ASSUME Bad # {} PROVE FALSE
    <2>1. CASE n = 0
      BY <2>1
    <2>2. CASE n # 0
      <3>1. n \in 1 .. D /\ m <= n
        BY <2>2
      <3>2. QED
        BY <1>1, <3>1
    <2>3. QED
      BY <2>1, <2>2
  <1>2. Bad \in SUBSET (1 .. D)
    OBVIOUS
  <1> HIDE DEF Bad
  <1>3. PICK i \in Bad : \A j \in Bad : i <= j
    BY <1>1, <1>2, LeastOfSome
  <1>4. i \in 1 .. D /\ m <= i /\ ~ (w[m] \subseteq w[i])
    BY DEF Bad
  <1>5. i # m
    BY <1>4
  <1>6. w[i - 1] \subseteq w[i]
    BY <1>4, LevelSteps
  <1>7. w[m] \subseteq w[i - 1]
    <2>1. CASE i - 1 = m
      BY <2>1
    <2>2. CASE i - 1 # m
      <3>1. i - 1 \in 1 .. D /\ m <= i - 1 /\ ~ (i <= i - 1)
        BY <1>4, <1>5, <2>2
      <3>2. i - 1 \notin Bad
        BY <1>3, <3>1
      <3> HIDE DEF w
      <3>3. QED
        BY <3>1, <3>2 DEF Bad
    <2>3. QED
      BY <2>1, <2>2
  <1>8. QED
    BY <1>4, <1>6, <1>7

----------------------------------------------------------------------------
(* The crawl.  What a call was asked for is settled once robots.txt is     *)
(* read.                                                                   *)
Levels(k) == Within(k.seed, k.robot, k.maxDepth)
Queued(k) == {k.queue[i][1] : i \in 1 .. Len(k.queue)}
Handling == {"lookup", "get", "browser", "login", "reload", "store", "deliver", "save"}
Unread == {"lookup", "get"}

Asked(k) ==
    /\ k.maxDepth \in Nat /\ k.maxDepth <= DepthCeiling
    /\ k.maxPages \in Nat \ {0} /\ k.maxPages <= PagesCeiling
    /\ k.allowance \in Nat /\ k.robot \in BOOLEAN /\ k.whole \in BOOLEAN

Fresh(k) ==
    /\ k.depth = 0 /\ k.pages = {} /\ k.fetched = {} /\ k.budget = k.allowance
    /\ k.failedHosts = {} /\ k.whole

(* Whatever is met is within reach, queued urls are new, and none twice.   *)
Bounded(k) ==
    /\ k.depth <= k.maxDepth
    /\ k.fetched \subseteq k.visited
    /\ \A u \in k.fetched \cup {p.url : p \in k.pages} :
          u \in Levels(k)[k.maxDepth] /\ Allows(k.robot, u)
    /\ \A i \in 1 .. Len(k.queue) :
          /\ k.queue[i][2] <= k.maxDepth
          /\ k.queue[i][1] \in Levels(k)[k.queue[i][2]] \cap k.visited
          /\ k.queue[i][1] \notin k.fetched
    /\ \A i, j \in 1 .. Len(k.queue) : k.queue[i][1] = k.queue[j][1] => i = j

(* The page a crawl is at.                                                 *)
AtPage(k) ==
    /\ k.at \in Handling =>
          /\ k.url \in Levels(k)[k.depth] \cap k.visited
          /\ Allows(k.robot, k.url) /\ k.url \notin Queued(k)
          /\ Cardinality(k.pages) < k.maxPages
    /\ k.at \in Unread => k.url \notin k.fetched
    /\ k.at = "browser" => HostOf[k.url] \notin k.failedHosts
    /\ k.at \in Waiting \cup {"browser"} => k.kind = "read"
    /\ k.at = "done" => \/ Cardinality(k.pages) >= k.maxPages
                        \/ \A u \in Queued(k) : ~ Allows(k.robot, u)

(* What is returned inline and what is left of the budget.                 *)
Returned(k) ==
    /\ IsFiniteSet(k.pages) /\ k.pages \subseteq [url : Urls, how : {"inline", "saved", "unsaved"}]
    /\ Cardinality(k.pages) <= k.maxPages
    /\ k.budget \in Nat /\ InlineSize(k) + k.budget <= k.allowance

(* As long as nothing was missed the walk is breadth first: the queue is   *)
(* in the order of the levels, of which it holds two at most, each url is  *)
(* in it with the first level it belongs to, all of the level the crawl is *)
(* at is known, and so is what follows from a page that was fetched.       *)
NewAt(k, u, n) == \A m \in 0 .. n - 1 : u \notin Levels(k)[m]

Ordered(k) ==
    /\ \A i \in 1 .. Len(k.queue) :
          /\ k.queue[i][2] \in k.depth .. k.depth + 1
          /\ NewAt(k, k.queue[i][1], k.queue[i][2])
    /\ \A i, j \in 1 .. Len(k.queue) : i < j => k.queue[i][2] <= k.queue[j][2]
    /\ k.at \in Unread => NewAt(k, k.url, k.depth)

Known(k) ==
    \A u \in k.visited :
        \/ ~ Allows(k.robot, u) \/ u \in k.fetched \cup Queued(k)
        \/ k.at \in Unread /\ u = k.url

Followed(k) ==
    /\ Levels(k)[k.depth] \subseteq k.visited
    /\ \A u \in k.fetched, n \in 0 .. k.maxDepth - 1 :
          u \in Levels(k)[n] => Onward(k.seed, k.robot, {u}) \subseteq k.visited

BreadthFirst(k) == Ordered(k) /\ Known(k) /\ Followed(k)

CrawlInv(k) ==
    k.kind \in {"read", "download"} =>
        /\ k.at # "idle" /\ Asked(k)
        /\ k.at = "robots" => Fresh(k)
        /\ k.at # "robots" =>
              /\ Bounded(k) /\ AtPage(k) /\ Returned(k)
              /\ k.whole => BreadthFirst(k)

----------------------------------------------------------------------------
(* What next_url finds.                                                    *)

LEMMA NextUrlIs ==
    ASSUME NEW k, CallInv(k), k.robot \in BOOLEAN, NextUrl(k) # 0
    PROVE  /\ NextUrl(k) \in 1 .. Len(k.queue)
           /\ Allows(k.robot, k.queue[NextUrl(k)][1])
           /\ \A j \in 1 .. Len(k.queue) :
                 j < NextUrl(k) => ~ Allows(k.robot, k.queue[j][1])
           /\ ~ (Cardinality(k.pages) >= k.maxPages)
  <1> DEFINE ok == {i \in 1 .. Len(k.queue) : k.robot => k.queue[i][1] \notin Disallowed}
             i == NextUrl(k)
  <1>1. Len(k.queue) \in Nat
    BY DEF CallInv
  <1>2. ok \in SUBSET (1 .. Len(k.queue)) /\ ok # {}
        /\ ~ (Cardinality(k.pages) >= k.maxPages)
        /\ i = CHOOSE x \in ok : \A y \in ok : x <= y
    BY DEF NextUrl
  <1>3. \A x \in 1 .. Len(k.queue) : x \in ok <=> Allows(k.robot, k.queue[x][1])
    BY DEF Allows
  <1> HIDE DEF ok, i
  <1>4. i \in ok /\ \A y \in ok : i <= y
    BY <1>1, <1>2, LeastOfSome
  <1>5. \A j \in 1 .. Len(k.queue) : j < i => j \notin ok
    <2>1. i \in Int
      <3>1. i \in 1 .. Len(k.queue)
        BY <1>2, <1>4
      <3>2. QED
        BY <1>1, <3>1
    <2>2. \A j \in 1 .. Len(k.queue) : j < i => ~ (i <= j)
      BY <1>1, <2>1
    <2>3. QED
      BY <1>4, <2>2
  <1>6. QED
    BY <1>2, <1>3, <1>4, <1>5 DEF i

LEMMA NoNextUrl ==
    ASSUME NEW k, CallInv(k), k.robot \in BOOLEAN, NextUrl(k) = 0
    PROVE  \/ Cardinality(k.pages) >= k.maxPages
           \/ \A u \in Queued(k) : ~ Allows(k.robot, u)
  <1> DEFINE ok == {i \in 1 .. Len(k.queue) : k.robot => k.queue[i][1] \notin Disallowed}
  <1>1. Len(k.queue) \in Nat
    BY DEF CallInv
  <1>2. \A x \in 1 .. Len(k.queue) : x \in ok <=> Allows(k.robot, k.queue[x][1])
    BY DEF Allows
  <1>3. ok \in SUBSET (1 .. Len(k.queue))
    OBVIOUS
  <1>4. SUFFICES ASSUME ~ (Cardinality(k.pages) >= k.maxPages), ok # {} PROVE FALSE
    BY <1>2 DEF Queued
  <1>5. 0 = CHOOSE x \in ok : \A y \in ok : x <= y
    BY <1>4 DEF NextUrl
  <1> HIDE DEF ok
  <1>6. 0 \in ok
    BY <1>1, <1>3, <1>4, <1>5, LeastOfSome
  <1>7. QED
    BY <1>1, <1>3, <1>6

----------------------------------------------------------------------------
(* What a step leaves of a crawl.                                          *)

SameAsk(k, v) ==
    /\ v.kind = k.kind /\ v.seed = k.seed /\ v.maxDepth = k.maxDepth
    /\ v.maxPages = k.maxPages /\ v.allowance = k.allowance /\ v.robot = k.robot

SameWalk(k, v) ==
    /\ v.url = k.url /\ v.depth = k.depth /\ v.queue = k.queue /\ v.visited = k.visited

(* The parts of the invariant, for a crawl under way.                      *)
LEMMA CrawlParts ==
    ASSUME NEW k, Crawling(k), CrawlInv(k)
    PROVE  /\ k.at # "idle" /\ Asked(k) /\ Bounded(k) /\ AtPage(k) /\ Returned(k)
           /\ k.whole => BreadthFirst(k)
  BY DEF Crawling, CrawlInv

LEMMA CrawlWhole ==
    ASSUME NEW k, k.at \notin {"idle", "robots"}, Asked(k), Bounded(k), AtPage(k),
           Returned(k), k.whole => BreadthFirst(k)
    PROVE  CrawlInv(k)
  BY DEF CrawlInv

LEMMA SameLevels ==
    ASSUME NEW k, NEW v, SameAsk(k, v)
    PROVE  Levels(v) = Levels(k)
  BY DEF SameAsk, Levels

LEMMA SameQueue ==
    ASSUME NEW k, NEW v, SameWalk(k, v)
    PROVE  Queued(v) = Queued(k)
  BY DEF SameWalk, Queued

LEMMA SameAsked ==
    ASSUME NEW k, NEW v, SameAsk(k, v), Asked(k), v.whole \in BOOLEAN
    PROVE  Asked(v)
  BY DEF SameAsk, Asked

(* A page within reach is in the last level.                               *)
LEMMA InReach ==
    ASSUME NEW k, Asked(k), NEW n \in Nat, n <= k.maxDepth, NEW u \in Levels(k)[n]
    PROVE  u \in Levels(k)[k.maxDepth]
  <1>1. k.maxDepth \in Nat /\ n \in 0 .. k.maxDepth /\ k.maxDepth \in n .. k.maxDepth
    BY DEF Asked
  <1>2. QED
    BY <1>1, LevelsGrow DEF Levels

(* Steps that ask, walk and return nothing: the url may have been fetched. *)
LEMMA Moves ==
    ASSUME NEW k, NEW v, CallInv(k), CrawlInv(k), Crawling(k), SameAsk(k, v), SameWalk(k, v),
           v.pages = k.pages, v.budget = k.budget, v.whole \in BOOLEAN, v.whole => k.whole,
           v.at \notin {"idle", "robots"},
           \/ v.fetched = k.fetched /\ (v.whole /\ k.at \in Unread => v.at \in Unread)
           \/ /\ v.fetched = k.fetched \cup {k.url} /\ v.at \notin Unread
              /\ k.at \in Handling /\ (v.whole => k.url \in Gated),
           v.at \in Handling => k.at \in Handling,
           v.at \in Unread => k.at \in Unread /\ v.fetched = k.fetched,
           v.at = "browser" => HostOf[v.url] \notin v.failedHosts,
           v.at \in Waiting \cup {"browser"} => v.kind = "read",
           v.at = "done" => NextUrl(k) = 0
    PROVE  CrawlInv(v)
  <1>1. /\ Asked(k) /\ Bounded(k) /\ AtPage(k) /\ Returned(k)
        /\ k.whole => BreadthFirst(k)
    BY CrawlParts
  <1>2. Levels(v) = Levels(k) /\ Queued(v) = Queued(k) /\ Asked(v)
    BY <1>1, SameLevels, SameQueue, SameAsked
  <1>3. v.fetched \subseteq k.fetched \cup {k.url} /\ k.fetched \subseteq v.fetched
        /\ (v.fetched = k.fetched \/ k.at \in Handling)
    OBVIOUS
  <1>4. k.depth \in Nat /\ k.depth <= k.maxDepth
    BY <1>1 DEF CallInv, Bounded
  <1>5. k.at \in Handling =>
            /\ k.url \in k.visited /\ k.url \in Levels(k)[k.maxDepth]
            /\ Allows(k.robot, k.url) /\ k.url \notin Queued(k)
    BY <1>1, <1>4, InReach DEF AtPage
  <1>6. Bounded(v)
    <2>1. v.depth <= v.maxDepth /\ v.fetched \subseteq v.visited
      BY <1>1, <1>3, <1>5 DEF Bounded, SameAsk, SameWalk
    <2>2. \A u \in v.fetched \cup {p.url : p \in v.pages} :
             u \in Levels(v)[v.maxDepth] /\ Allows(v.robot, u)
      BY <1>1, <1>2, <1>3, <1>5 DEF Bounded, SameAsk
    <2>3. \A i \in 1 .. Len(v.queue) :
             /\ v.queue[i][2] <= v.maxDepth
             /\ v.queue[i][1] \in Levels(v)[v.queue[i][2]] \cap v.visited
             /\ v.queue[i][1] \notin v.fetched
      <3> SUFFICES ASSUME NEW i \in 1 .. Len(k.queue)
                   PROVE  /\ k.queue[i][2] <= k.maxDepth
                          /\ k.queue[i][1] \in Levels(k)[k.queue[i][2]] \cap k.visited
                          /\ k.queue[i][1] \notin v.fetched
        BY <1>2 DEF SameAsk, SameWalk
      <3>1. k.queue[i][1] \in Queued(k)
        BY DEF Queued
      <3>2. QED
        BY <1>1, <1>3, <1>5, <3>1 DEF Bounded
    <2>4. \A i, j \in 1 .. Len(v.queue) : v.queue[i][1] = v.queue[j][1] => i = j
      BY <1>1 DEF Bounded, SameWalk
    <2>5. QED
      BY <2>1, <2>2, <2>3, <2>4 DEF Bounded
  <1>7. AtPage(v)
    <2>1. v.at \in Handling =>
             /\ v.url \in Levels(v)[v.depth] \cap v.visited
             /\ Allows(v.robot, v.url) /\ v.url \notin Queued(v)
             /\ Cardinality(v.pages) < v.maxPages
      BY <1>1, <1>2 DEF AtPage, SameAsk, SameWalk
    <2>2. v.at \in Unread => v.url \notin v.fetched
      BY <1>1 DEF AtPage, SameWalk
    <2>3. v.at = "done" => \/ Cardinality(v.pages) >= v.maxPages
                           \/ \A u \in Queued(v) : ~ Allows(v.robot, u)
      BY <1>1, <1>2, NoNextUrl DEF SameAsk, Asked
    <2>4. QED
      BY <2>1, <2>2, <2>3 DEF AtPage
  <1>8. Returned(v)
    <2>1. InlineSize(v) = InlineSize(k)
      BY DEF InlineSize
    <2>2. QED
      BY <1>1, <2>1 DEF Returned, SameAsk
  <1>9. ASSUME v.whole PROVE BreadthFirst(v)
    <2>1. BreadthFirst(k)
      BY <1>1, <1>9
    <2>2. \A u, n : NewAt(v, u, n) <=> NewAt(k, u, n)
      BY <1>2 DEF NewAt
    <2>3. Ordered(v)
      <3>1. Ordered(k)
        BY <2>1 DEF BreadthFirst
      <3>2. \A i \in 1 .. Len(v.queue) :
               /\ v.queue[i][2] \in v.depth .. v.depth + 1
               /\ NewAt(v, v.queue[i][1], v.queue[i][2])
        BY <3>1, <2>2 DEF Ordered, SameWalk
      <3>3. \A i, j \in 1 .. Len(v.queue) : i < j => v.queue[i][2] <= v.queue[j][2]
        BY <3>1 DEF Ordered, SameWalk
      <3>4. v.at \in Unread => NewAt(v, v.url, v.depth)
        BY <3>1, <2>2 DEF Ordered, SameWalk
      <3>5. QED
        BY <3>2, <3>3, <3>4 DEF Ordered
    <2>4. Known(v)
      <3>1. Known(k)
        BY <2>1 DEF BreadthFirst
      <3>2. SUFFICES ASSUME NEW u \in k.visited, Allows(k.robot, u), u \notin Queued(k)
                     PROVE  u \in v.fetched \/ (v.at \in Unread /\ u = k.url)
        BY <1>2 DEF SameAsk, SameWalk, Known
      <3>3. u \in k.fetched \/ (k.at \in Unread /\ u = k.url)
        BY <3>1, <3>2 DEF Known
      <3>4. QED
        BY <1>3, <1>9, <3>3
    <2>5. Followed(v)
      <3>1. Followed(k)
        BY <2>1 DEF BreadthFirst
      <3>2. Levels(v)[v.depth] \subseteq v.visited
        BY <1>2, <3>1 DEF Followed, SameWalk
      <3>3. ASSUME NEW u \in v.fetched, NEW n \in 0 .. k.maxDepth - 1, u \in Levels(k)[n]
            PROVE  Onward(k.seed, k.robot, {u}) \subseteq k.visited
        <4>1. CASE u \in k.fetched
          BY <3>1, <3>3, <4>1 DEF Followed
        <4>2. CASE u \notin k.fetched
          <5>1. u \in Gated
            BY <1>9, <3>3, <4>2
          <5>2. Onward(k.seed, k.robot, {u}) = {}
            BY <5>1 DEF Onward
          <5>3. QED
            BY <5>2
        <4>3. QED
          BY <4>1, <4>2
      <3>4. QED
        BY <1>2, <3>2, <3>3 DEF SameAsk, SameWalk, Followed
    <2>6. QED
      BY <2>3, <2>4, <2>5 DEF BreadthFirst
  <1>10. QED
    BY <1>2, <1>6, <1>7, <1>8, <1>9, CrawlWhole

(* What is returned inline, as a sum over urls.                            *)
InlineUrls(k) == {p.url : p \in {q \in k.pages : q.how = "inline"}}

LEMMA InlineSizeIs ==
    ASSUME NEW k
    PROVE  InlineSize(k) = SumFunctionOnSet(SizeOf, InlineUrls(k))
  BY DEF InlineSize, InlineUrls, MapThenSumSet, SumFunctionOnSet, FoldFunctionOnSet

LEMMA InlineUrlsFinite ==
    ASSUME NEW k, Returned(k)
    PROVE  IsFiniteSet(InlineUrls(k)) /\ InlineUrls(k) \subseteq Urls
  <1> DEFINE I == {q \in k.pages : q.how = "inline"}
             f == [p \in I |-> p.url]
  <1>1. IsFiniteSet(I)
    BY FS_Subset DEF Returned
  <1>2. f \in Surjection(I, InlineUrls(k))
    BY DEF Surjection, InlineUrls
  <1> HIDE DEF I, f
  <1>3. IsFiniteSet(InlineUrls(k))
    BY <1>1, <1>2, FS_Surjection
  <1>4. InlineUrls(k) \subseteq Urls
    BY DEF InlineUrls, Returned
  <1>5. QED
    BY <1>3, <1>4

(* A page is returned: inline it takes what it needs from the budget.      *)
LEMMA Delivered ==
    ASSUME NEW k, NEW v, CallInv(k), CrawlInv(k), Crawling(k), SameAsk(k, v), SameWalk(k, v),
           v.fetched = k.fetched, v.whole = k.whole, v.at = "next",
           k.at \in {"deliver", "save"}, NEW how \in {"inline", "saved", "unsaved"},
           v.pages = k.pages \cup {[url |-> k.url, how |-> how]},
           how = "inline" => SizeOf[k.url] <= k.budget /\ v.budget = k.budget - SizeOf[k.url],
           how # "inline" => v.budget = k.budget
    PROVE  CrawlInv(v)
  <1> DEFINE p == [url |-> k.url, how |-> how]
  <1>1. /\ k.at # "idle" /\ Asked(k) /\ Bounded(k) /\ AtPage(k) /\ Returned(k)
        /\ k.whole => BreadthFirst(k)
    BY CrawlParts
  <1>2. Levels(v) = Levels(k) /\ Queued(v) = Queued(k) /\ Asked(v)
    BY <1>1, SameLevels, SameQueue, SameAsked DEF Asked
  <1>3. k.depth \in Nat /\ k.depth <= k.maxDepth /\ k.url \in Urls
    BY <1>1 DEF CallInv, Bounded
  <1>4. /\ k.url \in Levels(k)[k.maxDepth] /\ Allows(k.robot, k.url)
        /\ Cardinality(k.pages) < k.maxPages
    <2>1. k.at \in Handling
      BY DEF Handling
    <2>2. QED
      BY <1>1, <1>3, <2>1, InReach DEF AtPage
  <1>5. Bounded(v)
    <2>1. \A x \in v.pages : x \in k.pages \/ x.url = k.url
      OBVIOUS
    <2>2. \A u \in v.fetched \cup {x.url : x \in v.pages} :
             u \in Levels(v)[v.maxDepth] /\ Allows(v.robot, u)
      <3>1. \A u \in k.fetched \cup {x.url : x \in k.pages} :
               u \in Levels(k)[k.maxDepth] /\ Allows(k.robot, u)
        BY <1>1 DEF Bounded
      <3>2. \A u \in v.fetched \cup {x.url : x \in v.pages} :
               u \in k.fetched \cup {x.url : x \in k.pages} \/ u = k.url
        BY <2>1
      <3>3. QED
        BY <1>2, <1>4, <3>1, <3>2 DEF SameAsk
    <2>3. QED
      BY <1>1, <1>2, <2>2 DEF Bounded, SameAsk, SameWalk
  <1>6. AtPage(v)
    BY DEF AtPage, Handling, Unread, Waiting
  <1>7. Returned(v)
    <2>1. IsFiniteSet(k.pages) /\ k.pages \subseteq [url : Urls, how : {"inline", "saved", "unsaved"}]
          /\ k.budget \in Nat /\ InlineSize(k) + k.budget <= k.allowance
      BY <1>1 DEF Returned
    <2>2. IsFiniteSet(v.pages) /\ Cardinality(v.pages) <= v.maxPages
      <3>1. IsFiniteSet(v.pages) /\ Cardinality(v.pages) <= Cardinality(k.pages) + 1
        <4>1. Cardinality(k.pages) \in Nat
          BY <2>1, FS_CardinalityType
        <4> DEFINE T == k.pages \cup {p}
        <4>2. IsFiniteSet(T) /\ Cardinality(T) =
                 IF p \in k.pages THEN Cardinality(k.pages) ELSE Cardinality(k.pages) + 1
          <5> HIDE DEF p
          <5>1. QED
            BY <2>1, FS_AddElement
        <4>3. v.pages = T
          OBVIOUS
        <4> HIDE DEF p, T
        <4>4. IsFiniteSet(T) /\ Cardinality(T) <= Cardinality(k.pages) + 1
          BY <4>1, <4>2
        <4>5. QED
          BY <4>3, <4>4
      <3>2. Cardinality(k.pages) \in Nat /\ Cardinality(v.pages) \in Nat /\ k.maxPages \in Nat
        BY <1>1, <2>1, <3>1, FS_CardinalityType DEF Asked
      <3>3. QED
        BY <1>4, <3>1, <3>2 DEF SameAsk
    <2>3. v.pages \subseteq [url : Urls, how : {"inline", "saved", "unsaved"}]
      BY <1>3, <2>1
    <2>4. IsFiniteSet(InlineUrls(k)) /\ InlineUrls(k) \subseteq Urls
      BY <1>1, InlineUrlsFinite
    <2>5. SizeOf[k.url] \in Nat /\ \A u \in InlineUrls(k) \cup {k.url} : SizeOf[u] \in Nat
      BY <1>3, <2>4, WebConstants
    <2>6. InlineSize(k) \in Nat
      BY <2>4, <2>5, InlineSizeIs, SumType
    <2>7. CASE how = "inline"
      <3>1. InlineUrls(v) = InlineUrls(k) \cup {k.url}
        <4> DEFINE I == {q \in k.pages : q.how = "inline"}
        <4>1. p.how = "inline" /\ p.url = k.url /\ v.pages = k.pages \cup {p}
          BY <2>7
        <4> HIDE DEF p
        <4>2. {q \in v.pages : q.how = "inline"} = I \cup {p}
          BY <4>1
        <4>3. {q.url : q \in I \cup {p}} = {q.url : q \in I} \cup {k.url}
          <5> HIDE DEF I
          <5>1. QED
            BY <4>1
        <4>4. QED
          BY <4>2, <4>3 DEF InlineUrls
      <3>2. InlineSize(v) = InlineSize(k) + IF k.url \in InlineUrls(k) THEN 0 ELSE SizeOf[k.url]
        BY <2>4, <2>5, <3>1, InlineSizeIs, SumAdd
      <3>3. InlineSize(v) \in Nat /\ InlineSize(v) <= InlineSize(k) + SizeOf[k.url]
        BY <2>5, <2>6, <3>2
      <3>4. v.budget \in Nat /\ InlineSize(v) + v.budget <= k.allowance
        BY <1>1, <2>1, <2>5, <2>6, <2>7, <3>3 DEF Asked
      <3>5. QED
        BY <2>2, <2>3, <3>4 DEF Returned, SameAsk
    <2>8. CASE how # "inline"
      <3>1. {q \in v.pages : q.how = "inline"} = {q \in k.pages : q.how = "inline"}
        BY <2>8
      <3>2. InlineSize(v) = InlineSize(k)
        BY <3>1 DEF InlineSize
      <3>3. QED
        BY <2>1, <2>2, <2>3, <2>8, <3>2 DEF Returned, SameAsk
    <2>9. QED
      BY <2>7, <2>8
  <1>8. ASSUME v.whole PROVE BreadthFirst(v)
    <2>1. Ordered(k) /\ Known(k) /\ Followed(k)
      BY <1>1, <1>8 DEF BreadthFirst
    <2>2. \A u, n : NewAt(v, u, n) <=> NewAt(k, u, n)
      BY <1>2 DEF NewAt
    <2>3. k.at \notin Unread /\ v.at \notin Unread
      BY DEF Unread
    <2>4. Ordered(v)
      BY <2>1, <2>2, <2>3 DEF Ordered, SameWalk
    <2>5. Known(v)
      BY <1>2, <2>1, <2>3 DEF Known, SameWalk, SameAsk
    <2>6. Followed(v)
      BY <1>2, <2>1 DEF Followed, SameWalk, SameAsk
    <2>7. QED
      BY <2>4, <2>5, <2>6 DEF BreadthFirst
  <1>9. QED
    BY <1>2, <1>5, <1>6, <1>7, <1>8, CrawlWhole

(* The next url is taken, with those before it that robots.txt rules out.  *)
LEMMA Popped ==
    ASSUME NEW k, NEW v, CallInv(k), CrawlInv(k), Crawling(k), SameAsk(k, v),
           k.at = "next", NextUrl(k) # 0,
           v.visited = k.visited, v.fetched = k.fetched, v.pages = k.pages,
           v.budget = k.budget, v.whole = k.whole,
           v.url = k.queue[NextUrl(k)][1], v.depth = k.queue[NextUrl(k)][2],
           Len(v.queue) = Len(k.queue) - NextUrl(k),
           \A j \in 1 .. Len(v.queue) : v.queue[j] = k.queue[j + NextUrl(k)],
           v.at \in {"lookup", "get"}
    PROVE  CrawlInv(v)
  <1>1. /\ k.at # "idle" /\ Asked(k) /\ Bounded(k) /\ AtPage(k) /\ Returned(k)
        /\ k.whole => BreadthFirst(k)
    BY CrawlParts
  <1>2. Levels(v) = Levels(k) /\ Asked(v)
    BY <1>1, SameLevels, SameAsked DEF Asked
  <1>3. PICK i : i = NextUrl(k)
    OBVIOUS
  <1>4. /\ i \in 1 .. Len(k.queue) /\ Len(k.queue) \in Nat
        /\ \A j \in 1 .. Len(k.queue) : k.queue[j] \in Urls \X Nat
        /\ Allows(k.robot, k.queue[i][1])
        /\ \A j \in 1 .. Len(k.queue) : j < i => ~ Allows(k.robot, k.queue[j][1])
        /\ ~ (Cardinality(k.pages) >= k.maxPages)
    <2>1. k.queue \in Seq(Urls \X Nat) /\ k.robot \in BOOLEAN
      BY <1>1 DEF CallInv, Asked
    <2>2. Len(k.queue) \in Nat /\ \A j \in 1 .. Len(k.queue) : k.queue[j] \in Urls \X Nat
      BY <2>1, ElementOfSeq
    <2>3. QED
      BY <1>3, <2>1, <2>2, NextUrlIs
  <1>5. \A j \in 1 .. Len(v.queue) : j + i \in 1 .. Len(k.queue) /\ v.queue[j] = k.queue[j + i]
    <2>1. \A a, b \in Nat : b <= a => \A j \in 1 .. a - b : j + b \in 1 .. a
      OBVIOUS
    <2>2. i \in Nat /\ i <= Len(k.queue) /\ Len(v.queue) = Len(k.queue) - i
      BY <1>3, <1>4
    <2>3. \A j \in 1 .. Len(v.queue) : j + i \in 1 .. Len(k.queue)
      BY <1>4, <2>1, <2>2
    <2>4. QED
      BY <1>3, <2>3
  <1>6. \A j \in 1 .. Len(k.queue) : j > i => j - i \in 1 .. Len(v.queue)
                                               /\ v.queue[j - i] = k.queue[j]
    <2> SUFFICES ASSUME NEW j \in 1 .. Len(k.queue), j > i
                 PROVE  j - i \in 1 .. Len(v.queue) /\ v.queue[j - i] = k.queue[j]
      OBVIOUS
    <2>1. j - i \in 1 .. Len(v.queue) /\ (j - i) + i = j
      BY <1>3, <1>4
    <2>2. QED
      BY <1>5, <2>1
  <1>7. v.url = k.queue[i][1] /\ v.depth = k.queue[i][2] /\ v.depth \in Nat
    BY <1>3, <1>4
  <1>8. Queued(v) \subseteq Queued(k) \ {v.url}
    <2> SUFFICES ASSUME NEW j \in 1 .. Len(v.queue)
                 PROVE  v.queue[j][1] \in Queued(k) /\ v.queue[j][1] # v.url
      BY DEF Queued
    <2>1. j + i \in 1 .. Len(k.queue) /\ v.queue[j] = k.queue[j + i] /\ j + i # i
      BY <1>4, <1>5
    <2>2. QED
      BY <1>1, <1>4, <1>7, <2>1 DEF Queued, Bounded
  <1>9. Bounded(v)
    <2>1. v.depth <= v.maxDepth /\ v.fetched \subseteq v.visited
      BY <1>1, <1>4, <1>7 DEF Bounded, SameAsk
    <2>2. \A u \in v.fetched \cup {p.url : p \in v.pages} :
             u \in Levels(v)[v.maxDepth] /\ Allows(v.robot, u)
      BY <1>1, <1>2 DEF Bounded, SameAsk
    <2>3. \A j \in 1 .. Len(v.queue) :
             /\ v.queue[j][2] <= v.maxDepth
             /\ v.queue[j][1] \in Levels(v)[v.queue[j][2]] \cap v.visited
             /\ v.queue[j][1] \notin v.fetched
      <3> SUFFICES ASSUME NEW j \in 1 .. Len(v.queue)
                   PROVE  /\ v.queue[j][2] <= v.maxDepth
                          /\ v.queue[j][1] \in Levels(v)[v.queue[j][2]] \cap v.visited
                          /\ v.queue[j][1] \notin v.fetched
        OBVIOUS
      <3>1. PICK x \in 1 .. Len(k.queue) : v.queue[j] = k.queue[x]
        BY <1>5
      <3>2. QED
        BY <1>1, <1>2, <3>1 DEF Bounded, SameAsk
    <2>4. ASSUME NEW j \in 1 .. Len(v.queue), NEW x \in 1 .. Len(v.queue),
                 v.queue[j][1] = v.queue[x][1]
          PROVE  j = x
      <3>1. PICK y \in 1 .. Len(k.queue) : y = j + i /\ v.queue[j] = k.queue[y]
        BY <1>5
      <3>2. PICK z \in 1 .. Len(k.queue) : z = x + i /\ v.queue[x] = k.queue[z]
        BY <1>5
      <3>3. y = z
        BY <1>1, <2>4, <3>1, <3>2 DEF Bounded
      <3>4. QED
        BY <1>4, <3>1, <3>2, <3>3
    <2>5. QED
      BY <2>1, <2>2, <2>3, <2>4 DEF Bounded
  <1>10. AtPage(v)
    <2>1. v.url \in Levels(v)[v.depth] \cap v.visited /\ v.url \notin v.fetched
      BY <1>1, <1>2, <1>4, <1>7 DEF Bounded
    <2>2. Allows(v.robot, v.url) /\ v.url \notin Queued(v)
      BY <1>4, <1>7, <1>8 DEF SameAsk
    <2>3. Cardinality(v.pages) < v.maxPages
      <3>1. Cardinality(k.pages) \in Nat /\ k.maxPages \in Nat
        BY <1>1, FS_CardinalityType DEF Asked, Returned
      <3>2. QED
        BY <1>4, <3>1 DEF SameAsk
    <2>4. QED
      BY <2>1, <2>2, <2>3 DEF AtPage, Waiting
  <1>11. Returned(v)
    <2>1. InlineSize(v) = InlineSize(k)
      BY DEF InlineSize
    <2>2. QED
      BY <1>1, <2>1 DEF Returned, SameAsk
  <1>12. ASSUME v.whole PROVE BreadthFirst(v)
    <2>1. Ordered(k) /\ Known(k) /\ Followed(k)
      BY <1>1, <1>12 DEF BreadthFirst
    <2>2. \A u, n : NewAt(v, u, n) <=> NewAt(k, u, n)
      BY <1>2 DEF NewAt
    <2>3. v.depth \in k.depth .. k.depth + 1 /\ NewAt(k, v.url, v.depth) /\ k.depth \in Nat
      BY <1>4, <1>7, <2>1 DEF Ordered, CallInv
    <2>4. Ordered(v)
      <3>1. ASSUME NEW j \in 1 .. Len(v.queue)
            PROVE  v.queue[j][2] \in v.depth .. v.depth + 1
                   /\ NewAt(v, v.queue[j][1], v.queue[j][2])
        <4>1. j + i \in 1 .. Len(k.queue) /\ v.queue[j] = k.queue[j + i] /\ i < j + i
          <5>1. j + i \in 1 .. Len(k.queue) /\ v.queue[j] = k.queue[j + i]
            BY <1>5
          <5>2. i \in Nat /\ Len(v.queue) \in Nat
            BY <1>4, <1>5
          <5>3. i < j + i
            BY <5>2
          <5>4. QED
            BY <5>1, <5>3
        <4>2. k.queue[i][2] <= k.queue[j + i][2] /\ k.queue[j + i][2] \in k.depth .. k.depth + 1
              /\ NewAt(k, k.queue[j + i][1], k.queue[j + i][2])
          BY <1>4, <2>1, <4>1 DEF Ordered
        <4>3. v.queue[j][2] \in v.depth .. v.depth + 1
          <5>1. \A a \in Nat : \A b, e \in a .. a + 1 : b <= e => e \in b .. b + 1
            OBVIOUS
          <5>2. v.depth <= v.queue[j][2] /\ v.queue[j][2] \in k.depth .. k.depth + 1
            BY <1>7, <4>1, <4>2
          <5>3. QED
            BY <2>3, <5>1, <5>2
        <4>4. QED
          BY <2>2, <4>1, <4>2, <4>3
      <3>2. ASSUME NEW j \in 1 .. Len(v.queue), NEW x \in 1 .. Len(v.queue), j < x
            PROVE  v.queue[j][2] <= v.queue[x][2]
        <4>1. j + i < x + i
          BY <1>3, <1>4, <3>2
        <4>2. QED
          BY <1>5, <2>1, <4>1 DEF Ordered
      <3>3. NewAt(v, v.url, v.depth)
        BY <2>2, <2>3
      <3>4. QED
        BY <3>1, <3>2, <3>3 DEF Ordered
    <2>5. Known(v)
      <3> SUFFICES ASSUME NEW u \in k.visited, Allows(k.robot, u)
                   PROVE  u \in k.fetched \/ u \in Queued(v) \/ u = v.url
        BY DEF Known, SameAsk, Unread
      <3>1. CASE u \in Queued(k)
        <4>1. PICK j \in 1 .. Len(k.queue) : u = k.queue[j][1]
          BY <3>1 DEF Queued
        <4>2. ~ (j < i)
          BY <1>4, <4>1
        <4>3. CASE j = i
          BY <1>7, <4>1, <4>3
        <4>4. CASE j # i
          <5>1. j > i
            BY <1>4, <4>2, <4>4
          <5>2. QED
            BY <1>6, <4>1, <5>1 DEF Queued
        <4>5. QED
          BY <4>3, <4>4
      <3>2. CASE u \notin Queued(k)
        BY <2>1, <3>2 DEF Known, Unread
      <3>3. QED
        BY <3>1, <3>2
    <2>6. Levels(k)[v.depth] \subseteq k.visited
      <3>1. CASE v.depth = k.depth
        BY <2>1, <3>1 DEF Followed
      <3>2. CASE v.depth # k.depth
        <4>1. v.depth = k.depth + 1 /\ v.depth \in 0 .. k.maxDepth /\ v.depth # 0
              /\ v.depth - 1 = k.depth /\ k.depth \in 0 .. k.maxDepth - 1
          BY <1>1, <1>4, <1>7, <2>3, <3>2 DEF Bounded, Asked
        <4>2. Levels(k)[v.depth]
                = Levels(k)[k.depth] \cup Onward(k.seed, k.robot, Levels(k)[k.depth])
          BY <1>1, <4>1, LevelSteps DEF Levels, Asked
        <4>3. ASSUME NEW w \in Onward(k.seed, k.robot, Levels(k)[k.depth])
              PROVE  w \in k.visited
          <5>1. PICK u \in Levels(k)[k.depth] :
                    Allows(k.robot, u) /\ w \in Onward(k.seed, k.robot, {u})
            BY DEF Onward
          <5>2. u \in k.visited
            BY <2>1 DEF Followed
          <5>3. u \notin Queued(k)
            <6> SUFFICES ASSUME NEW j \in 1 .. Len(k.queue), u = k.queue[j][1] PROVE FALSE
              BY DEF Queued
            <6>1. ~ (j < i)
              BY <1>4, <5>1
            <6>2. k.queue[i][2] <= k.queue[j][2]
              <7>1. CASE j = i
                BY <1>4, <7>1
              <7>2. CASE i < j
                BY <1>4, <2>1, <7>2 DEF Ordered
              <7>3. QED
                BY <1>4, <6>1, <7>1, <7>2
            <6>3. k.depth \in 0 .. k.queue[j][2] - 1
              BY <1>4, <1>7, <2>3, <4>1, <6>2
            <6>4. NewAt(k, u, k.queue[j][2])
              BY <2>1 DEF Ordered
            <6>5. QED
              BY <6>3, <6>4 DEF NewAt
          <5>4. u \in k.fetched
            BY <2>1, <5>1, <5>2, <5>3 DEF Known, Unread
          <5>5. QED
            BY <2>1, <4>1, <5>1, <5>4 DEF Followed
        <4>4. QED
          BY <2>1, <4>2, <4>3 DEF Followed
      <3>3. QED
        BY <3>1, <3>2
    <2>7. Followed(v)
      BY <1>2, <2>1, <2>6 DEF Followed, SameAsk
    <2>8. QED
      BY <2>4, <2>5, <2>7 DEF BreadthFirst
  <1>13. v.at \notin {"idle", "robots"}
    OBVIOUS
  <1>14. QED
    BY <1>2, <1>9, <1>10, <1>11, <1>12, <1>13, CrawlWhole

(* A page is fetched: its new links join the end of the queue.             *)
LEMMA Expanded ==
    ASSUME NEW k, NEW v, CallInv(k), CrawlInv(k), Crawling(k), SameAsk(k, v),
           k.at = "get", k.url \notin Gated, v.at \in {"store", "save"},
           v.url = k.url, v.depth = k.depth, v.pages = k.pages, v.budget = k.budget,
           v.whole = k.whole, v.fetched = k.fetched \cup {k.url},
           NEW new \in Seq(Urls), Len(new) # 0 => k.depth < k.maxDepth,
           \A m, n \in 1 .. Len(new) : new[m] = new[n] => m = n,
           \A m \in 1 .. Len(new) : IsNewLink(k, new[m]),
           k.depth < k.maxDepth =>
               \A w : IsNewLink(k, w) => \E m \in 1 .. Len(new) : new[m] = w,
           v.visited = k.visited \cup {new[m] : m \in 1 .. Len(new)},
           Len(v.queue) = Len(k.queue) + Len(new),
           \A j \in 1 .. Len(k.queue) : v.queue[j] = k.queue[j],
           \A m \in 1 .. Len(new) : v.queue[Len(k.queue) + m] = <<new[m], k.depth + 1>>
    PROVE  CrawlInv(v)
  <1>1. /\ k.at # "idle" /\ Asked(k) /\ Bounded(k) /\ AtPage(k) /\ Returned(k)
        /\ k.whole => BreadthFirst(k)
    BY CrawlParts
  <1>2. Levels(v) = Levels(k) /\ Asked(v)
    BY <1>1, SameLevels, SameAsked DEF Asked
  <1>3. k.depth \in Nat /\ k.maxDepth \in Nat /\ k.depth <= k.maxDepth /\ k.url \in Urls
        /\ k.robot \in BOOLEAN
    BY <1>1 DEF CallInv, Bounded, Asked
  <1>4. /\ k.url \in Levels(k)[k.depth] /\ k.url \in k.visited /\ Allows(k.robot, k.url)
        /\ k.url \notin Queued(k) /\ k.url \notin k.fetched
        /\ Cardinality(k.pages) < k.maxPages
    BY <1>1 DEF AtPage, Handling, Unread
  <1>5. k.url \in Levels(k)[k.maxDepth]
    BY <1>1, <1>3, <1>4, InReach
  <1>6. Len(k.queue) \in Nat /\ Len(new) \in Nat
    BY DEF CallInv
  <1>7. ASSUME NEW x \in 1 .. Len(v.queue)
        PROVE  \/ x \in 1 .. Len(k.queue) /\ v.queue[x] = k.queue[x]
               \/ \E m \in 1 .. Len(new) :
                     x = Len(k.queue) + m /\ v.queue[x] = <<new[m], k.depth + 1>>
    <2>1. CASE x <= Len(k.queue)
      BY <1>6, <2>1
    <2>2. CASE x > Len(k.queue)
      <3>1. PICK m \in 1 .. Len(new) : x = Len(k.queue) + m
        <4>1. x - Len(k.queue) \in 1 .. Len(new) /\ x = Len(k.queue) + (x - Len(k.queue))
          BY <1>6, <2>2
        <4>2. QED
          BY <4>1
      <3>2. v.queue[Len(k.queue) + m] = <<new[m], k.depth + 1>>
        OBVIOUS
      <3>3. QED
        BY <3>1, <3>2
    <2>3. QED
      BY <1>6, <2>1, <2>2
  <1>8. Queued(v) = Queued(k) \cup {new[m] : m \in 1 .. Len(new)}
    <2>1. ASSUME NEW u \in Queued(v)
          PROVE  u \in Queued(k) \cup {new[m] : m \in 1 .. Len(new)}
      <3>1. PICK x \in 1 .. Len(v.queue) : u = v.queue[x][1]
        BY DEF Queued
      <3>2. CASE x \in 1 .. Len(k.queue) /\ v.queue[x] = k.queue[x]
        BY <3>1, <3>2 DEF Queued
      <3>3. CASE \E m \in 1 .. Len(new) :
                    x = Len(k.queue) + m /\ v.queue[x] = <<new[m], k.depth + 1>>
        <4>1. PICK m \in 1 .. Len(new) : v.queue[x] = <<new[m], k.depth + 1>>
          BY <3>3
        <4>2. u = new[m]
          BY <3>1, <4>1
        <4>3. QED
          BY <4>2
      <3>4. QED
        BY <1>7, <3>2, <3>3
    <2>2. ASSUME NEW x \in 1 .. Len(k.queue) PROVE k.queue[x][1] \in Queued(v)
      <3>1. x \in 1 .. Len(v.queue) /\ v.queue[x] = k.queue[x]
        BY <1>6
      <3>2. QED
        BY <3>1 DEF Queued
    <2>3. ASSUME NEW m \in 1 .. Len(new) PROVE new[m] \in Queued(v)
      <3>1. Len(k.queue) + m \in 1 .. Len(v.queue)
        BY <1>6
      <3>2. v.queue[Len(k.queue) + m][1] = new[m]
        <4>1. PICK e : e = v.queue[Len(k.queue) + m]
          OBVIOUS
        <4>2. e = <<new[m], k.depth + 1>>
          BY <4>1
        <4>3. e[1] = new[m]
          BY <4>2
        <4>4. QED
          BY <4>1, <4>3
      <3>3. QED
        BY <3>1, <3>2 DEF Queued
    <2>4. Queued(k) \subseteq Queued(v)
      <3>1. ASSUME NEW u \in Queued(k) PROVE u \in Queued(v)
        <4>1. PICK x \in 1 .. Len(k.queue) : u = k.queue[x][1]
          BY DEF Queued
        <4>2. QED
          BY <2>2, <4>1
      <3>2. QED
        BY <3>1
    <2>5. QED
      BY <2>1, <2>3, <2>4
  <1>9. ASSUME NEW m \in 1 .. Len(new)
        PROVE  /\ new[m] \in Urls \ (k.visited \cup Blocked) /\ SameHost(new[m], k.seed)
               /\ \E i \in 1 .. Len(Links[k.url]) : Links[k.url][i] = new[m]
               /\ k.depth < k.maxDepth
    BY <1>6 DEF IsNewLink
  <1>10. ASSUME NEW m \in 1 .. Len(new)
         PROVE  new[m] \in Levels(k)[k.depth + 1] /\ k.depth + 1 <= k.maxDepth
    <2>1. new[m] \in Onward(k.seed, k.robot, Levels(k)[k.depth])
      BY <1>4, <1>9 DEF Onward
    <2>2. k.depth + 1 \in 0 .. k.maxDepth /\ k.depth + 1 # 0 /\ (k.depth + 1) - 1 = k.depth
      <3>1. k.depth < k.maxDepth
        BY <1>9
      <3>2. \A a, b \in Nat : a < b => a + 1 \in 0 .. b /\ a + 1 # 0 /\ (a + 1) - 1 = a
        OBVIOUS
      <3>3. QED
        BY <1>3, <3>1, <3>2
    <2>3. Levels(k)[k.depth + 1]
            = Levels(k)[k.depth] \cup Onward(k.seed, k.robot, Levels(k)[k.depth])
      <3>1. PICK n : n = k.depth + 1
        OBVIOUS
      <3>2. n \in 0 .. k.maxDepth /\ n # 0 /\ n - 1 = k.depth
        BY <2>2, <3>1
      <3>3. Levels(k)[n] = Levels(k)[n - 1] \cup Onward(k.seed, k.robot, Levels(k)[n - 1])
        BY <1>3, <3>2, LevelSteps DEF Levels
      <3>4. QED
        BY <3>1, <3>2, <3>3
    <2>4. QED
      BY <1>3, <2>1, <2>2, <2>3
  <1>11. Bounded(v)
    <2>1. v.depth <= v.maxDepth /\ v.fetched \subseteq v.visited
      BY <1>1, <1>3, <1>4 DEF Bounded, SameAsk
    <2>2. \A u \in v.fetched \cup {p.url : p \in v.pages} :
             u \in Levels(v)[v.maxDepth] /\ Allows(v.robot, u)
      BY <1>1, <1>2, <1>4, <1>5 DEF Bounded, SameAsk
    <2>3. ASSUME NEW x \in 1 .. Len(v.queue)
          PROVE  /\ v.queue[x][2] <= v.maxDepth
                 /\ v.queue[x][1] \in Levels(v)[v.queue[x][2]] \cap v.visited
                 /\ v.queue[x][1] \notin v.fetched
      <3>1. CASE x \in 1 .. Len(k.queue) /\ v.queue[x] = k.queue[x]
        <4>1. k.queue[x][1] # k.url
          BY <1>4, <3>1 DEF Queued
        <4>2. QED
          BY <1>1, <1>2, <3>1, <4>1 DEF Bounded, SameAsk
      <3>2. ASSUME NEW m \in 1 .. Len(new), v.queue[x] = <<new[m], k.depth + 1>>
            PROVE  /\ v.queue[x][2] <= v.maxDepth
                   /\ v.queue[x][1] \in Levels(v)[v.queue[x][2]] \cap v.visited
                   /\ v.queue[x][1] \notin v.fetched
        <4>1. v.queue[x][1] = new[m] /\ v.queue[x][2] = k.depth + 1
          BY <3>2
        <4>2. new[m] \notin v.fetched /\ new[m] \in v.visited
          BY <1>1, <1>4, <1>9 DEF Bounded
        <4>3. QED
          BY <1>2, <1>10, <4>1, <4>2 DEF SameAsk
      <3>3. QED
        BY <1>7, <3>1, <3>2
    <2>4. ASSUME NEW x \in 1 .. Len(v.queue), NEW y \in 1 .. Len(v.queue),
                 v.queue[x][1] = v.queue[y][1]
          PROVE  x = y
      <3>1. \A i \in 1 .. Len(k.queue) : k.queue[i][1] \in k.visited
        BY <1>1 DEF Bounded
      <3>2. \A m \in 1 .. Len(new) : new[m] \notin k.visited
        BY <1>9
      <3>3. CASE /\ x \in 1 .. Len(k.queue) /\ v.queue[x] = k.queue[x]
                 /\ y \in 1 .. Len(k.queue) /\ v.queue[y] = k.queue[y]
        BY <1>1, <2>4, <3>3 DEF Bounded
      <3>4. ASSUME NEW m \in 1 .. Len(new), NEW n \in 1 .. Len(new),
                   x = Len(k.queue) + m, v.queue[x] = <<new[m], k.depth + 1>>,
                   y = Len(k.queue) + n, v.queue[y] = <<new[n], k.depth + 1>>
            PROVE  x = y
        <4>1. new[m] = new[n]
          BY <2>4, <3>4
        <4>2. QED
          BY <3>4, <4>1
      <3>5. CASE /\ x \in 1 .. Len(k.queue) /\ v.queue[x] = k.queue[x]
                 /\ \E m \in 1 .. Len(new) : v.queue[y] = <<new[m], k.depth + 1>>
        BY <2>4, <3>1, <3>2, <3>5
      <3>6. CASE /\ y \in 1 .. Len(k.queue) /\ v.queue[y] = k.queue[y]
                 /\ \E m \in 1 .. Len(new) : v.queue[x] = <<new[m], k.depth + 1>>
        BY <2>4, <3>1, <3>2, <3>6
      <3>7. QED
        BY <1>7, <3>3, <3>4, <3>5, <3>6
    <2>5. QED
      BY <2>1, <2>2, <2>3, <2>4 DEF Bounded
  <1>12. AtPage(v)
    <2>1. v.url \in Levels(v)[v.depth] \cap v.visited
      BY <1>2, <1>4
    <2>2. Allows(v.robot, v.url) /\ Cardinality(v.pages) < v.maxPages
      BY <1>4 DEF SameAsk
    <2>3. v.url \notin Queued(v)
      BY <1>4, <1>8, <1>9
    <2>4. QED
      BY <2>1, <2>2, <2>3 DEF AtPage, Unread, Waiting
  <1>13. Returned(v)
    <2>1. InlineSize(v) = InlineSize(k)
      BY DEF InlineSize
    <2>2. QED
      BY <1>1, <2>1 DEF Returned, SameAsk
  <1>14. ASSUME v.whole PROVE BreadthFirst(v)
    <2>1. Ordered(k) /\ Known(k) /\ Followed(k)
      BY <1>1, <1>14 DEF BreadthFirst
    <2>2. \A u, n : NewAt(v, u, n) <=> NewAt(k, u, n)
      BY <1>2 DEF NewAt
    <2>3. ASSUME NEW m \in 1 .. Len(new) PROVE NewAt(k, new[m], k.depth + 1)
      <3> SUFFICES ASSUME NEW n \in 0 .. k.depth PROVE new[m] \notin Levels(k)[n]
        BY <1>3 DEF NewAt
      <3>1. Levels(k)[n] \subseteq Levels(k)[k.depth]
        <4>1. n \in 0 .. k.maxDepth /\ k.depth \in n .. k.maxDepth
          BY <1>3
        <4>2. QED
          BY <1>3, <4>1, LevelsGrow DEF Levels
      <3>2. QED
        BY <1>9, <2>1, <3>1 DEF Followed
    <2>4. Ordered(v)
      <3>1. ASSUME NEW x \in 1 .. Len(v.queue)
            PROVE  v.queue[x][2] \in v.depth .. v.depth + 1
                   /\ NewAt(v, v.queue[x][1], v.queue[x][2])
        <4>1. CASE x \in 1 .. Len(k.queue) /\ v.queue[x] = k.queue[x]
          BY <2>1, <2>2, <4>1 DEF Ordered
        <4>2. ASSUME NEW m \in 1 .. Len(new), v.queue[x] = <<new[m], k.depth + 1>>
              PROVE  v.queue[x][2] \in v.depth .. v.depth + 1
                     /\ NewAt(v, v.queue[x][1], v.queue[x][2])
          <5>1. v.queue[x][1] = new[m] /\ v.queue[x][2] = k.depth + 1
            BY <4>2
          <5>2. k.depth + 1 \in v.depth .. v.depth + 1
            BY <1>3
          <5>3. NewAt(v, new[m], k.depth + 1)
            BY <2>2, <2>3
          <5>4. QED
            BY <5>1, <5>2, <5>3
        <4>3. QED
          BY <1>7, <4>1, <4>2
      <3>2. ASSUME NEW x \in 1 .. Len(v.queue), NEW y \in 1 .. Len(v.queue), x < y
            PROVE  v.queue[x][2] <= v.queue[y][2]
        <4>1. CASE y \in 1 .. Len(k.queue) /\ v.queue[y] = k.queue[y]
          <5>1. x \in 1 .. Len(k.queue) /\ v.queue[x] = k.queue[x]
            BY <1>6, <3>2, <4>1
          <5>2. QED
            BY <2>1, <3>2, <4>1, <5>1 DEF Ordered
        <4>2. ASSUME NEW m \in 1 .. Len(new), v.queue[y] = <<new[m], k.depth + 1>>
              PROVE  v.queue[x][2] <= v.queue[y][2]
          <5>1. v.queue[y][2] = k.depth + 1
            BY <4>2
          <5>2. v.queue[x][2] \in k.depth .. k.depth + 1
            BY <3>1
          <5>3. QED
            BY <1>3, <5>1, <5>2
        <4>3. QED
          BY <1>7, <4>1, <4>2
      <3>3. QED
        BY <3>1, <3>2 DEF Ordered, Unread
    <2>5. Known(v)
      <3> SUFFICES ASSUME NEW u \in v.visited, Allows(k.robot, u)
                   PROVE  u \in v.fetched \/ u \in Queued(v)
        BY DEF Known, SameAsk
      <3>1. CASE u \in k.visited
        BY <1>8, <2>1, <3>1 DEF Known
      <3>2. CASE u \notin k.visited
        BY <1>8, <3>2
      <3>3. QED
        BY <3>1, <3>2
    <2>6. Followed(v)
      <3>1. Levels(v)[v.depth] \subseteq v.visited
        BY <1>2, <2>1 DEF Followed
      <3>2. ASSUME NEW u \in v.fetched, NEW n \in 0 .. k.maxDepth - 1, u \in Levels(k)[n]
            PROVE  Onward(k.seed, k.robot, {u}) \subseteq v.visited
        <4>1. CASE u \in k.fetched
          BY <2>1, <3>2, <4>1 DEF Followed
        <4>2. CASE u = k.url
          <5>1. NewAt(k, k.url, k.depth)
            BY <2>1 DEF Ordered, Unread
          <5>2. ~ (n \in 0 .. k.depth - 1)
            BY <3>2, <4>2, <5>1 DEF NewAt
          <5>3. k.depth < k.maxDepth
            BY <1>3, <5>2
          <5>4. ASSUME NEW w \in Onward(k.seed, k.robot, {k.url}), w \notin k.visited
                PROVE  w \in v.visited
            <6>1. IsNewLink(k, w)
              BY <5>4 DEF IsNewLink, Onward
            <6>2. PICK m \in 1 .. Len(new) : new[m] = w
              BY <5>3, <6>1
            <6>3. QED
              BY <6>2
          <5>5. QED
            BY <4>2, <5>4
        <4>3. QED
          BY <4>1, <4>2
      <3>3. QED
        BY <1>2, <3>1, <3>2 DEF Followed, SameAsk
    <2>7. QED
      BY <2>4, <2>5, <2>6 DEF BreadthFirst
  <1>15. v.at \notin {"idle", "robots"}
    OBVIOUS
  <1>16. QED
    BY <1>2, <1>11, <1>12, <1>13, <1>14, <1>15, CrawlWhole

(* robots.txt is read: the crawl starts at its seed.                       *)
LEMMA Started ==
    ASSUME NEW k, NEW v, CallInv(k), CrawlInv(k), k.kind \in {"read", "download"},
           k.at = "robots", v.at = "next", v.kind = k.kind, v.seed = k.seed,
           v.maxDepth = k.maxDepth, v.maxPages = k.maxPages, v.allowance = k.allowance,
           v.robot \in BOOLEAN, v.whole = k.whole, v.depth = k.depth, v.pages = k.pages,
           v.fetched = k.fetched, v.budget = k.budget,
           v.visited = {k.seed}, v.queue = <<<<k.seed, 0>>>>
    PROVE  CrawlInv(v)
  <1>1. Asked(k) /\ Fresh(k)
    BY DEF CrawlInv
  <1>2. Asked(v) /\ v.depth = 0 /\ v.pages = {} /\ v.fetched = {} /\ v.budget = v.allowance
    BY <1>1 DEF Asked, Fresh
  <1>3. Levels(v)[0] = {k.seed}
    BY <1>2, LevelSteps DEF Levels, Asked
  <1>4. Len(v.queue) = 1 /\ v.queue[1][1] = k.seed /\ v.queue[1][2] = 0
        /\ \A i \in 1 .. Len(v.queue) : i = 1
    OBVIOUS
  <1>5. Bounded(v)
    BY <1>2, <1>3, <1>4 DEF Bounded, Asked
  <1>6. AtPage(v)
    BY DEF AtPage, Handling, Unread, Waiting
  <1>7. Returned(v)
    <2>1. InlineUrls(v) = {}
      BY <1>2 DEF InlineUrls
    <2>2. InlineSize(v) = 0
      BY <2>1, InlineSizeIs, SumEmpty
    <2>3. IsFiniteSet(v.pages) /\ Cardinality(v.pages) = 0
      BY <1>2, FS_EmptySet
    <2>4. QED
      BY <1>2, <2>2, <2>3 DEF Returned, Asked
  <1>8. BreadthFirst(v)
    <2>1. Ordered(v)
      BY <1>2, <1>4 DEF Ordered, NewAt, Unread
    <2>2. Known(v)
      BY <1>4 DEF Known, Queued
    <2>3. Followed(v)
      BY <1>2, <1>3 DEF Followed
    <2>4. QED
      BY <2>1, <2>2, <2>3 DEF BreadthFirst
  <1>9. QED
    BY <1>2, <1>5, <1>6, <1>7, <1>8, CrawlWhole

----------------------------------------------------------------------------
(* The steps of the crawls.                                                *)

CrawlsInv == \A c \in Calls : CrawlInv(call[c])

LEMMA NoCrawl ==
    ASSUME NEW v, v.kind \notin {"read", "download"}
    PROVE  CrawlInv(v)
  BY DEF CrawlInv

LEMMA CrawlStep ==
    ASSUME WebInv, CrawlsInv, NEW c \in Calls, NEW v, CrawlInv(v),
           call' = [call EXCEPT ![c] = v]
    PROVE  CrawlsInv'
  <1>1. call'[c] = v /\ \A d \in Calls : d # c => call'[d] = call[d]
    BY CallFacts
  <1>2. QED
    BY <1>1 DEF CrawlsInv

LEMMA CrawlEnds ==
    ASSUME WebInv, CrawlsInv, NEW c \in Calls, call' = [call EXCEPT ![c] = NoCall]
    PROVE  CrawlsInv'
  <1>1. CrawlInv(NoCall)
    BY NoCrawl DEF NoCall
  <1>2. QED
    BY <1>1, CrawlStep

LEMMA CrawlFacts ==
    ASSUME WebInv, CrawlsInv, NEW c \in Calls
    PROVE  CallInv(call[c]) /\ CrawlInv(call[c]) /\ DOMAIN call[c] = Fields
           /\ (Crawling(call[c]) => Asked(call[c]) /\ AtPage(call[c]))
  BY CallFacts, CrawlParts DEF CrawlsInv

(* A step of a call that is no crawl leaves none.                          *)
LEMMA OnlyCrawls ==
    ASSUME NEW k, NEW v, v.kind = k.kind, k.at # "robots", Crawling(k) => CrawlInv(v)
    PROVE  CrawlInv(v)
  BY NoCrawl DEF Crawling

LEMMA CrawlBegin ==
    ASSUME WebInv, CrawlsInv, NEW c \in Calls, NEW kind \in {"read", "download", "fetch"},
           NEW seed \in Urls, NEW d, NEW p, NEW i, Begin(c, kind, seed, d, p, i),
           kind # "fetch" => d \in DepthArgs /\ p \in PageArgs /\ i \in InlineArgs
    PROVE  CrawlsInv'
  <1> DEFINE v == [NoCall EXCEPT !.kind = kind, !.seed = seed,
                       !.at = IF kind = "fetch" THEN "browser" ELSE "robots",
                       !.url = seed,
                       !.maxDepth = ResolveDepth(d), !.maxPages = ResolvePages(p),
                       !.allowance = ResolveInline(i), !.budget = ResolveInline(i)]
  <1>1. /\ v.kind = kind /\ v.at = (IF kind = "fetch" THEN "browser" ELSE "robots")
        /\ v.maxDepth = ResolveDepth(d) /\ v.maxPages = ResolvePages(p)
        /\ v.allowance = ResolveInline(i) /\ v.budget = ResolveInline(i)
        /\ v.robot = FALSE /\ v.whole = TRUE /\ v.depth = 0 /\ v.pages = {}
        /\ v.fetched = {} /\ v.failedHosts = {}
    BY DEF NoCall
  <1>2. call' = [call EXCEPT ![c] = v]
    BY DEF Begin
  <1> HIDE DEF v
  <1>3. CrawlInv(v)
    <2>1. CASE kind = "fetch"
      BY <1>1, <2>1, NoCrawl
    <2>2. CASE kind # "fetch"
      <3>1. ResolveDepth(d) \in Nat /\ ResolveDepth(d) <= DepthCeiling
        BY <2>2, WebConstants DEF ResolveDepth, LesserOf, Given
      <3>2. ResolvePages(p) \in Nat \ {0} /\ ResolvePages(p) <= PagesCeiling
        BY <2>2, WebConstants DEF ResolvePages, LesserOf, Given
      <3>3. ResolveInline(i) \in Nat
        BY <2>2, WebConstants DEF ResolveInline, LesserOf, Given
      <3>4. Asked(v) /\ Fresh(v)
        BY <1>1, <3>1, <3>2, <3>3 DEF Asked, Fresh
      <3>5. QED
        BY <1>1, <2>2, <3>4 DEF CrawlInv
    <2>3. QED
      BY <2>1, <2>2
  <1>4. QED
    BY <1>2, <1>3, CrawlStep

LEMMA CrawlNewCrawler ==
    ASSUME WebInv, CrawlsInv, NEW c \in Calls, NewCrawler(c)
    PROVE  CrawlsInv'
  <1> DEFINE k == call[c]
  <1>1. CallInv(k) /\ CrawlInv(k) /\ DOMAIN k = Fields /\ k.at = "robots"
    BY CrawlFacts DEF NewCrawler
  <1>2. CASE call' = [call EXCEPT ![c] = NoCall]
    BY <1>2, CrawlEnds
  <1>3. ASSUME NEW robot \in BOOLEAN, call' = [call EXCEPT ![c] =
                   [@ EXCEPT !.at = "next", !.robot = robot, !.visited = {call[c].seed},
                             !.queue = <<<<call[c].seed, 0>>>>]]
        PROVE  CrawlsInv'
    <2> DEFINE v == [k EXCEPT !.at = "next", !.robot = robot,
                         !.visited = {k.seed}, !.queue = <<<<k.seed, 0>>>>]
    <2>1. /\ v.at = "next" /\ v.kind = k.kind /\ v.seed = k.seed /\ v.maxDepth = k.maxDepth
          /\ v.maxPages = k.maxPages /\ v.allowance = k.allowance /\ v.robot = robot
          /\ v.whole = k.whole /\ v.depth = k.depth /\ v.pages = k.pages
          /\ v.fetched = k.fetched /\ v.budget = k.budget
          /\ v.visited = {k.seed} /\ v.queue = <<<<k.seed, 0>>>>
      BY <1>1 DEF Fields
    <2>2. call' = [call EXCEPT ![c] = v]
      BY <1>3, CallFacts
    <2> HIDE DEF v
    <2>3. CrawlInv(v)
      <3>1. CASE k.kind \in {"read", "download"}
        BY <1>1, <2>1, <3>1, Started
      <3>2. CASE k.kind \notin {"read", "download"}
        BY <2>1, <3>2, NoCrawl
      <3>3. QED
        BY <3>1, <3>2
    <2>4. QED
      BY <2>2, <2>3, CrawlStep
  <1>4. QED
    BY <1>2, <1>3 DEF NewCrawler

LEMMA CrawlPop ==
    ASSUME WebInv, CrawlsInv, NEW c \in Calls, Pop(c)
    PROVE  CrawlsInv'
  <1> DEFINE k == call[c]
             i == NextUrl(k)
             rest == IF i < Len(k.queue) THEN SubSeq(k.queue, i + 1, Len(k.queue))
                     ELSE SubSeq(k.queue, 1, 0)
             v == [k EXCEPT !.url = k.queue[i][1], !.depth = k.queue[i][2],
                       !.queue = rest, !.content = "none",
                       !.at = IF k.kind = "read" THEN "lookup" ELSE "get"]
  <1>1. CallInv(k) /\ CrawlInv(k) /\ DOMAIN k = Fields /\ k.at = "next" /\ i # 0
        /\ call' = [call EXCEPT ![c] = v]
    BY CrawlFacts DEF Pop
  <1>2. i \in 1 .. Len(k.queue) /\ Len(k.queue) \in Nat /\ k.queue \in Seq(Urls \X Nat)
    BY <1>1, NextUrlIsQueued DEF CallInv
  <1> HIDE DEF i
  <1>3. Len(rest) = Len(k.queue) - i /\ \A j \in 1 .. Len(rest) : rest[j] = k.queue[j + i]
    <2>1. CASE i < Len(k.queue)
      <3>1. rest = SubSeq(k.queue, i + 1, Len(k.queue))
        BY <2>1
      <3>2. i + 1 \in 1 .. Len(k.queue) /\ Len(k.queue) \in 1 .. Len(k.queue)
            /\ ~ (i + 1 > Len(k.queue))
        BY <1>2, <2>1
      <3>3. /\ Len(rest) = Len(k.queue) - i
            /\ \A j \in 1 .. Len(k.queue) - i : rest[j] = k.queue[j + i]
        BY <1>2, <3>1, <3>2
      <3> HIDE DEF rest
      <3>4. QED
        BY <3>3
    <2>2. CASE ~ (i < Len(k.queue))
      <3>1. rest = SubSeq(k.queue, 1, 0) /\ i = Len(k.queue)
        BY <1>2, <2>2
      <3>2. Len(rest) = 0
        BY <3>1
      <3> HIDE DEF rest
      <3>3. QED
        BY <1>2, <3>1, <3>2
    <2>3. QED
      BY <2>1, <2>2
  <1> HIDE DEF rest
  <1>4. /\ SameAsk(k, v) /\ v.visited = k.visited /\ v.fetched = k.fetched
        /\ v.pages = k.pages /\ v.budget = k.budget /\ v.whole = k.whole
        /\ v.url = k.queue[i][1] /\ v.depth = k.queue[i][2] /\ v.queue = rest
        /\ v.at \in {"lookup", "get"}
    BY <1>1 DEF Fields, SameAsk
  <1> HIDE DEF v
  <1>5. CrawlInv(v)
    <2>1. Crawling(k) => CrawlInv(v)
      BY <1>1, <1>3, <1>4, Popped DEF i
    <2>2. QED
      BY <1>1, <1>4, <2>1, OnlyCrawls DEF SameAsk
  <1>6. QED
    BY <1>1, <1>5, CrawlStep

(* What Moves asks of a step, for a call that may be none.                 *)
MovesOn(k, v) ==
    /\ SameAsk(k, v) /\ SameWalk(k, v) /\ v.pages = k.pages /\ v.budget = k.budget
    /\ v.whole \in {k.whole, FALSE} /\ v.at \notin {"idle", "robots"}
    /\ \/ v.fetched = k.fetched /\ (v.whole /\ k.at \in Unread => v.at \in Unread)
       \/ /\ v.fetched = k.fetched \cup {k.url} /\ v.at \notin Unread
          /\ k.at \in Handling /\ (v.whole => k.url \in Gated)
    /\ v.at \in Handling => k.at \in Handling
    /\ v.at \in Unread => k.at \in Unread /\ v.fetched = k.fetched
    /\ v.at = "browser" => HostOf[v.url] \notin v.failedHosts

LEMMA CrawlMoves ==
    ASSUME WebInv, CrawlsInv, NEW c \in Calls, NEW v, call[c].at # "robots",
           call' = [call EXCEPT ![c] = v], Crawling(call[c]) => MovesOn(call[c], v),
           v.kind = call[c].kind,
           Crawling(call[c]) /\ v.at \in Waiting \cup {"browser"} => v.kind = "read",
           Crawling(call[c]) /\ v.at = "done" => NextUrl(call[c]) = 0
    PROVE  CrawlsInv'
  <1> DEFINE k == call[c]
  <1>1. CallInv(k) /\ CrawlInv(k) /\ (Crawling(k) => Asked(k))
    BY CrawlFacts
  <1>2. ASSUME Crawling(k) PROVE CrawlInv(v)
    <2>1. MovesOn(k, v) /\ k.whole \in BOOLEAN
      BY <1>1, <1>2 DEF Asked
    <2>2. v.whole \in BOOLEAN /\ (v.whole => k.whole)
      BY <2>1 DEF MovesOn
    <2> HIDE DEF k
    <2>3. QED
      BY <1>1, <1>2, <2>1, <2>2, Moves DEF MovesOn, k
  <1>3. CrawlInv(v)
    BY <1>2, OnlyCrawls
  <1>4. QED
    BY <1>3, CrawlStep

LEMMA CrawlFinish ==
    ASSUME WebInv, CrawlsInv, NEW c \in Calls, Finish(c)
    PROVE  CrawlsInv'
  <1> DEFINE k == call[c]
             v == [k EXCEPT !.at = "done"]
  <1>1. DOMAIN k = Fields /\ k.at = "next" /\ NextUrl(k) = 0
        /\ call' = [call EXCEPT ![c] = v]
    BY CallFacts DEF Finish
  <1>2. SameAsk(k, v) /\ SameWalk(k, v) /\ v.pages = k.pages /\ v.budget = k.budget
        /\ v.whole = k.whole /\ v.at = "done" /\ v.fetched = k.fetched
    BY <1>1 DEF Fields, SameAsk, SameWalk
  <1> HIDE DEF v
  <1>3. MovesOn(k, v)
    BY <1>1, <1>2 DEF MovesOn, Handling, Unread
  <1>4. QED
    BY <1>1, <1>2, <1>3, CrawlMoves DEF SameAsk, Waiting

LEMMA CrawlLookup ==
    ASSUME WebInv, CrawlsInv, NEW c \in Calls, CacheMiss(c) \/ CacheHit(c)
    PROVE  CrawlsInv'
  <1> DEFINE k == call[c]
  <1>1. DOMAIN k = Fields /\ k.at = "lookup"
    BY CallFacts DEF CacheMiss, CacheHit
  <1>2. CASE CacheMiss(c)
    <2> DEFINE v == [k EXCEPT !.at = "get"]
    <2>1. call' = [call EXCEPT ![c] = v]
      BY <1>2, CallFacts DEF CacheMiss
    <2>2. SameAsk(k, v) /\ SameWalk(k, v) /\ v.pages = k.pages /\ v.budget = k.budget
          /\ v.whole = k.whole /\ v.at = "get" /\ v.fetched = k.fetched
      BY <1>1 DEF Fields, SameAsk, SameWalk
    <2> HIDE DEF v
    <2>3. MovesOn(k, v)
      BY <1>1, <2>2 DEF MovesOn, Handling, Unread
    <2>4. QED
      BY <1>1, <2>1, <2>2, <2>3, CrawlMoves DEF SameAsk, Waiting
  <1>3. CASE CacheHit(c)
    <2>1. PICK e \in cache : call' = [call EXCEPT ![c] =
              [k EXCEPT !.at = "deliver", !.whole = FALSE, !.content = e.content]]
      BY <1>3 DEF CacheHit
    <2> DEFINE v == [k EXCEPT !.at = "deliver", !.whole = FALSE, !.content = e.content]
    <2>2. SameAsk(k, v) /\ SameWalk(k, v) /\ v.pages = k.pages /\ v.budget = k.budget
          /\ v.whole = FALSE /\ v.at = "deliver" /\ v.fetched = k.fetched
      BY <1>1 DEF Fields, SameAsk, SameWalk
    <2>3. call' = [call EXCEPT ![c] = v]
      BY <2>1
    <2> HIDE DEF v
    <2>4. MovesOn(k, v)
      BY <1>1, <2>2 DEF MovesOn, Handling, Unread
    <2>5. QED
      BY <1>1, <2>2, <2>3, <2>4, CrawlMoves DEF SameAsk, Waiting
  <1>4. QED
    BY <1>2, <1>3

LEMMA CrawlFetchOk ==
    ASSUME WebInv, CrawlsInv, NEW c \in Calls, FetchOk(c)
    PROVE  CrawlsInv'
  <1> DEFINE k == call[c]
             new == IF k.depth < k.maxDepth THEN NewLinks(k) ELSE <<>>
             more == [i \in 1 .. Len(new) |-> <<new[i], k.depth + 1>>]
             v == [k EXCEPT !.at = IF k.kind = "read" THEN "store" ELSE "save",
                       !.content = "public", !.fetched = @ \cup {k.url},
                       !.visited = @ \cup {new[i] : i \in 1 .. Len(new)},
                       !.queue = @ \o more]
  <1>1. CallInv(k) /\ CrawlInv(k) /\ DOMAIN k = Fields /\ call' = [call EXCEPT ![c] = v]
        /\ k.at = "get" /\ k.url \notin Gated
    BY CrawlFacts DEF FetchOk
  <1>2. k.url \in Urls /\ k.depth \in Nat /\ k.queue \in Seq(Urls \X Nat)
    BY <1>1 DEF CallInv
  <1>3. /\ new \in Seq(Urls) /\ (Len(new) # 0 => k.depth < k.maxDepth)
        /\ \A m, n \in 1 .. Len(new) : new[m] = new[n] => m = n
        /\ \A m \in 1 .. Len(new) : IsNewLink(k, new[m])
        /\ k.depth < k.maxDepth =>
               \A w : IsNewLink(k, w) => \E m \in 1 .. Len(new) : new[m] = w
    <2>1. CASE k.depth < k.maxDepth
      <3>1. new = NewLinks(k)
        BY <2>1
      <3> HIDE DEF new
      <3>2. QED
        BY <1>2, <2>1, <3>1, NewLinksAre
    <2>2. CASE ~ (k.depth < k.maxDepth)
      <3>1. new = <<>>
        BY <2>2
      <3> HIDE DEF new
      <3>2. new \in Seq(Urls) /\ Len(new) = 0
        BY <3>1
      <3>3. QED
        BY <2>2, <3>2
    <2>3. QED
      BY <2>1, <2>2
  <1> HIDE DEF new
  <1>4. more \in Seq(Urls \X Nat) /\ Len(more) = Len(new)
        /\ \A m \in 1 .. Len(new) : more[m] = <<new[m], k.depth + 1>>
    <2>1. Len(new) \in Nat /\ \A m \in 1 .. Len(new) : <<new[m], k.depth + 1>> \in Urls \X Nat
      BY <1>2, <1>3
    <2>2. more \in Seq(Urls \X Nat)
      BY <2>1
    <2>3. Len(more) = Len(new)
      BY <2>1
    <2>4. \A m \in 1 .. Len(new) : more[m] = <<new[m], k.depth + 1>>
      OBVIOUS
    <2> HIDE DEF more
    <2>5. QED
      BY <2>2, <2>3, <2>4
  <1> HIDE DEF more
  <1>5. /\ Len(k.queue \o more) = Len(k.queue) + Len(new)
        /\ \A j \in 1 .. Len(k.queue) : (k.queue \o more)[j] = k.queue[j]
        /\ \A m \in 1 .. Len(new) :
              (k.queue \o more)[Len(k.queue) + m] = <<new[m], k.depth + 1>>
    <2>1. Len(k.queue) \in Nat /\ Len(more) \in Nat
      BY <1>2, <1>4
    <2>2. /\ Len(k.queue \o more) = Len(k.queue) + Len(more)
          /\ \A i \in 1 .. Len(k.queue) + Len(more) : (k.queue \o more)[i] =
                IF i <= Len(k.queue) THEN k.queue[i] ELSE more[i - Len(k.queue)]
      <3>1. PICK q : q = k.queue
        OBVIOUS
      <3>2. q \in Seq(Urls \X Nat) /\ more \in Seq(Urls \X Nat)
        BY <1>2, <1>4, <3>1
      <3>3. /\ Len(q \o more) = Len(q) + Len(more)
            /\ \A i \in 1 .. Len(q) + Len(more) : (q \o more)[i] =
                  IF i <= Len(q) THEN q[i] ELSE more[i - Len(q)]
        BY <3>2, ConcatProperties
      <3>4. QED
        BY <3>1, <3>3
    <2>3. ASSUME NEW j \in 1 .. Len(k.queue) PROVE (k.queue \o more)[j] = k.queue[j]
      BY <2>1, <2>2
    <2>4. ASSUME NEW m \in 1 .. Len(new)
          PROVE  (k.queue \o more)[Len(k.queue) + m] = <<new[m], k.depth + 1>>
      <3>1. Len(k.queue) + m \in 1 .. Len(k.queue) + Len(more)
            /\ ~ (Len(k.queue) + m <= Len(k.queue))
            /\ (Len(k.queue) + m) - Len(k.queue) = m
        BY <1>4, <2>1
      <3>2. QED
        BY <1>4, <2>2, <3>1
    <2>5. QED
      BY <1>4, <2>2, <2>3, <2>4
  <1>6. /\ SameAsk(k, v) /\ v.at \in {"store", "save"} /\ v.url = k.url /\ v.depth = k.depth
        /\ v.pages = k.pages /\ v.budget = k.budget /\ v.whole = k.whole
        /\ v.fetched = k.fetched \cup {k.url}
        /\ v.visited = k.visited \cup {new[m] : m \in 1 .. Len(new)}
        /\ v.queue = k.queue \o more
    BY <1>1 DEF Fields, SameAsk
  <1> HIDE DEF v
  <1>7. CrawlInv(v)
    <2>1. ASSUME Crawling(k) PROVE CrawlInv(v)
      <3>1. /\ Len(v.queue) = Len(k.queue) + Len(new)
            /\ \A j \in 1 .. Len(k.queue) : v.queue[j] = k.queue[j]
            /\ \A m \in 1 .. Len(new) : v.queue[Len(k.queue) + m] = <<new[m], k.depth + 1>>
        BY <1>5, <1>6
      <3> HIDE DEF k
      <3>2. QED
        BY <1>1, <1>3, <1>6, <2>1, <3>1, Expanded
    <2>2. QED
      BY <1>1, <1>6, <2>1, OnlyCrawls DEF SameAsk
  <1>8. QED
    BY <1>1, <1>7, CrawlStep

LEMMA CrawlFetchFails ==
    ASSUME WebInv, CrawlsInv, NEW c \in Calls, FetchFails(c)
    PROVE  CrawlsInv'
  <1> DEFINE k == call[c]
             v == [k EXCEPT !.at = "next", !.whole = FALSE, !.fetched = @ \cup {k.url}]
  <1>1. DOMAIN k = Fields /\ k.at = "get" /\ call' = [call EXCEPT ![c] = v]
    BY CallFacts DEF FetchFails
  <1>2. SameAsk(k, v) /\ SameWalk(k, v) /\ v.pages = k.pages /\ v.budget = k.budget
        /\ v.whole = FALSE /\ v.at = "next" /\ v.fetched = k.fetched \cup {k.url}
    BY <1>1 DEF Fields, SameAsk, SameWalk
  <1> HIDE DEF v
  <1>3. MovesOn(k, v)
    BY <1>1, <1>2 DEF MovesOn, Handling, Unread
  <1>4. QED
    BY <1>1, <1>2, <1>3, CrawlMoves DEF SameAsk, Waiting

LEMMA CrawlFetchGated ==
    ASSUME WebInv, CrawlsInv, NEW c \in Calls, FetchGated(c)
    PROVE  CrawlsInv'
  <1> DEFINE k == call[c]
             v == [k EXCEPT !.at = IF k.kind = "download" \/ HostOf[k.url] \in k.failedHosts
                                   THEN "next" ELSE "browser",
                       !.required = IF k.kind = "read" /\ HostOf[k.url] \in k.failedHosts
                                    THEN @ \cup {k.url} ELSE @,
                       !.fetched = @ \cup {k.url}]
  <1>1. DOMAIN k = Fields /\ k.at = "get" /\ k.url \in Gated
        /\ call' = [call EXCEPT ![c] = v]
    BY CallFacts DEF FetchGated
  <1>2. SameAsk(k, v) /\ SameWalk(k, v) /\ v.pages = k.pages /\ v.budget = k.budget
        /\ v.whole = k.whole /\ v.fetched = k.fetched \cup {k.url}
        /\ v.failedHosts = k.failedHosts
        /\ v.at = (IF k.kind = "download" \/ HostOf[k.url] \in k.failedHosts
                   THEN "next" ELSE "browser")
    BY <1>1 DEF Fields, SameAsk, SameWalk
  <1> HIDE DEF v
  <1>3. v.at \in {"next", "browser"}
        /\ (v.at = "browser" => k.kind # "download" /\ HostOf[k.url] \notin k.failedHosts)
    BY <1>2
  <1>4. MovesOn(k, v)
    BY <1>1, <1>2, <1>3 DEF MovesOn, Handling, Unread, SameWalk
  <1>5. Crawling(k) /\ v.at \in Waiting \cup {"browser"} => v.kind = "read"
    BY <1>2, <1>3 DEF Crawling, Waiting, SameAsk
  <1>6. QED
    BY <1>1, <1>2, <1>3, <1>4, <1>5, CrawlMoves DEF SameAsk

(* The browser answers.  A crawl is in it for read_website only.           *)
LEMMA CrawlExtracted ==
    ASSUME WebInv, CrawlsInv, NEW c \in Calls, NEW keep \in BOOLEAN,
           call[c].at \in Waiting \cup {"browser"},
           call' = [call EXCEPT ![c] = Extracted(c, keep)]
    PROVE  CrawlsInv'
  <1> DEFINE k == call[c]
             v == Extracted(c, keep)
  <1>0. call' = [call EXCEPT ![c] = v]
    OBVIOUS
  <1>1. DOMAIN k = Fields /\ (Crawling(k) => k.kind = "read") /\ k.at # "robots"
        /\ k.at \in Handling /\ k.at \notin Unread
    BY CrawlFacts DEF AtPage, Waiting, Handling, Unread
  <1>2. SameAsk(k, v) /\ SameWalk(k, v) /\ v.pages = k.pages /\ v.budget = k.budget
        /\ v.whole = k.whole /\ v.fetched = k.fetched
        /\ (k.kind = "read" => v.at = "deliver") /\ v.at \in {"deliver", "save", "done"}
    BY <1>1 DEF Extracted, Fields, SameAsk, SameWalk
  <1> HIDE DEF v
  <1>3. Crawling(k) => MovesOn(k, v)
    BY <1>1, <1>2 DEF MovesOn, Handling, Unread
  <1>4. v.kind = k.kind /\ (Crawling(k) => v.at = "deliver")
    BY <1>1, <1>2 DEF SameAsk
  <1>5. (Crawling(k) /\ v.at \in Waiting \cup {"browser"} => v.kind = "read")
        /\ (Crawling(k) /\ v.at = "done" => NextUrl(k) = 0)
    BY <1>4 DEF Waiting
  <1>6. QED
    BY <1>0, <1>1, <1>3, <1>4, <1>5, CrawlMoves

LEMMA CrawlNotExtracted ==
    ASSUME WebInv, CrawlsInv, NEW c \in Calls, call[c].at \in Waiting \cup {"browser"},
           call' = [call EXCEPT ![c] = NotExtracted(c)]
    PROVE  CrawlsInv'
  <1> DEFINE k == call[c]
             v == NotExtracted(c)
  <1>0. call' = [call EXCEPT ![c] = v]
    OBVIOUS
  <1>1. DOMAIN k = Fields /\ k.at # "robots" /\ k.at \notin Unread
    BY CallFacts DEF Waiting, Unread
  <1>2. SameAsk(k, v) /\ SameWalk(k, v) /\ v.pages = k.pages /\ v.budget = k.budget
        /\ v.whole = k.whole /\ v.fetched = k.fetched
        /\ v.at = (IF k.kind = "fetch" THEN "done" ELSE "next")
    BY <1>1 DEF NotExtracted, Fields, SameAsk, SameWalk
  <1> HIDE DEF v
  <1>3. v.at \in {"next", "done"} /\ (Crawling(k) => v.at = "next")
    BY <1>2 DEF Crawling
  <1>4. Crawling(k) => MovesOn(k, v)
    BY <1>1, <1>2, <1>3 DEF MovesOn, Handling, Unread
  <1>5. (Crawling(k) /\ v.at \in Waiting \cup {"browser"} => v.kind = "read")
        /\ (Crawling(k) /\ v.at = "done" => NextUrl(k) = 0)
    BY <1>3 DEF Waiting
  <1>6. v.kind = k.kind
    BY <1>2 DEF SameAsk
  <1>7. QED
    BY <1>0, <1>1, <1>4, <1>5, <1>6, CrawlMoves

LEMMA CrawlBrowser ==
    ASSUME WebInv, CrawlsInv, NEW c \in Calls,
           LoadsOpen(c) \/ LoadFails(c) \/ WallRefused(c) \/ LoginFails(c) \/ LoginOk(c)
    PROVE  CrawlsInv'
  <1>1. call[c].at \in Waiting \cup {"browser"}
    BY DEF LoadsOpen, LoadFails, WallRefused, LoginFails, LoginOk, Waiting
  <1>2. \/ \E keep \in BOOLEAN : call' = [call EXCEPT ![c] = Extracted(c, keep)]
        \/ call' = [call EXCEPT ![c] = NotExtracted(c)]
    BY DEF LoadsOpen, LoadFails, WallRefused, LoginFails, LoginOk
  <1>3. QED
    BY <1>1, <1>2, CrawlExtracted, CrawlNotExtracted

LEMMA CrawlWaits ==
    ASSUME WebInv, CrawlsInv, NEW c \in Calls,
           WallWaits(c) \/ \E clean \in BOOLEAN : Poll(c, clean)
    PROVE  CrawlsInv'
  <1> DEFINE k == call[c]
  <1>1. DOMAIN k = Fields /\ (Crawling(k) => k.kind = "read") /\ k.at # "robots"
        /\ k.at \in Handling /\ k.at \notin Unread
    BY CrawlFacts DEF AtPage, Waiting, Handling, Unread, WallWaits, Poll
  <1>2. PICK to \in {"login", "reload"}, n \in {0, 1} :
            call' = [call EXCEPT ![c] = [k EXCEPT !.at = to, !.polls = n]]
    <2>1. CASE WallWaits(c)
      BY <2>1 DEF WallWaits
    <2>2. ASSUME NEW clean \in BOOLEAN, Poll(c, clean)
          PROVE  \E to \in {"login", "reload"}, n \in {0, 1} :
                     call' = [call EXCEPT ![c] = [k EXCEPT !.at = to, !.polls = n]]
      <3>1. k.at = "login"
        BY <2>2 DEF Poll
      <3>2. [k EXCEPT !.polls = 0] = [k EXCEPT !.at = "login", !.polls = 0]
            /\ [k EXCEPT !.polls = 1] = [k EXCEPT !.at = "login", !.polls = 1]
        BY <1>1, <3>1 DEF Fields
      <3>3. QED
        BY <2>2, <3>2 DEF Poll
    <2>3. QED
      BY <2>1, <2>2
  <1> DEFINE v == [k EXCEPT !.at = to, !.polls = n]
  <1>3. SameAsk(k, v) /\ SameWalk(k, v) /\ v.pages = k.pages /\ v.budget = k.budget
        /\ v.whole = k.whole /\ v.fetched = k.fetched /\ v.at \in {"login", "reload"}
    BY <1>1 DEF Fields, SameAsk, SameWalk
  <1>4. call' = [call EXCEPT ![c] = v]
    BY <1>2
  <1> HIDE DEF v
  <1>5. MovesOn(k, v)
    BY <1>1, <1>3 DEF MovesOn, Handling, Unread
  <1>6. QED
    BY <1>1, <1>3, <1>4, <1>5, CrawlMoves DEF SameAsk

LEMMA CrawlStore ==
    ASSUME WebInv, CrawlsInv, NEW c \in Calls, Store(c)
    PROVE  CrawlsInv'
  <1> DEFINE k == call[c]
             v == [k EXCEPT !.at = "deliver"]
  <1>1. DOMAIN k = Fields /\ k.at = "store" /\ call' = [call EXCEPT ![c] = v]
    BY CallFacts DEF Store
  <1>2. SameAsk(k, v) /\ SameWalk(k, v) /\ v.pages = k.pages /\ v.budget = k.budget
        /\ v.whole = k.whole /\ v.at = "deliver" /\ v.fetched = k.fetched
    BY <1>1 DEF Fields, SameAsk, SameWalk
  <1> HIDE DEF v
  <1>3. MovesOn(k, v)
    BY <1>1, <1>2 DEF MovesOn, Handling, Unread
  <1>4. QED
    BY <1>1, <1>2, <1>3, CrawlMoves DEF SameAsk, Waiting

(* A page joins the answer.                                                *)
LEMMA CrawlDelivers ==
    ASSUME WebInv, CrawlsInv, NEW c \in Calls,
           Inline(c) \/ (\E ok \in BOOLEAN : Divert(c, ok)) \/ Download(c)
    PROVE  CrawlsInv'
  <1> DEFINE k == call[c]
  <1>1. CallInv(k) /\ CrawlInv(k) /\ DOMAIN k = Fields /\ k.at \in {"deliver", "save"}
    BY CrawlFacts DEF Inline, Divert, Download
  <1>2. CASE call' = [call EXCEPT ![c] = NoCall]
    BY <1>2, CrawlEnds
  <1>3. ASSUME NEW how \in {"inline", "saved", "unsaved"}, NEW to \in {"next", "done"},
               NEW b,
               call' = [call EXCEPT ![c] =
                   [k EXCEPT !.at = to, !.budget = b,
                             !.pages = @ \cup {[url |-> k.url, how |-> how]}]],
               k.kind # "fetch" => to = "next",
               how = "inline" => SizeOf[k.url] <= k.budget /\ b = k.budget - SizeOf[k.url],
               how # "inline" => b = k.budget
        PROVE  CrawlsInv'
    <2> DEFINE v == [k EXCEPT !.at = to, !.budget = b,
                         !.pages = @ \cup {[url |-> k.url, how |-> how]}]
    <2>1. SameAsk(k, v) /\ SameWalk(k, v) /\ v.fetched = k.fetched /\ v.whole = k.whole
          /\ v.at = to /\ v.budget = b
          /\ v.pages = k.pages \cup {[url |-> k.url, how |-> how]}
      BY <1>1 DEF Fields, SameAsk, SameWalk
    <2>2. call' = [call EXCEPT ![c] = v]
      BY <1>3
    <2> HIDE DEF v
    <2>3. Crawling(k) => CrawlInv(v)
      BY <1>1, <1>3, <2>1, Delivered DEF Crawling
    <2>4. CrawlInv(v)
      BY <1>1, <2>1, <2>3, OnlyCrawls DEF SameAsk
    <2>5. QED
      BY <2>2, <2>4, CrawlStep
  <1>4. CASE Inline(c)
    <2>1. call' = [call EXCEPT ![c] =
              [k EXCEPT !.at = "next", !.budget = k.budget - SizeOf[k.url],
                        !.pages = @ \cup {[url |-> k.url, how |-> "inline"]}]]
          /\ SizeOf[k.url] <= k.budget
      BY <1>4 DEF Inline
    <2>2. QED
      BY <1>3, <2>1
  <1>5. ASSUME NEW ok \in BOOLEAN, Divert(c, ok) PROVE CrawlsInv'
    <2>1. PICK how \in {"saved", "unsaved"} : call' = [call EXCEPT ![c] =
              [k EXCEPT !.at = "next", !.pages = @ \cup {[url |-> k.url, how |-> how]}]]
      BY <1>5 DEF Divert
    <2>2. [k EXCEPT !.at = "next", !.pages = @ \cup {[url |-> k.url, how |-> how]}]
            = [k EXCEPT !.at = "next", !.budget = k.budget,
                        !.pages = @ \cup {[url |-> k.url, how |-> how]}]
      BY <1>1 DEF Fields
    <2>3. QED
      BY <1>3, <2>1, <2>2
  <1>6. CASE Download(c) /\ call' # [call EXCEPT ![c] = NoCall]
    <2>1. PICK to \in {"next", "done"} :
              /\ to = IF k.kind = "fetch" THEN "done" ELSE "next"
              /\ call' = [call EXCEPT ![c] = [k EXCEPT
                    !.at = to, !.pages = @ \cup {[url |-> k.url, how |-> "saved"]}]]
      BY <1>6 DEF Download
    <2>2. [k EXCEPT !.at = to, !.pages = @ \cup {[url |-> k.url, how |-> "saved"]}]
            = [k EXCEPT !.at = to, !.budget = k.budget,
                        !.pages = @ \cup {[url |-> k.url, how |-> "saved"]}]
      BY <1>1 DEF Fields
    <2>3. QED
      BY <1>3, <2>1, <2>2
  <1>7. QED
    BY <1>2, <1>4, <1>5, <1>6

LEMMA CrawlsNext == ASSUME WebInv, CrawlsInv, [Next]_vars PROVE CrawlsInv'
  <1>1. CASE UNCHANGED vars
    BY <1>1 DEF vars, CrawlsInv
  <1>2. ASSUME NEW c \in Calls, NEW kind \in {"read", "download"}, NEW seed \in Seeds,
               NEW d \in DepthArgs, NEW p \in PageArgs, NEW i \in InlineArgs,
               Begin(c, kind, seed, d, p, i)
        PROVE  CrawlsInv'
    BY <1>2, CrawlBegin, WebConstants
  <1>3. ASSUME NEW c \in Calls, NEW seed \in Urls,
               Begin(c, "fetch", seed, NoArg, NoArg, NoArg)
        PROVE  CrawlsInv'
    BY <1>3, CrawlBegin
  <1>4. ASSUME NEW c \in Calls,
               NewCrawler(c) \/ Pop(c) \/ Finish(c) \/ CacheMiss(c) \/ CacheHit(c)
               \/ FetchOk(c) \/ FetchFails(c) \/ FetchGated(c)
        PROVE  CrawlsInv'
    BY <1>4, CrawlNewCrawler, CrawlPop, CrawlFinish, CrawlLookup, CrawlFetchOk,
       CrawlFetchFails, CrawlFetchGated
  <1>5. ASSUME NEW c \in Calls,
               LoadsOpen(c) \/ LoadFails(c) \/ WallRefused(c) \/ WallWaits(c)
               \/ (\E clean \in BOOLEAN : Poll(c, clean)) \/ LoginFails(c) \/ LoginOk(c)
        PROVE  CrawlsInv'
    BY <1>5, CrawlBrowser, CrawlWaits
  <1>6. ASSUME NEW c \in Calls,
               Store(c) \/ Inline(c) \/ (\E ok \in BOOLEAN : Divert(c, ok)) \/ Download(c)
        PROVE  CrawlsInv'
    BY <1>6, CrawlStore, CrawlDelivers
  <1>7. ASSUME NEW c \in Calls, ExtractFails(c) \/ Answer(c) \/ Timeout(c)
        PROVE  CrawlsInv'
    BY <1>7, CrawlEnds DEF ExtractFails, Answer, Timeout
  <1>8. QED
    BY <1>1, <1>2, <1>3, <1>4, <1>5, <1>6, <1>7 DEF Next

LEMMA InitCrawls == Init => CrawlsInv
  BY NoCrawl DEF Init, CrawlsInv, NoCall

LEMMA CrawlsAlways == Spec => [](WebInv /\ CrawlsInv)
  <1>1. Init => WebInv /\ CrawlsInv
    BY InitWeb, InitCrawls
  <1>2. WebInv /\ CrawlsInv /\ [Next]_vars => (WebInv /\ CrawlsInv)'
    BY WebNext, CrawlsNext
  <1>3. QED
    BY <1>1, <1>2, PTL DEF Spec

----------------------------------------------------------------------------
(* What follows for a crawl.                                               *)

(* Once a crawl has met everything that it may ask for, it has met every   *)
(* level: a page that was not would be one link from a page that was.      *)
LEMMA EveryLevelIsMet ==
    ASSUME NEW k, CallInv(k), Asked(k), Bounded(k), Followed(k),
           \A u \in k.visited : Allows(k.robot, u) => u \in k.fetched
    PROVE  Levels(k)[k.maxDepth] \subseteq k.visited
  <1> DEFINE w == Levels(k)
             D == k.maxDepth
             Bad == {n \in 1 .. D : ~ (w[n] \subseteq k.visited)}
  <1>1. D \in Nat /\ k.depth \in 0 .. D
    BY DEF Asked, Bounded, CallInv
  <1>2. w[0] \subseteq k.visited
    <2>1. 0 \in 0 .. D /\ k.depth \in 0 .. D
      BY <1>1
    <2>2. w[0] \subseteq w[k.depth]
      BY <1>1, <2>1, LevelsGrow DEF Levels
    <2>3. QED
      BY <2>2 DEF Followed
  <1>3. ASSUME Bad # {} PROVE FALSE
    <2>1. Bad \in SUBSET (1 .. D)
      OBVIOUS
    <2> HIDE DEF Bad
    <2>2. PICK n \in Bad : \A j \in Bad : n <= j
      BY <1>1, <1>3, <2>1, LeastOfSome
    <2>3. n \in 1 .. D /\ ~ (w[n] \subseteq k.visited)
      BY DEF Bad
    <2>4. n - 1 \in 0 .. D - 1 /\ n \in 0 .. D /\ n # 0 /\ ~ (n <= n - 1)
          /\ (n - 1 # 0 => n - 1 \in 1 .. D)
      BY <1>1, <2>3
    <2>5. w[n - 1] \subseteq k.visited
      BY <1>2, <2>2, <2>4 DEF Bad
    <2>6. w[n] = w[n - 1] \cup Onward(k.seed, k.robot, w[n - 1])
      BY <1>1, <2>4, LevelSteps DEF Levels
    <2> HIDE DEF w, D
    <2>7. ASSUME NEW v \in Onward(k.seed, k.robot, w[n - 1]) PROVE v \in k.visited
      <3>1. PICK u \in w[n - 1] : v \in Onward(k.seed, k.robot, {u})
        BY DEF Onward
      <3>2. Allows(k.robot, u)
        BY <3>1 DEF Onward
      <3>3. u \in k.fetched
        BY <2>5, <3>2
      <3>4. Onward(k.seed, k.robot, {u}) \subseteq k.visited
        BY <2>4, <3>3 DEF Followed, w, D
      <3>5. QED
        BY <3>1, <3>4
    <2>8. QED
      BY <2>3, <2>5, <2>6, <2>7
  <1>4. QED
    <2>1. CASE D = 0
      BY <1>2, <2>1
    <2>2. CASE D # 0
      BY <1>1, <1>3, <2>2
    <2>3. QED
      BY <2>1, <2>2

LEMMA CrawlIsComplete ==
    ASSUME NEW k, CallInv(k), CrawlInv(k), Crawling(k), k.at = "done", k.whole,
           Cardinality(k.pages) < k.maxPages
    PROVE  Reach(k) \subseteq k.fetched
  <1>1. Asked(k) /\ Bounded(k) /\ AtPage(k) /\ Known(k) /\ Followed(k)
    BY CrawlParts DEF Crawling, BreadthFirst
  <1>2. \A u \in Queued(k) : ~ Allows(k.robot, u)
    <2>1. CallInv(k) /\ ~ (Cardinality(k.pages) >= k.maxPages)
      <3>1. IsFiniteSet(k.pages) /\ k.maxPages \in Nat
        BY CrawlParts DEF Crawling, Returned, Asked
      <3>2. Cardinality(k.pages) \in Nat
        BY <3>1, FS_CardinalityType
      <3>3. QED
        BY <3>1, <3>2
    <2>2. QED
      BY <1>1, <2>1 DEF AtPage
  <1>3. \A u \in k.visited : Allows(k.robot, u) => u \in k.fetched
    BY <1>1, <1>2 DEF Known, Unread
  <1>4. Levels(k)[k.maxDepth] \subseteq k.visited
    BY <1>1, <1>3, EveryLevelIsMet
  <1>5. QED
    BY <1>3, <1>4 DEF Reach, Levels

LEMMA CrawlIsBounded ==
    ASSUME NEW k, CallInv(k), CrawlInv(k), Crawling(k)
    PROVE  /\ InlineSize(k) <= k.allowance
           /\ k.fetched \cup {p.url : p \in k.pages} \subseteq Reach(k)
           /\ Cardinality(k.pages) <= k.maxPages /\ k.maxPages <= PagesCeiling
           /\ k.maxDepth <= DepthCeiling
           /\ k.at = "get" => k.url \notin k.fetched
           /\ k.at = "browser" => HostOf[k.url] \notin k.failedHosts
  <1>1. Asked(k) /\ Bounded(k) /\ AtPage(k) /\ Returned(k)
    BY CrawlParts DEF Crawling
  <1>2. InlineSize(k) <= k.allowance
    <2>1. IsFiniteSet(InlineUrls(k)) /\ InlineUrls(k) \subseteq Urls
      BY <1>1, InlineUrlsFinite
    <2>2. InlineSize(k) \in Nat
      BY <2>1, InlineSizeIs, SumType, WebConstants
    <2>3. QED
      BY <1>1, <2>2 DEF Returned, Asked
  <1>3. k.fetched \cup {p.url : p \in k.pages} \subseteq Reach(k)
    BY <1>1 DEF Bounded, Reach, Levels
  <1>4. QED
    BY <1>1, <1>2, <1>3 DEF Asked, AtPage, Returned, Unread

(* Whatever a site links to and whatever fails, is cached or is logged in  *)
(* for on the way, the urls a crawl asks for are on its host, within its   *)
(* depth and robots.txt and not blocked, and none is asked for twice; it   *)
(* keeps to its number of pages and its inline budget (next_url,           *)
(* fetch_and_expand, divert_large_markdown).  Of where the HTTP client is  *)
(* redirected to from them nothing is said.                                *)
THEOREM CrawlsStayInBounds == Spec => []CrawlStaysInBounds
  <1>1. WebInv /\ CrawlsInv => CrawlStaysInBounds
    BY CrawlFacts, CrawlIsBounded DEF CrawlStaysInBounds
  <1>2. QED
    BY <1>1, CrawlsAlways, PTL

(* A crawl that nothing was missing for and that had pages left has asked  *)
(* for every page in reach, however the links of the site are laid: the    *)
(* visited set of fetch_and_expand cuts no way short.                      *)
THEOREM CrawlsAreComplete == Spec => []CrawlComplete
  <1>1. WebInv /\ CrawlsInv => CrawlComplete
    BY CrawlFacts, CrawlIsComplete DEF CrawlComplete
  <1>2. QED
    BY <1>1, CrawlsAlways, PTL
=============================================================================
