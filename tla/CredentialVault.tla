-------------------------- MODULE CredentialVault --------------------------
(***************************************************************************)
(* The 1Password adapter (native/vault.rs).  A call that resolves a        *)
(* credential joins the run that is under way for the same reference, or   *)
(* starts one and hands it to a task of its own, so that it goes on when   *)
(* its caller is dropped.  A run looks the item up by the domain unless    *)
(* the id is cached, reads the value with `op`, writes one line to the     *)
(* audit log and removes itself from `pending` before anyone hears of it.  *)
(***************************************************************************)
EXTENDS Integers, FiniteSets

CONSTANTS
    Lanes,     \* calls to type_secret that may run at a time, one per lane
    Domains,
    Fields,    \* CredentialField
    MaxRuns,   \* bound: runs of resolve_uncached
    MaxCalls   \* bound: calls of each caller

ASSUME VaultConstants == MaxRuns \in Nat /\ MaxCalls \in Nat

CredentialRefs == Domains \X Fields
Runs     == 1 .. MaxRuns
NoRun    == 0
Items    == {"item1", "item2"}
OpErrors == {"unauthenticated", "limited", "other"}
Results  == {"secret", "mismatch", "ambiguous"} \cup OpErrors
NoCredential == <<>>

VARIABLES
    pending,   \* State::pending: the run of each reference
    idCache,   \* State::id_cache
    stage,     \* where each run is
    refOf,     \* the reference each run resolves
    result,    \* what each run ended with
    log,       \* runs that wrote their line to the audit log
    nextRun,
    at,        \* what each caller does
    joined,    \* the run a caller awaits
    wants,     \* the reference a caller asked for
    calls,     \* calls made by each caller
    vault      \* external: the items whose URLs have the domain's host

runVars    == <<pending, idCache, stage, refOf, result, log, nextRun>>
callerVars == <<at, joined, wants, calls>>
vaultVars == <<runVars, callerVars, vault>>

Stages == {"none", "start", "lookup", "read", "rateLimit", "done"}

VaultTypeOK ==
    /\ pending \in [CredentialRefs -> Runs \cup {NoRun}]
    /\ idCache \in [Domains -> Items \cup {"none"}]
    /\ stage \in [Runs -> Stages]
    /\ refOf \in [Runs -> CredentialRefs \cup {NoCredential}]
    /\ result \in [Runs -> Results \cup {"none"}]
    /\ log \subseteq Runs
    /\ nextRun \in 1 .. MaxRuns + 1
    /\ at \in [Lanes -> {"idle", "waiting", "answered"}]
    /\ joined \in [Lanes -> Runs \cup {NoRun}]
    /\ wants \in [Lanes -> CredentialRefs \cup {NoCredential}]
    /\ calls \in [Lanes -> 0 .. MaxCalls]
    /\ vault \in [Domains -> SUBSET Items]

VaultInit ==
    /\ pending = [c \in CredentialRefs |-> NoRun]
    /\ idCache = [d \in Domains |-> "none"]
    /\ stage = [r \in Runs |-> "none"]
    /\ refOf = [r \in Runs |-> NoCredential]
    /\ result = [r \in Runs |-> "none"]
    /\ log = {}
    /\ nextRun = 1
    /\ at = [c \in Lanes |-> "idle"]
    /\ joined = [c \in Lanes |-> NoRun]
    /\ wants = [c \in Lanes |-> NoCredential]
    /\ calls = [c \in Lanes |-> 0]
    /\ vault \in [Domains -> SUBSET Items]

Running(r) == stage[r] \notin {"none", "done"}
Domain(r)  == refOf[r][1]

----------------------------------------------------------------------------
(* resolve.                                                                *)

Waits(c, ref, r) ==
    /\ at[c] # "waiting" /\ calls[c] < MaxCalls
    /\ at' = [at EXCEPT ![c] = "waiting"]
    /\ joined' = [joined EXCEPT ![c] = r]
    /\ wants' = [wants EXCEPT ![c] = ref]
    /\ calls' = [calls EXCEPT ![c] = @ + 1]

ResolveJoins(c, ref) ==
    /\ pending[ref] # NoRun
    /\ Waits(c, ref, pending[ref])
    /\ UNCHANGED <<runVars, vault>>

ResolveStarts(c, ref) ==
    /\ pending[ref] = NoRun /\ nextRun \in Runs
    /\ pending' = [pending EXCEPT ![ref] = nextRun]
    /\ stage' = [stage EXCEPT ![nextRun] = "start"]
    /\ refOf' = [refOf EXCEPT ![nextRun] = ref]
    /\ nextRun' = nextRun + 1
    /\ Waits(c, ref, nextRun)
    /\ UNCHANGED <<idCache, result, log, vault>>

(* The shared future is ready: the waiter takes its own copy.              *)
Answered(c) ==
    /\ at[c] = "waiting" /\ stage[joined[c]] = "done"
    /\ at' = [at EXCEPT ![c] = "answered"]
    /\ UNCHANGED <<runVars, joined, wants, calls, vault>>

(* Mutant: a caller that is dropped takes the entry with it.               *)
DroppedForgets(c) ==
    /\ at[c] = "waiting"
    /\ at' = [at EXCEPT ![c] = "idle"]
    /\ joined' = [joined EXCEPT ![c] = NoRun]
    /\ wants' = [wants EXCEPT ![c] = NoCredential]
    /\ pending' = [pending EXCEPT ![wants[c]] = NoRun]
    /\ UNCHANGED <<idCache, stage, refOf, result, log, nextRun, calls, vault>>

(* The timeout of type_secret drops the waiter.                            *)
Dropped(c) ==
    /\ at[c] = "waiting"
    /\ at' = [at EXCEPT ![c] = "idle"]
    /\ joined' = [joined EXCEPT ![c] = NoRun]
    /\ wants' = [wants EXCEPT ![c] = NoCredential]
    /\ UNCHANGED <<runVars, calls, vault>>

----------------------------------------------------------------------------
(* resolve_uncached, polled by its own task.                               *)

(* Mutant: polled by those that wait for it only.                          *)
PolledByWaiters(r) == \E c \in Lanes : at[c] = "waiting" /\ joined[c] = r

Polled(r) == Running(r)

Goes(r, s) ==
    /\ Polled(r)
    /\ stage' = [stage EXCEPT ![r] = s]
    /\ UNCHANGED <<pending, refOf, result, log, nextRun, callerVars, vault>>

(* Mutant: a failed lookup returns early, past the audit log.              *)
EndsUnlogged(r, res) ==
    /\ Polled(r)
    /\ stage' = [stage EXCEPT ![r] = "done"]
    /\ result' = [result EXCEPT ![r] = res]
    /\ log' = IF stage[r] = "lookup" THEN log ELSE log \cup {r}
    /\ pending' = [pending EXCEPT ![refOf[r]] = NoRun]
    /\ UNCHANGED <<refOf, nextRun, callerVars, vault>>

(* The outcome is logged, the entry removed, then the waiters are woken.   *)
Ends(r, res) ==
    /\ Polled(r)
    /\ stage' = [stage EXCEPT ![r] = "done"]
    /\ result' = [result EXCEPT ![r] = res]
    /\ log' = log \cup {r}
    /\ pending' = [pending EXCEPT ![refOf[r]] = NoRun]
    /\ UNCHANGED <<refOf, nextRun, callerVars, vault>>

CacheHit(r) ==
    /\ stage[r] = "start" /\ idCache[Domain(r)] # "none"
    /\ Goes(r, "read")
    /\ UNCHANGED idCache

CacheMiss(r) ==
    /\ stage[r] = "start" /\ idCache[Domain(r)] = "none"
    /\ Goes(r, "lookup")
    /\ UNCHANGED idCache

(* lookup_domain: exactly one matching item is cached and read.            *)
LookupFinds(r) ==
    /\ stage[r] = "lookup"
    /\ \E i \in Items :
         /\ vault[Domain(r)] = {i}
         /\ idCache' = [idCache EXCEPT ![Domain(r)] = i]
    /\ Goes(r, "read")

LookupRejects(r) ==
    /\ stage[r] = "lookup"
    /\ \/ vault[Domain(r)] = {} /\ Ends(r, "mismatch")
       \/ Cardinality(vault[Domain(r)]) > 1 /\ Ends(r, "ambiguous")
    /\ UNCHANGED idCache

(* op read of the cached item.  Its URLs are not looked at again: it is    *)
(* read also when it has ceased to match the domain.                       *)
ReadSucceeds(r) ==
    /\ stage[r] = "read"
    /\ Ends(r, "secret")
    /\ UNCHANGED idCache

(* op list or read fails: build_op_error asks for the rate limit if that   *)
(* was the reason, and falls back on anything.                             *)
OpFails(r) ==
    /\ stage[r] \in {"lookup", "read"}
    /\ \E e \in OpErrors \ {"limited"} : Ends(r, e)
    /\ UNCHANGED idCache

OpLimited(r) ==
    /\ stage[r] \in {"lookup", "read"}
    /\ Goes(r, "rateLimit")
    /\ UNCHANGED idCache

LimitTold(r) ==
    /\ stage[r] = "rateLimit"
    /\ Ends(r, "limited")
    /\ UNCHANGED idCache

Advance(r) ==
    \/ CacheHit(r) \/ CacheMiss(r) \/ LookupFinds(r) \/ LookupRejects(r)
    \/ ReadSucceeds(r) \/ OpFails(r) \/ OpLimited(r) \/ LimitTold(r)

(* Items are added, moved and deleted behind the daemon's back.            *)
VaultChanges(d) ==
    /\ vault' \in [Domains -> SUBSET Items]
    /\ \A e \in Domains \ {d} : vault'[e] = vault[e]
    /\ UNCHANGED <<runVars, callerVars>>

VaultNext ==
    \/ \E c \in Lanes, ref \in CredentialRefs :
          ResolveJoins(c, ref) \/ ResolveStarts(c, ref)
    \/ \E c \in Lanes : Answered(c) \/ Dropped(c)
    \/ \E r \in Runs : Advance(r)
    \/ \E d \in Domains : VaultChanges(d)

(* The task of each run is polled and every op process exits; nothing is   *)
(* assumed of the callers.                                                 *)
VaultSpec == VaultInit /\ [][VaultNext]_vaultVars /\ \A r \in Runs : WF_vaultVars(Advance(r))

----------------------------------------------------------------------------
(* Properties.                                                             *)

(* At no time do two runs resolve the same reference: calls that overlap   *)
(* share one op invocation, and op's rate limit with it.                   *)
OneRunPerRef ==
    \A r, q \in Runs : Running(r) /\ Running(q) /\ refOf[r] = refOf[q] => r = q

(* A caller is answered by a run for the very reference it asked for, and  *)
(* the audit log has that run's line by then, rejection or not.            *)
AnswersLogged ==
    \A c \in Lanes : at[c] = "answered" =>
       refOf[joined[c]] = wants[c] /\ joined[c] \in log

(* A pending entry is cleared whether or not a caller still awaits it, so  *)
(* a later call always makes a run of its own.                             *)
PendingClears ==
    \A ref \in CredentialRefs : pending[ref] # NoRun ~> pending[ref] = NoRun
=============================================================================
