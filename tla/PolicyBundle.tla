----------------------------- MODULE PolicyBundle -----------------------------
(***************************************************************************)
(* The policy plugin of a service: a signed bundle of rules is fetched     *)
(* from the object store, checked by the key service and put in force.     *)
(* load() is suspended in the fetch and in the check, and is called at     *)
(* start and by reload(), so loads overlap each other and the release of   *)
(* newer bundles.  A rule's conditions are reduced to the set of those     *)
(* that hold in the context of an evaluation.                              *)
(***************************************************************************)
EXTENDS KmsKeys

CONSTANTS
    Bundles,    \* payloads; b.rules maps rule ids to [effect, all, any]
    RuleIds,    \* rule ids that evaluations ask for
    Conditions, \* conditions of the rules
    CacheTtl,   \* cacheTtlMs, in ticks of the clock
    MaxTime     \* bound: the last instant

ASSUME PolicyAssumption ==
    /\ Bundles \subseteq Messages /\ Null \notin Messages
    /\ CacheTtl \in Nat /\ MaxTime \in Nat

VARIABLES
    bundle,    \* the bundle in force, Null before the first load
    loadedAt,  \* when the load that put it in force was started
    clock,     \* Date.now()
    lpc,       \* lpc[c]: where the load with call c is
    start,     \* start[c]: its local now
    obj,       \* obj[c]: the object it fetched
    fetchedAt, \* history: fetchedAt[c], when the object was in the bucket
    asOf       \* history: when the bundle in force was in the bucket

policyVars == <<bundle, loadedAt, clock, lpc, start, obj, fetchedAt, asOf>>

Instants == 0 .. MaxTime
Objects  == [payload : Bundles, key : KeyIds, sig : Signatures \cup {Null}]
Loading  == {"fetching", "verifying"}

PolicyTypeOK ==
    /\ bundle    \in Bundles \cup {Null}
    /\ loadedAt  \in Instants
    /\ clock     \in Instants
    /\ lpc       \in [Calls -> Loading \cup {"idle", "loaded", "failed"}]
    /\ start     \in [Calls -> Instants]
    /\ obj       \in [Calls -> Objects \cup {Null}]
    /\ fetchedAt \in [Calls -> Instants]
    /\ asOf      \in Instants

PolicyInit ==
    /\ bundle    = Null
    /\ loadedAt  = 0
    /\ clock     = 0
    /\ lpc       = [c \in Calls |-> "idle"]
    /\ start     = [c \in Calls |-> 0]
    /\ obj       = [c \in Calls |-> Null]
    /\ fetchedAt = [c \in Calls |-> 0]
    /\ asOf      = 0

-----------------------------------------------------------------------------
LoadGoTo(c, l) == lpc' = [lpc EXCEPT ![c] = l]

\* The locals of loads that end are gone.
LoadForgets(S) ==
    /\ start'     = [c \in Calls |-> IF c \in S THEN 0 ELSE start[c]]
    /\ obj'       = [c \in Calls |-> IF c \in S THEN Null ELSE obj[c]]
    /\ fetchedAt' = [c \in Calls |-> IF c \in S THEN 0 ELSE fetchedAt[c]]

\* The condition of load()'s early return.
Cached == bundle # Null /\ clock - loadedAt < CacheTtl

\* load() up to its first await; one that is Cached changes nothing.
Load(c) ==
    /\ lpc[c] = "idle" /\ at[c] = "idle" /\ ~Cached
    /\ LoadGoTo(c, "fetching")
    /\ start' = [start EXCEPT ![c] = clock]
    /\ UNCHANGED <<kmsVars, bundle, loadedAt, clock, obj, fetchedAt, asOf>>

\* External: the bucket holds object o when it is read.  Its signature may be
\* of something else, or of nobody.
Fetched(c, o) ==
    /\ lpc[c] = "fetching"
    /\ LoadGoTo(c, "verifying")
    /\ obj' = [obj EXCEPT ![c] = o]
    /\ fetchedAt' = [fetchedAt EXCEPT ![c] = clock]
    /\ UNCHANGED <<kmsVars, bundle, loadedAt, clock, start, asOf>>

\* kms.verify reaches the key service.
AskVerify(c) ==
    /\ lpc[c] = "verifying"
    /\ Call(c, VerifyRequest(obj[c].key, obj[c].payload, obj[c].sig))
    /\ UNCHANGED policyVars

\* Mutation of Install: the age of the bundle counts from the end of its load.
InstallAtEnd(c) ==
    /\ bundle' = obj[c].payload
    /\ loadedAt' = clock
    /\ asOf' = fetchedAt[c]

Install(c) ==
    /\ bundle' = obj[c].payload
    /\ loadedAt' = start[c]
    /\ asOf' = fetchedAt[c]

Verified(c) ==
    /\ lpc[c] = "verifying" /\ answer[c] = "valid"
    /\ Install(c)
    /\ LoadGoTo(c, "loaded") /\ LoadForgets({c})
    /\ UNCHANGED <<kmsVars, clock>>

\* A fetch that fails, an object that is no JSON, a refused signature, an
\* error of the key service or its timeout, which leaves the call running.
LoadFails(c) ==
    /\ lpc[c] \in Loading
    /\ LoadGoTo(c, "failed") /\ LoadForgets({c})
    /\ UNCHANGED <<kmsVars, bundle, loadedAt, clock, asOf>>

\* The service restarts without a bundle; its loads are gone.
ServiceDies ==
    /\ bundle' = Null /\ loadedAt' = 0 /\ asOf' = 0
    /\ lpc' = [c \in Calls |-> IF lpc[c] \in Loading THEN "failed" ELSE lpc[c]]
    /\ LoadForgets(Calls)
    /\ UNCHANGED <<kmsVars, clock>>

Tick ==
    /\ clock < MaxTime /\ clock' = clock + 1
    /\ UNCHANGED <<kmsVars, bundle, loadedAt, lpc, start, obj, fetchedAt, asOf>>

PluginStep ==
    \/ \E c \in Calls : Load(c) \/ AskVerify(c) \/ Verified(c) \/ LoadFails(c)
    \/ \E c \in Calls, b \in Bundles, k \in KeyIds, s \in signatures \cup {Null} :
           Fetched(c, [payload |-> b, key |-> k, sig |-> s])
    \/ ServiceDies \/ Tick

\* External: a release is signed, or a client of the key service asks for a
\* public key or has a data key generated or decrypted.
ClientCall(c, k) ==
    /\ lpc[c] = "idle"
    /\ \/ \E b \in Bundles : Call(c, SignRequest(k, b))
       \/ Call(c, PublicKeyRequest(k)) \/ Call(c, GenerateRequest(k))
       \/ \E d \in dataKeys : Call(c, DecryptRequest(d))
    /\ UNCHANGED policyVars

vars == <<kmsVars, policyVars>>

Init == KmsInit /\ PolicyInit

Next ==
    \/ KmsStep /\ UNCHANGED policyVars
    \/ PluginStep
    \/ \E c \in Calls, k \in KeyIds : ClientCall(c, k)

Spec == Init /\ [][Next]_vars

-----------------------------------------------------------------------------
(***************************************************************************)
(* evaluate: the first word is the bundle's, and without one it is deny.   *)
(***************************************************************************)
Matches(rule, ctx) ==
    /\ rule.all \subseteq ctx
    /\ rule.any = {} \/ rule.any \cap ctx # {}

Grants(b, r, ctx) ==
    r \in DOMAIN b.rules /\ b.rules[r].effect = "allow" /\ Matches(b.rules[r], ctx)

Evaluate(r, ctx) ==
    IF bundle # Null /\ r \in DOMAIN bundle.rules /\ Matches(bundle.rules[r], ctx)
    THEN bundle.rules[r].effect ELSE "deny"

-----------------------------------------------------------------------------
(***************************************************************************)
(* Properties.                                                             *)
(***************************************************************************)
\* No request is allowed but by a bundle that the key service has signed as
\* it is: whatever was uploaded between fetch, check and installation, and
\* whichever of two overlapping loads ends last.
AllowsOnlySigned ==
    \A r \in RuleIds, ctx \in SUBSET Conditions :
        Evaluate(r, ctx) = "allow" =>
            \E s \in signatures : s.msg \in Bundles /\ Grants(s.msg, r, ctx)

\* While reload() is content with the bundle in force (index.ts:86), that
\* bundle was in the bucket less than the TTL ago, although loads overlap each
\* other and wait for the check: the age counts from before the fetch.
CachedWithinTtl == Cached => clock < asOf + CacheTtl

\* A data key that was handed out can be decrypted for ever, also after a crash
\* and a restart: its KEK is on disk, unless two first uses generated it twice.
DataKeysSurvive ==
    \A d \in dataKeys : <<"kek", d.key>> \notin overlapped => kekFile[d.key] = d.by

\* A signature of the key service is never called invalid for the message it
\* was made for, unless two first uses of the key generated it twice; after a
\* restart the service gives errors, and no verdict.
RefusesOnlyForeign ==
    \A c \in Calls :
        answer[c] = "invalid" /\ req[c].arg \in signatures
            /\ req[c].arg.key = req[c].key /\ req[c].arg.msg = req[c].msg
        => <<"pair", req[c].key>> \in overlapped

-----------------------------------------------------------------------------
(***************************************************************************)
(* The inductive invariant behind the theorems of PolicyBundleProofs.      *)
(***************************************************************************)
\* A load asks about the object it fetched, no earlier than it started.
LoadShape ==
    \A c \in Calls :
        /\ lpc[c] = "fetching" => at[c] = "idle" /\ start[c] <= clock
        /\ lpc[c] = "verifying" =>
              /\ obj[c] \in Objects /\ obj[c].sig \in signatures \cup {Null}
              /\ start[c] <= fetchedAt[c] /\ fetchedAt[c] <= clock
        /\ lpc[c] = "verifying" /\ req[c] \in Requests =>
              req[c] = VerifyRequest(obj[c].key, obj[c].payload, obj[c].sig)
        /\ at[c] = "idle" => req[c] = Null

\* The bundle in force was signed, and is no younger than it counts.
BundleShape ==
    bundle # Null =>
        /\ \E s \in signatures : s.msg = bundle
        /\ loadedAt <= asOf /\ asOf <= clock

KeysInv == /\ KmsTypeOK /\ PolicyTypeOK /\ CallShape /\ KekShape /\ PairShape
           /\ LoadShape /\ BundleShape /\ DataKeysSurvive /\ RefusesOnlyForeign
=============================================================================
