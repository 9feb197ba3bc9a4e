----------------------------- MODULE ObjectStore -----------------------------
(***************************************************************************)
(* The object-store adapters (pkg/adapter/objectstore/src): S3, Azure      *)
(* Blob, Cloud Storage and MinIO behind one interface, as the callers of   *)
(* one bucket and key see them.  A write is identified with the call that  *)
(* made it, so the body, the metadata and the etag of an object are those  *)
(* of one call.  Some operations take two requests, which other writes may *)
(* come between; a request whose answer is lost may still take effect, at  *)
(* any later time, and so may an upload through a signed URL.              *)
(***************************************************************************)
CONSTANTS
    Calls,  \* calls of the adapters, each made once
    Null    \* no call

ASSUME CallsAssumption == Null \notin Calls

VARIABLES
    provider, \* which adapters the process was started with
    object,   \* the write the provider's object is of, Null before the first
    spc,      \* spc[c]: the request call c awaits, or how it ended
    op,       \* op[c]: its operation
    saw,      \* saw[c]: the writes that the parts of its answer are of
    late,     \* the calls whose write may still take effect, though they ended
    before,   \* history: before[c], the calls over before c was made
    over,     \* history: the calls over before an acknowledged write was made
    overAt    \* history: overAt[c], what over was when c was made

storeVars == <<object, spc, op, saw, late, before, over, overAt>>

Providers == {"aws", "azure", "gcp", "stub"}
Writes    == {"put", "badput", "delete"}  \* badput: its sha256B64 is not the body's
Reads     == {"get", "head"}
Ended     == {"ok", "not_found", "integrity", "failed"}

\* Where the providers differ.
ChecksDigest    == provider # "stub"             \* put compares sha256B64
SignsUrls       == provider # "stub"             \* signUrl is implemented
AsksForEtag     == provider = "gcp"              \* put reads the etag it returns
AsksForMetadata == provider \in {"azure", "gcp"}  \* get is two requests
DeletesOnlyOld  == provider \in {"azure", "gcp"}  \* delete of nothing is an error
MissesByWording == provider \in {"azure", "gcp"}  \* a miss is told by its message

StoreTypeOK ==
    /\ provider \in Providers
    /\ object \in Calls \cup {Null}
    /\ spc \in [Calls -> {"idle", "sent", "second"} \cup Ended]
    /\ op  \in [Calls -> Writes \cup Reads \cup {"sign", Null}]
    /\ saw \in [Calls -> SUBSET (Calls \cup {Null})]
    /\ late \subseteq Calls
    /\ before \in [Calls -> SUBSET (Calls \cup {Null})]
    /\ over \subseteq Calls \cup {Null}
    /\ overAt \in [Calls -> SUBSET (Calls \cup {Null})]

StoreInit ==
    /\ object = Null
    /\ spc    = [c \in Calls |-> "idle"]
    /\ op     = [c \in Calls |-> Null]
    /\ saw    = [c \in Calls |-> {}]
    /\ late   = {}
    /\ before = [c \in Calls |-> {}]
    /\ over   = {}
    /\ overAt = [c \in Calls |-> {}]

Missing == object = Null \/ op[object] = "delete"

StoreGoTo(c, l) == spc' = [spc EXCEPT ![c] = l]
See(c)          == saw' = [saw EXCEPT ![c] = @ \cup {object}]

\* The calls that are over, with no write of theirs to come.
Over == {Null} \cup {c \in Calls \ late : spc[c] \in Ended}

\* History of an acknowledged write: whatever was over before it is replaced.
Acknowledge(c) == over' = over \cup before[c]

History == <<before, over, overAt>>

-----------------------------------------------------------------------------
\* A call of put, get, head or delete.  A wrong sha256B64 is refused before
\* anything is sent, except by MinIO's put, which does not look at it.
StoreCall(c, o) ==
    /\ spc[c] = "idle"
    /\ op'     = [op EXCEPT ![c] = o]
    /\ before' = [before EXCEPT ![c] = Over]
    /\ overAt' = [overAt EXCEPT ![c] = over]
    /\ StoreGoTo(c, IF o = "badput" /\ ChecksDigest THEN "integrity" ELSE "sent")
    /\ UNCHANGED <<provider, object, saw, late, over>>

\* signUrl(.., 'put'): whoever has the URL may upload.  MinIO has no URLs.
SignUrl(c) ==
    /\ spc[c] = "idle"
    /\ op' = [op EXCEPT ![c] = "sign"]
    /\ \/ /\ SignsUrls
          /\ StoreGoTo(c, "ok")
          /\ late' = late \cup {c}
       \/ StoreGoTo(c, "failed") /\ UNCHANGED late
    /\ UNCHANGED <<provider, object, saw, History>>

\* Mutation of Put: Cloud Storage's put asks for the metadata first.
PutEtagFirst(c) ==
    /\ spc[c] = "sent" /\ op[c] \in {"put", "badput"}
    /\ object' = c
    /\ IF AsksForEtag THEN See(c) ELSE saw' = [saw EXCEPT ![c] = {c}]
    /\ StoreGoTo(c, "ok") /\ Acknowledge(c)
    /\ UNCHANGED <<provider, op, late, before, overAt>>

\* The object is replaced, by one request: attempts that an SDK repeats by
\* itself are left out.  The answer holds its etag, which Cloud Storage's put
\* asks for in a second request.
Put(c) ==
    /\ spc[c] = "sent" /\ op[c] \in {"put", "badput"}
    /\ object' = c
    /\ IF AsksForEtag
       THEN StoreGoTo(c, "second") /\ UNCHANGED <<saw, over>>
       ELSE StoreGoTo(c, "ok") /\ saw' = [saw EXCEPT ![c] = {c}] /\ Acknowledge(c)
    /\ UNCHANGED <<provider, op, late, before, overAt>>

\* put's getMetadata (Cloud Storage), which finds what is there by then.
PutMetadata(c) ==
    /\ spc[c] = "second" /\ op[c] \in {"put", "badput"}
    /\ IF Missing THEN StoreGoTo(c, "failed") /\ UNCHANGED <<saw, over>>
       ELSE StoreGoTo(c, "ok") /\ See(c) /\ Acknowledge(c)
    /\ UNCHANGED <<provider, object, op, late, before, overAt>>

\* What an answer tells of a missing object: provider_error when the provider
\* is Azure or Cloud Storage and words the miss in a way that is not known.
Miss(c) ==
    \/ StoreGoTo(c, "not_found")
    \/ MissesByWording /\ StoreGoTo(c, "failed")

\* get's request for the body, the only one of S3 and MinIO.
Read(c) ==
    /\ spc[c] = "sent" /\ op[c] = "get"
    /\ See(c)
    /\ IF Missing THEN Miss(c)
       ELSE StoreGoTo(c, IF AsksForMetadata THEN "second" ELSE "ok")
    /\ UNCHANGED <<provider, object, op, late, History>>

\* get's request for the metadata (Azure getProperties, GCS getMetadata).
ReadMetadata(c) ==
    /\ spc[c] = "second" /\ op[c] = "get"
    /\ See(c)
    /\ IF Missing THEN Miss(c) ELSE StoreGoTo(c, "ok")
    /\ UNCHANGED <<provider, object, op, late, History>>

\* head.
Head(c) ==
    /\ spc[c] = "sent" /\ op[c] = "head"
    /\ See(c)
    /\ IF Missing THEN Miss(c) ELSE StoreGoTo(c, "ok")
    /\ UNCHANGED <<provider, object, op, late, History>>

\* delete: a missing object is an error for Azure and Cloud Storage.
Delete(c) ==
    /\ spc[c] = "sent" /\ op[c] = "delete"
    /\ IF Missing /\ DeletesOnlyOld
       THEN StoreGoTo(c, "failed") /\ UNCHANGED <<object, over>>
       ELSE StoreGoTo(c, "ok") /\ object' = c /\ Acknowledge(c)
    /\ UNCHANGED <<provider, op, saw, late, before, overAt>>

\* Mutation of StoreFails: a put whose request failed resolves.
StoreFailsQuietly(c) ==
    /\ spc[c] \in {"sent", "second"}
    /\ StoreGoTo(c, IF op[c] = "put" THEN "ok" ELSE "failed")
    /\ IF op[c] = "put" THEN Acknowledge(c) ELSE UNCHANGED over
    /\ late' \in {late} \cup
          (IF spc[c] = "sent" /\ op[c] \in Writes THEN {late \cup {c}} ELSE {})
    /\ UNCHANGED <<provider, object, op, saw, before, overAt>>

\* A request fails or its answer is lost: provider_error.  A write that was
\* sent may take effect all the same.
StoreFails(c) ==
    /\ spc[c] \in {"sent", "second"}
    /\ StoreGoTo(c, "failed")
    /\ late' \in {late} \cup
          (IF spc[c] = "sent" /\ op[c] \in Writes THEN {late \cup {c}} ELSE {})
    /\ UNCHANGED <<provider, object, op, saw, History>>

\* A lost write takes effect, or somebody uploads through a signed URL, which
\* can be used again.
Land(c) ==
    /\ c \in late
    /\ object' = c
    /\ late' = IF op[c] = "sign" THEN late ELSE late \ {c}
    /\ UNCHANGED <<provider, spc, op, saw, History>>

StoreStep(c) ==
    \/ Put(c)
    \/ PutMetadata(c)
    \/ Read(c)
    \/ ReadMetadata(c)
    \/ Head(c)
    \/ Delete(c)
    \/ StoreFails(c)
    \/ Land(c)

StoreNext == \E c \in Calls :
    StoreStep(c) \/ SignUrl(c) \/ \E o \in Writes \cup Reads : StoreCall(c, o)

-----------------------------------------------------------------------------
\* What the provider has is never a write that was over before a write that
\* was acknowledged later began: no lost, late or failed request undoes what
\* a caller was told, unless it overlapped it.
StoredIsAcknowledged == object \notin over

\* Every part of an answer, "nothing there" included, is of a write that had
\* not been replaced when the call was made; a put's etag is of no write that
\* was over when it began; and the parts of one answer differ only if one is
\* of a write that overlapped the call.
AnswersAreCurrent ==
    \A c \in Calls : spc[c] \in {"ok", "not_found"} =>
        /\ saw[c] \cap overAt[c] = {}
        /\ op[c] \in {"put", "badput"} => saw[c] \cap before[c] = {}
        /\ \A v, w \in saw[c] \cap before[c] : v = w

-----------------------------------------------------------------------------
(***************************************************************************)
(* The inductive invariant behind the theorems of CloudAdaptersProofs.     *)
(***************************************************************************)
\* What the history calls over is over, and stays so: no write of it can come.
OverShape ==
    /\ over \subseteq Over
    /\ \A c \in Calls : before[c] \subseteq Over /\ overAt[c] \subseteq over

\* A call has seen nothing before its first request is answered.  Between its
\* requests the object is the one it was at the first, or of a later write.
SecondShape ==
    \A c \in Calls :
        /\ spc[c] \in {"idle", "sent"} => saw[c] = {}
        /\ spc[c] = "second" =>
              /\ op[c] \in {"put", "badput"} => object \notin before[c]
              /\ \A v \in saw[c] \cap before[c] : object \in before[c] => v = object

\* AnswersAreCurrent, of every call, however far it is.
SawShape ==
    \A c \in Calls :
        /\ saw[c] \cap overAt[c] = {}
        /\ op[c] \in {"put", "badput"} => saw[c] \cap before[c] = {}
        /\ \A v, w \in saw[c] \cap before[c] : v = w

StoreInv == StoreTypeOK /\ OverShape /\ SecondShape /\ SawShape /\ StoredIsAcknowledged
=============================================================================
