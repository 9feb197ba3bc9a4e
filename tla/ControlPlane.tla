---------------------------- MODULE ControlPlane ----------------------------
(***************************************************************************)
(* The control-plane: the requests of ConsentService and the expiry jobs   *)
(* of all pods, interleaved on one database.                               *)
(***************************************************************************)
EXTENDS ConsentService, ExpiryJob

vars == <<storeVars, serviceVars, jobVars>>

TypeOK == StoreTypeOK /\ ServiceTypeOK /\ JobTypeOK

Init == StoreInit /\ ServiceInit /\ JobInit

ServiceStep == ServiceNext /\ UNCHANGED jobVars
JobStep     == JobNext /\ UNCHANGED serviceVars
Outside     == /\ \E c \in Consents : Activate(c) \/ Elapse(c)
               /\ UNCHANGED <<serviceVars, jobVars>>

Next == ServiceStep \/ JobStep \/ Outside

Spec == Init /\ [][Next]_vars

\* The event loop goes on with whatever has settled, setInterval fires again
\* and again, no database session lives forever (idleTimeoutMillis), and a
\* statement that the job repeats on every tick does not fail every time.
\* Nothing obliges a client, a crash or the outside to act.
Fairness ==
    /\ \A r \in Requests : WF_vars(Handle(r) /\ UNCHANGED jobVars)
    /\ \A p \in Pods :
        /\ WF_vars(TickStep(p) /\ UNCHANGED serviceVars)
        /\ WF_vars(CloseSession(p) /\ UNCHANGED serviceVars)
        /\ SF_vars((\E s \in PoolOf(p) : TickLock(p, s)) /\ UNCHANGED serviceVars)
        /\ SF_vars(Select(p) /\ UNCHANGED serviceVars)
        /\ \A c \in Consents : SF_vars(Recheck(p, c) /\ UNCHANGED serviceVars)
        /\ SF_vars(Expire(p) /\ UNCHANGED serviceVars)

FairSpec == Spec /\ Fairness

-----------------------------------------------------------------------------
\* The requests whose event is on the trail and in the outbox.
OnTrail(r)  == \E i \in 1 .. Len(audit) : audit[i].by = r
InOutbox(r) == \E i \in 1 .. Len(outbox) : outbox[i].by = r

\* A request answered with success, whatever crashed or overtook it, has its
\* event in audit_events and in the outbox (grant, revoke and query all append
\* before they return).
AcknowledgedIsRecorded ==
    \A r \in Requests : pc[r] = "ok" => OnTrail(r) /\ InOutbox(r)

\* Once a revocation of a consent is on the trail the consent can never be
\* read as pending or active again, though the expiry job may still write to
\* its row and the activation of a pending consent may race the revocation.
RecordedRevocationHolds ==
    \A c \in Consents : HasEvent(c, "consent.revoked") => status[c] \in Closed

\* The trail of a consent starts with its grant, and has that event once: no
\* revocation, query or expiry is recorded of a consent whose grant is not.
TrailStartsWithGrant ==
    \A i \in 1 .. Len(audit) :
        /\ \E j \in 1 .. i : /\ audit[j].type = "consent.granted"
                             /\ audit[j].consent = audit[i].consent
        /\ \A j \in 1 .. Len(audit) :
              /\ audit[i].type = "consent.granted"
              /\ audit[j].type = "consent.granted"
              /\ audit[j].consent = audit[i].consent
              => i = j

\* The job expires a row only after its expires_at, and never one that was
\* still pending: the row was active when the tick selected it and when
\* expireOne looked again, and nothing makes an active consent pending.
ExpiresOnlyWhatWasDue ==
    [][\A c \in Consents :
          status'[c] = "expired" /\ status[c] # "expired"
              => c \in due /\ status[c] \in {"active", "revoked"}]_vars

\* Whatever the expiry job overwrites, a row is revoked exactly when it has a
\* revoked_at, and that instant is one that a revoke request of this consent
\* took.
RevokedAtTellsTheRevoker ==
    \A c \in Consents :
        /\ status[c] = "revoked" <=> revokedAt[c] # Null
        /\ revokedAt[c] # Null =>
              op[revokedAt[c]] = "revoke" /\ target[revokedAt[c]] = c

\* The object store holds the event of a request only if the database does:
\* the archive never knows of an operation that was rolled back.
ArchiveHoldsOnlyRecorded == \A r \in archive : OnTrail(r)

\* A query that reads the row after a revocation of it has been acknowledged,
\* by any pod, sees it closed.
QuerySeesAcknowledgedRevocation ==
    [][\A q, r \in Requests :
          /\ op[q] = "query" /\ pc[q] = "read" /\ pc'[q] = "append"
          /\ op[r] = "revoke" /\ pc[r] = "ok" /\ target[r] = target[q]
          => read'[q] \in Closed]_vars

\* The root commits to the trail: with every event that is appended, whatever
\* its place in the tree, computeDailyMerkleRoot changes.
RootChangesWithTrail ==
    [][audit' # audit => ComputeDailyMerkleRoot' # ComputeDailyMerkleRoot]_vars

\* Two ticks run at once only if one of them lost the session that took the
\* advisory lock; otherwise the lock serialises the jobs of the cluster.
OneTickUnlessSessionLost ==
    \A p, q \in Pods :
        p # q /\ Ticking(p) /\ Ticking(q) => p \in lost \/ q \in lost

\* Every request that arrived ends: it is answered, or its pod has died.  And
\* every tick ends, so the flag that skips overlapping ticks never sticks.
RequestsAndTicksEnd ==
    /\ \A r \in Requests : (pc[r] \in Running) ~> (pc[r] \in Ended)
    /\ \A p \in Pods : Ticking(p) ~> ~Ticking(p)

\* A consent that is past its expires_at and active is not left so: a tick
\* expires it, unless a revocation comes first, although pods die, locks stay
\* behind on pooled sessions and statements fail.
DueConsentsExpire ==
    \A c \in Consents : (c \in due /\ status[c] = "active") ~> (status[c] # "active")

-----------------------------------------------------------------------------
PhaseOf(s) == IF s = "absent" THEN "absent"
              ELSE IF s \in Open THEN "open" ELSE "closed"

\* The abstract ledger: its phases are the open and closed statuses, and its
\* events the rows of audit_events.
Ledger == INSTANCE ConsentLedger WITH
    phase <- [c \in Consents |-> PhaseOf(status[c])],
    trail <- audit,
    acked <- {r \in Requests : pc[r] = "ok"}

\* The control-plane implements the ledger: consents open and close once, the
\* trail is well-formed at every step, and no answer runs ahead of it.
ImplementsLedger == Ledger!Spec

-----------------------------------------------------------------------------
(***************************************************************************)
(* The inductive invariant behind the theorems of ControlPlaneProofs.      *)
(***************************************************************************)
\* What a request holds at each step of its handler.
RequestShape ==
    \A r \in Requests :
        /\ pc[r] = "idle" => op[r] = "none"
        /\ op[r] = "none" => target[r] = Null
        /\ pc[r] = "policy" => op[r] \in {"grant", "revoke"}
        /\ op[r] = "grant" /\ pc[r] \in {"policy", "create"} =>
              grantOf[r] # Null /\ target[r] = Null
        /\ pc[r] = "create" => op[r] = "grant"
        /\ pc[r] = "read" => op[r] \in {"revoke", "query"}
        /\ pc[r] = "update" => op[r] = "revoke" /\ target[r] # Null
        /\ pc[r] = "append" => op[r] \in Ops /\ target[r] # Null

\* Each event is the one its request had to report, and that request is over:
\* so no request has two.  The outbox holds the same events in the same order.
TrailShape ==
    /\ outbox = audit
    /\ \A i \in 1 .. Len(audit) :
          /\ audit[i].by \in Requests
          /\ pc[audit[i].by] \in Ended
          /\ op[audit[i].by] \in Ops
          /\ audit[i] = EventBy(audit[i].by)
    /\ \A i, j \in 1 .. Len(audit) : audit[i].by = audit[j].by => i = j

\* A row has one grant; a revoke or query has the id of a recorded grant, and
\* a revoke that got past its UPDATE left the row closed.
TargetShape ==
    /\ \A r, g \in Requests :
          /\ op[r] = "grant" /\ op[g] = "grant"
          /\ target[r] = target[g] /\ target[r] # Null
          => r = g
    /\ \A r \in Requests : target[r] # Null => status[target[r]] # "absent"
    /\ \A r \in Requests : op[r] \in {"revoke", "query"} /\ target[r] # Null =>
          HasEvent(target[r], "consent.granted")
    /\ \A r \in Requests : op[r] = "revoke" /\ pc[r] = "append" =>
          status[target[r]] \in Closed

\* What a tick has selected was active and due, and a pod that ticks with its
\* session intact holds the lock.
JobShape ==
    \A p \in Pods :
        /\ work[p] \subseteq due
        /\ jpc[p] = "update" =>
              /\ cur[p] \in due
              /\ status[cur[p]] \in {"active", "revoked", "expired"}
        /\ Ticking(p) /\ p \notin lost => holder \in PoolOf(p)

IInv == /\ TypeOK /\ RequestShape /\ TrailShape /\ TargetShape /\ JobShape
        /\ AcknowledgedIsRecorded /\ RecordedRevocationHolds
        /\ RevokedAtTellsTheRevoker /\ ArchiveHoldsOnlyRecorded

-----------------------------------------------------------------------------
\* What the repository's documents say and the code does not do.

\* docs/runbooks/operations/consent-revocation-cascade.md, Rollback:
\* revocation is final by design.  Once revoked, a row stays revoked.
RevocationIsFinal ==
    [][\A c \in Consents : status[c] = "revoked" => status'[c] = "revoked"]_vars

\* ADR-0021: "Outbox row and domain/audit write occur in the same SQL
\* transaction."  A row that is closed, with every tick over and every request
\* on it ended, has the event of its closing.
ClosedRowIsOnTrail ==
    \A c \in Consents :
        /\ \A r \in Requests : target[r] = c => pc[r] \in Ended
        /\ \A p \in Pods : ~Ticking(p)
        => /\ status[c] = "revoked" => HasEvent(c, "consent.revoked")
           /\ status[c] = "expired" => HasEvent(c, "consent.expired")
=============================================================================
