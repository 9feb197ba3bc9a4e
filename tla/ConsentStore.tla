---------------------------- MODULE ConsentStore ----------------------------
(***************************************************************************)
(* The control-plane's Postgres database as the consent service and the    *)
(* expiry job share it: the rows of table `consents`, the append-only      *)
(* `audit_events` and the transactional `outbox`, with the repository      *)
(* operations of services/control-plane/src/adapter/db/repository.ts.      *)
(* Each operation is one SQL statement, or one transaction, and so one     *)
(* atomic step; what happens between two of them is up to the callers.     *)
(***************************************************************************)
EXTENDS Naturals, Sequences

CONSTANTS
    Consents,   \* the identifiers gen_random_uuid() hands out, one per grant
    Nodes,      \* node identifiers: the well-formed UUIDs
    Requests,   \* the HTTP requests served; each is handled once
    Pods,       \* the replicas of the control-plane, each with an expiry job
    NoHeader,   \* the caller of a request without an x-node-id header
    NotAUuid,   \* an actor that is some other text than a UUID
    Null        \* SQL NULL, or no value

ASSUME ActorAssumption == NoHeader \notin Nodes /\ NotAUuid \notin Nodes

ASSUME NullAssumption == /\ Null \notin Consents
                         /\ Null \notin Requests
                         /\ Null \notin Nodes \X Nodes

VARIABLES
    status,     \* status[c]: the status of row c, "absent" before its INSERT
    parties,    \* parties[c]: from_node_id and to_node_id of row c
    revokedAt,  \* revokedAt[c]: the request whose `now` the row holds, or Null
    due,        \* the rows with expires_at < NOW()
    audit,      \* committed rows of audit_events, oldest first
    outbox      \* committed rows of outbox, oldest first

storeVars == <<status, parties, revokedAt, due, audit, outbox>>

Statuses == {"pending", "active", "revoked", "expired"}
Open     == {"pending", "active"}
Closed   == {"revoked", "expired"}

EventTypes == {"consent.granted", "consent.revoked", "consent.queried",
               "consent.expired"}

\* A row of audit_events and the outbox row inserted with it; `by` names the
\* request (or the pod, for the job) whose operation the row reports.
Events == [type : EventTypes, consent : Consents, by : Requests \cup Pods]

StoreTypeOK ==
    /\ status    \in [Consents -> Statuses \cup {"absent"}]
    /\ parties   \in [Consents -> SUBSET Nodes]
    /\ revokedAt \in [Consents -> Requests \cup {Null}]
    /\ due       \subseteq Consents
    /\ audit     \in Seq(Events)
    /\ outbox    \in Seq(Events)

StoreInit ==
    /\ status    = [c \in Consents |-> "absent"]
    /\ parties   = [c \in Consents |-> {}]
    /\ revokedAt = [c \in Consents |-> Null]
    /\ due       = {}
    /\ audit     = <<>>
    /\ outbox    = <<>>

-----------------------------------------------------------------------------
\* Mutation of CreateRow: an upsert, which a fresh id does not guard.
CreateRowUpsert(c, from, to) ==
    /\ status'  = [status EXCEPT ![c] = "pending"]
    /\ parties' = [parties EXCEPT ![c] = {from, to}]
    /\ UNCHANGED <<revokedAt, due, audit, outbox>>

\* ConsentsRepository.create: INSERT with status PENDING and a fresh id.
CreateRow(c, from, to) ==
    /\ status[c] = "absent"
    /\ status'  = [status EXCEPT ![c] = "pending"]
    /\ parties' = [parties EXCEPT ![c] = {from, to}]
    /\ UNCHANGED <<revokedAt, due, audit, outbox>>

\* Mutation of UpdateStatus: COALESCE($3, revoked_at).
UpdateStatusCoalesce(c, s, at) ==
    /\ status'    = [status EXCEPT ![c] = s]
    /\ revokedAt' = [revokedAt EXCEPT ![c] = IF at = Null THEN @ ELSE at]
    /\ UNCHANGED <<parties, due, audit, outbox>>

\* ConsentsRepository.updateStatus: UPDATE by id alone.  The statement has no
\* condition on the old status, and revoked_at becomes NULL when not given.
UpdateStatus(c, s, at) ==
    /\ status'    = [status EXCEPT ![c] = s]
    /\ revokedAt' = [revokedAt EXCEPT ![c] = at]
    /\ UNCHANGED <<parties, due, audit, outbox>>

\* audit_events.actor_node_id is UUID NOT NULL: any other actor aborts the
\* transaction.
ActorAccepted(actor) == actor \in Nodes

\* AuditRepository.appendInTransaction, committed: both rows or neither.
AppendInTransaction(e, actor) ==
    /\ ActorAccepted(actor)
    /\ audit'  = Append(audit, e)
    /\ outbox' = Append(outbox, e)
    /\ UNCHANGED <<status, parties, revokedAt, due>>

-----------------------------------------------------------------------------
\* External: no code of the repository activates a consent; the job only
\* expires active ones, so something outside it does.
Activate(c) ==
    /\ status[c] = "pending"
    /\ status' = [status EXCEPT ![c] = "active"]
    /\ UNCHANGED <<parties, revokedAt, due, audit, outbox>>

\* Time passes the expires_at of row c (a row may have none).
Elapse(c) ==
    /\ status[c] # "absent"
    /\ due' = due \cup {c}
    /\ UNCHANGED <<status, parties, revokedAt, audit, outbox>>

\* Whether the trail holds an event of type t for consent c.
HasEvent(c, t) ==
    \E i \in 1 .. Len(audit) : audit[i].consent = c /\ audit[i].type = t
=============================================================================
