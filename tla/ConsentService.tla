--------------------------- MODULE ConsentService ---------------------------
(***************************************************************************)
(* ConsentService (domain/consent-service.ts) behind its three routes in   *)
(* server.ts: grant, revoke and query.  Each request is a process; it is   *)
(* suspended at every `await`, so other requests, other pods and the       *)
(* expiry job run between any two of its database calls.  A statement may  *)
(* fail, and the pod may die between any two of them.                      *)
(***************************************************************************)
EXTENDS ConsentStore, MerkleRoot

VARIABLES
    pc,       \* pc[r]: the next step of request r, or how it ended
    op,       \* op[r]: the route
    target,   \* target[r]: the consent's id, Null when no row has the id sent
    actor,    \* actor[r]: actorNodeId, or requestorNodeId for a query
    grantOf,  \* grantOf[r]: the from and to nodes of a grant's body
    read,     \* read[r]: the status in the row a query is about to return
    archive   \* requests whose event the object store holds

serviceVars == <<pc, op, target, actor, grantOf, read, archive>>

Ops     == {"grant", "revoke", "query"}
Callers == Nodes \cup {NoHeader, NotAUuid}
Running == {"policy", "create", "read", "update", "append"}
Ended   == {"ok", "failed"}

ServiceTypeOK ==
    /\ pc      \in [Requests -> {"idle"} \cup Running \cup Ended]
    /\ op      \in [Requests -> Ops \cup {"none"}]
    /\ target  \in [Requests -> Consents \cup {Null}]
    /\ actor   \in [Requests -> Callers]
    /\ grantOf \in [Requests -> Nodes \X Nodes \cup {Null}]
    /\ read    \in [Requests -> Statuses \cup {"absent"}]
    /\ archive \subseteq Requests

ServiceInit ==
    /\ pc      = [r \in Requests |-> "idle"]
    /\ op      = [r \in Requests |-> "none"]
    /\ target  = [r \in Requests |-> Null]
    /\ actor   = [r \in Requests |-> NoHeader]
    /\ grantOf = [r \in Requests |-> Null]
    /\ read    = [r \in Requests |-> "absent"]
    /\ archive = {}

EventOf(o) == IF o = "grant" THEN "consent.granted"
              ELSE IF o = "revoke" THEN "consent.revoked" ELSE "consent.queried"

EventBy(r) == [type |-> EventOf(op[r]), consent |-> target[r], by |-> r]

GoTo(r, l) == pc' = [pc EXCEPT ![r] = l]

\* The handler of r is over, and its locals with it.
End(r, how) ==
    /\ GoTo(r, how)
    /\ actor'   = [actor EXCEPT ![r] = NoHeader]
    /\ grantOf' = [grantOf EXCEPT ![r] = Null]
    /\ read'    = [read EXCEPT ![r] = "absent"]
    /\ UNCHANGED <<op, target, archive>>

-----------------------------------------------------------------------------
\* POST /v1/consents: the actor is x-node-id, or else the body's fromNodeId.
ReceiveGrant(r, from, to, header) ==
    /\ pc[r] = "idle"
    /\ GoTo(r, "policy")
    /\ op'      = [op EXCEPT ![r] = "grant"]
    /\ actor'   = [actor EXCEPT ![r] = IF header = NoHeader THEN from ELSE header]
    /\ grantOf' = [grantOf EXCEPT ![r] = <<from, to>>]
    /\ UNCHANGED <<target, read, archive, storeVars>>

\* A caller learns the id of a consent from its 201 reply or from the
\* consent.granted event, both after the event committed.  Null stands for
\* an id that no row has.
KnownIds == {c \in Consents : HasEvent(c, "consent.granted")} \cup {Null}

\* POST /v1/consents/:consentId/revoke: the actor is x-node-id as it comes.
ReceiveRevoke(r, c, header) ==
    /\ pc[r] = "idle"
    /\ c \in KnownIds
    /\ GoTo(r, "policy")
    /\ op'     = [op EXCEPT ![r] = "revoke"]
    /\ target' = [target EXCEPT ![r] = c]
    /\ actor'  = [actor EXCEPT ![r] = header]
    /\ UNCHANGED <<grantOf, read, archive, storeVars>>

\* GET /v1/consents/:consentId: no policy rule is evaluated.
ReceiveQuery(r, c, header) ==
    /\ pc[r] = "idle"
    /\ c \in KnownIds
    /\ GoTo(r, "read")
    /\ op'     = [op EXCEPT ![r] = "query"]
    /\ target' = [target EXCEPT ![r] = c]
    /\ actor'  = [actor EXCEPT ![r] = header]
    /\ UNCHANGED <<grantOf, read, archive, storeVars>>

\* The policy evaluator, when there is one, allows the operation; its refusal
\* is one of the outcomes of Fail.
PolicyAllows(r) ==
    /\ pc[r] = "policy"
    /\ GoTo(r, IF op[r] = "grant" THEN "create" ELSE "read")
    /\ UNCHANGED <<op, target, actor, grantOf, read, archive, storeVars>>

Create(r, c) ==
    /\ pc[r] = "create"
    /\ CreateRow(c, grantOf[r][1], grantOf[r][2])
    /\ target' = [target EXCEPT ![r] = c]
    /\ GoTo(r, "append")
    /\ UNCHANGED <<op, actor, grantOf, read, archive>>

\* A query's requestor must be the from or the to node of the row.
Authorized(r) == op[r] = "query" => actor[r] \in parties[target[r]]

\* getById found the row (a missing one is a Fail), and a query's requestor
\* may see it.
Read(r) ==
    /\ pc[r] = "read"
    /\ target[r] # Null
    /\ Authorized(r)
    /\ read' = IF op[r] = "query" THEN [read EXCEPT ![r] = status[target[r]]]
                ELSE read
    /\ GoTo(r, IF op[r] = "revoke" THEN "update" ELSE "append")
    /\ UNCHANGED <<op, target, actor, grantOf, archive, storeVars>>

\* Mutation of Update: UPDATE ... WHERE status = 'active', row count unchecked.
UpdateActiveOnly(r) ==
    /\ pc[r] = "update"
    /\ IF status[target[r]] = "active" THEN UpdateStatus(target[r], "revoked", r)
       ELSE UNCHANGED storeVars
    /\ GoTo(r, "append")
    /\ UNCHANGED <<op, target, actor, grantOf, read, archive>>

\* The row becomes REVOKED whatever it holds by now.
Update(r) ==
    /\ pc[r] = "update"
    /\ UpdateStatus(target[r], "revoked", r)
    /\ GoTo(r, "append")
    /\ UNCHANGED <<op, target, actor, grantOf, read, archive>>

\* The audit and outbox rows commit.  When the connection is lost before
\* COMMIT is answered the caller is told of an error all the same.
Record(r) ==
    /\ pc[r] = "append"
    /\ AppendInTransaction(EventBy(r), actor[r])
    /\ \E how \in Ended : End(r, how)

\* Mutation of Fail: an error of the append is swallowed.
FailSwallowed(r) ==
    /\ pc[r] \in Running
    /\ End(r, IF pc[r] = "append" THEN "ok" ELSE "failed")
    /\ UNCHANGED storeVars

\* Mutation of Fail: nothing answers for a row that getById did not find.
FailButMissing(r) ==
    /\ pc[r] \in Running \ {"read"}
    /\ End(r, "failed")
    /\ UNCHANGED storeVars

\* The request ends without success.  Either the handler throws and the route
\* answers 400 (403 for a query): the policy refuses, the row is missing, the
\* requestor is not a party, the actor is not a UUID, any statement fails.  Or
\* the pod dies and there is no answer.  What earlier statements wrote stays.
Fail(r) ==
    /\ pc[r] \in Running
    /\ End(r, "failed")
    /\ UNCHANGED storeVars

\* Mutation of Archive: the put is issued before the append commits.
ArchiveFirst(r) ==
    /\ pc[r] \in {"append", "ok"}
    /\ op[r] \in {"grant", "revoke"}
    /\ r \notin archive
    /\ archive' = archive \cup {r}
    /\ UNCHANGED <<pc, op, target, actor, grantOf, read, storeVars>>

\* archiveAuditEvent, issued by grant and revoke after the append: the put is
\* not awaited, so it lands at any later time, or never.
Archive(r) ==
    /\ pc[r] = "ok"
    /\ op[r] \in {"grant", "revoke"}
    /\ r \notin archive
    /\ archive' = archive \cup {r}
    /\ UNCHANGED <<pc, op, target, actor, grantOf, read, storeVars>>

\* computeDailyMerkleRoot over a day that holds the whole trail: the ids of
\* its rows in ascending order.
ComputeDailyMerkleRoot == MerkleOf([i \in 1 .. Len(audit) |-> i])

-----------------------------------------------------------------------------
Receive(r) ==
    \/ \E from, to \in Nodes, h \in Callers : ReceiveGrant(r, from, to, h)
    \/ \E c \in KnownIds, h \in Callers : ReceiveRevoke(r, c, h)
    \/ \E c \in KnownIds, h \in Callers : ReceiveQuery(r, c, h)

\* The steps the event loop takes for a request once its awaited call settles.
Handle(r) ==
    \/ PolicyAllows(r)
    \/ \E c \in Consents : Create(r, c)
    \/ Read(r)
    \/ Update(r)
    \/ Record(r)
    \/ Fail(r)

ServiceNext ==
    \E r \in Requests : Receive(r) \/ Handle(r) \/ Archive(r)
=============================================================================
