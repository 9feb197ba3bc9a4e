------------------------- MODULE ControlPlaneProofs -------------------------
(***************************************************************************)
(* Theorems of ControlPlane, for any sets of consents, nodes, requests and *)
(* pods and any pool size.                                                 *)
(***************************************************************************)
EXTENDS ControlPlane, MerkleProofs, TLAPS

\* The values of the variables and what a request holds at each step, as one
\* inductive fact: Create and Record write what the request holds.
Shape == TypeOK /\ RequestShape

LEMMA ShapeInit == Init => Shape
<1> SUFFICES ASSUME Init PROVE Shape
  OBVIOUS
<1>1. StoreTypeOK
  BY DEF Init, StoreInit, StoreTypeOK, Statuses
<1>2. ServiceTypeOK /\ RequestShape
  BY NullAssumption DEF Init, ServiceInit, ServiceTypeOK, Callers, RequestShape
<1>3. JobTypeOK
  BY PoolAssumption DEF Init, JobInit, JobTypeOK
<1> QED BY <1>1, <1>2, <1>3 DEF Shape, TypeOK

\* No step of a request breaks the shape.
LEMMA ShapeService ==
  ASSUME Shape, NEW r \in Requests, Receive(r) \/ Handle(r) \/ Archive(r), UNCHANGED jobVars
  PROVE  Shape'
<1> USE ActorAssumption, NullAssumption
        DEF Shape, TypeOK, StoreTypeOK, ServiceTypeOK, JobTypeOK, RequestShape, Statuses,
            Ops, Callers, Running, Ended, GoTo, End, jobVars
<1>1. ASSUME NEW from \in Nodes, NEW to \in Nodes, NEW h \in Callers,
             ReceiveGrant(r, from, to, h)
      PROVE  Shape'
  <2>1. (IF h = NoHeader THEN from ELSE h) \in Callers
    OBVIOUS
  <2>2. StoreTypeOK' /\ JobTypeOK'
    BY <1>1 DEF ReceiveGrant, storeVars
  <2>3. ServiceTypeOK'
    BY <1>1, <2>1 DEF ReceiveGrant
  <2>4. RequestShape'
    BY <1>1 DEF ReceiveGrant
  <2> QED BY <2>2, <2>3, <2>4
<1>2. ASSUME NEW c \in KnownIds, NEW h \in Callers,
             ReceiveRevoke(r, c, h) \/ ReceiveQuery(r, c, h)
      PROVE  Shape'
  <2>1. c \in Consents \cup {Null}
    BY DEF KnownIds
  <2>2. StoreTypeOK' /\ JobTypeOK'
    BY <1>2 DEF ReceiveRevoke, ReceiveQuery, storeVars
  <2>3. ServiceTypeOK'
    <3>1. CASE ReceiveRevoke(r, c, h)
      BY <3>1, <2>1 DEF ReceiveRevoke
    <3>2. CASE ReceiveQuery(r, c, h)
      BY <3>2, <2>1 DEF ReceiveQuery
    <3> QED BY <1>2, <3>1, <3>2
  <2>4. RequestShape'
    BY <1>2 DEF ReceiveRevoke, ReceiveQuery
  <2> QED BY <2>2, <2>3, <2>4
<1>3. CASE PolicyAllows(r)
  BY <1>3 DEF PolicyAllows, storeVars
<1>4. ASSUME NEW c \in Consents, Create(r, c) PROVE Shape'
  BY <1>4 DEF Create, CreateRow
<1>5. CASE Read(r)
  BY <1>5 DEF Read, storeVars
<1>6. CASE Update(r)
  BY <1>6 DEF Update, UpdateStatus
<1>7. CASE Record(r)
  <2>1. EventBy(r) \in Events
    BY <1>7 DEF Record, EventBy, EventOf, Events, EventTypes
  <2> QED BY <1>7, <2>1 DEF Record, AppendInTransaction
<1>8. CASE Fail(r)
  BY <1>8 DEF Fail, storeVars
<1>9. CASE Archive(r)
  BY <1>9 DEF Archive, storeVars
<1> QED
  BY <1>1, <1>2, <1>3, <1>4, <1>5, <1>6, <1>7, <1>8, <1>9 DEF Receive, Handle

\* No step of an expiry job breaks the shape.
LEMMA ShapeJob ==
  ASSUME Shape, JobNext, UNCHANGED serviceVars
  PROVE  Shape'
<1> USE NullAssumption, PoolAssumption
        DEF Shape, TypeOK, StoreTypeOK, JobTypeOK, Statuses, JobGoTo, Sessions, PoolOf
<1>1. ServiceTypeOK' /\ RequestShape'
  BY DEF ServiceTypeOK, RequestShape, serviceVars
<1> SUFFICES StoreTypeOK' /\ JobTypeOK'
  BY <1>1
<1>2. PICK p \in Pods :
        \/ \E s \in PoolOf(p) : TickLock(p, s) \/ TickEnd(p, s)
        \/ Select(p) \/ Expire(p) \/ AppendRejected(p) \/ JobFail(p)
        \/ \E c \in Consents : Recheck(p, c) \/ RecheckFail(p, c)
        \/ CloseSession(p) \/ PodCrash(p)
  BY DEF JobNext, TickStep
<1>3. ASSUME NEW s \in PoolOf(p), TickLock(p, s)
      PROVE  StoreTypeOK' /\ JobTypeOK'
  BY <1>3 DEF TickLock, storeVars
<1>4. ASSUME NEW s \in PoolOf(p), TickEnd(p, s)
      PROVE  StoreTypeOK' /\ JobTypeOK'
  <2>1. StoreTypeOK'
    BY <1>4 DEF TickEnd, storeVars
  <2>2. /\ depth' \in 0 .. MaxLockDepth /\ holder' \in Sessions \cup {Null}
        /\ depth' = 0 <=> holder' = Null
    BY <1>4 DEF TickEnd, Unlock
  <2> QED BY <1>4, <2>1, <2>2 DEF TickEnd
<1>5. CASE Select(p)
  BY <1>5 DEF Select, storeVars
<1>6. CASE AppendRejected(p) \/ JobFail(p)
  BY <1>6 DEF AppendRejected, JobFail, storeVars
<1>7. CASE Expire(p)
  BY <1>7 DEF Expire, UpdateStatus
<1>8. ASSUME NEW c \in Consents, Recheck(p, c) \/ RecheckFail(p, c)
      PROVE  StoreTypeOK' /\ JobTypeOK'
  <2>1. StoreTypeOK'
    BY <1>8 DEF Recheck, RecheckFail, storeVars
  <2>2. CASE Recheck(p, c)
    <3>1. work' \in [Pods -> SUBSET Consents]
      BY <2>2 DEF Recheck
    <3>2. /\ jpc' \in [Pods -> {"idle", "select", "loop", "update", "append"}]
          /\ cur' \in [Pods -> Consents \cup {Null}]
      BY <2>2 DEF Recheck
    <3> QED BY <2>1, <2>2, <3>1, <3>2 DEF Recheck
  <2>3. CASE RecheckFail(p, c)
    BY <2>1, <2>3 DEF RecheckFail
  <2> QED BY <1>8, <2>2, <2>3
<1>9. CASE CloseSession(p)
  BY <1>9 DEF CloseSession, storeVars
<1>10. CASE PodCrash(p)
  BY <1>10 DEF PodCrash, storeVars
<1> QED BY <1>2, <1>3, <1>4, <1>5, <1>6, <1>7, <1>8, <1>9, <1>10

\* Nor does any other step.
LEMMA ShapeOther ==
  ASSUME Shape, JobStep \/ Outside \/ UNCHANGED vars
  PROVE  Shape'
<1>1. CASE JobStep
  BY <1>1, ShapeJob DEF JobStep
<1>2. CASE Outside
  BY <1>2 DEF Outside, Activate, Elapse, Shape, TypeOK, StoreTypeOK, ServiceTypeOK,
     JobTypeOK, RequestShape, Statuses, serviceVars, jobVars
<1>3. CASE UNCHANGED vars
  BY <1>3 DEF vars, storeVars, serviceVars, jobVars, Shape, TypeOK, StoreTypeOK,
     ServiceTypeOK, JobTypeOK, RequestShape
<1> QED BY <1>1, <1>2, <1>3

-----------------------------------------------------------------------------
(***************************************************************************)
(* What a step can change.                                                 *)
(***************************************************************************)
\* The job and the outside touch no request and no event.
LEMMA OnlyRequestsRecord ==
  ASSUME JobStep \/ Outside \/ UNCHANGED vars
  PROVE  UNCHANGED <<serviceVars, audit, outbox, parties>>
<1>1. CASE JobStep
  BY <1>1 DEF JobStep, JobNext, TickStep, TickLock, Select, Recheck, RecheckFail, Expire,
     UpdateStatus, AppendRejected, JobFail, TickEnd, CloseSession, PodCrash, storeVars
<1>2. CASE Outside
  BY <1>2 DEF Outside, Activate, Elapse
<1>3. CASE UNCHANGED vars
  BY <1>3 DEF vars, storeVars
<1> QED BY <1>1, <1>2, <1>3

\* A step either leaves the trail and the outbox alone, or is a Record.
LEMMA TrailGrows ==
  ASSUME [Next]_vars
  PROVE  UNCHANGED <<audit, outbox>> \/ \E r \in Requests : Record(r)
<1>1. CASE ServiceStep
  BY <1>1 DEF ServiceStep, ServiceNext, Receive, Handle, ReceiveGrant, ReceiveRevoke,
     ReceiveQuery, PolicyAllows, Create, CreateRow, Read, Update, UpdateStatus, Fail,
     Archive, storeVars
<1>2. CASE ~ServiceStep
  BY <1>2, OnlyRequestsRecord DEF Next
<1> QED BY <1>1, <1>2

\* A request that has ended keeps its outcome, operation and target.
LEMMA EndedStays ==
  ASSUME Shape, [Next]_vars, NEW s \in Requests, pc[s] \in Ended
  PROVE  pc'[s] = pc[s] /\ op'[s] = op[s] /\ target'[s] = target[s]
<1> USE DEF Shape, TypeOK, ServiceTypeOK, GoTo, End, Ended, Running
<1>1. CASE ServiceStep
  <2>1. PICK r \in Requests : Receive(r) \/ Handle(r) \/ Archive(r)
    BY <1>1 DEF ServiceStep, ServiceNext
  <2>2. CASE Receive(r)
    BY <2>2 DEF Receive, ReceiveGrant, ReceiveRevoke, ReceiveQuery
  <2>3. CASE Handle(r)
    BY <2>3 DEF Handle, PolicyAllows, Create, Read, Update, Record, Fail
  <2>4. CASE Archive(r)
    BY <2>4 DEF Archive
  <2> QED BY <2>1, <2>2, <2>3, <2>4
<1>2. CASE ~ServiceStep
  BY <1>2, OnlyRequestsRecord DEF Next, serviceVars
<1> QED BY <1>1, <1>2

\* A step that changes a row is an INSERT, a revoke's or an expiry's UPDATE, or
\* an activation.
LEMMA RowSteps ==
  ASSUME [Next]_vars
  PROVE  \/ UNCHANGED <<status, revokedAt>>
         \/ \E r \in Requests, c \in Consents : Create(r, c)
         \/ \E r \in Requests : Update(r)
         \/ \E p \in Pods : Expire(p)
         \/ \E c \in Consents : Activate(c)
<1>1. CASE ServiceStep
  BY <1>1 DEF ServiceStep, ServiceNext, Receive, Handle, ReceiveGrant, ReceiveRevoke,
     ReceiveQuery, PolicyAllows, Read, Record, AppendInTransaction, Fail, Archive, storeVars
<1>2. CASE JobStep
  BY <1>2 DEF JobStep, JobNext, TickStep, TickLock, Select, Recheck, RecheckFail,
     AppendRejected, JobFail, TickEnd, CloseSession, PodCrash, storeVars
<1>3. CASE Outside \/ UNCHANGED vars
  BY <1>3 DEF Outside, Elapse, vars, storeVars
<1> QED BY <1>1, <1>2, <1>3 DEF Next

\* No row goes away, and a closed row stays closed.
LEMMA ClosedStays ==
  ASSUME Shape, [Next]_vars, NEW c \in Consents
  PROVE  /\ status[c] # "absent" => status'[c] # "absent"
         /\ status[c] \in Closed => status'[c] \in Closed
<1> USE DEF Shape, TypeOK, StoreTypeOK, Closed
<1>1. ASSUME NEW r \in Requests, NEW d \in Consents, Create(r, d)
      PROVE  /\ status[c] # "absent" => status'[c] # "absent"
             /\ status[c] \in Closed => status'[c] \in Closed
  BY <1>1 DEF Create, CreateRow
<1>2. ASSUME NEW r \in Requests, Update(r)
      PROVE  /\ status[c] # "absent" => status'[c] # "absent"
             /\ status[c] \in Closed => status'[c] \in Closed
  BY <1>2 DEF Update, UpdateStatus
<1>3. ASSUME NEW p \in Pods, Expire(p)
      PROVE  /\ status[c] # "absent" => status'[c] # "absent"
             /\ status[c] \in Closed => status'[c] \in Closed
  BY <1>3 DEF Expire, UpdateStatus
<1>4. ASSUME NEW d \in Consents, Activate(d)
      PROVE  /\ status[c] # "absent" => status'[c] # "absent"
             /\ status[c] \in Closed => status'[c] \in Closed
  BY <1>4 DEF Activate
<1> QED BY <1>1, <1>2, <1>3, <1>4, RowSteps

-----------------------------------------------------------------------------
(***************************************************************************)
(* The trail.                                                              *)
(***************************************************************************)
\* Each event is the one its request reported, once; the outbox mirrors it.
LEMMA TrailShapeStep ==
  ASSUME Shape, TrailShape, [Next]_vars
  PROVE  TrailShape'
<1>1. CASE UNCHANGED <<audit, outbox>>
  <2>1. ASSUME NEW i \in 1 .. Len(audit)
        PROVE  (/\ pc[audit[i].by] \in Ended
                /\ op[audit[i].by] \in Ops
                /\ audit[i] = EventBy(audit[i].by))'
    <3> DEFINE b == audit[i].by
    <3>1. b \in Requests /\ pc[b] \in Ended /\ op[b] \in Ops /\ audit[i] = EventBy(b)
      BY DEF TrailShape
    <3>2. pc'[b] = pc[b] /\ op'[b] = op[b] /\ target'[b] = target[b]
      BY <3>1, EndedStays
    <3> QED BY <1>1, <3>1, <3>2 DEF EventBy
  <2> QED BY <1>1, <2>1 DEF TrailShape
<1>2. ASSUME NEW r \in Requests, Record(r) PROVE TrailShape'
  <2>1. /\ audit' = Append(audit, EventBy(r)) /\ outbox' = Append(outbox, EventBy(r))
        /\ pc[r] = "append" /\ op[r] \in Ops /\ pc'[r] \in Ended
        /\ op' = op /\ target' = target
    BY <1>2 DEF Record, AppendInTransaction, End, GoTo, Shape, TypeOK, ServiceTypeOK,
       RequestShape
  <2>2. audit \in Seq(Events)
    BY DEF Shape, TypeOK, StoreTypeOK
  <2>3. /\ Len(audit') = Len(audit) + 1 /\ Len(audit) \in Nat
        /\ audit'[Len(audit) + 1] = EventBy(r)
        /\ \A i \in 1 .. Len(audit) : audit'[i] = audit[i]
    BY <2>1, <2>2 DEF EventBy
  <2>4. \A i \in 1 .. Len(audit) : audit[i].by # r
    BY <2>1 DEF TrailShape, Ended
  <2>5. ASSUME NEW i \in 1 .. Len(audit')
        PROVE  (/\ audit[i].by \in Requests
                /\ pc[audit[i].by] \in Ended
                /\ op[audit[i].by] \in Ops
                /\ audit[i] = EventBy(audit[i].by))'
    <3>1. CASE i \in 1 .. Len(audit)
      <4> DEFINE b == audit[i].by
      <4>1. b \in Requests /\ pc[b] \in Ended /\ op[b] \in Ops /\ audit[i] = EventBy(b)
        BY <3>1 DEF TrailShape
      <4>2. pc'[b] = pc[b] /\ op'[b] = op[b] /\ target'[b] = target[b]
        BY <4>1, EndedStays
      <4>3. audit'[i] = audit[i]
        BY <2>3, <3>1
      <4> QED BY <4>1, <4>2, <4>3 DEF EventBy
    <3>2. CASE i = Len(audit) + 1
      <4>1. audit'[i] = EventBy(r) /\ EventBy(r).by = r
        BY <2>3, <3>2 DEF EventBy
      <4> QED BY <2>1, <4>1 DEF EventBy
    <3> QED BY <2>3, <3>1, <3>2
  <2>6. ASSUME NEW i \in 1 .. Len(audit'), NEW j \in 1 .. Len(audit'),
               audit'[i].by = audit'[j].by
        PROVE  i = j
    BY <2>3, <2>4, <2>6 DEF TrailShape, EventBy
  <2>7. outbox' = audit'
    <3>1. outbox = audit
      BY DEF TrailShape
    <3> QED BY <2>1, <3>1
  <2> QED BY <2>5, <2>6, <2>7 DEF TrailShape
<1> QED BY <1>1, <1>2, TrailGrows

\* Events stay on the trail.
LEMMA EventsStay ==
  ASSUME Shape, [Next]_vars, NEW c, NEW t, HasEvent(c, t)
  PROVE  HasEvent(c, t)'
<1>1. CASE UNCHANGED audit
  BY <1>1 DEF HasEvent
<1>2. ASSUME NEW r \in Requests, Record(r) PROVE HasEvent(c, t)'
  <2>1. audit \in Seq(Events) /\ audit' = Append(audit, EventBy(r))
    BY <1>2 DEF Shape, TypeOK, StoreTypeOK, Record, AppendInTransaction
  <2>2. PICK i \in 1 .. Len(audit) : audit[i].consent = c /\ audit[i].type = t
    BY DEF HasEvent
  <2>3. i \in 1 .. Len(audit') /\ audit'[i] = audit[i]
    BY <2>1
  <2> QED BY <2>2, <2>3 DEF HasEvent
<1> QED BY <1>1, <1>2, TrailGrows

-----------------------------------------------------------------------------
(***************************************************************************)
(* What requests aim at, and what ticks hold.                              *)
(***************************************************************************)
\* How the operation and target of a request can change in a step.
LEMMA AimSteps ==
  ASSUME Shape, [Next]_vars, NEW r \in Requests
  PROVE  \/ op'[r] = op[r] /\ target'[r] = target[r]
         \/ op'[r] = "grant" /\ target'[r] = Null
         \/ op'[r] \in {"revoke", "query"} /\ target'[r] \in KnownIds /\ pc'[r] # "append"
         \/ /\ op[r] = "grant" /\ op' = op
            /\ \E c \in Consents : Create(r, c) /\ target' = [target EXCEPT ![r] = c]
<1> USE DEF Shape, TypeOK, ServiceTypeOK, RequestShape, GoTo, End
<1>1. CASE ServiceStep
  <2>1. PICK q \in Requests : Receive(q) \/ Handle(q) \/ Archive(q)
    BY <1>1 DEF ServiceStep, ServiceNext
  <2>2. CASE Receive(q)
    <3>1. ASSUME NEW from \in Nodes, NEW to \in Nodes, NEW h \in Callers,
                 ReceiveGrant(q, from, to, h)
          PROVE  \/ op'[r] = op[r] /\ target'[r] = target[r]
                 \/ op'[r] = "grant" /\ target'[r] = Null
      BY <3>1 DEF ReceiveGrant
    <3>2. ASSUME NEW c \in KnownIds, NEW h \in Callers,
                 ReceiveRevoke(q, c, h) \/ ReceiveQuery(q, c, h)
          PROVE  \/ op'[r] = op[r] /\ target'[r] = target[r]
                 \/ /\ op'[r] \in {"revoke", "query"} /\ target'[r] \in KnownIds
                    /\ pc'[r] # "append"
      BY <3>2 DEF ReceiveRevoke, ReceiveQuery
    <3> QED BY <2>2, <3>1, <3>2 DEF Receive
  <2>3. ASSUME NEW c \in Consents, Create(q, c)
        PROVE  \/ op'[r] = op[r] /\ target'[r] = target[r]
               \/ /\ op[r] = "grant" /\ op' = op
                  /\ Create(r, c) /\ target' = [target EXCEPT ![r] = c]
    <3>1. op[q] = "grant" /\ op' = op /\ target' = [target EXCEPT ![q] = c]
      BY <2>3 DEF Create
    <3>2. CASE q = r
      BY <2>3, <3>1, <3>2
    <3>3. CASE q # r
      BY <3>1, <3>3
    <3> QED BY <3>2, <3>3
  <2>4. CASE PolicyAllows(q) \/ Read(q) \/ Update(q) \/ Record(q) \/ Fail(q) \/ Archive(q)
    BY <2>4 DEF PolicyAllows, Read, Update, Record, Fail, Archive
  <2> QED BY <2>1, <2>2, <2>3, <2>4 DEF Handle
<1>2. CASE ~ServiceStep
  BY <1>2, OnlyRequestsRecord DEF Next, serviceVars
<1> QED BY <1>1, <1>2

\* A consent whose grant is on the trail has a row.
LEMMA GrantedHasRow ==
  ASSUME Shape, TrailShape, TargetShape, NEW c \in Consents, HasEvent(c, "consent.granted")
  PROVE  /\ status[c] # "absent"
         /\ \E g \in Requests : op[g] = "grant" /\ target[g] = c /\ pc[g] \in Ended
<1>1. PICK i \in 1 .. Len(audit) : audit[i].consent = c /\ audit[i].type = "consent.granted"
  BY DEF HasEvent
<1> DEFINE g == audit[i].by
<1>2. g \in Requests /\ op[g] \in Ops /\ audit[i] = EventBy(g) /\ pc[g] \in Ended
  BY DEF TrailShape
<1>3. op[g] = "grant" /\ target[g] = c
  BY <1>1, <1>2 DEF EventBy, EventOf, Ops
<1>4. target[g] # Null
  BY <1>3, NullAssumption
<1> QED BY <1>2, <1>3, <1>4 DEF TargetShape

LEMMA TargetShapeStep ==
  ASSUME Shape, TrailShape, TargetShape, [Next]_vars
  PROVE  TargetShape'
<1> USE NullAssumption
<1>1. target \in [Requests -> Consents \cup {Null}] /\ op \in [Requests -> Ops \cup {"none"}]
      /\ pc \in [Requests -> {"idle"} \cup Running \cup Ended]
  BY DEF Shape, TypeOK, ServiceTypeOK
<1>2. ASSUME NEW r \in Requests, NEW g \in Requests, op'[r] = "grant", op'[g] = "grant",
             target'[r] = target'[g], target'[r] # Null
      PROVE  r = g
  <2>1. \A q \in {r, g} :
          \/ op[q] = "grant" /\ target'[q] = target[q]
          \/ \E c \in Consents : Create(q, c) /\ target' = [target EXCEPT ![q] = c]
    BY <1>2, AimSteps
  <2>2. ASSUME NEW q \in {r, g}, NEW c \in Consents,
               Create(q, c), target' = [target EXCEPT ![q] = c]
        PROVE  r = g
    <3>1. \A s \in Requests : target[s] # Null => target[s] # c
      BY <2>2 DEF TargetShape, Create, CreateRow
    <3> QED BY <1>1, <1>2, <2>2, <3>1
  <2> QED BY <1>2, <2>1, <2>2 DEF TargetShape
<1>3. ASSUME NEW r \in Requests, target'[r] # Null
      PROVE  status'[target'[r]] # "absent"
  <2>1. CASE target'[r] = target[r]
    BY <1>1, <1>3, <2>1, ClosedStays DEF TargetShape
  <2>2. CASE target'[r] \in KnownIds
    BY <1>3, <2>2, GrantedHasRow, ClosedStays DEF KnownIds
  <2>3. ASSUME NEW c \in Consents, Create(r, c), target' = [target EXCEPT ![r] = c]
        PROVE  status'[target'[r]] # "absent"
    BY <1>1, <2>3 DEF Create, CreateRow, Shape, TypeOK, StoreTypeOK
  <2> QED BY <1>3, <2>1, <2>2, <2>3, AimSteps
<1>4. ASSUME NEW r \in Requests, op'[r] \in {"revoke", "query"}, target'[r] # Null
      PROVE  HasEvent(target[r], "consent.granted")'
  <2>1. CASE op'[r] = op[r] /\ target'[r] = target[r]
    <3>1. HasEvent(target[r], "consent.granted")
      BY <1>4, <2>1 DEF TargetShape
    <3>2. \E i \in 1 .. Len(audit') :
              audit'[i].consent = target[r] /\ audit'[i].type = "consent.granted"
      BY <3>1, EventsStay DEF HasEvent
    <3> QED BY <2>1, <3>2 DEF HasEvent
  <2>2. CASE target'[r] \in KnownIds
    <3> DEFINE c == target'[r]
    <3>1. \E i \in 1 .. Len(audit) :
              audit[i].consent = c /\ audit[i].type = "consent.granted"
      BY <1>4, <2>2 DEF KnownIds, HasEvent
    <3>2. \E i \in 1 .. Len(audit') :
              audit'[i].consent = c /\ audit'[i].type = "consent.granted"
      <4>1. PICK i \in 1 .. Len(audit) :
                audit[i].consent = c /\ audit[i].type = "consent.granted"
        BY <3>1
      <4>2. CASE UNCHANGED audit
        BY <4>1, <4>2
      <4>3. ASSUME NEW q \in Requests, Record(q)
            PROVE  i \in 1 .. Len(audit') /\ audit'[i] = audit[i]
        <5>1. audit \in Seq(Events) /\ audit' = Append(audit, EventBy(q))
          BY <4>3 DEF Shape, TypeOK, StoreTypeOK, Record, AppendInTransaction
        <5> QED BY <5>1
      <4> QED BY <4>1, <4>2, <4>3, TrailGrows
    <3> QED BY <3>2 DEF HasEvent
  <2> QED BY <1>4, <2>1, <2>2, AimSteps
<1>5. ASSUME NEW r \in Requests, op'[r] = "revoke", pc'[r] = "append"
      PROVE  status'[target'[r]] \in Closed
  <2> USE DEF Closed
  <2>1. op[r] = "revoke" /\ target'[r] = target[r]
    BY <1>5, AimSteps
  <2>2. pc[r] = "append" \/ Update(r)
    <3>1. CASE ServiceStep
      <4>1. PICK q \in Requests : Receive(q) \/ Handle(q) \/ Archive(q)
        BY <3>1 DEF ServiceStep, ServiceNext
      <4>2. CASE q # r
        <5>1. pc'[r] = pc[r]
          BY <1>1, <4>1, <4>2 DEF Receive, Handle, ReceiveGrant, ReceiveRevoke,
             ReceiveQuery, PolicyAllows, Create, Read, Update, Record, Fail, Archive,
             GoTo, End
        <5> QED BY <1>5, <5>1
      <4>3. CASE q = r
        <5>1. ~Receive(r)
          BY <1>1, <1>5 DEF Receive, ReceiveGrant, ReceiveRevoke, ReceiveQuery, GoTo
        <5>2. \A c \in Consents : ~Create(r, c)
          BY <2>1 DEF Create, Shape, RequestShape
        <5>3. ~PolicyAllows(r) /\ ~Read(r) /\ ~Record(r) /\ ~Fail(r)
          BY <1>1, <1>5, <2>1 DEF PolicyAllows, Read, Record, Fail, GoTo, End, Ended
        <5>4. Archive(r) => pc' = pc
          BY DEF Archive
        <5> QED BY <1>5, <4>1, <4>3, <5>1, <5>2, <5>3, <5>4 DEF Handle
      <4> QED BY <4>2, <4>3
    <3>2. CASE ~ServiceStep
      BY <1>5, <3>2, OnlyRequestsRecord DEF Next, serviceVars
    <3> QED BY <3>1, <3>2
  <2>3. target[r] \in Consents
    BY <1>1, <2>1, <2>2 DEF Shape, RequestShape, Update
  <2>4. CASE pc[r] = "append"
    BY <2>1, <2>3, <2>4, ClosedStays DEF TargetShape
  <2>5. CASE Update(r)
    BY <2>1, <2>3, <2>5 DEF Update, UpdateStatus, Shape, TypeOK, StoreTypeOK
  <2> QED BY <2>2, <2>4, <2>5
<1> QED BY <1>2, <1>3, <1>4, <1>5 DEF TargetShape

\* What a tick has selected was active and due, and an intact session of the
\* pod holds the lock.
LEMMA JobShapeStep ==
  ASSUME Shape, JobShape, [Next]_vars
  PROVE  JobShape'
<1> USE DEF Shape, TypeOK, StoreTypeOK, JobTypeOK
<1>1. CASE JobStep
  <2> USE DEF JobGoTo, Ticking
  <2>1. PICK p \in Pods :
          \/ \E s \in PoolOf(p) : TickLock(p, s) \/ TickEnd(p, s)
          \/ Select(p) \/ Expire(p) \/ AppendRejected(p) \/ JobFail(p)
          \/ \E c \in Consents : Recheck(p, c) \/ RecheckFail(p, c)
          \/ CloseSession(p) \/ PodCrash(p)
    BY <1>1 DEF JobStep, JobNext, TickStep
  <2>2. ASSUME NEW s \in PoolOf(p), TickLock(p, s) PROVE JobShape'
    <3>1. ASSUME NEW q \in Pods, Ticking(q), q \notin lost, q # p PROVE holder' \in PoolOf(q)
      <4>1. holder \in PoolOf(q)
        BY <3>1 DEF JobShape
      <4> QED BY <2>2, <4>1, PoolAssumption DEF TickLock, LockFree, PoolOf
    <3> QED BY <2>2, <3>1 DEF JobShape, TickLock, storeVars
  <2>3. ASSUME NEW s \in PoolOf(p), TickEnd(p, s) PROVE JobShape'
    <3>1. ASSUME NEW q \in Pods, Ticking(q), q \notin lost, q # p PROVE holder' = holder
      <4>1. holder \in PoolOf(q)
        BY <3>1 DEF JobShape
      <4> QED BY <2>3, <3>1, <4>1 DEF TickEnd, Unlock, PoolOf
    <3> QED BY <2>3, <3>1 DEF JobShape, TickEnd, storeVars
  <2>4. CASE Select(p)
    BY <2>4 DEF JobShape, Select, storeVars
  <2>5. CASE AppendRejected(p) \/ JobFail(p)
    BY <2>5 DEF JobShape, AppendRejected, JobFail, storeVars
  <2>6. CASE Expire(p)
    BY <2>6 DEF JobShape, Expire, UpdateStatus
  <2>7. ASSUME NEW c \in Consents, Recheck(p, c) PROVE JobShape'
    BY <2>7 DEF JobShape, Recheck, storeVars
  <2>8. ASSUME NEW c \in Consents, RecheckFail(p, c) PROVE JobShape'
    BY <2>8 DEF JobShape, RecheckFail, storeVars
  <2>9. CASE CloseSession(p)
    BY <2>9 DEF JobShape, CloseSession, PoolOf, storeVars
  <2>10. CASE PodCrash(p)
    BY <2>10 DEF JobShape, PodCrash, PoolOf, storeVars
  <2> QED BY <2>1, <2>2, <2>3, <2>4, <2>5, <2>6, <2>7, <2>8, <2>9, <2>10
<1>2. CASE ~JobStep
  <2>1. UNCHANGED jobVars /\ due \subseteq due'
    <3>1. CASE ServiceStep
      BY <3>1 DEF ServiceStep, ServiceNext, Receive, Handle, ReceiveGrant, ReceiveRevoke,
         ReceiveQuery, PolicyAllows, Create, CreateRow, Read, Update, UpdateStatus, Record,
         AppendInTransaction, Fail, Archive, storeVars
    <3>2. CASE Outside \/ UNCHANGED vars
      BY <3>2 DEF Outside, Activate, Elapse, vars, storeVars, jobVars
    <3> QED BY <1>2, <3>1, <3>2 DEF Next
  <2>2. ASSUME NEW c \in Consents, status[c] \in {"active", "revoked", "expired"}
        PROVE  status'[c] \in {"active", "revoked", "expired"}
    <3>1. ASSUME NEW r \in Requests, NEW d \in Consents, Create(r, d)
          PROVE  status'[c] = status[c]
      BY <2>2, <3>1 DEF Create, CreateRow
    <3>2. ASSUME NEW r \in Requests, Update(r)
          PROVE  status'[c] \in {status[c], "revoked"}
      BY <3>2 DEF Update, UpdateStatus
    <3>3. ASSUME NEW p \in Pods, Expire(p)
          PROVE  status'[c] \in {status[c], "expired"}
      BY <3>3 DEF Expire, UpdateStatus
    <3>4. ASSUME NEW d \in Consents, Activate(d)
          PROVE  status'[c] = status[c]
      BY <2>2, <3>4 DEF Activate
    <3> QED BY <2>2, <3>1, <3>2, <3>3, <3>4, RowSteps
  <2> QED BY <2>1, <2>2 DEF JobShape, jobVars, Ticking, PoolOf
<1> QED BY <1>1, <1>2

-----------------------------------------------------------------------------
(***************************************************************************)
(* The safety properties.                                                  *)
(***************************************************************************)
LEMMA AcknowledgedStep ==
  ASSUME Shape, TrailShape, TrailShape', AcknowledgedIsRecorded, ArchiveHoldsOnlyRecorded,
         [Next]_vars
  PROVE  AcknowledgedIsRecorded' /\ ArchiveHoldsOnlyRecorded'
<1>1. ASSUME NEW r \in Requests, OnTrail(r) PROVE OnTrail(r)'
  <2>1. CASE UNCHANGED audit
    BY <1>1, <2>1 DEF OnTrail
  <2>2. ASSUME NEW q \in Requests, Record(q) PROVE OnTrail(r)'
    <3>1. audit \in Seq(Events) /\ audit' = Append(audit, EventBy(q))
      BY <2>2 DEF Shape, TypeOK, StoreTypeOK, Record, AppendInTransaction
    <3>2. PICK i \in 1 .. Len(audit) : audit[i].by = r
      BY <1>1 DEF OnTrail
    <3>3. i \in 1 .. Len(audit') /\ audit'[i] = audit[i]
      BY <3>1
    <3> QED BY <3>2, <3>3 DEF OnTrail
  <2> QED BY <2>1, <2>2, TrailGrows
<1>2. ASSUME NEW r \in Requests, Record(r) PROVE OnTrail(r)'
  <2>1. audit \in Seq(Events) /\ audit' = Append(audit, EventBy(r))
    BY <1>2 DEF Shape, TypeOK, StoreTypeOK, Record, AppendInTransaction
  <2>2. Len(audit) + 1 \in 1 .. Len(audit') /\ audit'[Len(audit) + 1] = EventBy(r)
    BY <2>1
  <2> QED BY <2>2 DEF OnTrail, EventBy
<1>3. ASSUME NEW r \in Requests, pc'[r] = "ok" PROVE OnTrail(r)'
  <2>1. pc[r] = "ok" \/ Record(r)
    <3>1. CASE ServiceStep
      <4>1. PICK q \in Requests : Receive(q) \/ Handle(q) \/ Archive(q)
        BY <3>1 DEF ServiceStep, ServiceNext
      <4>2. pc'[r] = pc[r] \/ q = r
        BY <4>1 DEF Receive, Handle, ReceiveGrant, ReceiveRevoke, ReceiveQuery,
           PolicyAllows, Create, Read, Update, Record, Fail, Archive, GoTo, End,
           Shape, TypeOK, ServiceTypeOK
      <4>3. CASE q = r
        BY <1>3, <4>1, <4>3 DEF Receive, Handle, ReceiveGrant, ReceiveRevoke, ReceiveQuery,
           PolicyAllows, Create, Read, Update, Fail, Archive, GoTo, End, Shape, TypeOK,
           ServiceTypeOK
      <4> QED BY <1>3, <4>2, <4>3
    <3>2. CASE ~ServiceStep
      BY <1>3, <3>2, OnlyRequestsRecord DEF Next, serviceVars
    <3> QED BY <3>1, <3>2
  <2> QED BY <1>1, <1>2, <2>1 DEF AcknowledgedIsRecorded
<1>4. AcknowledgedIsRecorded'
  <2>1. outbox' = audit'
    BY DEF TrailShape
  <2> QED BY <1>3, <2>1 DEF AcknowledgedIsRecorded, OnTrail, InOutbox
<1>5. ASSUME NEW r \in archive' PROVE r \in Requests /\ OnTrail(r)'
  <2>1. archive \subseteq Requests
    BY DEF Shape, TypeOK, ServiceTypeOK
  <2>2. CASE r \in archive
    BY <1>1, <2>1, <2>2 DEF ArchiveHoldsOnlyRecorded
  <2>3. CASE r \notin archive
    <3>1. r \in Requests /\ Archive(r)
      BY <1>5, <2>3, OnlyRequestsRecord DEF Next, ServiceStep, ServiceNext, Receive, Handle,
         ReceiveGrant, ReceiveRevoke, ReceiveQuery, PolicyAllows, Create, Read, Update,
         Record, Fail, End, Archive, serviceVars
    <3> QED BY <1>1, <3>1 DEF Archive, AcknowledgedIsRecorded
  <2> QED BY <2>2, <2>3
<1> QED BY <1>4, <1>5 DEF ArchiveHoldsOnlyRecorded

LEMMA RevocationStep ==
  ASSUME Shape, TrailShape, TargetShape, RecordedRevocationHolds, [Next]_vars
  PROVE  RecordedRevocationHolds'
<1> SUFFICES ASSUME NEW c \in Consents, HasEvent(c, "consent.revoked")'
             PROVE  status'[c] \in Closed
  BY DEF RecordedRevocationHolds
<1>1. CASE HasEvent(c, "consent.revoked")
  BY <1>1, ClosedStays DEF RecordedRevocationHolds
<1>2. CASE ~HasEvent(c, "consent.revoked")
  <2>1. PICK r \in Requests : Record(r)
    BY <1>2, TrailGrows DEF HasEvent
  <2>2. audit \in Seq(Events) /\ audit' = Append(audit, EventBy(r)) /\ UNCHANGED status
    BY <2>1 DEF Shape, TypeOK, StoreTypeOK, Record, AppendInTransaction
  <2>3. PICK i \in 1 .. Len(audit') : audit'[i].consent = c /\ audit'[i].type = "consent.revoked"
    BY DEF HasEvent
  <2>4. i = Len(audit) + 1
    BY <1>2, <2>2, <2>3 DEF HasEvent
  <2>5. EventBy(r).consent = c /\ EventBy(r).type = "consent.revoked"
    BY <2>2, <2>3, <2>4
  <2>6. op[r] = "revoke" /\ target[r] = c /\ pc[r] = "append"
    BY <2>1, <2>5 DEF EventBy, EventOf, Record, Shape, RequestShape, Ops
  <2> QED BY <2>2, <2>6 DEF TargetShape
<1> QED BY <1>1, <1>2

LEMMA RevokedAtStep ==
  ASSUME Shape, RevokedAtTellsTheRevoker, [Next]_vars
  PROVE  RevokedAtTellsTheRevoker'
<1> USE NullAssumption DEF Shape, TypeOK, StoreTypeOK
<1> SUFFICES ASSUME NEW c \in Consents
             PROVE  (/\ status[c] = "revoked" <=> revokedAt[c] # Null
                     /\ revokedAt[c] # Null =>
                           op[revokedAt[c]] = "revoke" /\ target[revokedAt[c]] = c)'
  BY DEF RevokedAtTellsTheRevoker
<1>1. ASSUME NEW r \in Requests, op[r] = "revoke", target[r] = c
      PROVE  op'[r] = "revoke" /\ target'[r] = c
  <2>1. pc[r] # "idle"
    BY <1>1 DEF RequestShape
  <2>2. CASE ServiceStep
    <3>1. PICK q \in Requests : Receive(q) \/ Handle(q) \/ Archive(q)
      BY <2>2 DEF ServiceStep, ServiceNext
    <3>2. CASE Receive(q)
      BY <1>1, <2>1, <3>2 DEF Receive, ReceiveGrant, ReceiveRevoke, ReceiveQuery,
         ServiceTypeOK
    <3>3. ASSUME NEW d \in Consents, Create(q, d) PROVE op'[r] = "revoke" /\ target'[r] = c
      BY <1>1, <3>3 DEF Create, RequestShape, ServiceTypeOK
    <3>4. CASE PolicyAllows(q) \/ Read(q) \/ Update(q) \/ Record(q) \/ Fail(q) \/ Archive(q)
      BY <1>1, <3>4 DEF PolicyAllows, Read, Update, Record, Fail, End, Archive
    <3> QED BY <3>1, <3>2, <3>3, <3>4 DEF Handle
  <2>3. CASE ~ServiceStep
    BY <1>1, <2>3, OnlyRequestsRecord DEF Next, serviceVars
  <2> QED BY <2>2, <2>3
<1>2. CASE UNCHANGED <<status, revokedAt>>
  BY <1>1, <1>2 DEF RevokedAtTellsTheRevoker
<1>3. ASSUME NEW r \in Requests, NEW d \in Consents, Create(r, d)
      PROVE  UNCHANGED revokedAt /\ (status'[c] = "revoked" <=> status[c] = "revoked")
  BY <1>3 DEF Create, CreateRow
<1>4. ASSUME NEW r \in Requests, Update(r)
      PROVE  \/ status'[c] = status[c] /\ revokedAt'[c] = revokedAt[c]
             \/ status'[c] = "revoked" /\ revokedAt'[c] = r /\ op[r] = "revoke" /\ target[r] = c
  BY <1>4 DEF Update, UpdateStatus, RequestShape, ServiceTypeOK
<1>5. ASSUME NEW p \in Pods, Expire(p)
      PROVE  \/ status'[c] = status[c] /\ revokedAt'[c] = revokedAt[c]
             \/ status'[c] = "expired" /\ revokedAt'[c] = Null
  BY <1>5 DEF Expire, UpdateStatus
<1>6. ASSUME NEW d \in Consents, Activate(d)
      PROVE  UNCHANGED revokedAt /\ (status'[c] = "revoked" <=> status[c] = "revoked")
  BY <1>6 DEF Activate
<1> QED BY <1>1, <1>2, <1>3, <1>4, <1>5, <1>6, RowSteps DEF RevokedAtTellsTheRevoker

\* The inductive invariant of the control-plane.
THEOREM Invariance == Spec => []IInv
<1>1. Init => IInv
  <2> SUFFICES ASSUME Init PROVE IInv
    OBVIOUS
  <2>1. Shape
    BY ShapeInit
  <2>2. TrailShape /\ AcknowledgedIsRecorded /\ RecordedRevocationHolds
    BY DEF Init, StoreInit, ServiceInit, TrailShape, AcknowledgedIsRecorded,
       RecordedRevocationHolds, HasEvent
  <2>3. TargetShape /\ RevokedAtTellsTheRevoker /\ ArchiveHoldsOnlyRecorded
    BY DEF Init, StoreInit, ServiceInit, TargetShape, RevokedAtTellsTheRevoker,
       ArchiveHoldsOnlyRecorded
  <2>4. JobShape
    BY DEF Init, StoreInit, JobInit, JobShape, Ticking
  <2> QED BY <2>1, <2>2, <2>3, <2>4 DEF IInv, Shape
<1>2. IInv /\ [Next]_vars => IInv'
  <2> SUFFICES ASSUME IInv, [Next]_vars PROVE IInv'
    OBVIOUS
  <2>1. Shape /\ TrailShape /\ TargetShape /\ JobShape /\ AcknowledgedIsRecorded
        /\ RecordedRevocationHolds /\ RevokedAtTellsTheRevoker /\ ArchiveHoldsOnlyRecorded
    BY DEF IInv, Shape
  <2>2. Shape'
    <3>1. CASE ServiceStep
      BY <2>1, <3>1, ShapeService DEF ServiceStep, ServiceNext
    <3>2. CASE ~ServiceStep
      BY <2>1, <3>2, ShapeOther DEF Next
    <3> QED BY <3>1, <3>2
  <2>3. TrailShape' /\ TargetShape' /\ JobShape'
    BY <2>1, TrailShapeStep, TargetShapeStep, JobShapeStep
  <2>4. AcknowledgedIsRecorded' /\ ArchiveHoldsOnlyRecorded'
    BY <2>1, <2>3, AcknowledgedStep
  <2>5. RecordedRevocationHolds' /\ RevokedAtTellsTheRevoker'
    BY <2>1, RevocationStep, RevokedAtStep
  <2> QED BY <2>2, <2>3, <2>4, <2>5 DEF IInv, Shape
<1> QED BY <1>1, <1>2, PTL DEF Spec

\* Every variable holds a value of its type.
THEOREM TypeCorrect == Spec => []TypeOK
<1>1. IInv => TypeOK
  BY DEF IInv
<1> QED BY <1>1, Invariance, PTL

\* A success answer is never ahead of the trail and the outbox.
THEOREM AcknowledgedCorrect == Spec => []AcknowledgedIsRecorded
<1>1. IInv => AcknowledgedIsRecorded
  BY DEF IInv
<1> QED BY <1>1, Invariance, PTL

\* A consent whose revocation is recorded is never open again.
THEOREM RevocationCorrect == Spec => []RecordedRevocationHolds
<1>1. IInv => RecordedRevocationHolds
  BY DEF IInv
<1> QED BY <1>1, Invariance, PTL

\* revoked_at is set exactly on revoked rows, by a revoke of that consent.
THEOREM RevokedAtCorrect == Spec => []RevokedAtTellsTheRevoker
<1>1. IInv => RevokedAtTellsTheRevoker
  BY DEF IInv
<1> QED BY <1>1, Invariance, PTL

\* The archive is never ahead of the trail.
THEOREM ArchiveCorrect == Spec => []ArchiveHoldsOnlyRecorded
<1>1. IInv => ArchiveHoldsOnlyRecorded
  BY DEF IInv
<1> QED BY <1>1, Invariance, PTL

\* The advisory lock serialises the ticks whose sessions live.
THEOREM LockCorrect == Spec => []OneTickUnlessSessionLost
<1>1. IInv => OneTickUnlessSessionLost
  BY DEF IInv, JobShape, OneTickUnlessSessionLost, PoolOf
<1> QED BY <1>1, Invariance, PTL

\* The two halves of TrailStartsWithGrant: a grant at or before every event,
\* and one grant only.
GrantedFirst ==
    \A i \in 1 .. Len(audit) : \E j \in 1 .. i :
        audit[j].type = "consent.granted" /\ audit[j].consent = audit[i].consent

GrantedOnce ==
    \A i, j \in 1 .. Len(audit) :
        /\ audit[i].type = "consent.granted" /\ audit[j].type = "consent.granted"
        /\ audit[j].consent = audit[i].consent
        => i = j

LEMMA OneGrant == IInv => GrantedOnce
<1> SUFFICES ASSUME IInv, NEW i \in 1 .. Len(audit), NEW j \in 1 .. Len(audit),
                    audit[i].type = "consent.granted", audit[j].type = "consent.granted",
                    audit[j].consent = audit[i].consent
             PROVE  i = j
  BY DEF GrantedOnce
<1> DEFINE g == audit[i].by
           h == audit[j].by
<1>1. /\ g \in Requests /\ op[g] \in Ops /\ audit[i] = EventBy(g)
      /\ h \in Requests /\ op[h] \in Ops /\ audit[j] = EventBy(h)
  BY DEF IInv, TrailShape
<1>2. op[g] = "grant" /\ op[h] = "grant" /\ target[g] = target[h]
  BY <1>1 DEF EventBy, EventOf, Ops
<1>3. target[g] # Null
  <2>1. audit \in Seq(Events)
    BY DEF IInv, TypeOK, StoreTypeOK
  <2>2. audit[i] \in Events
    BY <2>1
  <2>3. audit[i].consent \in Consents
    BY <2>2 DEF Events
  <2> QED BY <1>1, <2>3, NullAssumption DEF EventBy
<1>4. g = h
  BY <1>1, <1>2, <1>3 DEF IInv, TargetShape
<1> QED BY <1>4 DEF IInv, TrailShape

LEMMA GrantedFirstStep ==
  ASSUME IInv, GrantedFirst, [Next]_vars
  PROVE  GrantedFirst'
<1>1. CASE UNCHANGED audit
  BY <1>1 DEF GrantedFirst
<1>2. ASSUME NEW r \in Requests, Record(r) PROVE GrantedFirst'
  <2>1. audit \in Seq(Events) /\ audit' = Append(audit, EventBy(r))
    BY <1>2 DEF IInv, TypeOK, StoreTypeOK, Record, AppendInTransaction
  <2>2. /\ Len(audit) \in Nat /\ Len(audit') = Len(audit) + 1
        /\ audit'[Len(audit) + 1] = EventBy(r)
        /\ \A i \in 1 .. Len(audit) : audit'[i] = audit[i]
    BY <2>1
  <2>3. op[r] \in Ops /\ target[r] # Null
    BY <1>2 DEF Record, IInv, RequestShape
  <2>4. \E j \in 1 .. Len(audit) + 1 :
          audit'[j].type = "consent.granted" /\ audit'[j].consent = target[r]
    <3>1. CASE op[r] = "grant"
      BY <2>2, <3>1 DEF EventBy, EventOf
    <3>2. CASE op[r] # "grant"
      <4>1. HasEvent(target[r], "consent.granted")
        BY <2>3, <3>2 DEF IInv, TargetShape, Ops
      <4> QED BY <2>2, <4>1 DEF HasEvent
    <3> QED BY <3>1, <3>2
  <2>5. ASSUME NEW i \in 1 .. Len(audit')
        PROVE  \E j \in 1 .. i : /\ audit'[j].type = "consent.granted"
                                  /\ audit'[j].consent = audit'[i].consent
    <3>1. CASE i \in 1 .. Len(audit)
      <4>1. PICK j \in 1 .. i : /\ audit[j].type = "consent.granted"
                                /\ audit[j].consent = audit[i].consent
        BY <3>1 DEF GrantedFirst
      <4>2. j \in 1 .. Len(audit)
        BY <2>2, <3>1
      <4> QED BY <2>2, <3>1, <4>1, <4>2
    <3>2. CASE i = Len(audit) + 1
      BY <2>2, <2>4, <3>2 DEF EventBy
    <3> QED BY <2>2, <3>1, <3>2
  <2> QED BY <2>5 DEF GrantedFirst
<1> QED BY <1>1, <1>2, TrailGrows

\* The trail of a consent starts with its one grant.
THEOREM TrailCorrect == Spec => []TrailStartsWithGrant
<1>1. Init => GrantedFirst
  BY DEF Init, StoreInit, GrantedFirst
<1>2. IInv /\ GrantedFirst /\ [Next]_vars => GrantedFirst'
  BY GrantedFirstStep
<1>3. GrantedFirst /\ GrantedOnce => TrailStartsWithGrant
  BY DEF GrantedFirst, GrantedOnce, TrailStartsWithGrant
<1> QED BY <1>1, <1>2, <1>3, OneGrant, Invariance, PTL DEF Spec

\* The job expires only what was due, and never a pending consent.
THEOREM ExpiryCorrect == Spec => ExpiresOnlyWhatWasDue
<1>1. IInv /\ [Next]_vars =>
        [\A c \in Consents : status'[c] = "expired" /\ status[c] # "expired"
            => c \in due /\ status[c] \in {"active", "revoked"}]_vars
  <2> SUFFICES ASSUME IInv, [Next]_vars, NEW c \in Consents,
                      status'[c] = "expired", status[c] # "expired"
               PROVE  c \in due /\ status[c] \in {"active", "revoked"}
    OBVIOUS
  <2> USE DEF IInv, TypeOK, StoreTypeOK
  <2>1. ASSUME NEW p \in Pods, Expire(p)
        PROVE  c \in due /\ status[c] \in {"active", "revoked"}
    BY <2>1 DEF Expire, UpdateStatus, JobShape
  <2>2. \A r \in Requests, d \in Consents : ~Create(r, d)
    BY DEF Create, CreateRow
  <2>3. \A r \in Requests : ~Update(r)
    BY DEF Update, UpdateStatus
  <2>4. \A d \in Consents : ~Activate(d)
    BY DEF Activate
  <2> QED BY <2>1, <2>2, <2>3, <2>4, RowSteps
<1> QED BY <1>1, Invariance, PTL DEF Spec, ExpiresOnlyWhatWasDue

\* A query that starts to read after a revocation was acknowledged sees it.
THEOREM QueryCorrect == Spec => QuerySeesAcknowledgedRevocation
<1>1. IInv /\ [Next]_vars =>
        [\A q, r \in Requests :
            /\ op[q] = "query" /\ pc[q] = "read" /\ pc'[q] = "append"
            /\ op[r] = "revoke" /\ pc[r] = "ok" /\ target[r] = target[q]
            => read'[q] \in Closed]_vars
  <2> SUFFICES ASSUME IInv, [Next]_vars, NEW q \in Requests, NEW r \in Requests,
                      op[q] = "query", pc[q] = "read", pc'[q] = "append",
                      op[r] = "revoke", pc[r] = "ok", target[r] = target[q]
               PROVE  read'[q] \in Closed
    OBVIOUS
  <2> USE DEF IInv, TypeOK, StoreTypeOK, ServiceTypeOK
  <2>1. Read(q)
    <3>1. CASE ServiceStep
      <4>1. PICK s \in Requests : Receive(s) \/ Handle(s) \/ Archive(s)
        BY <3>1 DEF ServiceStep, ServiceNext
      <4>2. s = q
        BY <4>1 DEF Receive, Handle, ReceiveGrant, ReceiveRevoke, ReceiveQuery,
           PolicyAllows, Create, Read, Update, Record, Fail, Archive, GoTo, End
      <4> QED BY <4>1, <4>2 DEF Receive, Handle, ReceiveGrant, ReceiveRevoke,
           ReceiveQuery, PolicyAllows, Create, Update, Record, Fail, Archive, GoTo, End,
           Ended
    <3>2. CASE ~ServiceStep
      BY <3>2, OnlyRequestsRecord DEF Next, serviceVars
    <3> QED BY <3>1, <3>2
  <2>2. read'[q] = status[target[q]] /\ target[q] \in Consents
    BY <2>1 DEF Read
  <2>3. HasEvent(target[r], "consent.revoked")
    <3>1. PICK i \in 1 .. Len(audit) : audit[i].by = r
      BY DEF AcknowledgedIsRecorded, OnTrail
    <3>2. audit[i] = EventBy(r)
      BY <3>1 DEF TrailShape
    <3> QED BY <3>1, <3>2 DEF EventBy, EventOf, HasEvent
  <2> QED BY <2>2, <2>3 DEF RecordedRevocationHolds
<1> QED BY <1>1, Invariance, PTL DEF Spec, QuerySeesAcknowledgedRevocation

-----------------------------------------------------------------------------
(***************************************************************************)
(* Requests end.                                                           *)
(***************************************************************************)
\* How many steps a handler has before it at most.
StepsLeft == [l \in Running \cup Ended |->
                IF l \in Ended THEN 0
                ELSE IF l = "append" THEN 1
                ELSE IF l = "update" THEN 2
                ELSE IF l = "policy" THEN 4 ELSE 3]

\* A step moves one handler forward at most, and a step of its own always.
LEMMA HandlerMoves ==
  ASSUME Shape, [Next]_vars, NEW r \in Requests, pc[r] \in Running
  PROVE  /\ pc'[r] \in Running \cup Ended
         /\ pc'[r] = pc[r] \/ StepsLeft[pc'[r]] < StepsLeft[pc[r]]
         /\ Handle(r) => StepsLeft[pc'[r]] < StepsLeft[pc[r]]
<1> USE DEF Running, Ended
<1>1. pc \in [Requests -> {"idle"} \cup Running \cup Ended]
  BY DEF Shape, TypeOK, ServiceTypeOK
<1>2. ASSUME Handle(r)
      PROVE  pc'[r] \in Running \cup Ended /\ StepsLeft[pc'[r]] < StepsLeft[pc[r]]
  <2>1. CASE PolicyAllows(r)
    BY <1>1, <2>1 DEF PolicyAllows, GoTo, StepsLeft
  <2>2. ASSUME NEW c \in Consents, Create(r, c)
        PROVE  pc'[r] \in Running \cup Ended /\ StepsLeft[pc'[r]] < StepsLeft[pc[r]]
    BY <1>1, <2>2 DEF Create, GoTo, StepsLeft
  <2>3. CASE Read(r)
    BY <1>1, <2>3 DEF Read, GoTo, StepsLeft
  <2>4. CASE Update(r)
    BY <1>1, <2>4 DEF Update, GoTo, StepsLeft
  <2>5. CASE Record(r)
    BY <1>1, <2>5 DEF Record, End, GoTo, StepsLeft
  <2>6. CASE Fail(r)
    BY <1>1, <2>6 DEF Fail, End, GoTo, StepsLeft
  <2> QED BY <1>2, <2>1, <2>2, <2>3, <2>4, <2>5, <2>6 DEF Handle
<1>3. ASSUME NEW s \in Requests \ {r}, Receive(s) \/ Handle(s)
      PROVE  pc'[r] = pc[r]
  BY <1>1, <1>3 DEF Receive, ReceiveGrant, ReceiveRevoke, ReceiveQuery, Handle,
     PolicyAllows, Create, Read, Update, Record, Fail, End, GoTo
<1>4. ~Receive(r)
  BY DEF Receive, ReceiveGrant, ReceiveRevoke, ReceiveQuery
<1>5. ASSUME NEW s \in Requests, Archive(s) PROVE pc'[r] = pc[r]
  BY <1>5 DEF Archive
<1>6. CASE ServiceStep
  BY <1>2, <1>3, <1>4, <1>5, <1>6 DEF ServiceStep, ServiceNext
<1>7. CASE ~ServiceStep
  <2>1. pc' = pc
    BY <1>7, OnlyRequestsRecord DEF Next, serviceVars
  <2> QED BY <1>2, <2>1
<1> QED BY <1>6, <1>7

\* No step of anybody takes a handler back: it has at most four awaited calls,
\* whatever other requests, jobs and failures do meanwhile.
THEOREM HandlersAdvance ==
  Spec => [][\A r \in Requests : pc[r] \in Running =>
               pc'[r] = pc[r] \/ StepsLeft[pc'[r]] < StepsLeft[pc[r]]]_vars
<1>1. IInv /\ [Next]_vars => [\A r \in Requests : pc[r] \in Running =>
               pc'[r] = pc[r] \/ StepsLeft[pc'[r]] < StepsLeft[pc[r]]]_vars
  BY HandlerMoves DEF IInv, Shape
<1> QED BY <1>1, Invariance, PTL DEF Spec

\* A request ends if the event loop is fair to its handler.  The hypothesis is
\* the weak fairness of Fairness spelled out: as long as the request runs its
\* handler may step (Fail is open at every await), so that what is fair is to
\* step again and again or to have it not running.
THEOREM RequestsEnd ==
  ASSUME NEW r \in Requests
  PROVE  Spec /\ ([]<>~(pc[r] \in Running) \/ []<><<Handle(r)>>_vars)
            => (pc[r] \in Running ~> pc[r] \in Ended)
<1> DEFINE Left(n) == pc[r] \in Running \cup Ended /\ StepsLeft[pc[r]] <= n
           Run == pc[r] \in Running
           Over == pc[r] \in Ended
<1>1. \A l \in Running \cup Ended :
        StepsLeft[l] \in 0 .. 4 /\ (StepsLeft[l] = 0 <=> l \in Ended)
  BY DEF StepsLeft, Running, Ended
<1>2. ASSUME IInv, [Next]_vars, Run, NEW n \in 0 .. 3, Left(n + 1)
      PROVE  Left(n + 1)' /\ (Handle(r) => Left(n)')
  <2>1. /\ pc'[r] \in Running \cup Ended
        /\ pc'[r] = pc[r] \/ StepsLeft[pc'[r]] < StepsLeft[pc[r]]
        /\ Handle(r) => StepsLeft[pc'[r]] < StepsLeft[pc[r]]
    BY <1>2, HandlerMoves DEF IInv, Shape
  <2> QED BY <1>1, <1>2, <2>1
<1>3. IInv /\ [Next]_vars /\ Over => Over'
  BY EndedStays DEF IInv, Shape
<1>4. (Left(1) \/ Left(2) \/ Left(3) \/ Left(4) => Run \/ Over) /\ (Left(0) => Over) /\ (Run => Left(4))
  BY <1>1
<1> HIDE DEF Left, Run, Over
<1>5. IInv /\ [Next]_vars /\ Run /\ Left(1) => Left(1)' /\ (<<Handle(r)>>_vars => Left(0)')
  BY <1>2
<1>6. IInv /\ [Next]_vars /\ Run /\ Left(2) => Left(2)' /\ (<<Handle(r)>>_vars => Left(1)')
  BY <1>2
<1>7. IInv /\ [Next]_vars /\ Run /\ Left(3) => Left(3)' /\ (<<Handle(r)>>_vars => Left(2)')
  BY <1>2
<1>8. IInv /\ [Next]_vars /\ Run /\ Left(4) => Left(4)' /\ (<<Handle(r)>>_vars => Left(3)')
  BY <1>2
<1>9. Spec /\ ([]<>~Run \/ []<><<Handle(r)>>_vars) => (Run ~> Over)
  BY <1>3, <1>4, <1>5, <1>6, <1>7, <1>8, Invariance, PTL DEF Spec
<1> QED BY <1>9 DEF Run, Over

-----------------------------------------------------------------------------
\* Every event appended to the trail changes the root of the day.
THEOREM RootCorrect == Spec => RootChangesWithTrail
<1> DEFINE ids(n) == [i \in 1 .. n |-> i]
<1>1. ASSUME IInv, [Next]_vars, audit' # audit
      PROVE  ComputeDailyMerkleRoot' # ComputeDailyMerkleRoot
  <2>1. PICK r \in Requests : Record(r)
    BY <1>1, TrailGrows
  <2>2. Len(audit) \in Nat /\ Len(audit') = Len(audit) + 1
    BY <1>1, <2>1 DEF Record, AppendInTransaction, IInv, TypeOK, StoreTypeOK
  <2>3. ASSUME NEW n \in Nat
        PROVE  IsSeq(ids(n)) /\ Distinct(ids(n)) /\ Len(ids(n)) = n
    <3>1. ids(n) \in Seq(Nat) /\ Len(ids(n)) = n
      OBVIOUS
    <3>2. \A i \in 1 .. n : ids(n)[i] = i
      OBVIOUS
    <3> HIDE DEF ids
    <3> QED
      BY <3>1, <3>2 DEF IsSeq, Distinct
  <2>4. ids(Len(audit)) # ids(Len(audit'))
    BY <2>2, <2>3
  <2>5. MerkleOf(ids(Len(audit))) # MerkleOf(ids(Len(audit')))
    BY <2>2, <2>3, <2>4, RootCommitsToDay
  <2> QED
    BY <2>5 DEF ComputeDailyMerkleRoot
<1> QED BY <1>1, Invariance, PTL DEF RootChangesWithTrail, Spec

-----------------------------------------------------------------------------
(***************************************************************************)
(* The control-plane implements the ledger.                                *)
(***************************************************************************)
\* The mapped phases, written as in the refinement mapping.
Phases == [c \in Consents |-> PhaseOf(status[c])]
Acked  == {r \in Requests : pc[r] = "ok"}

\* A step that only changes rows opens or closes a consent, or neither.
LEMMA LedgerRows ==
  ASSUME IInv, IInv', [Next]_vars, UNCHANGED audit
  PROVE  \/ Phases' = Phases
         \/ \E c \in Consents : /\ Phases[c] = "absent"
                                /\ Phases' = [Phases EXCEPT ![c] = "open"]
         \/ \E c \in Consents : /\ Phases[c] = "open"
                                /\ Phases' = [Phases EXCEPT ![c] = "closed"]
<1> USE DEF IInv, TypeOK, StoreTypeOK, Phases, PhaseOf, Open, Closed
<1>1. CASE UNCHANGED <<status, revokedAt>>
  BY <1>1
<1>2. ASSUME NEW r \in Requests, NEW c \in Consents, Create(r, c)
      PROVE  Phases[c] = "absent" /\ Phases' = [Phases EXCEPT ![c] = "open"]
  BY <1>2 DEF Create, CreateRow
<1>3. ASSUME NEW c \in Consents, NEW st \in Closed, status[c] # "absent",
             status' = [status EXCEPT ![c] = st]
      PROVE  \/ Phases' = Phases
             \/ Phases[c] = "open" /\ Phases' = [Phases EXCEPT ![c] = "closed"]
  BY <1>3 DEF Statuses
<1>4. ASSUME NEW r \in Requests, Update(r)
      PROVE  /\ target[r] \in Consents /\ status[target[r]] # "absent"
             /\ status' = [status EXCEPT ![target[r]] = "revoked"]
  BY <1>4 DEF Update, UpdateStatus, RequestShape, TargetShape, ServiceTypeOK
<1>5. ASSUME NEW p \in Pods, Expire(p)
      PROVE  /\ cur[p] \in Consents /\ status[cur[p]] # "absent"
             /\ status' = [status EXCEPT ![cur[p]] = "expired"]
  BY <1>5 DEF Expire, UpdateStatus, JobShape
<1>6. ASSUME NEW c \in Consents, Activate(c) PROVE Phases' = Phases
  BY <1>6 DEF Activate
<1> QED BY <1>1, <1>2, <1>3, <1>4, <1>5, <1>6, RowSteps

\* Only Record adds to the acknowledged requests.
LEMMA LedgerAcks ==
  ASSUME IInv, [Next]_vars, UNCHANGED audit
  PROVE  Acked' = Acked
<1> USE DEF IInv, TypeOK, ServiceTypeOK, Acked
<1>1. ASSUME NEW r \in Requests PROVE pc'[r] = "ok" <=> pc[r] = "ok"
  <2>1. CASE ServiceStep
    <3>1. PICK q \in Requests : Receive(q) \/ Handle(q) \/ Archive(q)
      BY <2>1 DEF ServiceStep, ServiceNext
    <3>2. ~Record(q)
      <4>1. audit \in Seq(Events)
        BY DEF StoreTypeOK
      <4> QED BY <4>1 DEF Record, AppendInTransaction
    <3> QED BY <3>1, <3>2 DEF Receive, Handle, ReceiveGrant, ReceiveRevoke, ReceiveQuery,
         PolicyAllows, Create, Read, Update, Fail, Archive, GoTo, End, Running
  <2>2. CASE ~ServiceStep
    BY <2>2, OnlyRequestsRecord DEF Next, serviceVars
  <2> QED BY <2>1, <2>2
<1> QED BY <1>1

\* A Record step is a Record step of the ledger.
LEMMA LedgerRecord ==
  ASSUME IInv, NEW r \in Requests, Record(r)
  PROVE  Ledger!Record(EventOf(op[r]), target[r], r)
<1> USE DEF IInv, TypeOK, StoreTypeOK, ServiceTypeOK
<1>1. /\ op[r] \in Ops /\ target[r] \in Consents /\ pc[r] = "append"
      /\ audit' = Append(audit, EventBy(r)) /\ UNCHANGED status
      /\ pc' = [pc EXCEPT ![r] = "ok"] \/ pc' = [pc EXCEPT ![r] = "failed"]
  BY DEF Record, AppendInTransaction, End, GoTo, RequestShape, Ended
<1>2. Ledger!MayRecord(EventOf(op[r]), target[r])
  <2>1. CASE op[r] = "grant"
    <3>1. status[target[r]] # "absent"
      BY <1>1 DEF TargetShape, RequestShape
    <3>2. ~HasEvent(target[r], "consent.granted")
      <4> SUFFICES ASSUME NEW i \in 1 .. Len(audit), audit[i].consent = target[r],
                          audit[i].type = "consent.granted"
                   PROVE  FALSE
        BY DEF HasEvent
      <4> DEFINE g == audit[i].by
      <4>1. g \in Requests /\ op[g] \in Ops /\ audit[i] = EventBy(g) /\ pc[g] \in Ended
        BY DEF TrailShape
      <4>2. op[g] = "grant" /\ target[g] = target[r]
        BY <4>1 DEF EventBy, EventOf, Ops
      <4>3. g = r
        BY <1>1, <2>1, <4>1, <4>2 DEF TargetShape, RequestShape
      <4> QED BY <1>1, <4>1, <4>3 DEF Ended
    <3> QED BY <1>1, <2>1, <3>1, <3>2 DEF Ledger!MayRecord, Ledger!OnTrail, HasEvent, EventOf,
         PhaseOf, Open
  <2>2. CASE op[r] = "revoke"
    <3>1. HasEvent(target[r], "consent.granted") /\ status[target[r]] \in Closed
      BY <1>1, <2>2 DEF TargetShape, RequestShape
    <3> QED BY <1>1, <2>2, <3>1 DEF Ledger!MayRecord, Ledger!OnTrail, HasEvent, EventOf,
         PhaseOf, Open, Closed
  <2>3. CASE op[r] = "query"
    <3>1. HasEvent(target[r], "consent.granted")
      BY <1>1, <2>3 DEF TargetShape, RequestShape
    <3> QED BY <1>1, <2>3, <3>1 DEF Ledger!MayRecord, Ledger!OnTrail, HasEvent, EventOf
  <2> QED BY <1>1, <2>1, <2>2, <2>3 DEF Ops
<1>3. ~Ledger!Reported(r)
  BY <1>1 DEF Ledger!Reported, TrailShape, Ended
<1>4. Acked' \in {Acked, Acked \cup {r}}
  BY <1>1 DEF Acked
<1> QED BY <1>1, <1>2, <1>3, <1>4 DEF Ledger!Record, EventBy, Acked, PhaseOf

\* Consents open and close once, the trail is well-formed and no answer is
\* ahead of it: the control-plane implements the abstract ledger.
THEOREM ImplementsLedgerCorrect == Spec => ImplementsLedger
<1>1. Init => Ledger!Init
  BY DEF Init, StoreInit, ServiceInit, Ledger!Init, PhaseOf
<1>2. ASSUME IInv, IInv', [Next]_vars PROVE [Ledger!Next]_(Ledger!ledgerVars)
  <2>1. CASE UNCHANGED audit
    <3>1. Acked' = Acked
      BY <1>2, <2>1, LedgerAcks
    <3>2. CASE Phases' = Phases
      BY <2>1, <3>1, <3>2 DEF Ledger!ledgerVars, Phases, Acked
    <3>3. ASSUME NEW c \in Consents, Phases[c] = "absent", Phases' = [Phases EXCEPT ![c] = "open"]
          PROVE  Ledger!Next
      BY <2>1, <3>1, <3>3 DEF Ledger!Next, Ledger!Open, Phases, Acked
    <3>4. ASSUME NEW c \in Consents, Phases[c] = "open", Phases' = [Phases EXCEPT ![c] = "closed"]
          PROVE  Ledger!Next
      BY <2>1, <3>1, <3>4 DEF Ledger!Next, Ledger!Close, Phases, Acked
    <3> QED BY <1>2, <2>1, <3>2, <3>3, <3>4, LedgerRows
  <2>2. ASSUME NEW r \in Requests, Record(r) PROVE Ledger!Next
    <3>1. target[r] \in Consents
      BY <1>2, <2>2 DEF Record, IInv, TypeOK, ServiceTypeOK, RequestShape
    <3>2. EventOf(op[r]) \in {"consent.granted", "consent.revoked", "consent.queried"}
      BY DEF EventOf
    <3> QED BY <1>2, <2>2, <3>1, <3>2, LedgerRecord DEF Ledger!Next
  <2> QED BY <1>2, <2>1, <2>2, TrailGrows
<1> QED BY <1>1, <1>2, Invariance, PTL DEF Spec, Ledger!Spec, ImplementsLedger
=============================================================================
