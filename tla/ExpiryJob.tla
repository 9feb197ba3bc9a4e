------------------------------ MODULE ExpiryJob ------------------------------
(***************************************************************************)
(* ConsentExpiryJob (adapter/jobs/expiry-job.ts), one instance in each pod.*)
(* A tick takes the Postgres advisory lock 42001, selects the active rows  *)
(* that are past expires_at, expires them one by one, and unlocks.  Every  *)
(* statement goes through pool.query, which runs it on whichever session   *)
(* of the pod's pool is free; an advisory lock belongs to a session.       *)
(***************************************************************************)
EXTENDS ConsentStore

CONSTANTS
    PoolSize,     \* sessions in a pod's connection pool
    MaxLockDepth  \* bound: how often one session holds the lock at once

ASSUME PoolAssumption == /\ PoolSize \in Nat \ {0} /\ MaxLockDepth \in Nat \ {0}
                         /\ Null \notin Pods \X (1 .. PoolSize)

VARIABLES
    jpc,     \* jpc[p]: the next step of pod p's tick; "idle": no tick runs
    work,    \* work[p]: the selected ids not looked at yet
    cur,     \* cur[p]: the id expireOne is at
    holder,  \* the session that holds advisory lock 42001, or Null
    depth,   \* how many times it holds it (the lock is re-entrant)
    lost     \* pods whose lock went away with its session during the tick

jobVars == <<jpc, work, cur, holder, depth, lost>>

Sessions   == Pods \X (1 .. PoolSize)
PoolOf(p)  == {p} \X (1 .. PoolSize)
Ticking(p) == jpc[p] # "idle"

JobTypeOK ==
    /\ jpc    \in [Pods -> {"idle", "select", "loop", "update", "append"}]
    /\ work   \in [Pods -> SUBSET Consents]
    /\ cur    \in [Pods -> Consents \cup {Null}]
    /\ holder \in Sessions \cup {Null}
    /\ depth  \in 0 .. MaxLockDepth
    /\ depth = 0 <=> holder = Null
    /\ lost   \subseteq Pods

JobInit ==
    /\ jpc    = [p \in Pods |-> "idle"]
    /\ work   = [p \in Pods |-> {}]
    /\ cur    = [p \in Pods |-> Null]
    /\ holder = Null
    /\ depth  = 0
    /\ lost   = {}

JobGoTo(p, l) == jpc' = [jpc EXCEPT ![p] = l]

-----------------------------------------------------------------------------
\* Mutation of LockFree: the result of pg_try_advisory_lock is not looked at.
LockIgnored(s) == TRUE

\* pg_try_advisory_lock on session s succeeds: the lock is free, or s has it.
LockFree(s) == holder \in {Null, s}

\* A tick begins: the flag `running` keeps ticks of one pod apart, the lock
\* those of different pods.  A refused lock ends the tick at once.
TickLock(p, s) ==
    /\ jpc[p] = "idle"
    /\ LockFree(s)
    /\ depth < MaxLockDepth
    /\ holder' = s
    /\ depth'  = depth + 1
    /\ lost'   = lost \ {p}
    /\ JobGoTo(p, "select")
    /\ UNCHANGED <<work, cur, storeVars>>

\* Mutation of Select: expires_at is not compared with NOW().
SelectAllActive(p) ==
    /\ jpc[p] = "select"
    /\ work' = [work EXCEPT ![p] = {c \in Consents : status[c] = "active"}]
    /\ JobGoTo(p, "loop")
    /\ UNCHANGED <<cur, holder, depth, lost, storeVars>>

\* Mutation of Select: the comparison is the wrong way round.
SelectNotDue(p) ==
    /\ jpc[p] = "select"
    /\ work' = [work EXCEPT ![p] = {c \in Consents \ due : status[c] = "active"}]
    /\ JobGoTo(p, "loop")
    /\ UNCHANGED <<cur, holder, depth, lost, storeVars>>

\* SELECT id FROM consents WHERE expires_at < NOW() AND status = 'active'.
Select(p) ==
    /\ jpc[p] = "select"
    /\ work' = [work EXCEPT ![p] = {c \in due : status[c] = "active"}]
    /\ JobGoTo(p, "loop")
    /\ UNCHANGED <<cur, holder, depth, lost, storeVars>>

\* expireOne's getById: skip the row when it is not active any more.
Recheck(p, c) ==
    /\ jpc[p] = "loop"
    /\ c \in work[p]
    /\ work' = [work EXCEPT ![p] = @ \ {c}]
    /\ \/ /\ status[c] = "active"
          /\ cur' = [cur EXCEPT ![p] = c]
          /\ JobGoTo(p, "update")
       \/ /\ status[c] # "active"
          /\ UNCHANGED <<cur, jpc>>
    /\ UNCHANGED <<holder, depth, lost, storeVars>>

\* expireOne's updateStatus(EXPIRED), without a revokedAt.
Expire(p) ==
    /\ jpc[p] = "update"
    /\ UpdateStatus(cur[p], "expired", Null)
    /\ JobGoTo(p, "append")
    /\ UNCHANGED <<work, cur, holder, depth, lost>>

\* EXPIRY_JOB_SYSTEM_NODE = 'system:expiry-job', which is not a UUID.
JobActor == NotAUuid

\* expireOne's append: the database rejects the job's actor, the transaction
\* rolls back, and the loop logs the error.  The UPDATE before it stays.
AppendRejected(p) ==
    /\ jpc[p] = "append"
    /\ ~ActorAccepted(JobActor)
    /\ JobGoTo(p, "loop")
    /\ UNCHANGED <<work, cur, holder, depth, lost, storeVars>>

\* A statement of the tick throws: in expireOne the loop logs it and goes on
\* to the next id; the SELECT's failure goes to `finally`, with no ids.
JobFail(p) ==
    /\ jpc[p] \in {"select", "update"}
    /\ JobGoTo(p, "loop")
    /\ UNCHANGED <<work, cur, holder, depth, lost, storeVars>>

\* expireOne's getById throws: the id is dropped until a later tick.
RecheckFail(p, c) ==
    /\ jpc[p] = "loop"
    /\ c \in work[p]
    /\ work' = [work EXCEPT ![p] = @ \ {c}]
    /\ UNCHANGED <<jpc, cur, holder, depth, lost, storeVars>>

\* Mutation of Unlock: it counts down whichever session has the lock.
UnlockAnySession(s) ==
    /\ depth'  = depth - 1
    /\ holder' = IF depth = 1 THEN Null ELSE holder

\* pg_advisory_unlock on session s gives back one level if s has the lock; on
\* another session it only returns false.
Unlock(s) ==
    /\ depth'  = IF holder = s THEN depth - 1 ELSE depth
    /\ holder' = IF holder = s /\ depth = 1 THEN Null ELSE holder

\* The tick ends: unlock on session s, or a failed unlock; `finally` clears
\* the flag in both cases.
TickEnd(p, s) ==
    /\ jpc[p] = "loop"
    /\ work[p] = {}
    /\ Unlock(s) \/ UNCHANGED <<holder, depth>>
    /\ JobGoTo(p, "idle")
    /\ cur'  = [cur EXCEPT ![p] = Null]
    /\ lost' = lost \ {p}
    /\ UNCHANGED <<work, storeVars>>

\* The server ends a session: the pool drops it after idleTimeoutMillis, or
\* the connection breaks.  Its advisory locks go with it.
CloseSession(p) ==
    /\ holder \in PoolOf(p)
    /\ holder' = Null
    /\ depth'  = 0
    /\ lost'   = IF Ticking(p) THEN lost \cup {p} ELSE lost
    /\ UNCHANGED <<jpc, work, cur, storeVars>>

\* The pod dies and is replaced: its tick is gone and all its sessions close.
PodCrash(p) ==
    /\ Ticking(p)
    /\ JobGoTo(p, "idle")
    /\ work' = [work EXCEPT ![p] = {}]
    /\ cur'  = [cur EXCEPT ![p] = Null]
    /\ holder' = IF holder \in PoolOf(p) THEN Null ELSE holder
    /\ depth'  = IF holder \in PoolOf(p) THEN 0 ELSE depth
    /\ lost' = lost \ {p}
    /\ UNCHANGED storeVars

-----------------------------------------------------------------------------
\* The steps a tick takes by itself once it holds the lock.
TickStep(p) ==
    \/ Select(p)
    \/ \E c \in Consents : Recheck(p, c) \/ RecheckFail(p, c)
    \/ Expire(p)
    \/ AppendRejected(p)
    \/ JobFail(p)
    \/ \E s \in PoolOf(p) : TickEnd(p, s)

JobNext ==
    \E p \in Pods :
        \/ \E s \in PoolOf(p) : TickLock(p, s)
        \/ TickStep(p)
        \/ CloseSession(p)
        \/ PodCrash(p)
=============================================================================
