--------------------------- MODULE OutboxPublisher ---------------------------
(***************************************************************************)
(* OutboxPublisher (adapter/kafka/outbox-publisher.ts): the workers that   *)
(* drain table `outbox` into Kafka, one in each pod of the control-plane.  *)
(* A drain reads the oldest unpublished rows, sends them in one batch and  *)
(* then marks them one by one; nothing is locked, so workers of different  *)
(* pods overlap, and a drain may break off after any of its steps.         *)
(*                                                                         *)
(* created_at is the start of the transaction that inserts a row, so rows  *)
(* may become visible in another order than that of created_at.            *)
(***************************************************************************)
EXTENDS Naturals, FiniteSets

CONSTANTS
    Events,          \* the rows of outbox (and the messages made of them)
    Consents,        \* aggregate_id: the message key, so the Kafka partition
    Publishers,      \* OutboxPublisher objects
    BatchLimit,      \* getPending's limit (100 in the code)
    Refusable,       \* the rows for which sendBatch's result may have an `error`
    Null             \* no value

ASSUME OutboxAssumption ==
    /\ BatchLimit \in Nat \ {0}
    /\ Refusable \subseteq Events
    /\ Null \notin Consents

VARIABLES
    row,        \* row[e]: "none", "open" (inserted, not committed), "pending"
                \*   (published_at IS NULL), "published" or "aborted"
    about,      \* about[e]: the row's aggregate_id
    createdAt,  \* createdAt[e]: the instant its transaction began, 0 before
    now,        \* the last of these instants
    earlier,    \* history: the events already committed when e's began
    tagged,     \* the rows whose payload markFailed has given an _error
    running,    \* running[p]: the flag of p
    wpc,        \* wpc[p]: where p's worker is; "none": there is no worker
    batch,      \* batch[p]: the rows it has read and not yet marked
    refused,    \* refused[p]: those of them that result[i] has an error for
    firstAt,    \* firstAt[e]: the number of the send that first brought e to
                \*   Kafka, 0 while none has
    sends       \* how many sends have brought something new

tableVars  == <<row, about, createdAt, now, earlier, tagged>>
workerVars == <<running, wpc, batch, refused>>
kafkaVars  == <<firstAt, sends>>
outboxVars == <<tableVars, workerVars, kafkaVars>>

Committed == {e \in Events : row[e] \in {"pending", "published"}}

\* Mutation of Pending: rows are offered before their transaction commits.
PendingDirty == {e \in Events : row[e] \in {"open", "pending"}}

\* Mutation of Pending: a row that failed once is not offered again.
PendingUntagged == {e \in Events : row[e] = "pending"} \ tagged

\* WHERE published_at IS NULL, of the rows a statement sees.
Pending == {e \in Events : row[e] = "pending"}

InKafka   == {e \in Events : firstAt[e] > 0}

OutboxTypeOK ==
    /\ row       \in [Events -> {"none", "open", "pending", "published", "aborted"}]
    /\ about     \in [Events -> Consents \cup {Null}]
    /\ createdAt \in [Events -> Nat]
    /\ now       \in Nat
    /\ earlier   \in [Events -> SUBSET Events]
    /\ tagged    \subseteq Events
    /\ running   \in [Publishers -> BOOLEAN]
    /\ wpc       \in [Publishers -> {"none", "wait", "send", "mark"}]
    /\ batch     \in [Publishers -> SUBSET Events]
    /\ refused   \in [Publishers -> SUBSET Events]
    /\ firstAt   \in [Events -> Nat]
    /\ sends     \in Nat

TablesInit ==
    /\ row       = [e \in Events |-> "none"]
    /\ about     = [e \in Events |-> Null]
    /\ createdAt = [e \in Events |-> 0]
    /\ now       = 0
    /\ earlier   = [e \in Events |-> {}]
    /\ tagged    = {}

KafkaInit ==
    /\ firstAt = [e \in Events |-> 0]
    /\ sends   = 0

OutboxInit ==
    /\ TablesInit
    /\ KafkaInit
    /\ running = [p \in Publishers |-> FALSE]
    /\ wpc     = [p \in Publishers |-> "none"]
    /\ batch   = [p \in Publishers |-> {}]
    /\ refused = [p \in Publishers |-> {}]

-----------------------------------------------------------------------------
\* appendInTransaction: BEGIN fixes created_at, the row is not visible yet.
Begin(e, c) ==
    /\ row[e] = "none"
    /\ row'       = [row EXCEPT ![e] = "open"]
    /\ about'     = [about EXCEPT ![e] = c]
    /\ now'       = now + 1
    /\ createdAt' = [createdAt EXCEPT ![e] = now + 1]
    /\ earlier'   = [earlier EXCEPT ![e] = Committed]
    /\ UNCHANGED <<tagged, workerVars, kafkaVars>>

\* COMMIT, or ROLLBACK.
Finish(e) ==
    /\ row[e] = "open"
    /\ \E s \in {"pending", "aborted"} : row' = [row EXCEPT ![e] = s]
    /\ UNCHANGED <<about, createdAt, now, earlier, tagged, workerVars, kafkaVars>>

-----------------------------------------------------------------------------
\* Mutation of GetPending: FOR UPDATE SKIP LOCKED, as if the rows that another
\* worker holds were locked.
GetPendingSkipLocked(S) ==
    LET free == Pending \ UNION {batch[p] : p \in Publishers}
    IN  /\ S \subseteq free
        /\ \A e \in S, f \in free \ S : createdAt[e] < createdAt[f]
        /\ \/ Cardinality(S) = BatchLimit
           \/ S = free /\ Cardinality(S) < BatchLimit

\* OutboxRepository.getPending: ORDER BY created_at ASC LIMIT BatchLimit.
GetPending(S) ==
    /\ S \subseteq Pending
    /\ \A e \in S, f \in Pending \ S : createdAt[e] < createdAt[f]
    /\ \/ Cardinality(S) = BatchLimit
       \/ S = Pending /\ Cardinality(S) < BatchLimit

WorkerGoTo(p, l) == wpc' = [wpc EXCEPT ![p] = l]

\* The drain is over, done or broken off; the worker waits for its interval.
DrainEnd(p) ==
    /\ WorkerGoTo(p, "wait")
    /\ batch'   = [batch EXCEPT ![p] = {}]
    /\ refused' = [refused EXCEPT ![p] = {}]
    /\ UNCHANGED running

\* start(): nothing happens when the flag is set.
Start(p) ==
    /\ running' = [running EXCEPT ![p] = TRUE]
    /\ IF running[p] THEN UNCHANGED wpc ELSE WorkerGoTo(p, "wait")
    /\ UNCHANGED <<batch, refused>>

\* stop() clears the flag; it returns when the worker has gone (Exit).
StopFlag(p) ==
    /\ running' = [running EXCEPT ![p] = FALSE]
    /\ UNCHANGED <<wpc, batch, refused>>

Exit(p) ==
    /\ wpc[p] = "wait"
    /\ ~running[p]
    /\ WorkerGoTo(p, "none")
    /\ UNCHANGED <<running, batch, refused, tableVars, kafkaVars>>

\* drainOnce reads a batch, unless there is nothing to send.
Poll(p) ==
    /\ wpc[p] = "wait"
    /\ running[p]
    /\ \E S \in SUBSET Pending :
          /\ GetPending(S)
          /\ S # {}
          /\ batch' = [batch EXCEPT ![p] = S]
    /\ WorkerGoTo(p, "send")
    /\ UNCHANGED <<running, refused, tableVars, kafkaVars>>

\* Kafka appends the messages of S, which one send carries in the order of
\* created_at.  A second copy of a message changes nothing here.
Land(S) ==
    /\ sends'   = IF S \subseteq InKafka THEN sends ELSE sends + 1
    /\ firstAt' = [e \in Events |-> IF e \in S /\ firstAt[e] = 0 THEN sends + 1
                                    ELSE firstAt[e]]

\* sendBatch resolves: every message landed but those result[i] reports.
Send(p, S) ==
    /\ wpc[p] = "send"
    /\ S \subseteq batch[p] \cap Refusable
    /\ Land(batch[p] \ S)
    /\ refused' = [refused EXCEPT ![p] = S]
    /\ WorkerGoTo(p, "mark")
    /\ UNCHANGED <<running, batch, tableVars>>

\* sendBatch throws: S landed and the rest of the batch did not, as whole
\* partitions (messages of one key stand or fall together).  S may be the
\* whole batch, when it is the answer that got lost.
SendThrows(p, S) ==
    /\ wpc[p] = "send"
    /\ S \subseteq batch[p]
    /\ \A e \in S : \A f \in batch[p] \ S : about[e] # about[f]
    /\ Land(S)
    /\ DrainEnd(p)
    /\ UNCHANGED tableVars

\* e is the next row of p's batch that the loop of drainOnce comes to.
NextToMark(p, e) ==
    /\ wpc[p] = "mark"
    /\ e \in batch[p]
    /\ \A f \in batch[p] : createdAt[e] <= createdAt[f]

Marked(p, e) ==
    /\ batch' = [batch EXCEPT ![p] = @ \ {e}]
    /\ UNCHANGED <<running, wpc, refused, about, createdAt, now, earlier, kafkaVars>>

\* OutboxRepository.markPublished sets published_at, whatever it was.
MarkPublished(p, e) ==
    /\ NextToMark(p, e)
    /\ e \notin refused[p]
    /\ row' = [row EXCEPT ![e] = "published"]
    /\ Marked(p, e)
    /\ UNCHANGED tagged

\* OutboxRepository.markFailed puts _error into the payload; the row stays
\* pending.
MarkFailed(p, e) ==
    /\ NextToMark(p, e)
    /\ e \in refused[p]
    /\ tagged' = tagged \cup {e}
    /\ Marked(p, e)
    /\ UNCHANGED row

\* The loop is over.
Drained(p) ==
    /\ wpc[p] = "mark"
    /\ batch[p] = {}
    /\ DrainEnd(p)
    /\ UNCHANGED <<tableVars, kafkaVars>>

\* A mark throws: the worker catches it and forgets the rest of the batch.
MarkThrows(p) ==
    /\ wpc[p] = "mark"
    /\ batch[p] # {}
    /\ DrainEnd(p)
    /\ UNCHANGED <<tableVars, kafkaVars>>

\* The steps a worker takes by itself: those with Kafka, and the others.
Sending(p) == \E S \in SUBSET batch[p] : Send(p, S) \/ SendThrows(p, S)

Draining(p) ==
    \/ Poll(p)
    \/ \E e \in batch[p] : MarkPublished(p, e) \/ MarkFailed(p, e)
    \/ Drained(p)
    \/ MarkThrows(p)
    \/ Exit(p)

Work(p) == Sending(p) \/ Draining(p)

-----------------------------------------------------------------------------
(***************************************************************************)
(* One publisher in each pod.                                              *)
(***************************************************************************)
\* onReady: connect, which must succeed for the pod to come up, and start.
PodUp(p) ==
    /\ wpc[p] = "none"
    /\ Start(p)
    /\ UNCHANGED <<tableVars, kafkaVars>>

\* onClose: stop waits for the drain under way.
PodDown(p) ==
    /\ running[p]
    /\ StopFlag(p)
    /\ UNCHANGED <<tableVars, kafkaVars>>

\* The pod dies between any two steps.  (When it dies during a send, what has
\* landed is one of the outcomes of SendThrows.)
PodDies(p) ==
    /\ wpc[p] # "none"
    /\ running' = [running EXCEPT ![p] = FALSE]
    /\ WorkerGoTo(p, "none")
    /\ batch'   = [batch EXCEPT ![p] = {}]
    /\ refused' = [refused EXCEPT ![p] = {}]
    /\ UNCHANGED <<tableVars, kafkaVars>>

Producing == \E e \in Events : Finish(e) \/ \E c \in Consents : Begin(e, c)

Next ==
    \/ Producing
    \/ \E p \in Publishers : Work(p) \/ PodUp(p) \/ PodDown(p) \/ PodDies(p)

Spec == OutboxInit /\ [][Next]_outboxVars

\* Pods come up again, workers go on, and when sends and marks are tried again
\* and again, by whichever pod, one succeeds in the end (Kafka refuses no message
\* for ever).
Fairness ==
    /\ WF_outboxVars(\E p \in Publishers : PodUp(p))
    /\ WF_outboxVars(\E p \in Publishers : Work(p))
    /\ SF_outboxVars(\E p \in Publishers : Poll(p))
    /\ SF_outboxVars(\E p \in Publishers : Send(p, {}))
    /\ SF_outboxVars(\E p \in Publishers, e \in Events : MarkPublished(p, e))

FairSpec == Spec /\ Fairness

-----------------------------------------------------------------------------
\* No event is lost: a row leaves the outbox only when Kafka has its message,
\* though a send may fail in part, a mark may fail, a pod may die in between
\* and another pod may be draining the same rows.
PublishedReachedKafka ==
    \A e \in Events : row[e] = "published" => e \in InKafka

\* Whether Kafka's first copy of e comes before its first copy of f.
ArrivedBefore(e, f) ==
    /\ e \in InKafka
    /\ \/ firstAt[e] < firstAt[f]
       \/ firstAt[e] = firstAt[f] /\ createdAt[e] < createdAt[f]

\* A consumer that drops repeated idempotency keys sees the events of a consent
\* in their order: when one had committed before the transaction of another
\* began, it arrives first, whichever pods sent them, in however many batches
\* and attempts.  (Unless Kafka refused it alone, with a per-record error, which
\* lets the next message of the key overtake it.)
FirstCopiesInOrder ==
    \A f \in InKafka : \A e \in earlier[f] \ Refusable :
        about[e] = about[f] => ArrivedBefore(e, f)

Delivery == INSTANCE EventDelivery WITH
    committed <- Committed,
    inKafka   <- InKafka,
    retired   <- {e \in Events : row[e] = "published"}

\* The workers implement the delivery contract: nothing uncommitted is
\* delivered, nothing undelivered is retired, and none of it is undone.
ImplementsDelivery == Delivery!Safety

\* The whole contract, with its liveness: "DB commit implies eventual Kafka
\* publication" (the class comment), and every row is marked in the end.
DeliversAll == Delivery!Spec

-----------------------------------------------------------------------------
(***************************************************************************)
(* The inductive invariant behind the theorems of BrokerReconfigProofs.    *)
(***************************************************************************)
\* created_at orders the rows, and those committed before a row began are
\* older than it.
InstantsShape ==
    /\ \A e \in Events : createdAt[e] <= now
    /\ \A e \in Events : row[e] = "none" => createdAt[e] = 0 /\ earlier[e] = {}
    /\ \A e \in Events : row[e] # "none" => createdAt[e] > 0
    /\ \A f \in Events : \A e \in earlier[f] :
          e \in Committed /\ createdAt[e] < createdAt[f]

\* What a worker holds at each step; when it marks rows Kafka has them.
BatchShape ==
    \A p \in Publishers :
        /\ batch[p] \subseteq Committed
        /\ wpc[p] \in {"none", "wait"} => batch[p] = {}
        /\ wpc[p] = "mark" => batch[p] \ refused[p] \subseteq InKafka

KafkaShape ==
    /\ InKafka \subseteq Committed
    /\ \A e \in Events : firstAt[e] <= sends

\* A batch about to be sent has all older rows of its consents, but for those
\* that Kafka has.
BatchesInOrder ==
    \A p \in Publishers : wpc[p] = "send" =>
        \A f \in batch[p] : \A e \in earlier[f] :
            about[e] = about[f] => e \in batch[p] \cup InKafka

OutboxInv == /\ OutboxTypeOK /\ InstantsShape /\ BatchShape /\ KafkaShape
             /\ PublishedReachedKafka /\ BatchesInOrder /\ FirstCopiesInOrder

=============================================================================
