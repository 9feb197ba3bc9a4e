------------------------- MODULE BrokerReconfigProofs -------------------------
(***************************************************************************)
(* Proofs about the publisher, its reconfiguration and the admin page in   *)
(* front of it.  For any number of rows, workers and any batch limit no    *)
(* event is lost, first copies arrive in order, and the workers implement  *)
(* EventDelivery.  For any number of overlapping requests no two           *)
(* publishers of a pod drain at once, the outbox keeps its promises, and   *)
(* requests that come one at a time leave a running, connected publisher   *)
(* with the stored configuration.                                          *)
(***************************************************************************)
EXTENDS AdminPanel, TLAPS

-----------------------------------------------------------------------------
(***************************************************************************)
(* The workers on one outbox.                                              *)
(***************************************************************************)
USE OutboxAssumption

\* The tables, the workers and Kafka start empty.
LEMMA OutboxStarts == OutboxInit => OutboxInv
  BY DEF OutboxInit, TablesInit, KafkaInit, OutboxInv, OutboxTypeOK, InstantsShape, BatchShape, KafkaShape,
         PublishedReachedKafka, BatchesInOrder, FirstCopiesInOrder, InKafka, Committed

LEMMA Unchanged ==
  ASSUME OutboxInv, UNCHANGED outboxVars
  PROVE  OutboxInv'
  BY DEF outboxVars, tableVars, workerVars, kafkaVars, OutboxInv, OutboxTypeOK,
         InstantsShape, BatchShape, KafkaShape, PublishedReachedKafka,
         BatchesInOrder, FirstCopiesInOrder, ArrivedBefore, InKafka, Committed

\* What a producer's transaction does to the tables, and nothing else.
LEMMA BeginKeeps ==
  ASSUME OutboxInv, NEW e \in Events, NEW c \in Consents, Begin(e, c)
  PROVE  OutboxInv'
  <1> USE DEF Begin, tableVars, workerVars, kafkaVars
  <1>1. Committed' = Committed /\ InKafka' = InKafka /\ e \notin Committed
    BY DEF OutboxInv, OutboxTypeOK, Committed, InKafka
  <1>2. OutboxTypeOK'
    BY <1>1 DEF OutboxInv, OutboxTypeOK, Committed
  <1>3. InstantsShape'
    BY <1>1 DEF OutboxInv, OutboxTypeOK, InstantsShape, Committed
  <1>4. BatchShape' /\ KafkaShape'
    BY <1>1 DEF OutboxInv, BatchShape, KafkaShape
  <1>5. PublishedReachedKafka'
    BY <1>1 DEF OutboxInv, OutboxTypeOK, PublishedReachedKafka
  <1>6. BatchesInOrder'
    BY <1>1 DEF OutboxInv, OutboxTypeOK, BatchesInOrder, BatchShape, InstantsShape
  <1>7. FirstCopiesInOrder'
    <2>1. SUFFICES ASSUME NEW f \in InKafka, NEW g \in earlier'[f] \ Refusable,
                          about'[g] = about'[f]
                   PROVE  ArrivedBefore(g, f)'
      BY <1>1 DEF FirstCopiesInOrder
    <2>2. f \in Events /\ f # e /\ earlier'[f] = earlier[f]
      BY <1>1 DEF OutboxInv, OutboxTypeOK, KafkaShape, InKafka, Committed
    <2>3. g \in Events /\ g # e
      BY <1>1, <2>2 DEF OutboxInv, InstantsShape, Committed
    <2>4. about[g] = about[f] /\ g \in earlier[f]
      BY <2>1, <2>2, <2>3 DEF OutboxInv, OutboxTypeOK
    <2>5. ArrivedBefore(g, f)
      BY <2>1, <2>4 DEF OutboxInv, FirstCopiesInOrder
    <2> QED BY <1>1, <2>2, <2>3, <2>5 DEF ArrivedBefore, OutboxInv, OutboxTypeOK
  <1> QED BY <1>2, <1>3, <1>4, <1>5, <1>6, <1>7 DEF OutboxInv

LEMMA FinishKeeps ==
  ASSUME OutboxInv, NEW e \in Events, Finish(e)
  PROVE  OutboxInv'
  <1> USE DEF Finish, tableVars, workerVars, kafkaVars
  <1>1. Committed \subseteq Committed' /\ InKafka' = InKafka
    BY DEF OutboxInv, OutboxTypeOK, Committed, InKafka
  <1>2. OutboxTypeOK'
    BY DEF OutboxInv, OutboxTypeOK
  <1>3. InstantsShape'
    BY <1>1 DEF OutboxInv, OutboxTypeOK, InstantsShape
  <1>4. BatchShape' /\ KafkaShape'
    BY <1>1 DEF OutboxInv, BatchShape, KafkaShape
  <1>5. PublishedReachedKafka'
    BY <1>1 DEF OutboxInv, OutboxTypeOK, PublishedReachedKafka
  <1>6. BatchesInOrder' /\ FirstCopiesInOrder'
    BY <1>1 DEF OutboxInv, BatchesInOrder, FirstCopiesInOrder, ArrivedBefore
  <1> QED BY <1>2, <1>3, <1>4, <1>5, <1>6 DEF OutboxInv

\* A worker that only moves, with its batch dropped or kept, disturbs nothing.
LEMMA MoveKeeps ==
  ASSUME OutboxInv, NEW p \in Publishers, UNCHANGED <<tableVars, kafkaVars>>,
         running' \in [Publishers -> BOOLEAN],
         \/ /\ batch'   = [batch EXCEPT ![p] = {}]
            /\ refused' = [refused EXCEPT ![p] = {}]
            /\ wpc' \in {[wpc EXCEPT ![p] = "wait"], [wpc EXCEPT ![p] = "none"]}
         \/ UNCHANGED <<batch, refused, wpc>>
         \/ /\ wpc[p] \in {"none", "wait"}
            /\ wpc' \in {[wpc EXCEPT ![p] = "wait"], [wpc EXCEPT ![p] = "none"]}
            /\ UNCHANGED <<batch, refused>>
  PROVE  OutboxInv'
  <1> USE DEF tableVars, kafkaVars
  <1>1. Committed' = Committed /\ InKafka' = InKafka
    BY DEF Committed, InKafka
  <1>2. OutboxTypeOK'
    BY DEF OutboxInv, OutboxTypeOK
  <1>3. InstantsShape' /\ KafkaShape' /\ PublishedReachedKafka' /\ FirstCopiesInOrder'
    BY <1>1 DEF OutboxInv, InstantsShape, KafkaShape, PublishedReachedKafka,
                FirstCopiesInOrder, ArrivedBefore
  <1>4. BatchShape'
    BY <1>1 DEF OutboxInv, OutboxTypeOK, BatchShape
  <1>5. BatchesInOrder'
    BY <1>1 DEF OutboxInv, OutboxTypeOK, BatchesInOrder
  <1> QED BY <1>2, <1>3, <1>4, <1>5 DEF OutboxInv

\* A batch of the oldest pending rows leaves no older committed row behind.
LEMMA PollKeeps ==
  ASSUME OutboxInv, NEW p \in Publishers, Poll(p)
  PROVE  OutboxInv'
  <1> USE DEF tableVars, kafkaVars
  <1>1. PICK S \in SUBSET Pending : GetPending(S) /\ batch' = [batch EXCEPT ![p] = S]
    BY DEF Poll
  <1>2. /\ wpc' = [wpc EXCEPT ![p] = "send"]
        /\ UNCHANGED <<running, refused, tableVars, kafkaVars>>
    BY DEF Poll, WorkerGoTo
  <1>3. Committed' = Committed /\ InKafka' = InKafka /\ Pending \subseteq Committed
    BY <1>2 DEF Committed, InKafka, Pending
  <1>4. OutboxTypeOK'
    BY <1>1, <1>2 DEF OutboxInv, OutboxTypeOK, Pending
  <1>5. InstantsShape' /\ KafkaShape' /\ PublishedReachedKafka' /\ FirstCopiesInOrder'
    BY <1>2, <1>3 DEF OutboxInv, InstantsShape, KafkaShape, PublishedReachedKafka,
                      FirstCopiesInOrder, ArrivedBefore
  <1>6. BatchShape'
    BY <1>1, <1>2, <1>3 DEF OutboxInv, OutboxTypeOK, BatchShape
  <1>7. BatchesInOrder'
    <2>1. SUFFICES ASSUME NEW f \in S, NEW e \in earlier[f]
                   PROVE  e \in S \cup InKafka
      BY <1>1, <1>2, <1>3, <2>1 DEF OutboxInv, OutboxTypeOK, BatchesInOrder
    <2>2. e \in Committed /\ createdAt[e] < createdAt[f]
      BY <1>1 DEF OutboxInv, InstantsShape, Pending
    <2>3. CASE row[e] = "published"
      BY <2>2, <2>3 DEF OutboxInv, PublishedReachedKafka, Committed
    <2>4. CASE e \in Pending
      BY <1>1, <2>2, <2>4 DEF GetPending, OutboxInv, OutboxTypeOK, Pending
    <2> QED BY <2>2, <2>3, <2>4 DEF Committed, Pending
  <1> QED BY <1>4, <1>5, <1>6, <1>7 DEF OutboxInv

\* What Land(S) does to Kafka, for a set S of committed rows.
LEMMA Landing ==
  ASSUME OutboxTypeOK, KafkaShape, NEW S \in SUBSET Events, Land(S)
  PROVE  /\ InKafka' = InKafka \cup S
         /\ firstAt' \in [Events -> Nat] /\ sends' \in Nat
         /\ \A e \in Events : firstAt'[e] <= sends'
         /\ \A e \in InKafka : firstAt'[e] = firstAt[e] /\ firstAt[e] <= sends
         /\ \A e \in S \ InKafka : firstAt'[e] = sends + 1
  BY DEF Land, OutboxTypeOK, KafkaShape, InKafka

\* A send of rows S that has with every row all older ones of its consent,
\* unless Kafka has them, keeps the order of first copies.
LEMMA LandingInOrder ==
  ASSUME OutboxInv, NEW S \in SUBSET Events, Land(S), UNCHANGED tableVars,
         \A f \in S : \A e \in earlier[f] \ Refusable :
            about[e] = about[f] => e \in S \cup InKafka
  PROVE  FirstCopiesInOrder'
  <1> USE DEF tableVars
  <1>1. SUFFICES ASSUME NEW f \in InKafka \cup S, NEW e \in earlier[f] \ Refusable,
                        about[e] = about[f]
                 PROVE  ArrivedBefore(e, f)'
    BY Landing DEF OutboxInv, FirstCopiesInOrder
  <1>2. e \in Events /\ f \in Events /\ createdAt[e] < createdAt[f]
    BY DEF OutboxInv, InstantsShape, InKafka, Committed, OutboxTypeOK
  <1>3. CASE f \in InKafka
    BY <1>1, <1>2, <1>3, Landing DEF OutboxInv, FirstCopiesInOrder, ArrivedBefore
  <1>4. CASE f \notin InKafka
    <2>1. e \in S \cup InKafka
      BY <1>1, <1>4
    <2>2. CASE e \in InKafka
      BY <1>2, <1>4, <2>2, Landing DEF OutboxInv, OutboxTypeOK, ArrivedBefore
    <2>3. CASE e \notin InKafka
      BY <1>2, <1>4, <2>1, <2>3, Landing DEF OutboxInv, ArrivedBefore
    <2> QED BY <2>2, <2>3
  <1> QED BY <1>3, <1>4

\* sendBatch resolves; the worker goes on to mark.
LEMMA SendKeeps ==
  ASSUME OutboxInv, NEW p \in Publishers, NEW S \in SUBSET batch[p], Send(p, S)
  PROVE  OutboxInv'
  <1> USE DEF tableVars
  <1>1. /\ wpc[p] = "send" /\ S \subseteq Refusable /\ Land(batch[p] \ S)
        /\ refused' = [refused EXCEPT ![p] = S] /\ wpc' = [wpc EXCEPT ![p] = "mark"]
        /\ UNCHANGED <<running, batch, tableVars>>
    BY DEF Send, WorkerGoTo
  <1>2. batch[p] \subseteq Committed /\ batch[p] \in SUBSET Events
    BY DEF OutboxInv, OutboxTypeOK, BatchShape
  <1>3. Committed' = Committed /\ InKafka' = InKafka \cup (batch[p] \ S)
    BY <1>1, <1>2, Landing DEF OutboxInv, Committed
  <1>4. OutboxTypeOK'
    BY <1>1, <1>2, Landing DEF OutboxInv, OutboxTypeOK
  <1>5. InstantsShape'
    BY <1>1, <1>3 DEF OutboxInv, InstantsShape
  <1>6. KafkaShape' /\ PublishedReachedKafka'
    BY <1>1, <1>2, <1>3, Landing DEF OutboxInv, KafkaShape, PublishedReachedKafka
  <1>7. BatchShape'
    BY <1>1, <1>3 DEF OutboxInv, OutboxTypeOK, BatchShape
  <1>8. BatchesInOrder'
    BY <1>1, <1>3 DEF OutboxInv, OutboxTypeOK, BatchesInOrder
  <1>9. FirstCopiesInOrder'
    BY <1>1, <1>2, LandingInOrder DEF OutboxInv, BatchesInOrder
  <1> QED BY <1>4, <1>5, <1>6, <1>7, <1>8, <1>9 DEF OutboxInv

\* sendBatch throws: what landed is whole partitions of the batch.
LEMMA SendThrowsKeeps ==
  ASSUME OutboxInv, NEW p \in Publishers, NEW S \in SUBSET batch[p], SendThrows(p, S)
  PROVE  OutboxInv'
  <1> USE DEF tableVars
  <1>1. /\ wpc[p] = "send" /\ Land(S)
        /\ \A e \in S : \A f \in batch[p] \ S : about[e] # about[f]
        /\ batch' = [batch EXCEPT ![p] = {}] /\ refused' = [refused EXCEPT ![p] = {}]
        /\ wpc' = [wpc EXCEPT ![p] = "wait"]
        /\ UNCHANGED <<running, tableVars>>
    BY DEF SendThrows, DrainEnd, WorkerGoTo
  <1>2. S \subseteq Committed /\ S \in SUBSET Events
    BY DEF OutboxInv, OutboxTypeOK, BatchShape
  <1>3. Committed' = Committed /\ InKafka' = InKafka \cup S
    BY <1>1, <1>2, Landing DEF OutboxInv, Committed
  <1>4. OutboxTypeOK'
    BY <1>1, <1>2, Landing DEF OutboxInv, OutboxTypeOK
  <1>5. InstantsShape'
    BY <1>1, <1>3 DEF OutboxInv, InstantsShape
  <1>6. KafkaShape' /\ PublishedReachedKafka'
    BY <1>1, <1>2, <1>3, Landing DEF OutboxInv, KafkaShape, PublishedReachedKafka
  <1>7. BatchShape'
    BY <1>1, <1>3 DEF OutboxInv, OutboxTypeOK, BatchShape
  <1>8. BatchesInOrder'
    BY <1>1, <1>3 DEF OutboxInv, OutboxTypeOK, BatchesInOrder
  <1>9. FirstCopiesInOrder'
    <2>1. ASSUME NEW f \in S, NEW e \in earlier[f], about[e] = about[f]
          PROVE  e \in S \cup InKafka
      BY <1>1, <2>1 DEF OutboxInv, BatchesInOrder
    <2> QED BY <1>1, <1>2, <2>1, LandingInOrder
  <1> QED BY <1>4, <1>5, <1>6, <1>7, <1>8, <1>9 DEF OutboxInv

\* A row is marked published only when Kafka has it; one marked failed stays.
LEMMA MarkKeeps ==
  ASSUME OutboxInv, NEW p \in Publishers, NEW e \in batch[p],
         MarkPublished(p, e) \/ MarkFailed(p, e)
  PROVE  OutboxInv'
  <1> USE DEF kafkaVars
  <1>1. /\ wpc[p] = "mark" /\ batch' = [batch EXCEPT ![p] = @ \ {e}]
        /\ UNCHANGED <<running, wpc, refused, about, createdAt, now, earlier, kafkaVars>>
        /\ \/ e \notin refused[p] /\ row' = [row EXCEPT ![e] = "published"]
           \/ UNCHANGED row
        /\ tagged' \subseteq tagged \cup {e}
    BY DEF MarkPublished, MarkFailed, NextToMark, Marked
  <1>2. e \in Events /\ e \in Committed /\ (e \notin refused[p] => e \in InKafka)
    BY <1>1 DEF OutboxInv, OutboxTypeOK, BatchShape
  <1>3. Committed' = Committed /\ InKafka' = InKafka
    BY <1>1, <1>2 DEF OutboxInv, OutboxTypeOK, Committed, InKafka
  <1>4. OutboxTypeOK'
    BY <1>1, <1>2 DEF OutboxInv, OutboxTypeOK
  <1>5. InstantsShape'
    BY <1>1, <1>2, <1>3 DEF OutboxInv, OutboxTypeOK, InstantsShape, Committed
  <1>6. KafkaShape' /\ PublishedReachedKafka'
    BY <1>1, <1>2, <1>3 DEF OutboxInv, OutboxTypeOK, KafkaShape, PublishedReachedKafka
  <1>7. BatchShape'
    BY <1>1, <1>3 DEF OutboxInv, OutboxTypeOK, BatchShape
  <1>8. BatchesInOrder' /\ FirstCopiesInOrder'
    BY <1>1, <1>3 DEF OutboxInv, OutboxTypeOK, BatchesInOrder, FirstCopiesInOrder,
                      ArrivedBefore
  <1> QED BY <1>4, <1>5, <1>6, <1>7, <1>8 DEF OutboxInv

\* The moves of workers and pods that touch neither the tables nor Kafka.
LEMMA PodKeeps ==
  ASSUME OutboxInv, NEW p \in Publishers,
         Drained(p) \/ MarkThrows(p) \/ Exit(p) \/ PodUp(p) \/ PodDown(p) \/ PodDies(p)
  PROVE  OutboxInv'
  <1> USE DEF OutboxInv, OutboxTypeOK, WorkerGoTo
  <1>1. CASE Drained(p) \/ MarkThrows(p)
    BY <1>1, MoveKeeps DEF Drained, MarkThrows, DrainEnd
  <1>2. CASE Exit(p)
    BY <1>2, MoveKeeps DEF Exit
  <1>3. CASE PodUp(p)
    BY <1>3, MoveKeeps DEF PodUp, Start
  <1>4. CASE PodDown(p)
    BY <1>4, MoveKeeps DEF PodDown, StopFlag
  <1>5. CASE PodDies(p)
    BY <1>5, MoveKeeps DEF PodDies
  <1> QED BY <1>1, <1>2, <1>3, <1>4, <1>5

\* OutboxInv is an invariant of the workers of all pods.
THEOREM OutboxCorrect == Spec => []OutboxInv
  <1>1. OutboxInv /\ [Next]_outboxVars => OutboxInv'
    <2> SUFFICES ASSUME OutboxInv, [Next]_outboxVars PROVE OutboxInv'
      OBVIOUS
    <2>1. CASE Producing
      BY <2>1, BeginKeeps, FinishKeeps DEF Producing
    <2>2. ASSUME NEW p \in Publishers, Work(p) PROVE OutboxInv'
      BY <2>2, PollKeeps, SendKeeps, SendThrowsKeeps, MarkKeeps, PodKeeps DEF Work, Sending, Draining
    <2>3. ASSUME NEW p \in Publishers, PodUp(p) \/ PodDown(p) \/ PodDies(p) PROVE OutboxInv'
      BY <2>3, PodKeeps
    <2>4. CASE UNCHANGED outboxVars
      BY <2>4, Unchanged
    <2> QED BY <2>1, <2>2, <2>3, <2>4 DEF Next
  <1> QED BY <1>1, OutboxStarts, PTL DEF Spec

\* No event is lost between the outbox and Kafka.
THEOREM NothingLost == Spec => []PublishedReachedKafka
  BY OutboxCorrect, PTL DEF OutboxInv

\* First copies of a consent's events reach Kafka in their order.
THEOREM InOrder == Spec => []FirstCopiesInOrder
  BY OutboxCorrect, PTL DEF OutboxInv

-----------------------------------------------------------------------------
Published == {e \in Events : row[e] = "published"}

\* What each step is to the delivery contract.
LEMMA StepDelivers ==
  ASSUME OutboxInv, Next
  PROVE  Delivery!Next \/ UNCHANGED <<Committed, InKafka, Published>>
  <1> USE DEF Published
  <1>1. ASSUME NEW e \in Events, NEW c \in Consents, Begin(e, c)
        PROVE  UNCHANGED <<Committed, InKafka, Published>>
    BY <1>1 DEF Begin, kafkaVars, OutboxInv, OutboxTypeOK, Committed, InKafka
  <1>2. ASSUME NEW e \in Events, Finish(e)
        PROVE  Delivery!Commit(e) \/ UNCHANGED <<Committed, InKafka, Published>>
    <2>1. UNCHANGED <<InKafka, Published>> /\ e \notin Committed
      BY <1>2 DEF Finish, kafkaVars, OutboxInv, OutboxTypeOK, Committed, InKafka
    <2>2. Committed' = Committed \/ Committed' = Committed \cup {e}
      BY <1>2 DEF Finish, OutboxInv, OutboxTypeOK, Committed
    <2> QED BY <2>1, <2>2 DEF Delivery!Commit
  <1>3. ASSUME NEW S \in SUBSET Committed, Land(S), UNCHANGED tableVars
        PROVE  Delivery!Deliver(S)
    BY <1>3, Landing DEF OutboxInv, Committed, tableVars, Delivery!Deliver
  <1>4. ASSUME NEW p \in Publishers, NEW e \in batch[p], MarkPublished(p, e)
        PROVE  Delivery!Retire(e) /\ e \in Events
    <2>1. /\ e \in Events /\ e \in InKafka /\ e \in Committed
          /\ row' = [row EXCEPT ![e] = "published"] /\ UNCHANGED kafkaVars
      BY <1>4 DEF MarkPublished, NextToMark, Marked, OutboxInv, OutboxTypeOK, BatchShape
    <2>2. UNCHANGED <<Committed, InKafka>> /\ Published' = Published \cup {e}
      BY <2>1 DEF OutboxInv, OutboxTypeOK, Committed, InKafka, kafkaVars
    <2> QED BY <2>1, <2>2 DEF Delivery!Retire
  <1>5. ASSUME UNCHANGED <<row, kafkaVars>>
        PROVE  UNCHANGED <<Committed, InKafka, Published>>
    BY <1>5 DEF kafkaVars, Committed, InKafka
  <1>6. CASE Producing
    BY <1>6, <1>1, <1>2 DEF Producing, Delivery!Next
  <1>7. ASSUME NEW p \in Publishers, Work(p)
        PROVE  Delivery!Next \/ UNCHANGED <<Committed, InKafka, Published>>
    <2> USE DEF tableVars
    <2>1. batch[p] \subseteq Committed /\ Committed \subseteq Events
      BY DEF OutboxInv, BatchShape, Committed
    <2>2. ASSUME NEW S \in SUBSET batch[p], Send(p, S) \/ SendThrows(p, S)
          PROVE  \E D \in SUBSET Events : Delivery!Deliver(D)
      <3>1. CASE Send(p, S)
        BY <3>1, <2>1, <1>3 DEF Send
      <3>2. CASE SendThrows(p, S)
        BY <3>2, <2>1, <1>3 DEF SendThrows
      <3> QED BY <2>2, <3>1, <3>2
    <2>3. CASE Poll(p) \/ Drained(p) \/ MarkThrows(p) \/ Exit(p)
      BY <2>3, <1>5 DEF Poll, Drained, MarkThrows, Exit
    <2>4. ASSUME NEW e \in batch[p], MarkFailed(p, e)
          PROVE  UNCHANGED <<row, kafkaVars>>
      BY <2>4 DEF MarkFailed, Marked
    <2> QED BY <1>7, <1>4, <1>5, <2>2, <2>3, <2>4 DEF Work, Sending, Draining, Delivery!Next
  <1>8. ASSUME NEW p \in Publishers, PodUp(p) \/ PodDown(p) \/ PodDies(p)
        PROVE  UNCHANGED <<Committed, InKafka, Published>>
    BY <1>8, <1>5 DEF PodUp, PodDown, PodDies, tableVars
  <1> QED BY <1>6, <1>7, <1>8 DEF Next

\* The workers implement the delivery contract.
THEOREM ImplementsDeliveryCorrect == Spec => ImplementsDelivery
  <1>1. OutboxInit => Delivery!Init
    BY DEF OutboxInit, TablesInit, KafkaInit, Committed, InKafka, Delivery!Init
  <1>2. OutboxInv /\ [Next]_outboxVars => [Delivery!Next]_(Delivery!deliveryVars)
    <2>1. UNCHANGED outboxVars => UNCHANGED <<Committed, InKafka, Published>>
      BY DEF outboxVars, tableVars, kafkaVars, Committed, InKafka, Published
    <2> QED BY <2>1, StepDelivers DEF Delivery!deliveryVars, Published
  <1> QED BY <1>1, <1>2, OutboxCorrect, PTL DEF Spec, ImplementsDelivery, Delivery!Safety

-----------------------------------------------------------------------------
(***************************************************************************)
(* Reconfiguration.                                                        *)
(***************************************************************************)
USE ReconfigAssumption

\* What the store makes of a body is a configuration, of the given instant.
LEMMA UpdateIsConfig ==
  ASSUME NEW b \in Bodies, NEW u \in Puts \cup {Null}
  PROVE  ConfigOf(b, u) \in Configs /\ ConfigOf(b, u).updatedAt = u
  BY DEF Configs, ConfigOf

LEMMA BootIsConfig == BootConfig \in Configs
  BY UpdateIsConfig DEF BootConfig, Bodies, Providers

LEMMA ReconfigStarts == ReconfigInit => ReconfigInv
  <1> SUFFICES ASSUME ReconfigInit PROVE ReconfigInv
    OBVIOUS
  <1> USE DEF ReconfigInit, TablesInit, KafkaInit
  <1>1. OutboxInv
    BY DEF OutboxInv, OutboxTypeOK, InstantsShape, BatchShape, KafkaShape,
           PublishedReachedKafka, BatchesInOrder, FirstCopiesInOrder, InKafka, Committed
  <1>2. Busy = {}
    BY DEF Busy, InProgress
  <1>3. ReconfigTypeOK
    BY BootIsConfig DEF ReconfigTypeOK
  <1>4. TokenShape
    BY <1>2 DEF TokenShape, Holds
  <1>5. TurnShape
    BY <1>2 DEF TurnShape
  <1> QED BY <1>1, <1>3, <1>4, <1>5 DEF ReconfigInv

-----------------------------------------------------------------------------
(***************************************************************************)
(* The steps of requests.                                                  *)
(***************************************************************************)
\* While a request connects, no publisher runs and no worker is left.
LEMMA Connecting ==
  ASSUME ReconfigInv, NEW r \in Puts, upc[r] = "connecting"
  PROVE  /\ Holds(r)
         /\ \A p \in Publishers : ~running[p] /\ wpc[p] = "none"
  BY DEF ReconfigInv, ReconfigTypeOK, OutboxInv, OutboxTypeOK, TokenShape, Holds, Busy, InProgress

LEMMA RequestKeepsOutbox ==
  ASSUME ReconfigInv, NEW r \in Puts, Resume(r) \/ \E b \in Bodies : Put(r, b)
  PROVE  OutboxInv'
  <1>1. global \in Publishers /\ OutboxInv /\ OutboxTypeOK
    BY DEF ReconfigInv, ReconfigTypeOK, OutboxInv
  <1>2. ASSUME NEW b \in Bodies, Put(r, b) PROVE OutboxInv'
    <2>1. /\ UNCHANGED <<tableVars, kafkaVars>>
          /\ running' = [running EXCEPT ![global] = FALSE]
          /\ UNCHANGED <<batch, refused, wpc>>
      BY <1>2 DEF Put, StopFlag
    <2>2. running' \in [Publishers -> BOOLEAN]
      BY <1>1, <2>1 DEF OutboxTypeOK
    <2> QED BY <1>1, <2>1, <2>2, MoveKeeps
  <1>3. CASE ConnectedAndStarted(r)
    <2>1. wpc[global] = "none" /\ ~running[global]
      BY <1>1, <1>3, Connecting DEF ConnectedAndStarted, Connect
    <2>2. /\ UNCHANGED <<tableVars, kafkaVars, batch, refused>>
          /\ running' = [running EXCEPT ![global] = TRUE]
          /\ wpc' = [wpc EXCEPT ![global] = "wait"]
      BY <1>3, <2>1 DEF ConnectedAndStarted, Connect, Start, WorkerGoTo
    <2>3. running' \in [Publishers -> BOOLEAN]
      BY <1>1, <2>2 DEF OutboxTypeOK
    <2> QED BY <1>1, <2>1, <2>2, <2>3, MoveKeeps
  <1>4. CASE Stopped(r) \/ (\E p \in Publishers : Replace(r, p)) \/ ConnectFails(r)
    BY <1>1, <1>4, Unchanged DEF Stopped, Replace, Disconnect, ConnectFails
  <1> QED BY <1>2, <1>3, <1>4 DEF Resume

LEMMA PutKeeps ==
  ASSUME ReconfigInv, NEW r \in Puts, NEW b \in Bodies, Put(r, b)
  PROVE  ReconfigTypeOK' /\ TokenShape' /\ TurnShape'
  <1> USE DEF Put, StopFlag, RequestGoTo
  <1>1. /\ ReconfigTypeOK /\ TokenShape /\ TurnShape
        /\ running \in [Publishers -> BOOLEAN] /\ global \in Publishers
    BY DEF ReconfigInv, ReconfigTypeOK, OutboxInv, OutboxTypeOK
  <1>0. /\ stored' \in Configs /\ stored'.updatedAt = r
        /\ next' = [next EXCEPT ![r] = stored']
    BY UpdateIsConfig DEF StoreUpdate
  <1>2. ReconfigTypeOK'
    BY <1>0, <1>1 DEF ReconfigTypeOK, InProgress
  <1>3. r \notin Busy /\ Busy' = Busy \cup {r}
    BY <1>1 DEF ReconfigTypeOK, Busy, InProgress
  <1>4. \A s \in Puts : Holds(s)' <=> IF s = r THEN running[global] ELSE Holds(s)
    BY <1>1, <1>3 DEF ReconfigTypeOK, Holds
  <1>5. TokenShape'
    <2>1. CASE running[global]
      <3>1. /\ \A p \in Publishers : ~running'[p]
            /\ \A s \in Puts : Holds(s)' <=> s = r
        BY <1>1, <1>4, <2>1 DEF TokenShape
      <3>2. wpc[global] # "none" /\ upc' = [upc EXCEPT ![r] = "stopping"] /\ at'[r] = global
        BY <1>1, <2>1 DEF TokenShape, ReconfigTypeOK
      <3>3. \A p \in Publishers \ {global} : wpc[p] = "none"
        BY <1>1, <2>1 DEF TokenShape
      <3> QED BY <1>1, <3>1, <3>2, <3>3 DEF TokenShape, ReconfigTypeOK
    <2>2. CASE ~running[global]
      <3>1. running' = running /\ \A s \in Puts : Holds(s)' <=> Holds(s)
        BY <1>1, <1>3, <1>4, <2>2 DEF Holds
      <3>2. \A s \in Puts : Holds(s) => s # r /\ upc'[s] = upc[s] /\ at'[s] = at[s]
        BY <1>1, <1>3 DEF Holds, ReconfigTypeOK
      <3>3. \A s \in Puts : upc'[s] = "connecting" => was'[s]
        BY <1>1 DEF TokenShape, ReconfigTypeOK
      <3> QED BY <1>1, <3>1, <3>2, <3>3 DEF TokenShape
    <2> QED BY <2>1, <2>2
  <1>6. TurnShape'
    <2>1. ASSUME ~overlapped'
          PROVE  /\ Busy' = {r} /\ at'[r] = global /\ next'[r] = stored'
                 /\ stored'.updatedAt = r /\ (~failed' => was'[r])
      BY <1>0, <1>1, <1>3, <2>1 DEF TurnShape, ReconfigTypeOK
    <2>2. upc'[r] # "connecting" /\ global' = global
      BY <1>1 DEF ReconfigTypeOK
    <2> QED BY <2>1, <2>2 DEF TurnShape
  <1> QED BY <1>2, <1>5, <1>6

LEMMA StoppedKeeps ==
  ASSUME ReconfigInv, NEW r \in Puts, Stopped(r)
  PROVE  ReconfigTypeOK' /\ TokenShape' /\ TurnShape'
  <1> USE DEF Stopped, RequestGoTo, outboxVars, workerVars, adminVars
  <1>1. ReconfigTypeOK /\ TokenShape /\ TurnShape /\ global \in Publishers
    BY DEF ReconfigInv, ReconfigTypeOK
  <1>2. ReconfigTypeOK'
    BY <1>1 DEF ReconfigTypeOK, InProgress
  <1>3. r \in Busy /\ Busy' = Busy
    BY <1>1 DEF ReconfigTypeOK, Busy, InProgress
  <1>4. TokenShape'
    <2>1. \A s \in Puts : Holds(s)' <=> Holds(s)
      BY <1>3 DEF Holds
    <2>2. \A s \in Puts : upc'[s] = "connecting" => was'[s]
      BY <1>1 DEF TokenShape, ReconfigTypeOK
    <2>3. ASSUME NEW p \in Publishers, wpc[p] # "none", ~running[p]
          PROVE  \E s \in Puts : Holds(s) /\ upc'[s] = "stopping" /\ at'[s] = p
      BY <1>1, <2>3 DEF TokenShape, ReconfigTypeOK
    <2> QED BY <1>1, <2>1, <2>2, <2>3 DEF TokenShape
  <1>5. TurnShape'
    BY <1>1, <1>3 DEF TurnShape, ReconfigTypeOK
  <1> QED BY <1>2, <1>4, <1>5

LEMMA ReplaceKeeps ==
  ASSUME ReconfigInv, NEW r \in Puts, NEW p \in Publishers, Replace(r, p)
  PROVE  ReconfigTypeOK' /\ TokenShape' /\ TurnShape'
  <1> USE DEF Replace, Disconnect, Answer, RequestGoTo, outboxVars, workerVars
  <1>1. ReconfigTypeOK /\ TokenShape /\ TurnShape
    BY DEF ReconfigInv
  <1>2. ReconfigTypeOK'
    BY <1>1 DEF ReconfigTypeOK, InProgress
  <1>3. r \in Busy /\ Busy' = IF was[r] THEN Busy ELSE Busy \ {r}
    BY <1>1 DEF ReconfigTypeOK, Busy, InProgress
  <1>4. TokenShape'
    <2>1. \A s \in Puts : Holds(s)' <=> Holds(s)
      BY <1>1, <1>3 DEF Holds, ReconfigTypeOK
    <2>2. \A s \in Puts : upc'[s] = "connecting" => was'[s]
      BY <1>1 DEF TokenShape, ReconfigTypeOK
    <2>3. ASSUME NEW q \in Publishers, wpc[q] # "none", ~running[q]
          PROVE  \E s \in Puts : Holds(s) /\ upc'[s] = "stopping" /\ at'[s] = q
      BY <1>1, <2>3 DEF TokenShape, ReconfigTypeOK
    <2> QED BY <1>1, <2>1, <2>2, <2>3 DEF TokenShape
  <1>5. TurnShape'
    BY <1>1, <1>3 DEF TurnShape, ReconfigTypeOK
  <1> QED BY <1>2, <1>4, <1>5

LEMMA StartKeeps ==
  ASSUME ReconfigInv, NEW r \in Puts, ConnectedAndStarted(r)
  PROVE  ReconfigTypeOK' /\ TokenShape' /\ TurnShape'
  <1> USE DEF ConnectedAndStarted, Connect, Start, WorkerGoTo, Answer, RequestGoTo
  <1>1. /\ ReconfigTypeOK /\ TokenShape /\ TurnShape /\ global \in Publishers
        /\ running \in [Publishers -> BOOLEAN]
        /\ wpc \in [Publishers -> {"none", "wait", "send", "mark"}]
    BY DEF ReconfigInv, ReconfigTypeOK, OutboxInv, OutboxTypeOK
  <1>2. Holds(r) /\ \A p \in Publishers : ~running[p] /\ wpc[p] = "none"
    BY Connecting
  <1>3. /\ \A p \in Publishers : running'[p] <=> p = global
        /\ \A p \in Publishers : wpc'[p] # "none" <=> p = global
    BY <1>1, <1>2
  <1>4. ReconfigTypeOK'
    BY <1>1, <1>2 DEF ReconfigTypeOK, InProgress
  <1>5. r \in Busy /\ Busy' = Busy \ {r}
    BY <1>1 DEF ReconfigTypeOK, Busy, InProgress
  <1>6. \A s \in Puts : ~Holds(s)'
    <2>1. \A s \in Puts : Holds(s) => s = r
      BY <1>1, <1>2 DEF TokenShape
    <2> QED BY <1>5, <2>1 DEF Holds
  <1>7. TokenShape'
    BY <1>1, <1>3, <1>6 DEF TokenShape, ReconfigTypeOK
  <1>8. TurnShape'
    BY <1>1, <1>3, <1>5 DEF TurnShape, ReconfigTypeOK
  <1> QED BY <1>4, <1>7, <1>8

LEMMA ConnectFailsKeeps ==
  ASSUME ReconfigInv, NEW r \in Puts, ConnectFails(r)
  PROVE  ReconfigTypeOK' /\ TokenShape' /\ TurnShape'
  <1> USE DEF ConnectFails, RequestGoTo, outboxVars, workerVars, adminVars
  <1>1. ReconfigTypeOK /\ TokenShape /\ TurnShape
    BY DEF ReconfigInv
  <1>2. ReconfigTypeOK'
    BY <1>1 DEF ReconfigTypeOK
  <1>3. Busy' = Busy \ {r}
    BY <1>1 DEF ReconfigTypeOK, Busy, InProgress
  <1>4. \A p \in Publishers : ~running[p] /\ wpc[p] = "none"
    BY Connecting
  <1>5. TokenShape'
    BY <1>1, <1>3, <1>4 DEF TokenShape, ReconfigTypeOK, Holds
  <1>6. TurnShape'
    BY <1>1, <1>3 DEF TurnShape
  <1> QED BY <1>2, <1>5, <1>6

-----------------------------------------------------------------------------
(***************************************************************************)
(* The steps of workers and producers.                                     *)
(***************************************************************************)
LEMMA WorkerKeepsOutbox ==
  ASSUME ReconfigInv, NEW p \in Publishers, WorkerStep(p)
  PROVE  OutboxInv'
  <1>1. OutboxInv
    BY DEF ReconfigInv
  <1>2. CASE Draining(p)
    BY <1>1, <1>2, PollKeeps, MarkKeeps, PodKeeps DEF Draining
  <1>3. CASE Sending(p)
    BY <1>1, <1>3, SendKeeps, SendThrowsKeeps DEF Sending
  <1>4. CASE SendThrows(p, {})
    BY <1>1, <1>4, SendThrowsKeeps
  <1> QED BY <1>2, <1>3, <1>4 DEF WorkerStep

\* What a worker's step is to the requests: its flag stays, and it exits only
\* when the flag is clear.
LEMMA WorkerMoves ==
  ASSUME OutboxTypeOK, NEW p \in Publishers, WorkerStep(p)
  PROVE  /\ UNCHANGED running
         /\ \A q \in Publishers \ {p} : wpc'[q] = wpc[q]
         /\ wpc[p] # "none"
         /\ wpc'[p] = "none" => ~running[p]
  BY DEF WorkerStep, Draining, Sending, Poll, Send, SendThrows, MarkPublished, MarkFailed,
         NextToMark, Marked, Drained, MarkThrows, Exit, DrainEnd, WorkerGoTo, OutboxTypeOK

LEMMA WorkerKeeps ==
  ASSUME ReconfigInv, NEW p \in Publishers, WorkerStep(p)
  PROVE  ReconfigTypeOK' /\ TokenShape' /\ TurnShape'
  <1> USE DEF reconfigVars, adminVars, requestVars
  <1>1. ReconfigTypeOK /\ TokenShape /\ TurnShape /\ OutboxTypeOK /\ UNCHANGED reconfigVars
    BY DEF ReconfigInv, OutboxInv, WorkerStep
  <1>2. ReconfigTypeOK' /\ Busy' = Busy
    BY <1>1 DEF ReconfigTypeOK, Busy
  <1>3. TokenShape'
    BY <1>1, <1>2, WorkerMoves DEF TokenShape, Holds
  <1>4. TurnShape'
    BY <1>1, <1>2, WorkerMoves DEF TurnShape
  <1> QED BY <1>2, <1>3, <1>4

LEMMA OthersKeep ==
  ASSUME ReconfigInv, UNCHANGED <<workerVars, reconfigVars>>
  PROVE  ReconfigTypeOK' /\ TokenShape' /\ TurnShape'
  BY DEF ReconfigInv, workerVars, reconfigVars, adminVars, requestVars,
         ReconfigTypeOK, TokenShape, TurnShape, Holds, Busy

-----------------------------------------------------------------------------
\* ReconfigInv is an invariant of a pod and its admin requests.
THEOREM ReconfigCorrect == ReconfigSpec => []ReconfigInv
  <1>1. ReconfigInv /\ [ReconfigNext]_allVars => ReconfigInv'
    <2> SUFFICES ASSUME ReconfigInv, [ReconfigNext]_allVars PROVE ReconfigInv'
      OBVIOUS
    <2>1. OutboxInv
      BY DEF ReconfigInv
    <2>2. CASE Producing /\ UNCHANGED reconfigVars
      <3>1. OutboxInv'
        BY <2>1, <2>2, BeginKeeps, FinishKeeps DEF Producing
      <3>2. UNCHANGED workerVars
        BY <2>2 DEF Producing, Begin, Finish
      <3> QED BY <2>2, <3>1, <3>2, OthersKeep DEF ReconfigInv
    <2>3. ASSUME NEW p \in Publishers, WorkerStep(p) PROVE ReconfigInv'
      BY <2>3, WorkerKeepsOutbox, WorkerKeeps DEF ReconfigInv
    <2>4. ASSUME NEW r \in Puts, NEW b \in Bodies, Put(r, b) PROVE ReconfigInv'
      BY <2>4, RequestKeepsOutbox, PutKeeps DEF ReconfigInv
    <2>5. ASSUME NEW r \in Puts, Resume(r) PROVE ReconfigInv'
      <3>1. ReconfigTypeOK' /\ TokenShape' /\ TurnShape'
        BY <2>5, StoppedKeeps, ReplaceKeeps, StartKeeps, ConnectFailsKeeps DEF Resume
      <3> QED BY <2>5, <3>1, RequestKeepsOutbox DEF ReconfigInv
    <2>6. CASE UNCHANGED allVars
      BY <2>1, <2>6, Unchanged, OthersKeep DEF ReconfigInv, allVars, outboxVars
    <2> QED BY <2>2, <2>3, <2>4, <2>5, <2>6 DEF ReconfigNext
  <1> QED BY <1>1, ReconfigStarts, PTL DEF ReconfigSpec

\* No two publishers of a pod drain at once, however its requests overlap.
THEOREM OneWorkerCorrect == ReconfigSpec => []OneWorker
  <1>1. ReconfigInv => OneWorker
    BY DEF ReconfigInv, TokenShape, OneWorker
  <1> QED BY <1>1, ReconfigCorrect, PTL

\* Requests that come one at a time leave in force the brokers that GET
\* answers, with a worker that drains if every connect has succeeded.
THEOREM InForceCorrect == ReconfigSpec => []InForceBetweenPuts
  <1>1. ReconfigInv => InForceBetweenPuts
    BY DEF ReconfigInv, TurnShape, InForceBetweenPuts, GetAnswer
  <1> QED BY <1>1, ReconfigCorrect, PTL

\* Nor does any reconfiguration lose an event between the outbox and Kafka.
THEOREM ReconfigLosesNothing == ReconfigSpec => []PublishedReachedKafka
  <1>1. ReconfigInv => PublishedReachedKafka
    BY DEF ReconfigInv, OutboxInv
  <1> QED BY <1>1, ReconfigCorrect, PTL

\* A pod whose publisher is replaced while it drains keeps the delivery
\* contract of EventDelivery: a request touches neither the outbox nor Kafka,
\* and a worker without a producer does what a worker may do.
THEOREM ReconfigImplementsDelivery == ReconfigSpec => ImplementsDelivery
  <1>1. ReconfigInit => Delivery!Init
    BY DEF ReconfigInit, TablesInit, KafkaInit, Committed, InKafka, Delivery!Init
  <1>2. ReconfigInv /\ [ReconfigNext]_allVars => [Delivery!Next]_(Delivery!deliveryVars)
    <2> SUFFICES ASSUME ReconfigInv, [ReconfigNext]_allVars
                 PROVE  Delivery!Next \/ UNCHANGED <<Committed, InKafka, Published>>
      BY DEF Delivery!deliveryVars, Published
    <2>1. OutboxInv
      BY DEF ReconfigInv
    <2>2. ASSUME UNCHANGED <<tableVars, kafkaVars>>
          PROVE  UNCHANGED <<Committed, InKafka, Published>>
      BY <2>2 DEF tableVars, kafkaVars, Committed, InKafka, Published
    <2>3. CASE Producing
      BY <2>1, <2>3, StepDelivers DEF Next
    <2>4. ASSUME NEW p \in Publishers, WorkerStep(p)
          PROVE  Delivery!Next \/ UNCHANGED <<Committed, InKafka, Published>>
      <3>1. Work(p)
        BY <2>4 DEF WorkerStep, Work, Sending
      <3> QED BY <2>1, <3>1, StepDelivers DEF Next
    <2>5. ASSUME NEW r \in Puts, Resume(r) \/ \E b \in Bodies : Put(r, b)
          PROVE  UNCHANGED <<tableVars, kafkaVars>>
      BY <2>5 DEF Resume, Stopped, Replace, ConnectedAndStarted, ConnectFails, Put, outboxVars
    <2>6. CASE UNCHANGED allVars
      BY <2>6, <2>2 DEF allVars, outboxVars
    <2> QED BY <2>2, <2>3, <2>4, <2>5, <2>6 DEF ReconfigNext
  <1> QED BY <1>1, <1>2, ReconfigCorrect, PTL DEF ReconfigSpec, ImplementsDelivery, Delivery!Safety

-----------------------------------------------------------------------------
\* What the page sends of its form is a body of the route.
LEMMA SaveIsPut ==
  ASSUME NEW r \in Puts, NEW b \in Bodies, Save(r, b)
  PROVE  form' \in Bodies /\ Put(r, form')
  BY DEF Save, Bodies, sanitizeBrokers

\* A step of the page with its requests is a step of the pod, or none.
LEMMA PanelStepsPod ==
  ASSUME [PanelNext]_allPanelVars
  PROVE  [ReconfigNext]_allVars
  <1>1. ASSUME PanelStep PROVE UNCHANGED allVars
    BY <1>1 DEF PanelStep, Loaded, Saved, SaveLost
  <1>2. ASSUME NEW r \in Puts, NEW b \in Bodies, Save(r, b) PROVE ReconfigNext
    BY <1>2, SaveIsPut DEF ReconfigNext
  <1>3. CASE UNCHANGED allPanelVars
    BY <1>3 DEF allPanelVars
  <1> QED BY <1>1, <1>2, <1>3 DEF PanelNext

\* What a Put does to the store and to the requests.
LEMMA PutStores ==
  ASSUME ReconfigTypeOK, NEW r \in Puts, NEW b \in Bodies, Put(r, b)
  PROVE  /\ upc[r] = "idle" /\ upc'[r] \notin {"idle", "ok"}
         /\ \A s \in Puts \ {r} : upc'[s] = upc[s]
         /\ stored' = ConfigOf(b, r) /\ stored'.updatedAt = r
         /\ answer' = answer
         /\ overlapped => overlapped'
  BY DEF Put, StoreUpdate, RequestGoTo, ConfigOf, ReconfigTypeOK

\* Whatever else the pod does leaves the store alone, and ends a request with
\* the answer that the store has by then.
LEMMA PodAnswers ==
  ASSUME ReconfigInv, [ReconfigNext]_allVars,
         ~ \E r \in Puts, b \in Bodies : Put(r, b)
  PROVE  /\ stored' = stored /\ overlapped' = overlapped
         /\ \A s \in Puts :
               \/ upc'[s] = upc[s] /\ answer'[s] = answer[s]
               \/ /\ upc[s] \in InProgress /\ upc'[s] # "idle"
                  /\ upc'[s] = "ok" => answer'[s] = stored
  <1> USE DEF RequestGoTo, Answer
  <1>1. ReconfigTypeOK
    BY DEF ReconfigInv
  <1>2. CASE UNCHANGED reconfigVars
    BY <1>2 DEF reconfigVars, adminVars, requestVars
  <1>3. ASSUME NEW r \in Puts, Stopped(r) \/ ConnectFails(r)
        PROVE  /\ UNCHANGED <<stored, overlapped, answer>>
               /\ upc[r] \in InProgress /\ upc'[r] \notin {"idle", "ok"}
               /\ \A s \in Puts \ {r} : upc'[s] = upc[s]
    BY <1>1, <1>3 DEF Stopped, ConnectFails, adminVars, InProgress, ReconfigTypeOK
  <1>4. ASSUME NEW r \in Puts, (\E p \in Publishers : Replace(r, p)) \/ ConnectedAndStarted(r)
        PROVE  /\ UNCHANGED <<stored, overlapped>>
               /\ upc[r] \in InProgress /\ upc'[r] # "idle"
               /\ upc'[r] = "ok" => answer'[r] = stored
               /\ \A s \in Puts \ {r} : upc'[s] = upc[s] /\ answer'[s] = answer[s]
    BY <1>1, <1>4 DEF Replace, ConnectedAndStarted, InProgress, ReconfigTypeOK
  <1>5. ASSUME NEW r \in Puts, Resume(r)
        PROVE  /\ stored' = stored /\ overlapped' = overlapped
               /\ upc[r] \in InProgress /\ upc'[r] # "idle"
               /\ upc'[r] = "ok" => answer'[r] = stored
               /\ \A s \in Puts \ {r} : upc'[s] = upc[s] /\ answer'[s] = answer[s]
    BY <1>3, <1>4, <1>5 DEF Resume
  <1> QED BY <1>2, <1>5 DEF ReconfigNext, WorkerStep, allVars

LEMMA PanelKeeps ==
  ASSUME ReconfigInv, PanelInv, [PanelNext]_allPanelVars
  PROVE  PanelInv'
  <1>0. PanelTypeOK /\ SaveShape /\ AskedShape /\ AnswerShape /\ ReconfigTypeOK
    BY DEF PanelInv, ReconfigInv
  <1>1. CASE PanelStep
    <2>1. UNCHANGED <<stored, upc, answer, overlapped, form, saving>>
      BY <1>1 DEF PanelStep, Loaded, Saved, SaveLost, allVars, reconfigVars, adminVars, requestVars
    <2>2. PanelTypeOK' /\ SaveShape'
      <3>1. CASE Loaded \/ SaveLost
        BY <1>0, <2>1, <3>1 DEF Loaded, SaveLost, PanelTypeOK, SaveShape
      <3>2. CASE Saved
        <4>1. told' \in BOOLEAN
          BY <3>2 DEF Saved
        <4>2. page = "saving" /\ page' = "ready" /\ (told' => upc[saving] = "ok")
          BY <3>2 DEF Saved
        <4> QED BY <1>0, <2>1, <4>1, <4>2 DEF PanelTypeOK, SaveShape
      <3> QED BY <1>1, <3>1, <3>2 DEF PanelStep
    <2>3. AskedShape' /\ AnswerShape'
      BY <1>0, <2>1 DEF AskedShape, AnswerShape, Asked
    <2> QED BY <2>2, <2>3 DEF PanelInv
  <1>2. ASSUME NEW r \in Puts, NEW b \in Bodies, Put(r, b)
        PROVE  AnswerShape'
    BY <1>0, <1>2, PutStores DEF AnswerShape
  <1>3. ASSUME NEW r \in Puts, NEW b \in Bodies, Save(r, b) PROVE PanelInv'
    <2>1. /\ form' \in Bodies /\ Put(r, form')
          /\ saving' = r /\ told' = FALSE /\ page' = "saving"
      BY <1>3, SaveIsPut DEF Save
    <2>2. r # Null
      BY PanelAssumption
    <2>3. upc'[r] \notin {"idle", "ok"} /\ stored' = ConfigOf(form', r)
      BY <1>0, <2>1, PutStores
    <2>4. PanelTypeOK' /\ SaveShape'
      BY <1>0, <2>1, <2>2, <2>3 DEF PanelTypeOK, SaveShape
    <2>5. AskedShape'
      BY <2>1, <2>3 DEF AskedShape, Asked
    <2> QED BY <1>2, <2>1, <2>4, <2>5 DEF PanelInv
  <1>4. CASE [ReconfigNext]_allVars /\ UNCHANGED panelVars
    <2> USE DEF panelVars
    <2>1. PanelTypeOK'
      BY <1>0, <1>4 DEF PanelTypeOK
    <2>2. ASSUME NEW r \in Puts, NEW b \in Bodies, Put(r, b)
          PROVE  SaveShape' /\ AskedShape'
      <3>1. saving # Null => r # saving /\ upc'[saving] = upc[saving]
        BY <1>0, <2>2, PutStores DEF SaveShape, PanelTypeOK
      <3>2. stored'.updatedAt = r /\ answer' = answer
        BY <1>0, <2>2, PutStores
      <3> QED BY <1>0, <1>4, <3>1, <3>2 DEF SaveShape, AskedShape, Asked
    <2>3. CASE ~ \E r \in Puts, b \in Bodies : Put(r, b)
      <3>1. /\ stored' = stored /\ overlapped' = overlapped
            /\ \A s \in Puts :
                  \/ upc'[s] = upc[s] /\ answer'[s] = answer[s]
                  \/ /\ upc[s] \in InProgress /\ upc'[s] # "idle"
                     /\ upc'[s] = "ok" => answer'[s] = stored
        BY <1>4, <2>3, PodAnswers
      <3>2. SaveShape'
        BY <1>0, <1>4, <3>1 DEF SaveShape, PanelTypeOK, InProgress
      <3>3. AskedShape'
        BY <1>0, <1>4, <3>1 DEF AskedShape, Asked, PanelTypeOK
      <3>4. AnswerShape'
        <4>1. ASSUME NEW s \in Puts, upc[s] \in InProgress
              PROVE  stored.updatedAt = s \/ overlapped
          BY <4>1 DEF ReconfigInv, TurnShape, Busy
        <4> QED BY <1>0, <3>1, <4>1 DEF AnswerShape
      <3> QED BY <2>1, <3>2, <3>3, <3>4 DEF PanelInv
    <2> QED BY <1>2, <2>1, <2>2, <2>3 DEF PanelInv
  <1>5. CASE UNCHANGED allPanelVars
    BY <1>4, <1>5 DEF allPanelVars
  <1> QED BY <1>1, <1>3, <1>4, <1>5 DEF PanelNext

\* With the admin page in front of it, the pod behaves as it does with the
\* requests of anybody (MessageBrokerPluginPanel.tsx over the admin route).
THEOREM PanelImplementsReconfig == PanelSpec => ReconfigSpec
  <1>1. PanelInit => ReconfigInit
    BY DEF PanelInit
  <1>2. [PanelNext]_allPanelVars => [ReconfigNext]_allVars
    BY PanelStepsPod
  <1> QED BY <1>1, <1>2, PTL DEF PanelSpec, ReconfigSpec

\* A Save that the form calls successful was answered with what was asked for,
\* unless another request overlapped it, and it stays stored and, as long as
\* requests come one at a time, in force until another request is stored.
THEOREM PanelCorrect == PanelSpec => []SavedIsInForce
  <1>1. PanelInit => PanelInv
    <2> SUFFICES ASSUME PanelInit PROVE PanelInv
      OBVIOUS
    <2>1. form \in Bodies
      BY PanelAssumption DEF PanelInit, FormDefault, Bodies, Providers
    <2>2. \A r \in Puts : upc[r] = "idle"
      BY DEF PanelInit, ReconfigInit
    <2> QED BY <2>1, <2>2 DEF PanelInit, PanelInv, PanelTypeOK, SaveShape, AskedShape, AnswerShape
  <1>2. ReconfigInv /\ PanelInv /\ [PanelNext]_allPanelVars => PanelInv'
    BY PanelKeeps
  <1>3. ReconfigInv /\ PanelInv => SavedIsInForce
    <2> SUFFICES ASSUME ReconfigInv, PanelInv, told PROVE SavedIsInForce
      BY DEF SavedIsInForce
    <2>1. saving \in Puts /\ saving # Null /\ upc[saving] = "ok"
      BY DEF PanelInv, PanelTypeOK, SaveShape
    <2>2. answer[saving] = Asked \/ (overlapped /\ answer[saving].updatedAt # saving)
      BY <2>1 DEF PanelInv, AskedShape, AnswerShape
    <2>3. stored.updatedAt = saving => stored = Asked
      BY <2>1 DEF PanelInv, AskedShape
    <2> QED BY <2>2, <2>3 DEF SavedIsInForce, ReconfigInv, TurnShape
  <1> QED BY <1>1, <1>2, <1>3, PanelImplementsReconfig, ReconfigCorrect, PTL DEF PanelSpec

\* So what is proved of a pod under any requests holds behind the page: one
\* worker at a time, the last Save in force, no event lost or out of order.
THEOREM PanelPromises ==
  PanelSpec => /\ [](OneWorker /\ InForceBetweenPuts)
               /\ [](PublishedReachedKafka /\ FirstCopiesInOrder)
               /\ ImplementsDelivery
  <1>1. ReconfigInv => PublishedReachedKafka /\ FirstCopiesInOrder
    BY DEF ReconfigInv, OutboxInv
  <1> QED BY <1>1, PanelImplementsReconfig, ReconfigCorrect, OneWorkerCorrect, InForceCorrect,
             ReconfigImplementsDelivery, PTL
=============================================================================
