---------------------------- MODULE EventDelivery ----------------------------
(***************************************************************************)
(* What a transactional outbox promises of each event, whatever workers,   *)
(* brokers and pods do: only what has committed reaches Kafka, an event is *)
(* retired from the outbox only after Kafka has it, none of this is ever   *)
(* undone, and every committed event gets there.                           *)
(***************************************************************************)
CONSTANT Events

VARIABLES
    committed,  \* the events whose transaction has committed
    inKafka,    \* the events Kafka has, however many times
    retired     \* the events the outbox will not offer again

deliveryVars == <<committed, inKafka, retired>>

Init == committed = {} /\ inKafka = {} /\ retired = {}

Commit(e) ==
    /\ e \notin committed
    /\ committed' = committed \cup {e}
    /\ UNCHANGED <<inKafka, retired>>

Deliver(S) ==
    /\ S \subseteq committed
    /\ inKafka' = inKafka \cup S
    /\ UNCHANGED <<committed, retired>>

Retire(e) ==
    /\ e \in inKafka
    /\ retired' = retired \cup {e}
    /\ UNCHANGED <<committed, inKafka>>

Next ==
    \/ \E e \in Events : Commit(e) \/ Retire(e)
    \/ \E S \in SUBSET Events : Deliver(S)

Safety == Init /\ [][Next]_deliveryVars

Spec == Safety /\ \A e \in Events : (e \in committed) ~> (e \in retired)
=============================================================================
