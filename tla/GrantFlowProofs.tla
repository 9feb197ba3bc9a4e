---------------------------- MODULE GrantFlowProofs ----------------------------
(***************************************************************************)
(* Proofs about Idempotency and about GrantFlow in front of it, for any    *)
(* number of attempts, of this flow and of others, and of keys.  First,    *)
(* what the plugin promises for a key whose attempts did not overlap and   *)
(* whose answer Redis kept, and what it promises in every case.  Then the  *)
(* flow: the plugin behind the page takes its own steps or none, so all of *)
(* that holds there too; the rest is that the page knows of each of its    *)
(* attempts what came of it, and that an attempt whose handler ran is      *)
(* answered from that run.                                                 *)
(***************************************************************************)
EXTENDS GrantFlow, TLAPS

USE IdempotencyAssumption

LEMMA IdemStarts == Init => IdemInv
  BY DEF Init, IdemInv, IdemTypeOK, AttemptShape, ReplyShape, TurnOfKey, Live, InFlight, Replies

LEMMA TypeStep == IdemTypeOK /\ AttemptShape /\ [Next]_idemVars => IdemTypeOK'
  <1> SUFFICES ASSUME IdemTypeOK, AttemptShape, [Next]_idemVars PROVE IdemTypeOK'
    OBVIOUS
  <1> USE DEF IdemTypeOK, IdemGoTo, Disturb, InFlight
  <1>1. ASSUME NEW a \in Attempts, NEW k \in Keys, Arrive(a, k) PROVE IdemTypeOK'
    BY <1>1 DEF Arrive
  <1>2. ASSUME NEW a \in Attempts, Lookup(a) PROVE IdemTypeOK'
    BY <1>2 DEF Lookup, AttemptShape
  <1>3. ASSUME NEW a \in Attempts, LookupFails(a) PROVE IdemTypeOK'
    BY <1>3 DEF LookupFails
  <1>4. ASSUME NEW a \in Attempts, RunHandler(a) PROVE IdemTypeOK'
    BY <1>4 DEF RunHandler, Replies
  <1>5. ASSUME NEW a \in Attempts, Store(a) PROVE IdemTypeOK'
    BY <1>5 DEF Store, AttemptShape, Replies
  <1>6. ASSUME NEW a \in Attempts, StoreFails(a) PROVE IdemTypeOK'
    BY <1>6 DEF StoreFails, AttemptShape, Replies
  <1>7. ASSUME NEW a \in Attempts, Send(a) PROVE IdemTypeOK'
    BY <1>7 DEF Send
  <1>8. ASSUME NEW a \in Attempts, Die(a) PROVE IdemTypeOK'
    BY <1>8 DEF Die, AttemptShape
  <1>9. ASSUME NEW k \in Keys, Forget(k) PROVE IdemTypeOK'
    BY <1>9 DEF Forget
  <1> QED BY <1>1, <1>2, <1>3, <1>4, <1>5, <1>6, <1>7, <1>8, <1>9 DEF Next, Go, idemVars

LEMMA ArriveKeeps ==
  ASSUME IdemInv, NEW a \in Attempts, NEW k \in Keys, Arrive(a, k)
  PROVE  AttemptShape' /\ ReplyShape' /\ TurnOfKey'
  <1> USE DEF Arrive, IdemGoTo, Disturb
  <1>1. IdemTypeOK /\ AttemptShape /\ ReplyShape /\ TurnOfKey
    BY DEF IdemInv
  <1>2. AttemptShape'
    BY <1>1 DEF IdemTypeOK, AttemptShape, InFlight
  <1>3. ReplyShape'
    BY <1>1 DEF IdemTypeOK, AttemptShape, ReplyShape, InFlight, Replies
  <1>4. TurnOfKey'
    BY <1>1 DEF IdemTypeOK, AttemptShape, TurnOfKey, Live, InFlight, Replies
  <1> QED BY <1>2, <1>3, <1>4

LEMMA LookupKeeps ==
  ASSUME IdemInv, NEW a \in Attempts, Lookup(a)
  PROVE  AttemptShape' /\ ReplyShape' /\ TurnOfKey'
  <1> USE DEF Lookup, IdemGoTo, Disturb
  <1>1. IdemTypeOK /\ AttemptShape /\ ReplyShape /\ TurnOfKey
    BY DEF IdemInv
  <1>2. AttemptShape'
    BY <1>1 DEF IdemTypeOK, AttemptShape, InFlight
  <1>3. ReplyShape'
    BY <1>1 DEF IdemTypeOK, AttemptShape, ReplyShape, InFlight, Replies
  <1>4. TurnOfKey'
    BY <1>1 DEF IdemTypeOK, AttemptShape, TurnOfKey, Live, InFlight, Replies
  <1> QED BY <1>2, <1>3, <1>4

LEMMA LookupFailsKeeps ==
  ASSUME IdemInv, NEW a \in Attempts, LookupFails(a)
  PROVE  AttemptShape' /\ ReplyShape' /\ TurnOfKey'
  <1> USE DEF LookupFails, IdemGoTo, Disturb
  <1>1. IdemTypeOK /\ AttemptShape /\ ReplyShape /\ TurnOfKey
    BY DEF IdemInv
  <1>2. AttemptShape'
    BY <1>1 DEF IdemTypeOK, AttemptShape, InFlight
  <1>3. ReplyShape'
    BY <1>1 DEF IdemTypeOK, AttemptShape, ReplyShape, InFlight, Replies, Refused
  <1>4. TurnOfKey'
    BY <1>1 DEF IdemTypeOK, AttemptShape, TurnOfKey, Live, InFlight, Replies
  <1> QED BY <1>2, <1>3, <1>4

LEMMA RunHandlerKeeps ==
  ASSUME IdemInv, NEW a \in Attempts, RunHandler(a)
  PROVE  AttemptShape' /\ ReplyShape' /\ TurnOfKey'
  <1> USE DEF RunHandler, IdemGoTo, Disturb
  <1>1. IdemTypeOK /\ AttemptShape /\ ReplyShape /\ TurnOfKey
    BY DEF IdemInv
  <1>2. AttemptShape'
    BY <1>1 DEF IdemTypeOK, AttemptShape, InFlight
  <1>3. ReplyShape'
    <2>1. PICK s \in {"success", "error"}, m \in BOOLEAN :
             /\ s = "success" => m
             /\ answer'  = [answer EXCEPT ![a] = [by |-> a, status |-> s]]
             /\ mutated' = IF m THEN mutated \cup {a} ELSE mutated
      OBVIOUS
    <2>2. \A b \in Attempts \ {a} : answer'[b] = answer[b]
      BY <1>1, <2>1 DEF IdemTypeOK
    <2>3. /\ answer'[a].by = a
          /\ answer'[a].status = "success" => a \in mutated'
      BY <1>1, <2>1 DEF IdemTypeOK
    <2>4. mutated \subseteq mutated' /\ ran' = ran \cup {a} /\ keyOf' = keyOf /\ cached' = cached
      BY <2>1
    <2> QED BY <1>1, <2>2, <2>3, <2>4 DEF ReplyShape
  <1>4. TurnOfKey'
    BY <1>1 DEF IdemTypeOK, AttemptShape, TurnOfKey, Live, InFlight, Replies
  <1> QED BY <1>2, <1>3, <1>4

LEMMA StoreKeeps ==
  ASSUME IdemInv, NEW a \in Attempts, Store(a)
  PROVE  AttemptShape' /\ ReplyShape' /\ TurnOfKey'
  <1> USE DEF Store, IdemGoTo, Disturb
  <1>1. IdemTypeOK /\ AttemptShape /\ ReplyShape /\ TurnOfKey
    BY DEF IdemInv
  <1>2. AttemptShape'
    BY <1>1 DEF IdemTypeOK, AttemptShape, InFlight, Replies
  <1>3. ReplyShape'
    BY <1>1 DEF IdemTypeOK, AttemptShape, ReplyShape, InFlight, Replies
  <1>4. TurnOfKey'
    BY <1>1 DEF IdemTypeOK, AttemptShape, TurnOfKey, Live, InFlight, Replies
  <1> QED BY <1>2, <1>3, <1>4

LEMMA StoreFailsKeeps ==
  ASSUME IdemInv, NEW a \in Attempts, StoreFails(a)
  PROVE  AttemptShape' /\ ReplyShape' /\ TurnOfKey'
  <1> USE DEF StoreFails, IdemGoTo, Disturb
  <1>1. IdemTypeOK /\ AttemptShape /\ ReplyShape /\ TurnOfKey
    BY DEF IdemInv
  <1>2. AttemptShape'
    <2>1. CASE ipc[a] = "set"
      BY <1>1, <2>1 DEF IdemTypeOK, AttemptShape, Replies
    <2>2. CASE ipc[a] = "setError"
      BY <1>1, <2>2 DEF IdemTypeOK, AttemptShape, Replies
    <2> QED BY <2>1, <2>2
  <1>3. ReplyShape'
    BY <1>1 DEF IdemTypeOK, AttemptShape, ReplyShape, InFlight, Replies
  <1>4. TurnOfKey'
    BY <1>1 DEF IdemTypeOK, AttemptShape, TurnOfKey, Live, InFlight, Replies
  <1> QED BY <1>2, <1>3, <1>4

LEMMA SendKeeps ==
  ASSUME IdemInv, NEW a \in Attempts, Send(a)
  PROVE  AttemptShape' /\ ReplyShape' /\ TurnOfKey'
  <1> USE DEF Send, IdemGoTo, Disturb
  <1>1. IdemTypeOK /\ AttemptShape /\ ReplyShape /\ TurnOfKey
    BY DEF IdemInv
  <1>2. AttemptShape'
    BY <1>1 DEF IdemTypeOK, AttemptShape, InFlight
  <1>3. ReplyShape'
    BY <1>1 DEF IdemTypeOK, AttemptShape, ReplyShape, InFlight, Replies
  <1>4. TurnOfKey'
    BY <1>1 DEF IdemTypeOK, AttemptShape, TurnOfKey, Live, InFlight, Replies
  <1> QED BY <1>2, <1>3, <1>4

LEMMA DieKeeps ==
  ASSUME IdemInv, NEW a \in Attempts, Die(a)
  PROVE  AttemptShape' /\ ReplyShape' /\ TurnOfKey'
  <1> USE DEF Die, IdemGoTo, Disturb
  <1>1. IdemTypeOK /\ AttemptShape /\ ReplyShape /\ TurnOfKey
    BY DEF IdemInv
  <1>2. AttemptShape'
    BY <1>1 DEF IdemTypeOK, AttemptShape, InFlight
  <1>3. ReplyShape'
    BY <1>1 DEF IdemTypeOK, AttemptShape, ReplyShape, InFlight, Replies
  <1>4. TurnOfKey'
    BY <1>1 DEF IdemTypeOK, AttemptShape, TurnOfKey, Live, InFlight, Replies
  <1> QED BY <1>2, <1>3, <1>4

LEMMA ForgetKeeps ==
  ASSUME IdemInv, NEW k \in Keys, Forget(k)
  PROVE  AttemptShape' /\ ReplyShape' /\ TurnOfKey'
  <1> USE DEF Forget, IdemGoTo, Disturb
  <1>1. IdemTypeOK /\ AttemptShape /\ ReplyShape /\ TurnOfKey
    BY DEF IdemInv
  <1>2. AttemptShape'
    BY <1>1 DEF IdemTypeOK, AttemptShape, InFlight
  <1>3. ReplyShape'
    BY <1>1 DEF IdemTypeOK, AttemptShape, ReplyShape, InFlight, Replies
  <1>4. TurnOfKey'
    BY <1>1 DEF IdemTypeOK, AttemptShape, TurnOfKey, Live, InFlight, Replies
  <1> QED BY <1>2, <1>3, <1>4

-----------------------------------------------------------------------------
LEMMA IdemStep == IdemInv /\ [Next]_idemVars => IdemInv'
  <1> SUFFICES ASSUME IdemInv, [Next]_idemVars PROVE IdemInv'
    OBVIOUS
  <1>1. IdemTypeOK'
    BY TypeStep DEF IdemInv
  <1>2. ASSUME Next PROVE AttemptShape' /\ ReplyShape' /\ TurnOfKey'
    BY <1>2, ArriveKeeps, LookupKeeps, LookupFailsKeeps, RunHandlerKeeps, StoreKeeps,
       StoreFailsKeeps, SendKeeps, DieKeeps, ForgetKeeps DEF Next, Go
  <1>3. ASSUME UNCHANGED idemVars PROVE AttemptShape' /\ ReplyShape' /\ TurnOfKey'
    BY <1>3 DEF idemVars, IdemInv, AttemptShape, ReplyShape, TurnOfKey, Live
  <1> QED BY <1>1, <1>2, <1>3 DEF IdemInv

LEMMA IdemAlways == Spec => []IdemInv
  BY IdemStarts, IdemStep, PTL DEF Spec

\* The handler runs at most once for a key whose attempts came one after
\* another and whose answer Redis took and kept (pkg/idempotency).
THEOREM RunsOnceCorrect == Spec => []RunsOnceUnlessDisturbed
  <1>1. IdemInv => RunsOnceUnlessDisturbed
    <2> SUFFICES ASSUME IdemInv, NEW a \in ran, NEW b \in ran,
                        keyOf[a] = keyOf[b], keyOf[a] \notin disturbed
                 PROVE  a = b
      BY DEF RunsOnceUnlessDisturbed
    <2> DEFINE k == keyOf[a]
    <2>1. a \in Attempts /\ b \in Attempts /\ k \in Keys \ disturbed
      BY DEF IdemInv, IdemTypeOK, AttemptShape
    <2>2. CASE ipc[a] \in {"set", "setError"} \/ ipc[b] \in {"set", "setError"}
      <3>1. cached[k] = Null
        BY <2>1, <2>2 DEF IdemInv, TurnOfKey
      <3>2. ipc[a] \in {"set", "setError"} /\ ipc[b] \in {"set", "setError"}
        BY <2>1, <3>1 DEF IdemInv, TurnOfKey
      <3> QED BY <2>1, <3>2 DEF IdemInv, TurnOfKey, Live, InFlight
    <2>3. CASE ~(ipc[a] \in {"set", "setError"} \/ ipc[b] \in {"set", "setError"})
      <3>1. cached[k].by = a /\ cached[k].by = b
        BY <2>1, <2>3 DEF IdemInv, TurnOfKey
      <3> QED BY <3>1
    <2> QED BY <2>2, <2>3
  <1> QED BY <1>1, IdemAlways, PTL

\* Under the same conditions everyone who is answered from a handler gets the
\* same answer (pkg/idempotency, replay and store).
THEOREM SameAnswerCorrect == Spec => []SameAnswerUnlessDisturbed
  <1>1. IdemInv => SameAnswerUnlessDisturbed
    <2> SUFFICES ASSUME IdemInv, NEW a \in Attempts, NEW b \in Attempts,
                        ipc[a] = "answered", answer[a] # Refused,
                        ipc[b] = "answered", answer[b] # Refused,
                        keyOf[a] = keyOf[b], keyOf[a] \notin disturbed
                 PROVE  answer[a] = answer[b]
      BY DEF SameAnswerUnlessDisturbed
    <2>1. keyOf[a] \in Keys \ disturbed
      BY DEF IdemInv, IdemTypeOK, AttemptShape
    <2> QED BY <2>1 DEF IdemInv, TurnOfKey
  <1> QED BY <1>1, IdemAlways, PTL

\* A success is of a committed mutation for the client's own key, whatever
\* overlapped, failed or was lost (pkg/idempotency with the handlers).
THEOREM SuccessCorrect == Spec => []SuccessIsOfMutation
  <1>1. IdemInv => SuccessIsOfMutation
    <2> SUFFICES ASSUME IdemInv, NEW a \in Attempts,
                        ipc[a] = "answered", answer[a].status = "success"
                 PROVE  answer[a].by \in mutated /\ keyOf[answer[a].by] = keyOf[a]
      BY DEF SuccessIsOfMutation
    <2>1. answer[a] \in Replies
      BY DEF IdemInv, IdemTypeOK, AttemptShape, Refused
    <2> QED BY <2>1 DEF IdemInv, ReplyShape
  <1> QED BY <1>1, IdemAlways, PTL

-----------------------------------------------------------------------------

LEMMA FlowStarts == FlowInit => FlowInv
  <1> SUFFICES ASSUME FlowInit PROVE FlowInv
    OBVIOUS
  <1>1. IdemInv
    BY IdemStarts DEF FlowInit
  <1>2. FlowTypeOK /\ OwnRun /\ FlowShape /\ SubmitsKnown
    BY FlowAssumption DEF FlowInit, Init, FlowTypeOK, OwnRun, FlowShape, SubmitsKnown, loading
  <1> QED BY <1>1, <1>2 DEF FlowInv

\* A step of the flow is a step of the plugin, or none.
LEMMA FlowStepsPlugin ==
  ASSUME [FlowNext]_allFlowVars
  PROVE  [Next]_idemVars
  <1> USE DEF Next
  <1>1. ASSUME Browse PROVE UNCHANGED idemVars
    BY <1>1 DEF Browse, Review, Dismiss, Proceed, Back, Toggle, NotNow, Done, GoTo, Leave
  <1>2. ASSUME Granted \/ Rejected \/ Disconnected PROVE UNCHANGED idemVars
    BY <1>2 DEF Granted, Rejected, Disconnected, Reject
  <1>3. ASSUME NEW a \in Submits, NEW k \in Keys, Submit(a, k) PROVE Next
    BY <1>3, FlowAssumption DEF Submit
  <1>4. ASSUME UNCHANGED allFlowVars PROVE UNCHANGED idemVars
    BY <1>4 DEF allFlowVars
  <1> QED BY <1>1, <1>2, <1>3, <1>4 DEF FlowNext

\* What a step of the plugin leaves of an attempt that arrived: its key, its
\* answer once it is answered, and that it ran.
LEMMA AttemptsKeep ==
  ASSUME IdemInv, OwnRun, [Next]_idemVars
  PROVE  /\ OwnRun'
         /\ \A b \in Attempts : ipc[b] = "answered" => ipc'[b] = "answered" /\ answer'[b] = answer[b]
  <1> DEFINE Kept == \A b \in Attempts :
                        ipc[b] = "answered" => ipc'[b] = "answered" /\ answer'[b] = answer[b]
  <1> USE DEF IdemGoTo
  <1>0. IdemTypeOK /\ AttemptShape
    BY DEF IdemInv
  <1>1. ASSUME NEW a \in Attempts, NEW k \in Keys, Arrive(a, k) PROVE OwnRun' /\ Kept
    BY <1>0, <1>1 DEF Arrive, OwnRun, IdemTypeOK
  <1>2. ASSUME NEW a \in Attempts, Lookup(a) PROVE OwnRun' /\ Kept
    BY <1>0, <1>2 DEF Lookup, OwnRun, IdemTypeOK, AttemptShape
  <1>3. ASSUME NEW a \in Attempts, LookupFails(a) PROVE OwnRun' /\ Kept
    BY <1>0, <1>3 DEF LookupFails, OwnRun, IdemTypeOK, AttemptShape
  <1>4. ASSUME NEW a \in Attempts, RunHandler(a) PROVE OwnRun' /\ Kept
    <2>1. PICK s \in {"success", "error"} : answer' = [answer EXCEPT ![a] = [by |-> a, status |-> s]]
      BY <1>4 DEF RunHandler
    <2>2. answer'[a].by = a
      BY <1>0, <2>1 DEF IdemTypeOK
    <2>3. \A b \in Attempts \ {a} : answer'[b] = answer[b] /\ ipc'[b] = ipc[b]
      BY <1>0, <1>4, <2>1 DEF IdemTypeOK, RunHandler
    <2>4. ran' = ran \cup {a} /\ ipc[a] = "handler" /\ ran \subseteq Attempts
      BY <1>0, <1>4 DEF IdemTypeOK, RunHandler
    <2> QED BY <2>2, <2>3, <2>4 DEF OwnRun
  <1>5. ASSUME NEW a \in Attempts, Store(a) PROVE OwnRun' /\ Kept
    BY <1>0, <1>5 DEF Store, OwnRun, IdemTypeOK
  <1>6. ASSUME NEW a \in Attempts, StoreFails(a) PROVE OwnRun' /\ Kept
    <2>1. CASE ipc[a] = "set"
      BY <1>0, <1>6, <2>1 DEF StoreFails, OwnRun, IdemTypeOK
    <2>2. CASE ipc[a] = "setError"
      BY <1>0, <1>6, <2>2 DEF StoreFails, OwnRun, IdemTypeOK
    <2> QED BY <1>6, <2>1, <2>2 DEF StoreFails
  <1>7. ASSUME NEW a \in Attempts, Send(a) PROVE OwnRun' /\ Kept
    BY <1>0, <1>7 DEF Send, OwnRun, IdemTypeOK
  <1>8. ASSUME NEW a \in Attempts, Die(a) PROVE OwnRun' /\ Kept
    BY <1>0, <1>8 DEF Die, OwnRun, IdemTypeOK, InFlight
  <1>9. ASSUME NEW k \in Keys, Forget(k) PROVE OwnRun' /\ Kept
    BY <1>0, <1>9 DEF Forget, OwnRun
  <1>10. ASSUME UNCHANGED idemVars PROVE OwnRun' /\ Kept
    BY <1>10 DEF idemVars, OwnRun
  <1> QED BY <1>1, <1>2, <1>3, <1>4, <1>5, <1>6, <1>7, <1>8, <1>9, <1>10 DEF Next, Go

\* Only an arrival gives an attempt a key.
LEMMA KeysKeep ==
  ASSUME IdemInv, [FlowNext]_allFlowVars, ~\E a \in Submits, k \in Keys : Submit(a, k)
  PROVE  \A b \in Submits : keyOf'[b] = keyOf[b]
  <1>0. keyOf \in [Attempts -> Keys \cup {Null}]
    BY DEF IdemInv, IdemTypeOK
  <1>1. ASSUME NEW a \in Attempts \ Submits, NEW k \in Keys, Arrive(a, k)
        PROVE  \A b \in Submits : keyOf'[b] = keyOf[b]
    BY <1>0, <1>1, FlowAssumption DEF Arrive
  <1>2. ASSUME NEW a \in Attempts, Go(a) \/ Die(a) PROVE keyOf' = keyOf
    BY <1>2 DEF Go, Lookup, LookupFails, RunHandler, Store, StoreFails, Send, Die
  <1>3. ASSUME NEW k \in Keys, Forget(k) PROVE keyOf' = keyOf
    BY <1>3 DEF Forget
  <1>4. ASSUME Browse PROVE keyOf' = keyOf
    BY <1>4 DEF Browse, Review, Dismiss, Proceed, Back, Toggle, NotNow, Done, GoTo, Leave, idemVars
  <1>5. ASSUME Granted \/ Rejected \/ Disconnected PROVE keyOf' = keyOf
    BY <1>5 DEF Granted, Rejected, Disconnected, Reject, idemVars
  <1>6. ASSUME UNCHANGED allFlowVars PROVE keyOf' = keyOf
    BY <1>6 DEF allFlowVars, idemVars
  <1> QED BY <1>1, <1>2, <1>3, <1>4, <1>5, <1>6 DEF FlowNext

-----------------------------------------------------------------------------
LEMMA FlowStep == FlowInv /\ [FlowNext]_allFlowVars => FlowInv'
  <1> SUFFICES ASSUME FlowInv, [FlowNext]_allFlowVars PROVE FlowInv'
    OBVIOUS
  <1>0. IdemInv /\ IdemTypeOK /\ AttemptShape /\ ReplyShape /\ FlowTypeOK /\ OwnRun /\ FlowShape
        /\ SubmitsKnown
    BY DEF FlowInv, IdemInv
  <1>1. [Next]_idemVars
    BY FlowStepsPlugin
  <1>2. IdemInv' /\ OwnRun'
    BY <1>0, <1>1, IdemStep, AttemptsKeep
  <1>3. \A b \in Submits : ipc[b] = "answered" => ipc'[b] = "answered" /\ answer'[b] = answer[b]
    BY <1>0, <1>1, AttemptsKeep, FlowAssumption
  <1> DEFINE Rest == FlowTypeOK' /\ FlowShape' /\ SubmitsKnown'
  <1>4. \A b \in Attempts : ipc[b] = "answered" /\ answer[b].status = "success" =>
           answer[b].by \in Attempts
    BY <1>0 DEF IdemTypeOK, AttemptShape, Refused, Replies
  <1>5. ASSUME NEW a \in Submits, NEW k \in Keys, Submit(a, k) PROVE Rest
    <2>1. \A b \in Submits \ {a} : keyOf'[b] = keyOf[b]
      BY <1>0, <1>5, FlowAssumption DEF Submit, Arrive, IdemTypeOK
    <2>2. /\ step = "confirm" /\ step' = step /\ awaited = Null /\ awaited' = a
          /\ consentId' = consentId /\ rejected' = rejected
      BY <1>5 DEF Submit, loading
    <2>3. FlowTypeOK'
      BY <1>0, <1>5, <2>2 DEF Submit, FlowTypeOK
    <2>4. FlowShape'
      BY <1>0, <2>2 DEF FlowShape, loading
    <2>5. ASSUME NEW b \in Submits \ {a}, keyOf[b] # Null PROVE b \in rejected
      BY <1>0, <1>4, <2>2, <2>5, FlowAssumption, IdempotencyAssumption DEF SubmitsKnown, FlowShape
    <2> QED BY <2>1, <2>2, <2>3, <2>4, <2>5 DEF SubmitsKnown
  <1>6. ASSUME ~\E a \in Submits, k \in Keys : Submit(a, k) PROVE Rest
    <2>0. \A b \in Submits : keyOf'[b] = keyOf[b]
      BY <1>0, <1>6, KeysKeep
    <2>1. CASE Granted
      <3>1. awaited \in Submits /\ awaited # Null /\ step # "left"
        BY <1>0, <2>1 DEF Granted, loading, FlowTypeOK, FlowShape
      <3>2. answer[awaited].by \in Attempts
        BY <1>4, <2>1, <3>1, FlowAssumption DEF Granted
      <3>3. consentId = Null
        BY <1>0, <2>1, <3>1 DEF FlowShape, FlowTypeOK, loading
      <3>4. FlowTypeOK' /\ FlowShape'
        BY <1>0, <2>1, <3>2 DEF Granted, FlowTypeOK, FlowShape, loading
      <3>5. ASSUME NEW b \in Submits, keyOf[b] # Null, b # awaited PROVE b \in rejected
        BY <1>0, <1>4, <3>1, <3>3, <3>5, FlowAssumption, IdempotencyAssumption DEF SubmitsKnown
      <3>6. /\ ipc'[awaited] = "answered" /\ answer'[awaited] = answer[awaited]
            /\ answer[awaited].status = "success"
        BY <1>3, <2>1, <3>1 DEF Granted
      <3>7. consentId' = answer[awaited].by /\ rejected' = rejected
        BY <2>1 DEF Granted
      <3> QED BY <2>0, <3>4, <3>5, <3>6, <3>7 DEF SubmitsKnown
    <2>2. CASE Rejected \/ Disconnected
      <3>1. loading /\ Reject(awaited)
        BY <2>2 DEF Rejected, Disconnected
      <3>2. FlowTypeOK' /\ FlowShape'
        BY <1>0, <3>1 DEF Reject, FlowTypeOK, FlowShape, loading
      <3> QED BY <1>0, <1>3, <2>0, <3>1, <3>2 DEF SubmitsKnown, Reject
    <2>3. CASE Browse
      <3>1. CASE Dismiss \/ Done
        BY <1>0, <3>1 DEF Dismiss, Done, Leave, FlowTypeOK, FlowShape, SubmitsKnown, loading
      <3>2. CASE Toggle
        BY <1>0, <1>3, <2>0, <3>2 DEF Toggle, FlowTypeOK, FlowShape, SubmitsKnown, loading
      <3>3. CASE Review \/ Proceed \/ Back \/ NotNow
        <4>1. /\ step \in {"notice", "detail", "confirm"} /\ step' \in {"notice", "detail", "confirm"}
              /\ error' = FALSE /\ UNCHANGED <<ticked, awaited, consentId, rejected>>
          BY <3>3 DEF Review, Proceed, Back, NotNow, GoTo
        <4> QED BY <1>0, <1>3, <2>0, <4>1 DEF FlowTypeOK, FlowShape, SubmitsKnown, loading
      <3> QED BY <2>3, <3>1, <3>2, <3>3 DEF Browse
    <2>4. CASE UNCHANGED flowVars
      BY <1>0, <1>3, <2>0, <2>4 DEF flowVars, FlowTypeOK, FlowShape, SubmitsKnown, loading
    <2> QED BY <1>6, <2>1, <2>2, <2>3, <2>4 DEF FlowNext, allFlowVars
  <1> QED BY <1>2, <1>5, <1>6 DEF FlowInv

\* The inductive invariant of the flow in front of the plugin.
THEOREM FlowCorrect == FlowSpec => []FlowInv
  BY FlowStarts, FlowStep, PTL DEF FlowSpec

\* However its user goes back and forth, and whatever fails, no consent that
\* was granted through the flow is unknown to its page (GrantFlow.tsx).
THEOREM GrantsCorrect == FlowSpec => []GrantsAreAccountedFor
  <1>1. FlowInv => GrantsAreAccountedFor
    <2> SUFFICES ASSUME FlowInv, step # "left", NEW a \in mutated \cap Submits
                 PROVE  a \in {awaited, consentId} \cup rejected
      BY DEF GrantsAreAccountedFor
    <2>1. a \in ran /\ a \in Attempts /\ keyOf[a] # Null
      BY DEF FlowInv, IdemInv, IdemTypeOK, AttemptShape
    <2>2. ipc[a] = "answered" => answer[a].by = a
      BY <2>1 DEF FlowInv, OwnRun
    <2> QED BY <2>1, <2>2 DEF FlowInv, SubmitsKnown
  <1> QED BY <1>1, FlowCorrect, PTL

\* With the page in front of it, the plugin behaves as it does alone: the page
\* makes no step of its own of it (GrantFlow.tsx over pkg/idempotency).
THEOREM FlowImplementsPlugin == FlowSpec => Spec
  <1>1. FlowInit => Init
    BY DEF FlowInit
  <1>2. [FlowNext]_allFlowVars => [Next]_idemVars
    BY FlowStepsPlugin
  <1> QED BY <1>1, <1>2, PTL DEF FlowSpec, Spec

\* So what the plugin promises for undisturbed keys, and of a success in every
\* case, it promises to the page.
THEOREM FlowPromises ==
  FlowSpec => [](RunsOnceUnlessDisturbed /\ SameAnswerUnlessDisturbed /\ SuccessIsOfMutation)
  BY FlowImplementsPlugin, RunsOnceCorrect, SameAnswerCorrect, SuccessCorrect, PTL
=============================================================================
