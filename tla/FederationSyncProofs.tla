------------------------- MODULE FederationSyncProofs -------------------------
(***************************************************************************)
(* Proofs about FederationSync, for any number of posts, peers and cursors *)
(* and any interleaving and failure of their statements.                   *)
(***************************************************************************)
EXTENDS FederationSync, TLAPS

USE FederationAssumption

LEMMA FedStarts == Init => FedInv
  BY DEF Init, FedInv, FedTypeOK, PostShape, CursorShape, CursorIsOfLoggedPost,
         AnswerMatchesTables, LiveOf, InFlight

-----------------------------------------------------------------------------
(***************************************************************************)
(* What a statement does, taken or not, whoever waits for it.              *)
(***************************************************************************)
\* A post past its arrival has a body.
LEMMA HasBody ==
  ASSUME FedTypeOK, PostShape, NEW s \in Syncs, spc[s] # "idle"
  PROVE  post[s] \in Posts /\ post[s].peer \in Peers /\ post[s].cursor \in 1 .. MaxCursor
  BY DEF FedTypeOK, PostShape, Posts, Cursors

LEMMA StatementTypes ==
  ASSUME FedTypeOK, PostShape, NEW s \in Syncs, spc[s] \in InFlight, Statement(s) \/ NoEffect
  PROVE  /\ row'   \in [Syncs -> {"none", "pending", "verified", "failed"}]
         /\ state' \in [Peers -> {Null} \cup 0 .. MaxCursor]
         /\ moved' \subseteq Syncs
  <1>1. post[s].cursor \in 0 .. MaxCursor
    BY HasBody DEF InFlight
  <1> QED BY <1>1 DEF FedTypeOK, Statement, NoEffect, RecordPeerSync, UpdateSyncCursor,
             MarkPeerSyncVerified, MarkPeerSyncFailed, SetRow

\* The log and the cursors stay in step, and other posts' rows are not touched.
LEMMA StatementKeeps ==
  ASSUME FedInv, NEW s \in Syncs, spc[s] \in InFlight, Statement(s) \/ NoEffect, post' = post
  PROVE  /\ CursorIsOfLoggedPost'
         /\ \A t \in Syncs \ {s} : row'[t] = row[t] /\ (t \in moved' <=> t \in moved)
         /\ moved \subseteq moved'
         /\ s \in moved' => post[s].checks /\ row'[s] # "none"
         /\ row[s] # "none" => row'[s] # "none"
         /\ spc[s] # "cursor" => moved' = moved /\ state' = state
         /\ \A p \in Peers : p # post[s].peer => state'[p] = state[p]
         /\ s \in moved' /\ s \notin moved => state'[post[s].peer] = post[s].cursor
         /\ s \notin moved' => state' = state
  <1> USE DEF FedInv, FedTypeOK, PostShape, Statement, NoEffect, RecordPeerSync, UpdateSyncCursor,
              MarkPeerSyncVerified, MarkPeerSyncFailed, SetRow
  <1>1. post[s].peer \in Peers
    BY HasBody DEF InFlight
  <1>2. /\ \A t \in Syncs \ {s} : row'[t] = row[t] /\ (t \in moved' <=> t \in moved)
        /\ moved \subseteq moved'
        /\ row[s] # "none" => row'[s] # "none"
        /\ spc[s] # "cursor" => moved' = moved /\ state' = state
        /\ \A p \in Peers : p # post[s].peer => state'[p] = state[p]
    OBVIOUS
  <1>3. s \in moved' => post[s].checks /\ row'[s] # "none"
    OBVIOUS
  <1>4. /\ s \in moved' /\ s \notin moved => state'[post[s].peer] = post[s].cursor
        /\ s \notin moved' => state' = state
    BY <1>1
  <1>5. CursorIsOfLoggedPost'
    <2> SUFFICES ASSUME NEW p \in Peers, state'[p] \notin {Null, 0}
                 PROVE  \E t \in moved' :
                          post[t].peer = p /\ post[t].cursor = state'[p] /\ post[t].checks /\ row'[t] # "none"
      BY DEF CursorIsOfLoggedPost
    <2>1. CASE state'[p] = state[p]
      BY <1>2, <1>3, <2>1 DEF CursorIsOfLoggedPost
    <2>2. CASE state'[p] # state[p]
      BY <1>2, <1>3, <1>4, <2>2
    <2> QED BY <2>1, <2>2
  <1> QED BY <1>2, <1>3, <1>4, <1>5

-----------------------------------------------------------------------------
(***************************************************************************)
(* The steps.                                                              *)
(***************************************************************************)
\* What the three steps of a post in flight have in common.
LEMMA InStep ==
  ASSUME NEW s \in Syncs, Resume(s) \/ Fails(s) \/ Die(s)
  PROVE  /\ spc[s] \in InFlight /\ (Statement(s) \/ NoEffect)
         /\ post' = post /\ looking' = looking
  BY DEF Resume, Fails, Die, Statement, InFlight

LEMMA FedTypeStep ==
  ASSUME FedTypeOK, PostShape, Next
  PROVE  FedTypeOK'
  <1> USE DEF FedTypeOK, SyncGoTo
  <1>1. ASSUME NEW s \in Syncs, NEW m \in Posts, Receive(s, m) PROVE FedTypeOK'
    BY <1>1 DEF Receive, InFlight, Posts
  <1>2. ASSUME NEW s \in Syncs, Resume(s) \/ Fails(s) \/ Die(s) PROVE FedTypeOK'
    <2>1. /\ row'   \in [Syncs -> {"none", "pending", "verified", "failed"}]
          /\ state' \in [Peers -> {Null} \cup 0 .. MaxCursor]
          /\ moved' \subseteq Syncs
          /\ post' = post /\ looking' = looking
      BY <1>2, InStep, StatementTypes
    <2>2. post[s].peer \in Peers
      BY <1>2, InStep, HasBody DEF InFlight
    <2>3. /\ spc' \in [Syncs -> InFlight \cup {"idle", "answered", "dead"}]
          /\ out' \in [Syncs -> {"none", "verified", "failed", "error"}]
      BY <1>2 DEF Resume, Fails, Die, Answer, AfterRecord, VerifyMerkleRootSignature, VerifyAuditChain, InFlight
    <2>4. accepted' \in [Peers -> Syncs \cup {Null}] /\ unsure' \subseteq Peers
      BY <1>2, <2>2 DEF Resume, Fails, Die, BreaksOff
    <2> QED BY <2>1, <2>3, <2>4
  <1>3. ASSUME NEW p \in Peers, GetState(p) \/ InitializeFederationState(p) \/ GetStateFails(p)
        PROVE  FedTypeOK'
    BY <1>3 DEF GetState, InitializeFederationState, GetStateFails
  <1> QED BY <1>1, <1>2, <1>3 DEF Next

LEMMA ReceiveKeeps ==
  ASSUME FedInv, NEW s \in Syncs, NEW m \in Posts, Receive(s, m)
  PROVE  PostShape' /\ CursorShape' /\ CursorIsOfLoggedPost' /\ AnswerMatchesTables'
  <1> USE DEF FedInv, FedTypeOK, Receive, SyncGoTo
  <1>1. s \notin moved /\ post[s] = Null /\ spc[s] = "idle" /\ m.peer \in Peers /\ m # Null
    BY DEF PostShape, Posts
  <1>2. PostShape'
    BY <1>1 DEF PostShape, InFlight
  <1>3. CursorIsOfLoggedPost'
    BY <1>1 DEF CursorIsOfLoggedPost
  <1>4. AnswerMatchesTables'
    BY DEF AnswerMatchesTables
  <1>5. CursorShape'
    <2> SUFFICES ASSUME NEW p \in Peers \ unsure'
                 PROVE  /\ \A a, b \in LiveOf(p)' : a = b
                        /\ accepted'[p] # Null => post'[accepted'[p]] # Null /\ post'[accepted'[p]].peer = p
                        /\ (\A a \in LiveOf(p)' : a \notin moved') =>
                              IF accepted'[p] = Null THEN state'[p] \in {Null, 0}
                              ELSE state'[p] = post'[accepted'[p]].cursor
                        /\ \A a \in LiveOf(p)' : a \in moved' => state'[p] = post'[a].cursor
      BY DEF CursorShape
    <2>1. p \in Peers \ unsure /\ (p = m.peer => LiveOf(p) = {})
      OBVIOUS
    <2>2. LiveOf(p)' = IF p = m.peer THEN {s} ELSE LiveOf(p)
      BY <1>1, <2>1 DEF LiveOf, InFlight
    <2>3. \A a \in LiveOf(p) : a # s /\ post'[a] = post[a]
      BY <1>1 DEF LiveOf, InFlight
    <2>4. accepted[p] # Null => accepted[p] # s /\ post'[accepted[p]] = post[accepted[p]]
      BY <1>1, <2>1 DEF CursorShape
    <2> QED BY <1>1, <2>1, <2>2, <2>3, <2>4 DEF CursorShape
  <1> QED BY <1>2, <1>3, <1>4, <1>5

LEMMA GetKeeps ==
  ASSUME FedInv, NEW p \in Peers, GetState(p) \/ InitializeFederationState(p) \/ GetStateFails(p)
  PROVE  PostShape' /\ CursorShape' /\ CursorIsOfLoggedPost' /\ AnswerMatchesTables'
  <1> USE DEF FedInv, FedTypeOK, GetState, InitializeFederationState, GetStateFails
  <1>1. /\ UNCHANGED <<spc, post, row, out, moved, accepted, unsure>>
        /\ \A q \in Peers : state'[q] = state[q] \/ (state[q] = Null /\ state'[q] = 0)
    OBVIOUS
  <1>2. PostShape' /\ AnswerMatchesTables'
    BY <1>1 DEF PostShape, AnswerMatchesTables
  <1>3. CursorIsOfLoggedPost'
    BY <1>1 DEF CursorIsOfLoggedPost
  <1>4. CursorShape'
    <2>1. \A q \in Peers : LiveOf(q)' = LiveOf(q)
      BY <1>1 DEF LiveOf
    <2>2. \A t \in Syncs : post[t] # Null => post[t].cursor \in 1 .. MaxCursor
      BY DEF Posts, Cursors
    <2>3. \A q \in Peers, t \in Syncs : t \in LiveOf(q) => post[t] # Null
      BY DEF LiveOf, PostShape, InFlight
    <2>4. \A q \in Peers, t \in Syncs : post[t] # Null /\ state[q] = post[t].cursor => state'[q] = state[q]
      BY <1>1, <2>2
    <2> QED BY <1>1, <2>1, <2>3, <2>4 DEF CursorShape, LiveOf
  <1> QED BY <1>2, <1>3, <1>4

LEMMA StepKeepsShapes ==
  ASSUME FedInv, NEW s \in Syncs, Resume(s) \/ Fails(s) \/ Die(s)
  PROVE  PostShape' /\ AnswerMatchesTables'
  <1> USE DEF FedInv, FedTypeOK, SyncGoTo, Answer
  <1>1. /\ spc[s] \in InFlight /\ (Statement(s) \/ NoEffect) /\ post' = post
        /\ \A t \in Syncs \ {s} : /\ row'[t] = row[t] /\ (t \in moved' <=> t \in moved)
                                  /\ spc'[t] = spc[t] /\ out'[t] = out[t]
        /\ s \in moved' => post[s].checks /\ row'[s] # "none"
        /\ row[s] # "none" => row'[s] # "none"
        /\ spc[s] # "cursor" => moved' = moved
    <2>1. \A t \in Syncs \ {s} : spc'[t] = spc[t] /\ out'[t] = out[t]
      BY DEF Resume, Fails, Die
    <2> QED BY <2>1, InStep, StatementKeeps
  <1>2. \/ /\ spc[s] = "record" /\ spc'[s] = AfterRecord(s) /\ row'[s] = "pending"
           /\ s \notin moved' /\ out'[s] = out[s]
        \/ /\ spc[s] = "cursor" /\ spc'[s] = "verify" /\ s \in moved' /\ out'[s] = out[s]
        \/ /\ spc[s] = "verify" /\ spc'[s] = "answered" /\ out'[s] = "verified"
           /\ row'[s] = "verified"
        \/ /\ spc[s] = "reject" /\ spc'[s] = "answered" /\ out'[s] = "failed"
           /\ row'[s] = "failed"
        \/ /\ spc'[s] = "answered" /\ out'[s] = "error"
        \/ /\ spc[s] \in {"cursor", "verify", "reject"} /\ spc'[s] = "catch" /\ out'[s] = out[s]
        \/ /\ spc'[s] = "dead" /\ out'[s] = out[s]
    <2>1. CASE Resume(s)
      BY <2>1 DEF Resume, Statement, SetRow, RecordPeerSync, UpdateSyncCursor,
                  MarkPeerSyncVerified, MarkPeerSyncFailed, PostShape
    <2>2. CASE Fails(s)
      BY <2>2 DEF Fails
    <2>3. CASE Die(s)
      BY <2>3 DEF Die
    <2> QED BY <2>1, <2>2, <2>3
  <1>3. PostShape'
    BY <1>1, <1>2 DEF PostShape, AfterRecord, VerifyMerkleRootSignature, VerifyAuditChain, InFlight
  <1>4. AnswerMatchesTables'
    BY <1>1, <1>2 DEF AnswerMatchesTables, PostShape, InFlight
  <1> QED BY <1>3, <1>4

LEMMA StepKeepsCursor ==
  ASSUME FedInv, NEW s \in Syncs, Resume(s) \/ Fails(s) \/ Die(s)
  PROVE  CursorShape'
  <1> USE DEF FedInv, FedTypeOK
  <1> DEFINE p == post[s].peer
  <1>1. p \in Peers /\ post[s] # Null /\ spc[s] \in InFlight
    BY InStep, HasBody DEF InFlight, PostShape
  <1>2. /\ post' = post
        /\ \A t \in Syncs \ {s} : (t \in moved' <=> t \in moved) /\ spc'[t] = spc[t]
        /\ \A q \in Peers : q # p => state'[q] = state[q] /\ accepted'[q] = accepted[q]
        /\ unsure \subseteq unsure' /\ unsure' \subseteq unsure \cup {p}
        /\ s \in moved' /\ s \notin moved => state'[p] = post[s].cursor
        /\ s \notin moved' => state' = state
        /\ spc[s] # "cursor" => moved' = moved /\ state' = state
        /\ moved \subseteq moved'
    <2>1. \A t \in Syncs \ {s} : spc'[t] = spc[t]
      BY DEF Resume, Fails, Die, SyncGoTo, Answer
    <2>2. \A q \in Peers : q # p => accepted'[q] = accepted[q]
      BY DEF Resume, Fails, Die
    <2>3. unsure \subseteq unsure' /\ unsure' \subseteq unsure \cup {p}
      BY DEF Resume, Fails, Die, BreaksOff
    <2> QED BY <2>1, <2>2, <2>3, InStep, StatementKeeps
  <1>3. \A q \in Peers : q # p => LiveOf(q)' = LiveOf(q)
    BY <1>2 DEF LiveOf
  <1>4. s \in LiveOf(p)
    BY <1>1 DEF LiveOf
  <1> SUFFICES ASSUME NEW q \in Peers \ unsure'
               PROVE  /\ \A a, b \in LiveOf(q)' : a = b
                      /\ accepted'[q] # Null => post'[accepted'[q]] # Null /\ post'[accepted'[q]].peer = q
                      /\ (\A a \in LiveOf(q)' : a \notin moved') =>
                            IF accepted'[q] = Null THEN state'[q] \in {Null, 0}
                            ELSE state'[q] = post'[accepted'[q]].cursor
                      /\ \A a \in LiveOf(q)' : a \in moved' => state'[q] = post'[a].cursor
    BY DEF CursorShape
  <1>5. q \in Peers \ unsure
    BY <1>2
  <1>6. CASE q # p
    <2>1. \A a \in LiveOf(q) : a # s
      BY <1>6 DEF LiveOf
    <2> QED BY <1>2, <1>3, <1>5, <1>6, <2>1 DEF CursorShape, LiveOf
  <1>7. CASE q = p
    <2>1. LiveOf(p) = {s} /\ LiveOf(p)' \subseteq {s}
      BY <1>2, <1>4, <1>5, <1>7 DEF CursorShape, LiveOf
    <2>2. /\ accepted[p] # Null => post[accepted[p]] # Null /\ post[accepted[p]].peer = p
          /\ s \notin moved => IF accepted[p] = Null THEN state[p] \in {Null, 0}
                               ELSE state[p] = post[accepted[p]].cursor
          /\ s \in moved => state[p] = post[s].cursor
      BY <1>5, <1>7, <2>1 DEF CursorShape
    <2>3. s \in moved' => state'[p] = post[s].cursor
      BY <1>2, <2>2 DEF PostShape
    <2>4. CASE ~(Resume(s) /\ spc[s] = "verify")
      <3>1. accepted' = accepted
        BY <2>4 DEF Resume, Fails, Die
      <3>2. s \in moved' => spc'[s] \in InFlight
        <4>1. CASE Resume(s)
          BY <1>2, <1>7, <2>4, <4>1 DEF Resume, Answer, SyncGoTo, BreaksOff, InFlight, PostShape,
                                       AfterRecord
        <4>2. CASE Fails(s) \/ Die(s)
          BY <1>2, <1>7, <4>2 DEF Fails, Die, Answer, SyncGoTo, BreaksOff, InFlight
        <4> QED BY <4>1, <4>2
      <3>3. s \in moved' => s \in LiveOf(p)'
        BY <1>2, <3>2 DEF LiveOf
      <3>4. s \notin moved' => s \notin moved /\ state' = state
        BY <1>2
      <3> QED BY <1>2, <1>7, <2>1, <2>2, <2>3, <3>1, <3>3, <3>4
    <2>5. CASE Resume(s) /\ spc[s] = "verify"
      <3>1. accepted' = [accepted EXCEPT ![p] = s] /\ spc'[s] = "answered"
        BY <2>5 DEF Resume, Answer, SyncGoTo
      <3>2. s \in moved' /\ accepted'[p] = s /\ s # Null /\ LiveOf(p)' = {}
        BY <1>1, <1>2, <2>1, <2>5, <3>1 DEF PostShape, LiveOf, InFlight
      <3> QED BY <1>1, <1>2, <1>7, <2>3, <3>2
    <2> QED BY <2>4, <2>5
  <1> QED BY <1>6, <1>7

LEMMA FedStep == FedInv /\ [Next]_fedVars => FedInv'
  <1> SUFFICES ASSUME FedInv, [Next]_fedVars PROVE FedInv'
    OBVIOUS
  <1>1. CASE Next
    <2>1. FedTypeOK'
      BY <1>1, FedTypeStep DEF FedInv
    <2>2. PostShape' /\ CursorShape' /\ CursorIsOfLoggedPost' /\ AnswerMatchesTables'
      <3>1. ASSUME NEW s \in Syncs, Resume(s) \/ Fails(s) \/ Die(s)
            PROVE  PostShape' /\ CursorShape' /\ CursorIsOfLoggedPost' /\ AnswerMatchesTables'
        BY <3>1, InStep, StatementKeeps, StepKeepsShapes, StepKeepsCursor
      <3> QED BY <1>1, <3>1, ReceiveKeeps, GetKeeps DEF Next
    <2> QED BY <2>1, <2>2 DEF FedInv
  <1>2. CASE UNCHANGED fedVars
    BY <1>2 DEF fedVars, FedInv, FedTypeOK, PostShape, CursorShape, CursorIsOfLoggedPost,
                AnswerMatchesTables, LiveOf
  <1> QED BY <1>1, <1>2

-----------------------------------------------------------------------------
\* The inductive invariant: the log, the cursors and the answers in step
\* (federation-service.ts syncFromPeer, with the GET route).
THEOREM FederationCorrect == Spec => []FedInv
  BY FedStarts, FedStep, PTL DEF Spec

\* A peer's cursor is one of a logged post of its own whose signature was not
\* found wrong (syncFromPeer's order of check, log and update).
THEOREM CursorCorrect == Spec => []CursorIsOfLoggedPost
  <1>1. FedInv => CursorIsOfLoggedPost
    BY DEF FedInv
  <1> QED BY <1>1, FederationCorrect, PTL

\* Posts one after another leave the last accepted cursor in force (syncFromPeer
\* and initializeFederationState).
THEOREM LastAcceptedCorrect == Spec => []LastAcceptedInForce
  <1>1. FedInv => LastAcceptedInForce
    <2> SUFFICES ASSUME FedInv, NEW p \in Peers \ unsure,
                        \A s \in LiveOf(p) : spc[s] \notin {"verify", "catch"}
                 PROVE  IF accepted[p] = Null THEN state[p] \in {Null, 0}
                        ELSE state[p] = post[accepted[p]].cursor
      BY DEF LastAcceptedInForce
    <2>1. \A s \in LiveOf(p) : s \notin moved
      BY DEF FedInv, PostShape, LiveOf, InFlight
    <2> QED BY <2>1 DEF FedInv, CursorShape
  <1> QED BY <1>1, FederationCorrect, PTL

\* What a peer is told is what the tables hold (the answers of POST
\* /v1/federation/sync).
THEOREM AnswersCorrect == Spec => []AnswerMatchesTables
  <1>1. FedInv => AnswerMatchesTables
    BY DEF FedInv
  <1> QED BY <1>1, FederationCorrect, PTL
=============================================================================
