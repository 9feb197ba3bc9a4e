---------------------------- MODULE FederationSync ----------------------------
(***************************************************************************)
(* The trust-node: peers post their sync cursors, each post is logged in   *)
(* table peer_syncs, and an accepted one moves the peer's row of table     *)
(* federation_state.  Every statement commits on its own; between two      *)
(* statements other posts of the same peer run, here or on another pod.    *)
(* A statement may fail before or after it takes effect, and a pod may die *)
(* at any step.                                                            *)
(***************************************************************************)
EXTENDS Naturals

CONSTANTS
    Syncs,      \* posts to /v1/federation/sync, retries included
    Peers,      \* peer nodes
    MaxCursor,  \* bound: the largest cursor a peer posts
    Null        \* no value

Cursors == 1 .. MaxCursor

\* A post, reduced to what the steps tell apart: checks is FALSE when a
\* signature and a key are given and the signature does not verify.
Posts == [peer : Peers, cursor : Cursors, checks : BOOLEAN]

ASSUME FederationAssumption ==
    MaxCursor \in Nat /\ Null \notin Peers \cup Syncs \cup Posts \cup Nat

VARIABLES
    spc,       \* spc[s]: the statement that post s is about to run, or its end
    post,      \* post[s]: its body, Null before it arrives
    row,       \* row[s]: the status of its row in peer_syncs, "none" without one
    state,     \* state[p]: sync_cursor of peer p's row, Null without a row
    out,       \* out[s]: the status it was answered with
    looking,   \* peers a GET has found without a row and is to initialise
    moved,     \* history: the posts that have written their cursor
    accepted,  \* history: accepted[p] is p's last post answered "verified"
    unsure     \* history: peers with posts that overlapped, or that broke off
               \*   after writing their cursor

fedVars == <<spc, post, row, state, out, looking, moved, accepted, unsure>>

InFlight == {"record", "reject", "cursor", "verify", "catch"}
LiveOf(p) == {s \in Syncs : spc[s] \in InFlight /\ post[s].peer = p}

FedTypeOK ==
    /\ spc      \in [Syncs -> InFlight \cup {"idle", "answered", "dead"}]
    /\ post     \in [Syncs -> Posts \cup {Null}]
    /\ row      \in [Syncs -> {"none", "pending", "verified", "failed"}]
    /\ state    \in [Peers -> {Null} \cup 0 .. MaxCursor]
    /\ out      \in [Syncs -> {"none", "verified", "failed", "error"}]
    /\ looking  \subseteq Peers
    /\ moved    \subseteq Syncs
    /\ accepted \in [Peers -> Syncs \cup {Null}]
    /\ unsure   \subseteq Peers

Init ==
    /\ spc      = [s \in Syncs |-> "idle"]
    /\ post     = [s \in Syncs |-> Null]
    /\ row      = [s \in Syncs |-> "none"]
    /\ state    = [p \in Peers |-> Null]
    /\ out      = [s \in Syncs |-> "none"]
    /\ looking  = {}
    /\ moved    = {}
    /\ accepted = [p \in Peers |-> Null]
    /\ unsure   = {}

-----------------------------------------------------------------------------
(***************************************************************************)
(* The statements of FederationRepository.                                 *)
(***************************************************************************)
SetRow(s, status) == row' = [row EXCEPT ![s] = status]

NoEffect == UNCHANGED <<row, state, moved>>

RecordPeerSync(s) == SetRow(s, "pending") /\ UNCHANGED <<state, moved>>

\* An upsert: whatever cursor the row holds, also a larger one, is overwritten.
UpdateSyncCursor(s) ==
    /\ state' = [state EXCEPT ![post[s].peer] = post[s].cursor]
    /\ moved' = moved \cup {s}
    /\ UNCHANGED row

MarkPeerSyncVerified(s) == SetRow(s, "verified") /\ UNCHANGED <<state, moved>>

MarkPeerSyncFailed(s) == SetRow(s, "failed") /\ UNCHANGED <<state, moved>>

\* The statement that post s has sent.
Statement(s) ==
    \/ spc[s] = "record" /\ RecordPeerSync(s)
    \/ spc[s] = "cursor" /\ UpdateSyncCursor(s)
    \/ spc[s] = "verify" /\ MarkPeerSyncVerified(s)
    \/ spc[s] \in {"reject", "catch"} /\ MarkPeerSyncFailed(s)

-----------------------------------------------------------------------------
(***************************************************************************)
(* syncFromPeer, and the route around it.                                  *)
(***************************************************************************)
SyncGoTo(s, l) == spc' = [spc EXCEPT ![s] = l]

Answer(s, status) == SyncGoTo(s, "answered") /\ out' = [out EXCEPT ![s] = status]

\* A post that ends without acceptance although its cursor is written.
BreaksOff(s) ==
    unsure' = IF s \in moved' THEN unsure \cup {post[s].peer} ELSE unsure

Receive(s, m) ==
    /\ spc[s] = "idle"
    /\ SyncGoTo(s, "record")
    /\ post' = [post EXCEPT ![s] = m]
    /\ unsure' = IF LiveOf(m.peer) = {} THEN unsure ELSE unsure \cup {m.peer}
    /\ UNCHANGED <<row, state, out, looking, moved, accepted>>

\* Mutation of AfterRecord: a signature that does not check is let through.
AfterRecordUnchecked(s) == "cursor"

\* The signature is checked only when both it and a key are given, with the
\* key that came along; a check that throws is a refusal.
VerifyMerkleRootSignature(m) == m.checks

\* A stub, which accepts every chain.
VerifyAuditChain(m) == TRUE

\* Where a post goes when it is recorded.
AfterRecord(s) ==
    IF VerifyMerkleRootSignature(post[s]) /\ VerifyAuditChain(post[s])
    THEN "cursor" ELSE "reject"

Resume(s) ==
    /\ Statement(s)
    /\ \/ spc[s] = "record" /\ SyncGoTo(s, AfterRecord(s)) /\ UNCHANGED <<out, accepted, unsure>>
       \/ spc[s] = "cursor" /\ SyncGoTo(s, "verify") /\ UNCHANGED <<out, accepted, unsure>>
       \/ /\ spc[s] = "verify"
          /\ Answer(s, "verified")
          /\ accepted' = [accepted EXCEPT ![post[s].peer] = s]
          /\ UNCHANGED unsure
       \/ spc[s] = "reject" /\ Answer(s, "failed") /\ UNCHANGED <<accepted, unsure>>
       \/ spc[s] = "catch" /\ Answer(s, "error") /\ BreaksOff(s) /\ UNCHANGED accepted
    /\ UNCHANGED <<post, looking>>

\* Mutation of Fails: an error of the mark is dropped and the post answered.
FailsQuietly(s) ==
    /\ spc[s] \in InFlight
    /\ Statement(s) \/ NoEffect
    /\ \/ spc[s] \in {"record", "catch"} /\ Answer(s, "error")
       \/ spc[s] = "cursor" /\ SyncGoTo(s, "catch") /\ UNCHANGED out
       \/ spc[s] = "verify" /\ Answer(s, "verified")
       \/ spc[s] = "reject" /\ Answer(s, "failed")
    /\ BreaksOff(s)
    /\ UNCHANGED <<post, looking, accepted>>

\* The statement's promise is rejected, before or after it took effect.  The
\* first insert is outside the try block, and so is what the catch block runs.
Fails(s) ==
    /\ spc[s] \in InFlight
    /\ Statement(s) \/ NoEffect
    /\ \/ spc[s] \in {"record", "catch"} /\ Answer(s, "error")
       \/ spc[s] \in {"cursor", "verify", "reject"} /\ SyncGoTo(s, "catch") /\ UNCHANGED out
    /\ BreaksOff(s)
    /\ UNCHANGED <<post, looking, accepted>>

\* The pod dies; a statement on its way may still take effect.
Die(s) ==
    /\ spc[s] \in InFlight
    /\ Statement(s) \/ NoEffect
    /\ SyncGoTo(s, "dead")
    /\ BreaksOff(s)
    /\ UNCHANGED <<post, out, looking, accepted>>

-----------------------------------------------------------------------------
(***************************************************************************)
(* GET /v1/federation/state/:nodeId, when the peer has no row (with a row  *)
(* it only reads).  Overlapping GETs of one peer have the effect of one.   *)
(***************************************************************************)
GetState(p) ==
    /\ state[p] = Null /\ p \notin looking
    /\ looking' = looking \cup {p}
    /\ UNCHANGED <<spc, post, row, state, out, moved, accepted, unsure>>

\* Mutation of InitializeFederationState: ON CONFLICT resets the cursor.
InitializeFederationStateResets(p) ==
    /\ p \in looking
    /\ looking' = looking \ {p}
    /\ state' = [state EXCEPT ![p] = 0]
    /\ UNCHANGED <<spc, post, row, out, moved, accepted, unsure>>

\* ON CONFLICT leaves the cursor of a row that has appeared meanwhile.
InitializeFederationState(p) ==
    /\ p \in looking
    /\ looking' = looking \ {p}
    /\ state' = [state EXCEPT ![p] = IF state[p] = Null THEN 0 ELSE state[p]]
    /\ UNCHANGED <<spc, post, row, out, moved, accepted, unsure>>

GetStateFails(p) ==
    /\ p \in looking
    /\ looking' = looking \ {p}
    /\ UNCHANGED <<spc, post, row, state, out, moved, accepted, unsure>>

-----------------------------------------------------------------------------
Next ==
    \/ \E s \in Syncs :
          \/ \E m \in Posts : Receive(s, m)
          \/ Resume(s) \/ Fails(s) \/ Die(s)
    \/ \E p \in Peers : GetState(p) \/ InitializeFederationState(p) \/ GetStateFails(p)

Spec == Init /\ [][Next]_fedVars

-----------------------------------------------------------------------------
\* Whatever overlaps and fails, a peer's cursor is one that the peer posted, in
\* a post that is logged and whose signature was not found wrong; the GET route
\* adds nothing but a first zero.
CursorIsOfLoggedPost ==
    \A p \in Peers : state[p] \notin {Null, 0} =>
        \E s \in moved :
            post[s].peer = p /\ post[s].cursor = state[p] /\ post[s].checks /\ row[s] # "none"

\* As long as a peer's posts come one after another, and none breaks off with
\* its cursor written, the row of the peer holds the cursor of its last accepted
\* post whenever no post of its own stands between the cursor and the answer.
LastAcceptedInForce ==
    \A p \in Peers \ unsure :
        (\A s \in LiveOf(p) : spc[s] \notin {"verify", "catch"}) =>
            IF accepted[p] = Null THEN state[p] \in {Null, 0}
            ELSE state[p] = post[accepted[p]].cursor

\* The answer, the log and the cursor agree: accepted posts are logged so and
\* have moved the cursor, refused posts are logged so and have not.  Only the
\* answer "error" leaves both open.
AnswerMatchesTables ==
    \A s \in Syncs :
        /\ out[s] = "verified" => row[s] = "verified" /\ s \in moved
        /\ out[s] = "failed"   => row[s] = "failed" /\ s \notin moved

-----------------------------------------------------------------------------
(***************************************************************************)
(* The inductive invariant behind the theorems of FederationSyncProofs.    *)
(***************************************************************************)
PostShape ==
    \A s \in Syncs :
        /\ spc[s] = "idle" <=> post[s] = Null
        /\ spc[s] \in {"idle", "record"} => row[s] = "none"
        /\ spc[s] \in {"reject", "cursor", "verify", "catch"} => row[s] # "none"
        /\ spc[s] \in {"idle", "record", "reject", "cursor"} => s \notin moved
        /\ spc[s] \in {"cursor", "verify"} => post[s].checks
        /\ spc[s] = "verify" => s \in moved
        /\ s \in moved => post[s].checks /\ row[s] # "none"
        /\ out[s] # "none" => spc[s] = "answered"

\* The row of a peer that is not unsure, and the one post that may be ahead.
CursorShape ==
    \A p \in Peers \ unsure :
        /\ \A s, t \in LiveOf(p) : s = t
        /\ accepted[p] # Null => post[accepted[p]] # Null /\ post[accepted[p]].peer = p
        /\ (\A s \in LiveOf(p) : s \notin moved) =>
              IF accepted[p] = Null THEN state[p] \in {Null, 0}
              ELSE state[p] = post[accepted[p]].cursor
        /\ \A s \in LiveOf(p) : s \in moved => state[p] = post[s].cursor

FedInv == FedTypeOK /\ PostShape /\ CursorShape /\ CursorIsOfLoggedPost /\ AnswerMatchesTables
=============================================================================
