------------------------------- MODULE GrantFlow -------------------------------
(***************************************************************************)
(* The portal's grant flow (GrantFlow.tsx): notice, detail, confirmation   *)
(* and receipt, in front of POST /v1/consents and its idempotency plugin.  *)
(* The flow asks for the grant through its parameter onGrant, which it is  *)
(* given from outside; here it is a request of Idempotency under any key,  *)
(* that of an earlier attempt or a new one.  While it waits, the data      *)
(* principal may go on using the page, and the connection may break.       *)
(***************************************************************************)
EXTENDS Idempotency

CONSTANT Submits  \* the attempts that this flow makes; the others are of others

ASSUME FlowAssumption == Submits \subseteq Attempts

VARIABLES
    step,      \* the step that is shown; "left" after onDone
    ticked,    \* explicitConsent
    awaited,   \* the attempt that handleGrant awaits, or Null: loading
    error,     \* whether an error is shown
    consentId, \* the attempt whose consent the receipt names, or Null
    rejected   \* history: the attempts whose onGrant was rejected

flowVars     == <<step, ticked, awaited, error, consentId, rejected>>
allFlowVars  == <<idemVars, flowVars>>
loading      == awaited # Null

FlowTypeOK ==
    /\ step \in {"notice", "detail", "confirm", "success", "left"}
    /\ ticked \in BOOLEAN
    /\ awaited \in Submits \cup {Null}
    /\ error \in BOOLEAN
    /\ consentId \in Attempts \cup {Null}
    /\ rejected \subseteq Submits

FlowInit ==
    /\ Init
    /\ step      = "notice"
    /\ ticked    = FALSE
    /\ awaited   = Null
    /\ error     = FALSE
    /\ consentId = Null
    /\ rejected  = {}

-----------------------------------------------------------------------------
\* goTo: the error is cleared; whether a grant is awaited is not changed.
GoTo(from, to) ==
    /\ step = from
    /\ step' = to
    /\ error' = FALSE
    /\ UNCHANGED <<idemVars, ticked, awaited, consentId, rejected>>

\* onDone leaves the page, whose state is gone with it: what is still awaited
\* finds no page to tell.
Leave(from) ==
    /\ step = from
    /\ step'      = "left"
    /\ awaited'   = Null
    /\ consentId' = Null
    /\ rejected'  = {}
    /\ ticked' = FALSE /\ error' = FALSE
    /\ UNCHANGED idemVars

\* The notice: review the details, or not now.
Review  == GoTo("notice", "detail")
Dismiss == Leave("notice")

\* The receipt: done, or to the list of consents.
Done == Leave("success")

\* The details: proceed, or back to the notice.
Proceed == GoTo("detail", "confirm")
Back    == GoTo("detail", "notice")

\* The confirmation: its tick box and its "Not now", which are not disabled
\* while the grant is awaited.
Toggle ==
    /\ step = "confirm"
    /\ ticked' = ~ticked
    /\ UNCHANGED <<idemVars, step, awaited, error, consentId, rejected>>
NotNow == GoTo("confirm", "detail")

\* Mutation of Submit: the button is not disabled while a grant is awaited.
SubmitAgain(a, k) ==
    /\ step = "confirm" /\ ticked
    /\ awaited' = a
    /\ error' = FALSE
    /\ Arrive(a, k)
    /\ UNCHANGED <<step, ticked, consentId, rejected>>

\* The form is submitted: only when ticked, and when no grant is awaited, since
\* the button is disabled then.
Submit(a, k) ==
    /\ step = "confirm" /\ ticked /\ ~loading
    /\ awaited' = a
    /\ error' = FALSE
    /\ Arrive(a, k)
    /\ UNCHANGED <<step, ticked, consentId, rejected>>

\* onGrant resolves: the receipt is shown, whatever step is shown by then.
Granted ==
    /\ loading /\ ipc[awaited] = "answered" /\ answer[awaited].status = "success"
    /\ awaited'   = Null
    /\ step'      = "success"
    /\ consentId' = answer[awaited].by
    /\ UNCHANGED <<idemVars, ticked, error, rejected>>

Reject(a) ==
    /\ awaited'  = Null
    /\ error'    = TRUE
    /\ rejected' = rejected \cup {a}
    /\ UNCHANGED <<idemVars, step, ticked, consentId>>

\* Mutation of Rejected: only an answer is waited for.
RejectedByAnswer ==
    /\ loading /\ ipc[awaited] = "answered" /\ answer[awaited].status = "error"
    /\ Reject(awaited)

\* onGrant rejects: an error answer, or no answer from a pod that died.
Rejected ==
    /\ loading
    /\ \/ ipc[awaited] = "answered" /\ answer[awaited].status = "error"
       \/ ipc[awaited] = "dead"
    /\ Reject(awaited)

\* onGrant rejects because the connection broke, while its request goes on.
Disconnected == loading /\ Reject(awaited)

Browse == Review \/ Dismiss \/ Proceed \/ Back \/ Toggle \/ NotNow \/ Done

FlowNext ==
    \/ Browse \/ Granted \/ Rejected \/ Disconnected
    \/ \E a \in Submits, k \in Keys : Submit(a, k)
    \/ /\ \/ \E a \in Attempts : Go(a) \/ Die(a)
          \/ \E a \in Attempts \ Submits, k \in Keys : Arrive(a, k)
          \/ \E k \in Keys : Forget(k)
       /\ UNCHANGED flowVars

\* The event loops go on: the pods' with each attempt, the browser's with what
\* onGrant has come to.  Nobody has to press a button.
FlowSpec ==
    /\ FlowInit /\ [][FlowNext]_allFlowVars
    /\ WF_allFlowVars((\E a \in Attempts : Go(a)) /\ UNCHANGED flowVars)
    /\ WF_allFlowVars(Granted \/ Rejected)

-----------------------------------------------------------------------------
\* Every consent that was granted through the flow is accounted for on its
\* page: it is the one that the receipt names, its grant is still awaited, or
\* the page has said that the grant failed.  So as long as nothing is rejected
\* a flow grants once, and a page with nothing awaited and no receipt has
\* granted nothing, however its user went back and forth.
GrantsAreAccountedFor ==
    step # "left" =>
        \A a \in mutated \cap Submits : a \in {awaited, consentId} \cup rejected

\* The spinner of the button ends.
SpinnerEnds == loading ~> ~loading
-----------------------------------------------------------------------------
(***************************************************************************)
(* The inductive invariant behind the theorems of GrantFlowProofs.         *)
(***************************************************************************)
\* An attempt whose handler ran is answered from that run.
OwnRun ==
    \A a \in ran : ipc[a] \in {"set", "setError", "send", "answered"} => answer[a].by = a

\* A receipt is the last thing that a flow shows, and nothing is awaited behind
\* it; nothing either once the page was left.
FlowShape ==
    /\ step \in {"success", "left"} => ~loading
    /\ step \in {"notice", "detail", "confirm"} => consentId = Null

\* Of every attempt the flow knows what came of it, or awaits it.
SubmitsKnown ==
    step # "left" =>
        \A a \in Submits : keyOf[a] # Null =>
            \/ a \in {awaited} \cup rejected
            \/ /\ ipc[a] = "answered" /\ answer[a].status = "success"
               /\ consentId = answer[a].by

FlowInv == IdemInv /\ FlowTypeOK /\ OwnRun /\ FlowShape /\ SubmitsKnown
=============================================================================
