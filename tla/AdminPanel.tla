------------------------------ MODULE AdminPanel ------------------------------
(***************************************************************************)
(* The portal's page for the message broker (App.tsx,                      *)
(* AdminPluginSettingsPage.tsx, MessageBrokerPluginPanel.tsx) in front of  *)
(* the admin routes of BrokerReconfig.  The page loads the configuration   *)
(* once, and is answered with one at each save, but only keeps them in a   *)
(* state that the form inside takes as its initial value: mounted with the *)
(* page's default, the form displays neither, so that state is left out.   *)
(* After a save the form says when it was.  Other admins send requests of  *)
(* their own, and a connection may break while its request goes on.        *)
(***************************************************************************)
EXTENDS BrokerReconfig

\* What the form is mounted with, as the page renders it before it has loaded.
FormDefault == [provider |-> "redpanda", brokers |-> {"redpanda:9092"}]

ASSUME PanelAssumption == FormDefault.brokers \subseteq Entries /\ Null \notin Puts

VARIABLES
    page,    \* what the page waits for: its GET, a PUT or nothing ("ready")
    form,    \* the form's provider and brokers, without blank entries
    saving,  \* the request of the last Save, Null before
    told     \* whether the form says that this Save succeeded

panelVars == <<page, form, saving, told>>
allPanelVars == <<allVars, panelVars>>

PanelTypeOK ==
    /\ page \in {"loading", "ready", "saving"}
    /\ form \in Bodies
    /\ saving \in Puts \cup {Null}
    /\ told \in BOOLEAN

PanelInit ==
    /\ ReconfigInit
    /\ page   = "loading"
    /\ form   = FormDefault
    /\ saving = Null
    /\ told   = FALSE

-----------------------------------------------------------------------------
\* load is over, with GetAnswer, of which nothing is displayed, or with an
\* error, which is shown.  The form stays as it is.
Loaded ==
    /\ page = "loading"
    /\ page' = "ready"
    /\ UNCHANGED <<allVars, form, saving, told>>

\* The admin edits the form, or leaves it as it is, and presses the button,
\* which is enabled unless the page loads or saves.  The list is sent without
\* its blank entries, and empty when there are no others.
Save(r, b) ==
    /\ page = "ready"
    /\ form'   = [b EXCEPT !.brokers = sanitizeBrokers(@)]
    /\ page'   = "saving"
    /\ saving' = r
    /\ told'   = FALSE
    /\ Put(r, form')

\* Mutation of Saved: a refusal leaves the form disabled.
SavedOk ==
    /\ page = "saving" /\ upc[saving] = "ok"
    /\ told'  = TRUE
    /\ page'  = "ready"
    /\ UNCHANGED <<allVars, form, saving>>

\* The route has answered: with the configuration answer[saving], of which the
\* form shows that it was saved, or with 400, which it shows as an error.
Saved ==
    /\ page = "saving" /\ upc[saving] \in {"ok", "failed"}
    /\ told'  = (upc[saving] = "ok")
    /\ page'  = "ready"
    /\ UNCHANGED <<allVars, form, saving>>

\* The connection breaks: an error is shown, and the request goes on.
SaveLost ==
    /\ page = "saving"
    /\ page' = "ready"
    /\ UNCHANGED <<allVars, form, saving, told>>

PanelStep == Loaded \/ Saved \/ SaveLost

PanelNext ==
    \/ PanelStep
    \/ \E r \in Puts, b \in Bodies : Save(r, b)
    \/ ReconfigNext /\ UNCHANGED panelVars

\* As for BrokerReconfig, and the browser goes on with what has settled.
PanelFairness ==
    /\ WF_allPanelVars((\E p \in Publishers : WorkerStep(p)) /\ UNCHANGED panelVars)
    /\ SF_allPanelVars((\E p \in Publishers : Poll(p)) /\ UNCHANGED <<reconfigVars, panelVars>>)
    /\ SF_allPanelVars((\E p \in connected : Send(p, {})) /\ UNCHANGED <<reconfigVars, panelVars>>)
    /\ SF_allPanelVars((\E p \in Publishers, e \in Events : MarkPublished(p, e))
                       /\ UNCHANGED <<reconfigVars, panelVars>>)
    /\ WF_allPanelVars((\E r \in Puts : Resume(r)) /\ UNCHANGED panelVars)
    /\ WF_allPanelVars(Loaded \/ Saved)

PanelSpec == PanelInit /\ [][PanelNext]_allPanelVars /\ PanelFairness

-----------------------------------------------------------------------------
\* What the form asks for, as the store makes it of the request for it.
Asked == ConfigOf(form, saving)

\* When the form says that its Save succeeded, the answer was what the form
\* asked for, unless another admin's request overlapped and the answer is that
\* one's configuration.  Until another request is stored the store holds what
\* was asked for, and whatever requests came before, as long as no two have
\* overlapped the publisher has those brokers, and it runs and is connected
\* unless some connect has failed.
SavedIsInForce ==
    told =>
        /\ answer[saving] = Asked \/ (overlapped /\ answer[saving].updatedAt # saving)
        /\ stored.updatedAt = saving =>
              /\ stored = Asked
              /\ Busy = {} /\ ~overlapped =>
                    /\ config[global] = Asked.brokers
                    /\ ~failed => running[global] /\ global \in connected

\* The form is usable again: no load and no save keeps it disabled for ever.
FormComesBack == (page # "ready") ~> (page = "ready")
-----------------------------------------------------------------------------
(***************************************************************************)
(* The inductive invariant of the page, for the theorems about it in       *)
(* BrokerReconfigProofs.                                                   *)
(***************************************************************************)
\* The page knows its request once it has made one.
SaveShape ==
    /\ page = "loading" => saving = Null
    /\ page = "saving" => saving # Null
    /\ told => saving # Null /\ page = "ready" /\ upc[saving] = "ok"
    /\ saving # Null => upc[saving] # "idle"

\* What is under the instant of the page's own update is what the form asked
\* for, in the store and in the answer.
AskedShape ==
    saving # Null =>
        /\ stored.updatedAt = saving => stored = Asked
        /\ upc[saving] = "ok" /\ answer[saving].updatedAt = saving => answer[saving] = Asked

\* A request is answered with its own update unless another one overlapped it.
AnswerShape ==
    \A r \in Puts : upc[r] = "ok" => answer[r].updatedAt = r \/ overlapped

PanelInv == PanelTypeOK /\ SaveShape /\ AskedShape /\ AnswerShape
=============================================================================
