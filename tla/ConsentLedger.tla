---------------------------- MODULE ConsentLedger ----------------------------
(***************************************************************************)
(* What the control-plane promises about consents, whatever its pods,      *)
(* statements and failures do.  A consent opens once and closes once.  The *)
(* trail grows one event at a time: it starts with the grant of a consent, *)
(* no event of a consent comes before that, a revocation is on it only     *)
(* after the consent has closed, and only what is on the trail has been    *)
(* acknowledged to a client.                                               *)
(***************************************************************************)
EXTENDS Naturals, Sequences

CONSTANTS Consents, Requests

VARIABLES
    phase,   \* phase[c]: "absent", "open" or "closed"
    trail,   \* the events, each a record [type, consent, by]
    acked    \* the requests a client has a success answer to

ledgerVars == <<phase, trail, acked>>

Init ==
    /\ phase = [c \in Consents |-> "absent"]
    /\ trail = <<>>
    /\ acked = {}

Open(c) ==
    /\ phase[c] = "absent"
    /\ phase' = [phase EXCEPT ![c] = "open"]
    /\ UNCHANGED <<trail, acked>>

Close(c) ==
    /\ phase[c] = "open"
    /\ phase' = [phase EXCEPT ![c] = "closed"]
    /\ UNCHANGED <<trail, acked>>

OnTrail(c, t) == \E i \in 1 .. Len(trail) : trail[i].type = t /\ trail[i].consent = c

Reported(r) == \E i \in 1 .. Len(trail) : trail[i].by = r

\* When an event of type t about c may be recorded.
MayRecord(t, c) ==
    \/ t = "consent.granted" /\ phase[c] # "absent" /\ ~OnTrail(c, t)
    \/ t = "consent.revoked" /\ phase[c] = "closed" /\ OnTrail(c, "consent.granted")
    \/ t = "consent.queried" /\ OnTrail(c, "consent.granted")

\* A request reports its operation, once, and may be acknowledged with it.
Record(t, c, r) ==
    /\ MayRecord(t, c)
    /\ ~Reported(r)
    /\ trail' = Append(trail, [type |-> t, consent |-> c, by |-> r])
    /\ acked' \in {acked, acked \cup {r}}
    /\ UNCHANGED phase

Next ==
    \/ \E c \in Consents : Open(c) \/ Close(c)
    \/ \E c \in Consents, r \in Requests,
          t \in {"consent.granted", "consent.revoked", "consent.queried"} : Record(t, c, r)

Spec == Init /\ [][Next]_ledgerVars
=============================================================================
