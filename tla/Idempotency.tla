----------------------------- MODULE Idempotency -----------------------------
(***************************************************************************)
(* The idempotency plugin (pkg/idempotency/src/index.ts) around the        *)
(* mutating routes of the control-plane.  A client attaches a key to a     *)
(* request and repeats the request, in a new attempt, when it is unsure of *)
(* the outcome.  The plugin looks the key up in Redis before the handler   *)
(* and stores the answer before it is sent.  Nothing marks a key as being  *)
(* worked on, entries expire, Redis calls fail and pods die, so attempts   *)
(* with one key interleave freely.                                         *)
(***************************************************************************)
EXTENDS Naturals

CONSTANTS
    Attempts,  \* requests sent by clients, first ones and retries
    Keys,      \* storage keys: prefix, method, url and Idempotency-Key
    Null       \* no value

\* A reply: which attempt's handler it is of, and its status.  The plugin's own
\* 500, when Redis does not answer, is of no handler.
Replies == [by : Attempts, status : {"success", "error"}]
Refused == [by |-> Null, status |-> "error"]

ASSUME IdempotencyAssumption == Null \notin Attempts \cup Keys \cup Replies \cup {Refused}

VARIABLES
    ipc,       \* ipc[a]: the next step of attempt a, or how it ended
    keyOf,     \* keyOf[a]: its storage key, Null before it arrives
    answer,    \* answer[a]: the reply being sent, or sent
    cached,    \* cached[k]: the reply that Redis holds under key k, or Null
    ran,       \* the attempts whose handler has run to its end
    mutated,   \* those of them whose handler has committed its mutation
    disturbed  \* history: the keys with attempts that overlapped, or whose
               \*   reply did not get into Redis or did not stay there

idemVars == <<ipc, keyOf, answer, cached, ran, mutated, disturbed>>

InFlight == {"get", "handler", "set", "setError", "send"}
Live(k)  == {a \in Attempts : keyOf[a] = k /\ ipc[a] \in InFlight}

IdemTypeOK ==
    /\ ipc       \in [Attempts -> InFlight \cup {"idle", "answered", "dead"}]
    /\ keyOf     \in [Attempts -> Keys \cup {Null}]
    /\ answer    \in [Attempts -> Replies \cup {Refused, Null}]
    /\ cached    \in [Keys -> Replies \cup {Null}]
    /\ ran       \subseteq Attempts
    /\ mutated   \subseteq ran
    /\ disturbed \subseteq Keys

Init ==
    /\ ipc       = [a \in Attempts |-> "idle"]
    /\ keyOf     = [a \in Attempts |-> Null]
    /\ answer    = [a \in Attempts |-> Null]
    /\ cached    = [k \in Keys |-> Null]
    /\ ran       = {}
    /\ mutated   = {}
    /\ disturbed = {}

IdemGoTo(a, l) == ipc' = [ipc EXCEPT ![a] = l]

Disturb(k) == disturbed' = disturbed \cup {k}

-----------------------------------------------------------------------------
\* A request with a key reaches preHandler (one without a key is not touched).
Arrive(a, k) ==
    /\ ipc[a] = "idle"
    /\ IdemGoTo(a, "get")
    /\ keyOf' = [keyOf EXCEPT ![a] = k]
    /\ IF Live(k) = {} THEN UNCHANGED disturbed ELSE Disturb(k)
    /\ UNCHANGED <<answer, cached, ran, mutated>>

\* Mutation of Lookup: an error reply counts as a miss.
LookupSuccess(a) ==
    /\ ipc[a] = "get"
    /\ IF cached[keyOf[a]] # Null /\ cached[keyOf[a]].status = "success"
       THEN IdemGoTo(a, "send") /\ answer' = [answer EXCEPT ![a] = cached[keyOf[a]]]
       ELSE IdemGoTo(a, "handler") /\ UNCHANGED answer
    /\ UNCHANGED <<keyOf, cached, ran, mutated, disturbed>>

\* Mutation of Lookup: the storage key leaves out the url.
LookupAnyKey(a) ==
    /\ ipc[a] = "get"
    /\ IF \E k \in Keys : cached[k] # Null
       THEN \E k \in Keys : /\ cached[k] # Null
                            /\ IdemGoTo(a, "send") /\ answer' = [answer EXCEPT ![a] = cached[k]]
       ELSE IdemGoTo(a, "handler") /\ UNCHANGED answer
    /\ UNCHANGED <<keyOf, cached, ran, mutated, disturbed>>

\* redis.get: a hit is replayed and the handler skipped, a miss lets it run.
Lookup(a) ==
    /\ ipc[a] = "get"
    /\ IF cached[keyOf[a]] # Null
       THEN IdemGoTo(a, "send") /\ answer' = [answer EXCEPT ![a] = cached[keyOf[a]]]
       ELSE IdemGoTo(a, "handler") /\ UNCHANGED answer
    /\ UNCHANGED <<keyOf, cached, ran, mutated, disturbed>>

\* redis.get throws: 500 without the handler, and nothing is stored.
LookupFails(a) ==
    /\ ipc[a] = "get"
    /\ IdemGoTo(a, "send")
    /\ answer' = [answer EXCEPT ![a] = Refused]
    /\ UNCHANGED <<keyOf, cached, ran, mutated, disturbed>>

\* The handler runs: with success it has committed its mutation, with an error
\* it may have committed a part of it (a grant whose append failed).
RunHandler(a) ==
    /\ ipc[a] = "handler"
    /\ \E s \in {"success", "error"}, m \in BOOLEAN :
          /\ s = "success" => m
          /\ answer'  = [answer EXCEPT ![a] = [by |-> a, status |-> s]]
          /\ mutated' = IF m THEN mutated \cup {a} ELSE mutated
          /\ IdemGoTo(a, IF s = "success" THEN "set" ELSE "setError")
    /\ ran' = ran \cup {a}
    /\ UNCHANGED <<keyOf, cached, disturbed>>

\* Mutation of Store: only a success is stored.
StoreSuccess(a) ==
    /\ ipc[a] \in {"set", "setError"}
    /\ cached' = IF ipc[a] = "set" THEN [cached EXCEPT ![keyOf[a]] = answer[a]]
                 ELSE cached
    /\ IdemGoTo(a, "send")
    /\ UNCHANGED <<keyOf, answer, ran, mutated, disturbed>>

\* onSend's redis.set: any status is stored, over whatever is there.
Store(a) ==
    /\ ipc[a] \in {"set", "setError"}
    /\ cached' = [cached EXCEPT ![keyOf[a]] = answer[a]]
    /\ IdemGoTo(a, "send")
    /\ UNCHANGED <<keyOf, answer, ran, mutated, disturbed>>

\* Mutation of StoreFails: the failure is ignored.
StoreFailsQuietly(a) ==
    /\ ipc[a] \in {"set", "setError"}
    /\ IdemGoTo(a, "send")
    /\ UNCHANGED <<keyOf, answer, cached, ran, mutated, disturbed>>

\* redis.set throws.  A success becomes an error reply, for which onSend runs
\* once more; an error reply goes out as it is.
StoreFails(a) ==
    /\ ipc[a] \in {"set", "setError"}
    /\ IF ipc[a] = "set"
       THEN /\ IdemGoTo(a, "setError")
            /\ answer' = [answer EXCEPT ![a] = [by |-> a, status |-> "error"]]
            /\ UNCHANGED disturbed
       ELSE /\ IdemGoTo(a, "send")
            /\ Disturb(keyOf[a])
            /\ UNCHANGED answer
    /\ UNCHANGED <<keyOf, cached, ran, mutated>>

Send(a) ==
    /\ ipc[a] = "send"
    /\ IdemGoTo(a, "answered")
    /\ UNCHANGED <<keyOf, answer, cached, ran, mutated, disturbed>>

\* The pod dies with the attempt in it.  A handler that was running may have
\* committed its mutation.
Die(a) ==
    /\ ipc[a] \in InFlight
    /\ IdemGoTo(a, "dead")
    /\ \/ UNCHANGED <<ran, mutated>>
       \/ ipc[a] = "handler" /\ ran' = ran \cup {a} /\ mutated' = mutated \cup {a}
    /\ IF ipc[a] \in {"handler", "set", "setError"} THEN Disturb(keyOf[a])
       ELSE UNCHANGED disturbed
    /\ answer' = [answer EXCEPT ![a] = Null]
    /\ UNCHANGED <<keyOf, cached>>

\* An entry reaches its TTL (3600 s by default), or Redis loses it.
Forget(k) ==
    /\ cached[k] # Null
    /\ cached' = [cached EXCEPT ![k] = Null]
    /\ Disturb(k)
    /\ UNCHANGED <<ipc, keyOf, answer, ran, mutated>>

\* What the event loop does for an attempt.
Go(a) ==
    \/ Lookup(a)
    \/ LookupFails(a)
    \/ RunHandler(a)
    \/ Store(a)
    \/ StoreFails(a)
    \/ Send(a)

Next ==
    \/ \E a \in Attempts : Go(a) \/ Die(a) \/ \E k \in Keys : Arrive(a, k)
    \/ \E k \in Keys : Forget(k)

Spec == Init /\ [][Next]_idemVars

-----------------------------------------------------------------------------
\* As long as the attempts with a key come one after another, each answered
\* before the next, and Redis keeps what it is given, the handler runs once
\* for the key, whether that run succeeded, failed or failed half-way.
RunsOnceUnlessDisturbed ==
    \A a, b \in ran : keyOf[a] = keyOf[b] /\ keyOf[a] \notin disturbed => a = b

\* Under the same conditions every attempt that is answered from a handler
\* gets the answer of that one run, also when the run's own answer was turned
\* into an error by a failing store.
SameAnswerUnlessDisturbed ==
    \A a, b \in Attempts :
        /\ ipc[a] = "answered" /\ answer[a] # Refused
        /\ ipc[b] = "answered" /\ answer[b] # Refused
        /\ keyOf[a] = keyOf[b] /\ keyOf[a] \notin disturbed
        => answer[a] = answer[b]

\* Whatever overlapped, was lost or expired, a client that gets a success, be
\* it a replay, gets it of a mutation that was committed for its own key.
SuccessIsOfMutation ==
    \A a \in Attempts :
        ipc[a] = "answered" /\ answer[a].status = "success"
        => answer[a].by \in mutated /\ keyOf[answer[a].by] = keyOf[a]

-----------------------------------------------------------------------------
(***************************************************************************)
(* The inductive invariant behind the theorems of GrantFlowProofs.         *)
(***************************************************************************)
\* What an attempt holds at each step.
AttemptShape ==
    \A a \in Attempts :
        /\ ipc[a] # "idle" <=> keyOf[a] # Null
        /\ ipc[a] \in {"idle", "get", "handler"} => answer[a] = Null /\ a \notin ran
        /\ ipc[a] = "set" => answer[a] = [by |-> a, status |-> "success"] /\ a \in mutated
        /\ ipc[a] = "setError" => answer[a] = [by |-> a, status |-> "error"] /\ a \in ran
        /\ ipc[a] \in {"send", "answered"} => answer[a] # Null

\* A reply, in Redis or on its way, is of a run for its key, and a success of
\* a mutation.
ReplyShape ==
    /\ \A k \in Keys : cached[k] # Null =>
          /\ cached[k].by \in ran /\ keyOf[cached[k].by] = k
          /\ cached[k].status = "success" => cached[k].by \in mutated
    /\ \A a \in Attempts : answer[a] \in Replies =>
          /\ answer[a].by \in ran /\ keyOf[answer[a].by] = keyOf[a]
          /\ answer[a].status = "success" => answer[a].by \in mutated

\* Of an undisturbed key at most one attempt is in flight; its run is over and
\* stored, or that attempt is about to store it, or there was none.
TurnOfKey ==
    \A k \in Keys \ disturbed :
        /\ \A a, b \in Live(k) : a = b
        /\ \A a \in Attempts : keyOf[a] = k /\ a \in ran =>
              \/ ipc[a] \in {"set", "setError"}
              \/ cached[k] # Null /\ cached[k].by = a
        /\ \A a \in Attempts : keyOf[a] = k /\ ipc[a] \in {"handler", "set", "setError"} =>
              cached[k] = Null
        /\ \A a \in Attempts : keyOf[a] = k /\ ipc[a] \in {"send", "answered"} =>
              answer[a] \in {Refused, cached[k]}

IdemInv == IdemTypeOK /\ AttemptShape /\ ReplyShape /\ TurnOfKey

=============================================================================
