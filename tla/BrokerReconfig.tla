---------------------------- MODULE BrokerReconfig ----------------------------
(***************************************************************************)
(* The admin route PUT /v1/admin/plugins/message-broker of one pod         *)
(* (server.ts, domain/broker-plugin-config.ts).  A request stores the new  *)
(* configuration, stops the publisher behind the global variable, replaces *)
(* it by a new OutboxPublisher and starts that one if it found the old one *)
(* running.  It is suspended in stop, disconnect and connect, and reads    *)
(* the global variable again after each, so requests overlap.              *)
(***************************************************************************)
EXTENDS OutboxPublisher

CONSTANTS
    Puts,           \* the PUT requests, each handled once
    Entries,        \* what a broker list may contain, "" for a blank entry
    EnvProvider, EnvBrokers,  \* MESSAGE_BROKER_PROVIDER, KAFKA_BROKERS
    Boot,           \* the publisher that onReady has connected and started
    ConnectMayFail  \* whether a broker list may be one that connect fails on

ASSUME ReconfigAssumption == /\ EnvProvider \in {"redpanda", "kafka"}
                              /\ EnvBrokers \subseteq Entries
                              /\ Boot \in Publishers
                              /\ ConnectMayFail \in BOOLEAN

VARIABLES
    stored,     \* the configuration that brokerPluginStore holds
    global,     \* the variable outboxPublisher
    made,       \* the publishers constructed so far
    config,     \* config[p]: the brokers publisher p was made with
    connected,  \* the publishers whose producer is connected
    upc,        \* upc[r]: where request r is suspended, or how it ended
    next,       \* next[r]: nextConfig
    answer,     \* answer[r]: the configuration that r was answered with
    was,        \* was[r]: wasRunning
    at,         \* at[r]: the publisher whose stop, disconnect or connect r awaits
    overlapped, \* history: two requests have been in progress at once
    failed      \* history: a connect has failed

adminVars    == <<stored, global, made, config, connected>>
requestVars  == <<upc, next, answer, was, at, overlapped, failed>>
reconfigVars == <<adminVars, requestVars>>
allVars      == <<outboxVars, reconfigVars>>

InProgress == {"stopping", "stopped", "disconnecting", "connecting"}
Busy == {r \in Puts : upc[r] \in InProgress}

\* Request bodies.  The order of a broker list is left out, and brokers that
\* are not given are none.
Providers == {"redpanda", "kafka"}
Bodies == [provider : Providers, brokers : SUBSET Entries]

defaultBrokersForProvider(p) == IF p = "kafka" THEN {"kafka:9092"} ELSE {"redpanda:9092"}
sanitizeBrokers(brokers) == brokers \ {""}

\* What the store makes of body b: blank entries are dropped, and a provider
\* without a broker has its default one.  updatedAt is the request that made
\* the update, Null for the environment.
ConfigOf(b, u) ==
    LET clean == sanitizeBrokers(b.brokers)
    IN  [provider  |-> b.provider,
         brokers   |-> IF clean # {} THEN clean ELSE defaultBrokersForProvider(b.provider),
         updatedAt |-> u]
Configs == {ConfigOf(b, u) : b \in Bodies, u \in Puts \cup {Null}}
BootConfig == ConfigOf([provider |-> EnvProvider, brokers |-> EnvBrokers], Null)

ReconfigTypeOK ==
    /\ stored    \in Configs
    /\ global    \in made
    /\ made      \subseteq Publishers
    /\ config    \in [Publishers -> {k.brokers : k \in Configs}]
    /\ connected \subseteq made
    /\ upc  \in [Puts -> {"idle", "ok", "failed"} \cup InProgress]
    /\ {next, answer} \subseteq [Puts -> Configs]
    /\ was  \in [Puts -> BOOLEAN]
    /\ at   \in [Puts -> made]
    /\ overlapped \in BOOLEAN
    /\ failed     \in BOOLEAN

\* The pod is up: onReady has made, connected and started Boot.
ReconfigInit ==
    /\ TablesInit
    /\ KafkaInit
    /\ running = [p \in Publishers |-> p = Boot]
    /\ wpc     = [p \in Publishers |-> IF p = Boot THEN "wait" ELSE "none"]
    /\ batch   = [p \in Publishers |-> {}]
    /\ refused = [p \in Publishers |-> {}]
    /\ stored     = BootConfig
    /\ config     = [p \in Publishers |-> BootConfig.brokers]
    /\ next       = [r \in Puts |-> BootConfig]
    /\ answer     = [r \in Puts |-> BootConfig]
    /\ global     = Boot
    /\ made       = {Boot}
    /\ connected  = {Boot}
    /\ upc        = [r \in Puts |-> "idle"]
    /\ was        = [r \in Puts |-> FALSE]
    /\ at         = [r \in Puts |-> Boot]
    /\ overlapped = FALSE
    /\ failed     = FALSE

RequestGoTo(r, l) == upc' = [upc EXCEPT ![r] = l]

\* Mutation of StoreUpdate: an empty list is stored as it is.
StoreUndefaulted(r, b) ==
    /\ stored' = [ConfigOf(b, r) EXCEPT !.brokers = sanitizeBrokers(b.brokers)]
    /\ next'   = [next EXCEPT ![r] = stored']

\* The store's update, kept by the request as nextConfig.
StoreUpdate(r, b) ==
    /\ stored' = ConfigOf(b, r)
    /\ next'   = [next EXCEPT ![r] = stored']

\* What GET answers: the stored configuration beside whether a worker is on.
GetAnswer ==
    [provider |-> stored.provider, brokers |-> stored.brokers, running |-> running[global]]

\* The request ends, answered with what the store holds by then.
Answer(r) == answer' = [answer EXCEPT ![r] = stored] /\ RequestGoTo(r, "ok")

\* A publisher makes its producer when it connects; to disconnect may fail.
Connect(p)    == connected' = connected \cup {p}
Disconnect(p) == connected' \in {connected, connected \ {p}}

-----------------------------------------------------------------------------
\* Mutation of Put: wasRunning is read after stop has cleared the flag.
PutReadsLate(r, b) ==
    /\ upc[r] = "idle"
    /\ StoreUpdate(r, b)
    /\ was'    = [was EXCEPT ![r] = FALSE]
    /\ at'     = [at EXCEPT ![r] = global]
    /\ StopFlag(global)
    /\ RequestGoTo(r, IF wpc[global] = "none" THEN "stopped" ELSE "stopping")
    /\ overlapped' = (overlapped \/ Busy # {})
    /\ UNCHANGED <<tableVars, kafkaVars, global, made, config, connected, answer, failed>>

\* Up to the first await: the configuration is stored, wasRunning read, and
\* stop has cleared the flag; it awaits the worker, if there is one by now.
Put(r, b) ==
    /\ upc[r] = "idle"
    /\ StoreUpdate(r, b)
    /\ was'    = [was EXCEPT ![r] = running[global]]
    /\ at'     = [at EXCEPT ![r] = global]
    /\ StopFlag(global)
    /\ RequestGoTo(r, IF wpc[global] = "none" THEN "stopped" ELSE "stopping")
    /\ overlapped' = (overlapped \/ Busy # {})
    /\ UNCHANGED <<tableVars, kafkaVars, global, made, config, connected, answer, failed>>

\* Mutation of Stopped: stop does not wait for the worker.
StoppedAtOnce(r) ==
    /\ upc[r] \in {"stopped", "stopping"}
    /\ at' = [at EXCEPT ![r] = global]
    /\ RequestGoTo(r, "disconnecting")
    /\ UNCHANGED <<outboxVars, adminVars, next, answer, was, overlapped, failed>>

\* stop returns once the worker is gone; disconnect is called on the publisher
\* that is behind the global variable by now.
Stopped(r) ==
    /\ upc[r] = "stopped" \/ (upc[r] = "stopping" /\ wpc[at[r]] = "none")
    /\ at' = [at EXCEPT ![r] = global]
    /\ RequestGoTo(r, "disconnecting")
    /\ UNCHANGED <<outboxVars, adminVars, next, answer, was, overlapped, failed>>

\* disconnect is over (its error is swallowed): the global variable gets a new
\* publisher, which is connected if wasRunning.
Replace(r, p) ==
    /\ upc[r] = "disconnecting"
    /\ p \in Publishers \ made  \* an object of its own for each request
    /\ made'   = made \cup {p}
    /\ global' = p
    /\ config' = [config EXCEPT ![p] = next[r].brokers]
    /\ at'     = [at EXCEPT ![r] = p]
    /\ Disconnect(at[r])
    /\ IF was[r] THEN RequestGoTo(r, "connecting") /\ UNCHANGED answer ELSE Answer(r)
    /\ UNCHANGED <<outboxVars, stored, next, was, overlapped, failed>>

\* connect is over; start is called on the publisher behind the global variable.
ConnectedAndStarted(r) ==
    /\ upc[r] = "connecting"
    /\ Connect(at[r])
    /\ Start(global)
    /\ Answer(r)
    /\ UNCHANGED <<tableVars, kafkaVars, stored, global, made, config, next, was, at,
                   overlapped, failed>>

\* connect throws: the route answers 400 and nothing is undone.
ConnectFails(r) ==
    /\ ConnectMayFail
    /\ upc[r] = "connecting"
    /\ failed' = TRUE
    /\ RequestGoTo(r, "failed")
    /\ UNCHANGED <<outboxVars, adminVars, next, answer, was, at, overlapped>>

\* What the event loop does for a request.
Resume(r) ==
    \/ Stopped(r)
    \/ \E p \in Publishers : Replace(r, p)
    \/ ConnectedAndStarted(r)
    \/ ConnectFails(r)

\* A worker without a connected producer gets an error from every send.
WorkerStep(p) ==
    /\ Draining(p) \/ (p \in connected /\ Sending(p)) \/ SendThrows(p, {})
    /\ UNCHANGED reconfigVars

ReconfigNext ==
    \/ Producing /\ UNCHANGED reconfigVars
    \/ \E p \in Publishers : WorkerStep(p)
    \/ \E r \in Puts : Resume(r) \/ \E b \in Bodies : Put(r, b)

ReconfigSpec == ReconfigInit /\ [][ReconfigNext]_allVars

\* As for OutboxPublisher, for whichever publisher drains, and the event loop
\* resumes what has settled.
ReconfigFairness ==
    /\ WF_allVars(\E p \in Publishers : WorkerStep(p))
    /\ SF_allVars((\E p \in Publishers : Poll(p)) /\ UNCHANGED reconfigVars)
    /\ SF_allVars((\E p \in connected : Send(p, {})) /\ UNCHANGED reconfigVars)
    /\ SF_allVars((\E p \in Publishers, e \in Events : MarkPublished(p, e)) /\ UNCHANGED reconfigVars)
    /\ WF_allVars(\E r \in Puts : Resume(r))

ReconfigFairSpec == ReconfigSpec /\ ReconfigFairness

-----------------------------------------------------------------------------
\* However requests overlap, no two publishers of the pod drain at once: only
\* one request can have found a publisher running and may start another, and
\* it waits for the worker of the old one.
OneWorker ==
    \A p, q \in Publishers : wpc[p] # "none" /\ wpc[q] # "none" => p = q

\* As long as requests have come one at a time, between two of them the
\* publisher behind the global variable has the brokers that GET answers, also
\* after a failed connect; before the first of those GET says that it runs, and
\* it is connected.
InForceBetweenPuts ==
    Busy = {} /\ ~overlapped =>
        /\ config[global] = GetAnswer.brokers
        /\ ~failed => GetAnswer.running /\ global \in connected

\* Under the same conditions nothing committed stays unpublished.
PublishedUnlessDisturbed ==
    \A e \in Events :
        (row[e] = "pending") ~> (row[e] = "published" \/ overlapped \/ failed)

-----------------------------------------------------------------------------
(***************************************************************************)
(* The inductive invariant behind the theorems of BrokerReconfigProofs.    *)
(***************************************************************************)
\* The request that found a publisher running, until it has started another.
Holds(r) == was[r] /\ r \in Busy

\* Either one publisher runs or one request holds the right to start one, and
\* a worker that outlives its flag is waited for by that request.
TokenShape ==
    /\ \A p, q \in Publishers : running[p] /\ running[q] => p = q
    /\ \A r \in Puts : Holds(r) => \A p \in Publishers : ~running[p]
    /\ \A r, s \in Puts : Holds(r) /\ Holds(s) => r = s
    /\ \A r \in Puts : upc[r] = "connecting" => was[r]
    /\ \A p \in Publishers : running[p] => wpc[p] # "none"
    /\ \A p \in Publishers : wpc[p] # "none" /\ ~running[p] =>
          \E r \in Puts : Holds(r) /\ upc[r] = "stopping" /\ at[r] = p

\* What holds as long as requests come one at a time, and what besides as long
\* as connects succeed.
TurnShape ==
    ~overlapped =>
        /\ \A r, s \in Busy : r = s
        /\ \A r \in Busy : at[r] = global /\ next[r] = stored /\ stored.updatedAt = r
        /\ \A r \in Busy : upc[r] = "connecting" => config[global] = stored.brokers
        /\ Busy = {} => config[global] = stored.brokers
        /\ ~failed => /\ \A r \in Busy : was[r]
                      /\ Busy = {} => running[global] /\ global \in connected

ReconfigInv == OutboxInv /\ ReconfigTypeOK /\ TokenShape /\ TurnShape

-----------------------------------------------------------------------------
\* What the repository's documents say and the code does not do.

\* outbox-publisher.ts: "DB commit implies eventual Kafka publication".  When
\* requests have overlapped, or a connect has failed, nobody may be draining.
CommitImpliesPublication ==
    \A e \in Events : (row[e] = "pending") ~> (e \in InKafka)
=============================================================================
