------------------------------- MODULE Registry -------------------------------
(***************************************************************************)
(* The registry of trust nodes (services/registry): table trust_nodes, the *)
(* routes that register, show and list nodes, and the operators who set a  *)
(* node's status.  Each request is one SQL statement, except that a node   *)
(* is shown after a second one has recorded that it was asked for.  Any    *)
(* statement may fail; one that the server has received takes effect all   *)
(* the same, at once or later.                                             *)
(***************************************************************************)
EXTENDS Naturals, FiniteSets

CONSTANTS
    Nodes,        \* node ids
    Requests,     \* requests of clients and operators, each made once
    Limits,       \* the limits that lists are asked for; 0 counts as none
    DefaultLimit, \* the limit of a list without one (100 in the code)
    Instants,     \* the instants of created_at: statements that overlap take
                  \* theirs in any order, and two may take the same one
    Null          \* no request

ASSUME RegistryAssumption ==
    /\ Null \notin Requests
    /\ IsFiniteSet(Nodes)
    /\ Limits \subseteq Nat /\ DefaultLimit \in Nat \ {0}
    /\ Instants \subseteq Nat /\ Instants # {}

Statuses == {"active", "inactive", "revoked"}

VARIABLES
    reg,      \* reg[n]: the request whose data node n's row has, Null without a row
    status,   \* status[n]: its status
    created,  \* created[n]: its created_at
    req,      \* req[r]: what request r asks
    rpc,      \* rpc[r]: the statement it awaits, or the reply's code
    found,    \* found[r]: the registration that a lookup has read
    listed,   \* listed[r]: the nodes that a list has read
    late,     \* requests given up whose statement may still take effect
    acked,    \* history: the nodes with an acknowledged registration
    replaced, \* history: the acknowledged registrations that a later one replaced
    known,    \* history: known[r], the nodes that r's reply has to know of
    stale,    \* history: stale[r], what replaced was when r was made
    began,    \* history: began[r], the registrations acknowledged when r was made
    troubled  \* history: the requests with a failed statement

tableVars    == <<reg, status, created>>
requestVars  == <<req, rpc, found, listed, late>>
historyVars  == <<acked, replaced, known, stale, began, troubled>>
registryVars == <<tableVars, requestVars, historyVars>>

Asked == [kind : {"register", "get"}, node : Nodes]
         \cup [kind : {"setStatus"}, node : Nodes, to : Statuses]
         \cup [kind : {"list"}, status : Statuses, limit : Limits]

RegistryTypeOK ==
    /\ reg      \in [Nodes -> Requests \cup {Null}]
    /\ status   \in [Nodes -> Statuses]
    /\ created  \in [Nodes -> Nat]
    /\ req      \in [Requests -> Asked \cup {Null}]
    /\ rpc      \in [Requests -> {"idle", "sent", "seen", "200", "201", "400", "404"}]
    /\ found    \in [Requests -> Requests \cup {Null}]
    /\ listed   \in [Requests -> SUBSET Nodes]
    /\ late     \subseteq Requests
    /\ acked    \subseteq Nodes
    /\ replaced \subseteq Requests
    /\ known    \in [Requests -> SUBSET Nodes]
    /\ stale    \in [Requests -> SUBSET Requests]
    /\ began    \in [Requests -> SUBSET Requests]
    /\ troubled \subseteq Requests

RegistryInit ==
    /\ reg      = [n \in Nodes |-> Null]
    /\ status   = [n \in Nodes |-> "active"]
    /\ created  = [n \in Nodes |-> 0]
    /\ req      = [r \in Requests |-> Null]
    /\ rpc      = [r \in Requests |-> "idle"]
    /\ found    = [r \in Requests |-> Null]
    /\ listed   = [r \in Requests |-> {}]
    /\ late     = {}
    /\ acked    = {}
    /\ replaced = {}
    /\ known    = [r \in Requests |-> {}]
    /\ stale    = [r \in Requests |-> {}]
    /\ began    = [r \in Requests |-> {}]
    /\ troubled = {}

Reply(r, code)   == rpc' = [rpc EXCEPT ![r] = code]
Awaits(r, k, pc) == rpc[r] = pc /\ req[r].kind = k
Asks(r, k)       == Awaits(r, k, "sent")

-----------------------------------------------------------------------------
\* A request arrives.
Ask(r, q) ==
    /\ rpc[r] = "idle"
    /\ req'   = [req EXCEPT ![r] = q]
    /\ known' = [known EXCEPT ![r] =
                    IF q.kind = "list" THEN {n \in acked : status[n] = q.status}
                    ELSE acked \cap {q.node}]
    /\ stale' = [stale EXCEPT ![r] = replaced]
    /\ began' = [began EXCEPT ![r] = {s \in Requests : rpc[s] = "201"}]
    /\ Reply(r, "sent")
    /\ UNCHANGED <<tableVars, found, listed, late, acked, replaced, troubled>>

\* Mutation of Upsert: a registration makes the node active again.
UpsertActive(r, n) ==
    /\ reg'    = [reg EXCEPT ![n] = r]
    /\ status' = [status EXCEPT ![n] = "active"]
    /\ UNCHANGED <<created, known>>

\* Mutation of Upsert: a row that is there is kept as it is.
UpsertNothing(r, n) ==
    /\ reg' = [reg EXCEPT ![n] = IF @ = Null THEN r ELSE @]
    /\ UNCHANGED <<status, created, known>>

\* INSERT .. ON CONFLICT DO UPDATE: a new row is active; the status and the
\* created_at of an old one stay.
Upsert(r, n) ==
    /\ reg' = [reg EXCEPT ![n] = r]
    /\ \/ reg[n] # Null /\ UNCHANGED created
       \/ reg[n] = Null /\ \E t \in Instants : created' = [created EXCEPT ![n] = t]
    /\ UNCHANGED <<status, known>>

\* UPDATE .. SET status.  Lists that are under way may or may not show it.
UpdateStatus(n, to) ==
    /\ reg[n] # Null
    /\ status' = [status EXCEPT ![n] = to]
    /\ known'  = [s \in Requests |-> IF Asks(s, "list") THEN known[s] \ {n} ELSE known[s]]
    /\ UNCHANGED <<reg, created>>

\* POST /v1/nodes.
Register(r) ==
    /\ Asks(r, "register")
    /\ Upsert(r, req[r].node)
    /\ Reply(r, "201")
    /\ acked'    = acked \cup {req[r].node}
    /\ replaced' = replaced \cup {s \in began[r] : req[s].node = req[r].node}
    /\ UNCHANGED <<req, found, listed, late, stale, began, troubled>>

\* Mutation of GetById: a missing row is not noticed.
GetByIdUnchecked(r) ==
    /\ Asks(r, "get")
    /\ found' = [found EXCEPT ![r] = reg[req[r].node]]
    /\ Reply(r, "seen")
    /\ UNCHANGED <<tableVars, req, listed, late, historyVars>>

\* GET /v1/nodes/:nodeId: the row is read; without one the answer is 404.
GetById(r) ==
    /\ Asks(r, "get")
    /\ found' = [found EXCEPT ![r] = reg[req[r].node]]
    /\ Reply(r, IF reg[req[r].node] = Null THEN "404" ELSE "seen")
    /\ UNCHANGED <<tableVars, req, listed, late, historyVars>>

\* UPDATE last_seen_at, then the node is answered as it was read.
UpdateLastSeen(r) ==
    /\ Awaits(r, "get", "seen")
    /\ Reply(r, "200")
    /\ UNCHANGED <<tableVars, req, found, listed, late, historyVars>>

Limit(q) == IF q.limit = 0 THEN DefaultLimit ELSE q.limit

\* The answers to ORDER BY created_at DESC LIMIT over some rows: as many rows
\* as the limit allows, none of them older than one that is left out.
Newest(rows, limit) ==
    {S \in SUBSET rows :
        /\ \A m \in S, n \in rows \ S : created[m] >= created[n]
        /\ IF S = rows THEN Cardinality(S) <= limit ELSE Cardinality(S) = limit}

Rows         == {n \in Nodes : reg[n] # Null}
RowsOf(want) == {n \in Rows : status[n] = want}

\* Mutation of Select: the limit is applied before the status.
SelectLate(q) == {S \cap RowsOf(q.status) : S \in Newest(Rows, Limit(q))}

\* SELECT .. WHERE status ORDER BY created_at DESC LIMIT.
Select(q) == Newest(RowsOf(q.status), Limit(q))

\* GET /v1/nodes.
List(r) ==
    /\ Asks(r, "list")
    /\ \E S \in Select(req[r]) : listed' = [listed EXCEPT ![r] = S]
    /\ Reply(r, "200")
    /\ UNCHANGED <<tableVars, req, found, late, historyVars>>

\* An operator sets a status, through the repository: no route does.
SetStatus(r) ==
    /\ Asks(r, "setStatus")
    /\ UpdateStatus(req[r].node, req[r].to)
    /\ Reply(r, "200")
    /\ UNCHANGED <<req, found, listed, late, acked, replaced, stale, began, troubled>>

\* A statement fails, or its answer is lost: 400, but 404 when a node was asked
\* for, also if it was the second statement that failed.
Fails(r) ==
    /\ rpc[r] \in {"sent", "seen"}
    /\ Reply(r, IF req[r].kind = "get" THEN "404" ELSE "400")
    /\ troubled' = troubled \cup {r}
    /\ late'     = IF req[r].kind \in {"register", "setStatus"} THEN late \cup {r} ELSE late
    /\ UNCHANGED <<tableVars, req, found, listed, acked, replaced, known, stale, began>>

\* A statement whose answer was lost takes effect.
Land(r) ==
    /\ r \in late
    /\ late' = late \ {r}
    /\ \/ req[r].kind = "register" /\ Upsert(r, req[r].node)
       \/ req[r].kind = "setStatus" /\ UpdateStatus(req[r].node, req[r].to)
    /\ UNCHANGED <<req, rpc, found, listed, acked, replaced, stale, began, troubled>>

Statement(r) ==
    \/ Register(r)
    \/ GetById(r)
    \/ UpdateLastSeen(r)
    \/ List(r)
    \/ SetStatus(r)
    \/ Fails(r)
    \/ Land(r)

RegistryNext == \E r \in Requests : Statement(r) \/ \E q \in Asked : Ask(r, q)

RegistrySpec == RegistryInit /\ [][RegistryNext]_registryVars

-----------------------------------------------------------------------------
\* A node's status is the operators' alone, and its place in the lists never
\* changes: a node that registers again, be it revoked, stays what it was.
RegistrationKeepsStatus ==
    [][\A n \in Rows :
          /\ n \in Rows' /\ created'[n] = created[n]
          /\ status'[n] # status[n] =>
                \E r \in Requests :
                    /\ \/ rpc[r] = "sent" /\ rpc'[r] = "200"
                       \/ r \in late \ late'
                    /\ req[r].kind = "setStatus"
                    /\ req[r].node = n /\ req[r].to = status'[n]
      ]_registryVars

\* A node whose registration was acknowledged before it is asked for is found,
\* unless a statement of the lookup failed, and is shown with no registration
\* that an acknowledged one had replaced by then, however late others landed.
LookupsAreCurrent ==
    \A r \in Requests :
        /\ rpc[r] = "404" => r \in troubled \/ known[r] = {}
        /\ Awaits(r, "get", "200") => found[r] \notin stale[r]

\* A list holds every node that had its status from before the request to its
\* end, unless the list is full, and then with nodes that are no older.
ListsAreComplete ==
    \A r \in Requests : Awaits(r, "list", "200") =>
        \A n \in known[r] \ listed[r] :
            /\ Cardinality(listed[r]) = Limit(req[r])
            /\ \A m \in listed[r] : created[m] >= created[n]

-----------------------------------------------------------------------------
(***************************************************************************)
(* The inductive invariant behind the theorems of RegistryProofs.          *)
(***************************************************************************)
\* What a request asks at each of its steps; only a write can be late.
AskedShape ==
    \A r \in Requests :
        /\ rpc[r] # "idle" => req[r] \in Asked
        /\ rpc[r] = "201" => req[r].kind = "register"
        /\ rpc[r] \in {"seen", "404"} => req[r].kind = "get"
        /\ rpc[r] = "seen" => found[r] \in Requests
        /\ r \in late => rpc[r] = "400" /\ req[r].kind \in {"register", "setStatus"}

\* A row holds a registration of its node that is over, and that no later one
\* has replaced: an acknowledged registration never takes effect again.
RowShape ==
    /\ \A n \in Rows : /\ rpc[reg[n]] \in {"201", "400"}
                       /\ req[reg[n]].kind = "register" /\ req[reg[n]].node = n
                       /\ reg[n] \notin replaced
    /\ acked \subseteq Rows
    /\ \A s \in replaced : rpc[s] = "201"
    /\ \A r \in Requests : /\ stale[r] \subseteq replaced
                           /\ \A s \in began[r] : rpc[s] = "201"

\* What a request has to know of is there, and as the request wants it until
\* it is answered; what it was shown stays older than what replaces it.
ReadShape ==
    \A r \in Requests :
        /\ known[r] \cup listed[r] \subseteq Rows
        /\ Asks(r, "list") => known[r] \subseteq RowsOf(req[r].status)
        /\ Asks(r, "get") => known[r] \subseteq {req[r].node}
        /\ rpc[r] = "seen" => found[r] \notin stale[r]

RegistryInv == /\ RegistryTypeOK /\ AskedShape /\ RowShape /\ ReadShape
               /\ LookupsAreCurrent /\ ListsAreComplete
=============================================================================
