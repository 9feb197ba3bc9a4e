---------------------------- MODULE RegistryProofs ----------------------------
(***************************************************************************)
(* The registry keeps RegistryInv, and with it its promises about statuses, *)
(* lookups and lists, for any numbers of nodes and requests, any limits and *)
(* instants.                                                               *)
(***************************************************************************)
EXTENDS Registry, TLAPS

\* The forms a request takes, by its kind.
LEMMA AskedByKind ==
    ASSUME NEW q \in Asked
    PROVE  /\ q.kind \in {"register", "get"} => q.node \in Nodes
           /\ q.kind = "setStatus" => q.node \in Nodes /\ q.to \in Statuses
           /\ q.kind = "list" => q.status \in Statuses /\ q.limit \in Limits
           /\ q.kind \in {"register", "get", "setStatus", "list"}
BY DEF Asked

\* A list is cut only when it is full, and then nothing in it is older than
\* what was cut.
LEMMA NewestIsFullOrAll ==
    ASSUME NEW rows \in SUBSET Nodes, NEW limit, NEW S \in Newest(rows, limit),
           NEW n \in rows \ S
    PROVE  /\ S \subseteq rows
           /\ Cardinality(S) = limit
           /\ \A m \in S : created[m] >= created[n]
BY DEF Newest

\* A registration changes one row, and only the data of a row that is there.
LEMMA UpsertKeeps ==
    ASSUME RegistryTypeOK, NEW r \in Requests, NEW n \in Nodes, Upsert(r, n)
    PROVE  /\ reg' \in [Nodes -> Requests \cup {Null}]
           /\ reg'[n] = r
           /\ \A m \in Nodes : m # n => reg'[m] = reg[m]
           /\ Rows' = Rows \cup {n}
           /\ created' \in [Nodes -> Nat]
           /\ \A m \in Rows : created'[m] = created[m]
           /\ status' = status /\ known' = known
<1>1. /\ reg' \in [Nodes -> Requests \cup {Null}]
      /\ reg'[n] = r /\ \A m \in Nodes : m # n => reg'[m] = reg[m]
      /\ status' = status /\ known' = known
  BY DEF Upsert, RegistryTypeOK
<1>2. Rows' = Rows \cup {n}
  BY <1>1, RegistryAssumption DEF Rows
<1>3. created' \in [Nodes -> Nat] /\ \A m \in Rows : created'[m] = created[m]
  <2>1. CASE reg[n] # Null
    BY <2>1 DEF Upsert, RegistryTypeOK
  <2>2. CASE reg[n] = Null
    <3>1. PICK t \in Instants : created' = [created EXCEPT ![n] = t]
      BY <2>2 DEF Upsert
    <3>2. t \in Nat
      BY RegistryAssumption
    <3>3. \A m \in Rows : m # n
      BY <2>2 DEF Rows
    <3> QED
      BY <3>1, <3>2, <3>3 DEF RegistryTypeOK, Rows
  <2> QED
    BY <2>1, <2>2
<1> QED
  BY <1>1, <1>2, <1>3

\* A change of status touches one status, and what lists have to know of.
LEMMA UpdateStatusKeeps ==
    ASSUME RegistryTypeOK, NEW n \in Nodes, NEW to \in Statuses, UpdateStatus(n, to)
    PROVE  /\ status' \in [Nodes -> Statuses]
           /\ status'[n] = to
           /\ \A m \in Nodes : m # n => status'[m] = status[m]
           /\ known' \in [Requests -> SUBSET Nodes]
           /\ \A s \in Requests : known'[s] \subseteq known[s]
           /\ \A s \in Requests : Asks(s, "list") => n \notin known'[s]
           /\ reg' = reg /\ created' = created /\ Rows' = Rows
BY DEF UpdateStatus, RegistryTypeOK, Rows

-----------------------------------------------------------------------------
(***************************************************************************)
(* The invariant, one lemma per kind of step.                              *)
(***************************************************************************)
LEMMA InitInv == RegistryInit => RegistryInv
<1> SUFFICES ASSUME RegistryInit PROVE RegistryInv
  OBVIOUS
<1>1. RegistryTypeOK
  BY RegistryAssumption DEF RegistryInit, RegistryTypeOK, Statuses
<1>2. AskedShape
  BY DEF RegistryInit, AskedShape
<1>3. RowShape
  BY DEF RegistryInit, RowShape, Rows
<1>4. ReadShape
  BY DEF RegistryInit, ReadShape, Rows, RowsOf, Asks, Awaits
<1>5. LookupsAreCurrent /\ ListsAreComplete
  BY DEF RegistryInit, LookupsAreCurrent, ListsAreComplete, Awaits
<1> QED
  BY <1>1, <1>2, <1>3, <1>4, <1>5 DEF RegistryInv

LEMMA AskInv ==
    ASSUME RegistryInv, NEW r \in Requests, NEW q \in Asked, Ask(r, q)
    PROVE  RegistryInv'
<1> USE DEF RegistryInv
<1>1. RegistryTypeOK'
  BY DEF Ask, Reply, RegistryTypeOK, tableVars
<1>2. AskedShape'
  BY DEF Ask, Reply, RegistryTypeOK, AskedShape
<1>3. RowShape'
  BY DEF Ask, Reply, RegistryTypeOK, AskedShape, RowShape, Rows, tableVars
<1>4. ReadShape'
  BY AskedByKind DEF Ask, Reply, RegistryTypeOK, AskedShape, RowShape, ReadShape, Rows, RowsOf,
     Asks, Awaits, tableVars
<1>5. LookupsAreCurrent'
  BY DEF Ask, Reply, RegistryTypeOK, LookupsAreCurrent, Awaits
<1>6. ListsAreComplete'
  BY DEF Ask, Reply, RegistryTypeOK, ListsAreComplete, Awaits, tableVars, Limit
<1> QED
  BY <1>1, <1>2, <1>3, <1>4, <1>5, <1>6

LEMMA RegisterInv ==
    ASSUME RegistryInv, NEW r \in Requests, Register(r)
    PROVE  RegistryInv'
<1> DEFINE n == req[r].node
<1> USE DEF RegistryInv
<1>0. /\ n \in Nodes /\ Upsert(r, n) /\ rpc[r] = "sent" /\ req[r].kind = "register"
      /\ r \notin replaced /\ r \notin began[r]
  BY AskedByKind DEF Register, Asks, Awaits, AskedShape, RowShape
<1>a. /\ reg' \in [Nodes -> Requests \cup {Null}]
      /\ reg'[n] = r
      /\ \A m \in Nodes : m # n => reg'[m] = reg[m]
      /\ Rows' = Rows \cup {n}
      /\ created' \in [Nodes -> Nat]
      /\ \A m \in Rows : created'[m] = created[m]
      /\ status' = status /\ known' = known
  BY <1>0, UpsertKeeps
<1> HIDE DEF n
<1>b. rpc' = [rpc EXCEPT ![r] = "201"]
  BY DEF Register, Reply
<1>1. RegistryTypeOK'
  BY <1>0, <1>a, <1>b DEF Register, RegistryTypeOK, n
<1>2. AskedShape'
  BY <1>0, <1>b DEF Register, RegistryTypeOK, AskedShape
<1>3. RowShape'
  <2>1. ASSUME NEW m \in Rows'
        PROVE  /\ rpc'[reg'[m]] \in {"201", "400"}
               /\ req'[reg'[m]].kind = "register" /\ req'[reg'[m]].node = m
               /\ reg'[m] \notin replaced'
    <3>1. CASE m = n
      BY <1>0, <1>a, <1>b, <3>1 DEF Register, RegistryTypeOK, n
    <3>2. CASE m # n
      <4>1. m \in Rows /\ m \in Nodes /\ reg[m] \in Requests /\ reg'[m] = reg[m]
        BY <1>a, <3>2 DEF Rows, RegistryTypeOK
      <4> QED
        BY <1>b, <3>2, <4>1 DEF Register, RegistryTypeOK, RowShape, n
    <3> QED
      BY <3>1, <3>2
  <2>2. acked' \subseteq Rows'
    BY <1>a DEF Register, RowShape, n
  <2>3. \A s \in replaced' : rpc'[s] = "201"
    BY <1>0, <1>b DEF Register, RegistryTypeOK, RowShape
  <2>4. \A s \in Requests : /\ stale'[s] \subseteq replaced'
                            /\ \A o \in began'[s] : rpc'[o] = "201"
    BY <1>b DEF Register, RegistryTypeOK, RowShape
  <2> QED
    BY <2>1, <2>2, <2>3, <2>4 DEF RowShape
<1>4. ReadShape'
  BY <1>0, <1>a, <1>b DEF Register, RegistryTypeOK, RowShape, ReadShape, RowsOf, Asks, Awaits
<1>5. LookupsAreCurrent'
  BY <1>0, <1>a, <1>b DEF Register, RegistryTypeOK, LookupsAreCurrent, Awaits
<1>6. ListsAreComplete'
  BY <1>0, <1>a, <1>b DEF Register, RegistryTypeOK, ReadShape, ListsAreComplete, Awaits, Limit
<1> QED
  BY <1>1, <1>2, <1>3, <1>4, <1>5, <1>6

LEMMA GetByIdInv ==
    ASSUME RegistryInv, NEW r \in Requests, GetById(r)
    PROVE  RegistryInv'
<1> USE DEF RegistryInv
<1>0. req[r].node \in Nodes /\ rpc[r] = "sent" /\ req[r].kind = "get" /\ req[r] \in Asked
  BY AskedByKind DEF GetById, Asks, Awaits, AskedShape
<1>1. RegistryTypeOK'
  BY <1>0 DEF GetById, Reply, RegistryTypeOK, tableVars, historyVars
<1>2. AskedShape'
  BY <1>0 DEF GetById, Reply, RegistryTypeOK, AskedShape
<1>3. RowShape'
  BY <1>0 DEF GetById, Reply, RegistryTypeOK, AskedShape, RowShape, Rows, tableVars, historyVars
<1>4. ReadShape'
  BY <1>0 DEF GetById, Reply, RegistryTypeOK, RowShape, ReadShape, Rows, RowsOf, Asks, Awaits,
     tableVars, historyVars
<1>5. LookupsAreCurrent'
  BY <1>0 DEF GetById, Reply, RegistryTypeOK, RowShape, ReadShape, Rows, Asks, Awaits,
     LookupsAreCurrent, tableVars, historyVars
<1>6. ListsAreComplete'
  BY <1>0 DEF GetById, Reply, RegistryTypeOK, ListsAreComplete, Awaits, Limit, tableVars, historyVars
<1> QED
  BY <1>1, <1>2, <1>3, <1>4, <1>5, <1>6

LEMMA UpdateLastSeenInv ==
    ASSUME RegistryInv, NEW r \in Requests, UpdateLastSeen(r)
    PROVE  RegistryInv'
<1> USE DEF RegistryInv
<1>0. rpc[r] = "seen" /\ req[r].kind = "get"
  BY DEF UpdateLastSeen, Awaits
<1>1. RegistryTypeOK'
  BY DEF UpdateLastSeen, Reply, RegistryTypeOK, tableVars, historyVars
<1>2. AskedShape'
  BY <1>0 DEF UpdateLastSeen, Reply, RegistryTypeOK, AskedShape
<1>3. RowShape'
  BY <1>0 DEF UpdateLastSeen, Reply, RegistryTypeOK, AskedShape, RowShape, Rows, tableVars, historyVars
<1>4. ReadShape'
  BY <1>0 DEF UpdateLastSeen, Reply, RegistryTypeOK, ReadShape, Rows, RowsOf, Asks, Awaits,
     tableVars, historyVars
<1>5. LookupsAreCurrent'
  BY <1>0 DEF UpdateLastSeen, Reply, RegistryTypeOK, ReadShape, LookupsAreCurrent, Awaits, historyVars
<1>6. ListsAreComplete'
  BY <1>0 DEF UpdateLastSeen, Reply, RegistryTypeOK, ListsAreComplete, Awaits, Limit, tableVars, historyVars
<1> QED
  BY <1>1, <1>2, <1>3, <1>4, <1>5, <1>6

LEMMA ListInv ==
    ASSUME RegistryInv, NEW r \in Requests, List(r)
    PROVE  RegistryInv'
<1> USE DEF RegistryInv
<1>0. rpc[r] = "sent" /\ req[r].kind = "list" /\ req[r] \in Asked
  BY DEF List, Asks, Awaits, AskedShape
<1>a. PICK S \in Select(req[r]) : listed' = [listed EXCEPT ![r] = S]
  BY DEF List
<1>b. S \subseteq RowsOf(req[r].status) /\ S \subseteq Rows /\ S \subseteq Nodes
  BY <1>a DEF Select, Newest, RowsOf, Rows
<1>1. RegistryTypeOK'
  BY <1>a, <1>b DEF List, Reply, RegistryTypeOK, tableVars, historyVars
<1>2. AskedShape'
  BY <1>0 DEF List, Reply, RegistryTypeOK, AskedShape
<1>3. RowShape'
  BY <1>0 DEF List, Reply, RegistryTypeOK, AskedShape, RowShape, Rows, tableVars, historyVars
<1>4. ReadShape'
  BY <1>0, <1>a, <1>b DEF List, Reply, RegistryTypeOK, ReadShape, Rows, RowsOf, Asks, Awaits,
     tableVars, historyVars
<1>5. LookupsAreCurrent'
  BY <1>0 DEF List, Reply, RegistryTypeOK, LookupsAreCurrent, Awaits, historyVars
<1>6. ListsAreComplete'
  <2>1. \A n \in known[r] \ S : /\ Cardinality(S) = Limit(req[r])
                                /\ \A m \in S : created[m] >= created[n]
    BY <1>a, NewestIsFullOrAll DEF List, ReadShape, Select, RowsOf, Rows
  <2> QED
    BY <1>0, <1>a, <2>1 DEF List, Reply, RegistryTypeOK, ListsAreComplete, Awaits, Limit,
       tableVars, historyVars
<1> QED
  BY <1>1, <1>2, <1>3, <1>4, <1>5, <1>6

LEMMA SetStatusInv ==
    ASSUME RegistryInv, NEW r \in Requests, SetStatus(r)
    PROVE  RegistryInv'
<1> DEFINE n  == req[r].node
           to == req[r].to
<1> USE DEF RegistryInv
<1>0. /\ n \in Nodes /\ to \in Statuses /\ UpdateStatus(n, to)
      /\ rpc[r] = "sent" /\ req[r].kind = "setStatus"
  BY AskedByKind DEF SetStatus, Asks, Awaits, AskedShape
<1>a. /\ status' \in [Nodes -> Statuses]
      /\ status'[n] = to
      /\ \A m \in Nodes : m # n => status'[m] = status[m]
      /\ known' \in [Requests -> SUBSET Nodes]
      /\ \A s \in Requests : known'[s] \subseteq known[s]
      /\ \A s \in Requests : Asks(s, "list") => n \notin known'[s]
      /\ reg' = reg /\ created' = created /\ Rows' = Rows
  BY <1>0, UpdateStatusKeeps
<1> HIDE DEF n, to
<1>b. rpc' = [rpc EXCEPT ![r] = "200"]
  BY DEF SetStatus, Reply
<1>1. RegistryTypeOK'
  BY <1>0, <1>a, <1>b DEF SetStatus, RegistryTypeOK
<1>2. AskedShape'
  BY <1>0, <1>b DEF SetStatus, RegistryTypeOK, AskedShape
<1>3. RowShape'
  BY <1>0, <1>a, <1>b DEF SetStatus, RegistryTypeOK, AskedShape, RowShape
<1>4. ReadShape'
  BY <1>0, <1>a, <1>b DEF SetStatus, RegistryTypeOK, ReadShape, RowsOf, Asks, Awaits
<1>5. LookupsAreCurrent'
  BY <1>0, <1>a, <1>b DEF SetStatus, RegistryTypeOK, LookupsAreCurrent, Awaits
<1>6. ListsAreComplete'
  BY <1>0, <1>a, <1>b DEF SetStatus, RegistryTypeOK, ListsAreComplete, Awaits, Limit
<1> QED
  BY <1>1, <1>2, <1>3, <1>4, <1>5, <1>6

LEMMA FailsInv ==
    ASSUME RegistryInv, NEW r \in Requests, Fails(r)
    PROVE  RegistryInv'
<1> USE DEF RegistryInv
<1>0. rpc[r] \in {"sent", "seen"}
  BY DEF Fails
<1>1. RegistryTypeOK'
  BY DEF Fails, Reply, RegistryTypeOK, tableVars
<1>2. AskedShape'
  BY <1>0 DEF Fails, Reply, RegistryTypeOK, AskedShape
<1>3. RowShape'
  BY <1>0 DEF Fails, Reply, RegistryTypeOK, AskedShape, RowShape, Rows, tableVars
<1>4. ReadShape'
  BY <1>0 DEF Fails, Reply, RegistryTypeOK, ReadShape, Rows, RowsOf, Asks, Awaits, tableVars
<1>5. LookupsAreCurrent'
  BY <1>0 DEF Fails, Reply, RegistryTypeOK, LookupsAreCurrent, Awaits
<1>6. ListsAreComplete'
  BY <1>0 DEF Fails, Reply, RegistryTypeOK, ListsAreComplete, Awaits, Limit, tableVars
<1> QED
  BY <1>1, <1>2, <1>3, <1>4, <1>5, <1>6

LEMMA LandInv ==
    ASSUME RegistryInv, NEW r \in Requests, Land(r)
    PROVE  RegistryInv'
<1> DEFINE n  == req[r].node
           to == req[r].to
<1> USE DEF RegistryInv
<1>0. /\ n \in Nodes /\ rpc[r] = "400" /\ r \notin replaced
      /\ req[r].kind = "setStatus" => to \in Statuses
  BY AskedByKind DEF Land, AskedShape, RowShape
<1>1. CASE req[r].kind = "register"
  <2>1. Upsert(r, n)
    BY <1>1 DEF Land
  <2>a. /\ reg' \in [Nodes -> Requests \cup {Null}]
        /\ reg'[n] = r
        /\ \A m \in Nodes : m # n => reg'[m] = reg[m]
        /\ Rows' = Rows \cup {n}
        /\ created' \in [Nodes -> Nat]
        /\ \A m \in Rows : created'[m] = created[m]
        /\ status' = status /\ known' = known
    BY <1>0, <2>1, UpsertKeeps
  <2> HIDE DEF n
  <2>2. RegistryTypeOK'
    BY <1>0, <2>a DEF Land, RegistryTypeOK
  <2>3. AskedShape'
    BY DEF Land, RegistryTypeOK, AskedShape
  <2>4. RowShape'
    <3>1. \A m \in Rows' \ {n} : m \in Rows /\ reg'[m] = reg[m]
      BY <2>a DEF Rows
    <3> QED
      BY <1>0, <1>1, <2>a, <3>1 DEF Land, RowShape, n
  <2>5. ReadShape'
    BY <2>a DEF Land, RegistryTypeOK, RowShape, ReadShape, RowsOf, Asks, Awaits
  <2>6. LookupsAreCurrent'
    BY <2>a DEF Land, LookupsAreCurrent, Awaits
  <2>7. ListsAreComplete'
    BY <2>a DEF Land, RegistryTypeOK, ReadShape, ListsAreComplete, Awaits, Limit
  <2> QED
    BY <2>2, <2>3, <2>4, <2>5, <2>6, <2>7
<1>2. CASE req[r].kind = "setStatus"
  <2>1. UpdateStatus(n, to) /\ to \in Statuses
    BY <1>0, <1>2 DEF Land
  <2>a. /\ status' \in [Nodes -> Statuses]
        /\ status'[n] = to
        /\ \A m \in Nodes : m # n => status'[m] = status[m]
        /\ known' \in [Requests -> SUBSET Nodes]
        /\ \A s \in Requests : known'[s] \subseteq known[s]
        /\ \A s \in Requests : Asks(s, "list") => n \notin known'[s]
        /\ reg' = reg /\ created' = created /\ Rows' = Rows
    BY <1>0, <2>1, UpdateStatusKeeps
  <2> HIDE DEF n, to
  <2>2. RegistryTypeOK'
    BY <2>a DEF Land, RegistryTypeOK
  <2>3. AskedShape'
    BY DEF Land, RegistryTypeOK, AskedShape
  <2>4. RowShape'
    BY <2>a DEF Land, RowShape
  <2>5. ReadShape'
    BY <2>a DEF Land, RegistryTypeOK, ReadShape, RowsOf, Asks, Awaits
  <2>6. LookupsAreCurrent'
    BY <2>a DEF Land, RegistryTypeOK, LookupsAreCurrent, Awaits
  <2>7. ListsAreComplete'
    BY <2>a DEF Land, RegistryTypeOK, ListsAreComplete, Awaits, Limit
  <2> QED
    BY <2>2, <2>3, <2>4, <2>5, <2>6, <2>7
<1> QED
  BY <1>1, <1>2 DEF Land

LEMMA NextInv == RegistryInv /\ [RegistryNext]_registryVars => RegistryInv'
<1> SUFFICES ASSUME RegistryInv, [RegistryNext]_registryVars PROVE RegistryInv'
  OBVIOUS
<1>1. CASE UNCHANGED registryVars
  BY <1>1 DEF RegistryInv, RegistryTypeOK, AskedShape, RowShape, ReadShape, LookupsAreCurrent,
     ListsAreComplete, Rows, RowsOf, Asks, Awaits, Limit,
     registryVars, tableVars, requestVars, historyVars
<1>2. ASSUME NEW r \in Requests, Statement(r) PROVE RegistryInv'
  BY <1>2, RegisterInv, GetByIdInv, UpdateLastSeenInv, ListInv, SetStatusInv, FailsInv, LandInv
     DEF Statement
<1> QED
  BY <1>1, <1>2, AskInv DEF RegistryNext

\* The invariant holds in every state of the registry.
THEOREM RegistryCorrect == RegistrySpec => []RegistryInv
<1>1. RegistryInit => RegistryInv
  BY InitInv
<1>2. RegistryInv /\ [RegistryNext]_registryVars => RegistryInv'
  BY NextInv
<1> QED
  BY <1>1, <1>2, PTL DEF RegistrySpec

\* Lookups find acknowledged nodes, with no registration replaced before them.
THEOREM LookupsCorrect == RegistrySpec => []LookupsAreCurrent
<1>1. RegistryInv => LookupsAreCurrent
  BY DEF RegistryInv
<1> QED
  BY <1>1, RegistryCorrect, PTL

\* Lists leave out no node that they have to show, but older ones when full.
THEOREM ListsCorrect == RegistrySpec => []ListsAreComplete
<1>1. RegistryInv => ListsAreComplete
  BY DEF RegistryInv
<1> QED
  BY <1>1, RegistryCorrect, PTL

\* Only an operator's request changes a status, and nothing a created_at.
THEOREM StatusCorrect == RegistrySpec => RegistrationKeepsStatus
<1> DEFINE Kept == \A n \in Rows :
          /\ n \in Rows' /\ created'[n] = created[n]
          /\ status'[n] # status[n] =>
                \E r \in Requests :
                    /\ \/ rpc[r] = "sent" /\ rpc'[r] = "200"
                       \/ r \in late \ late'
                    /\ req[r].kind = "setStatus"
                    /\ req[r].node = n /\ req[r].to = status'[n]
<1>1. RegistryInv /\ [RegistryNext]_registryVars => [Kept]_registryVars
  <2> SUFFICES ASSUME RegistryInv, RegistryNext PROVE Kept
    OBVIOUS
  <2> USE DEF RegistryInv
  <2>1. ASSUME UNCHANGED tableVars PROVE Kept
    BY <2>1 DEF tableVars, Rows
  <2>2. ASSUME NEW r \in Requests, NEW n \in Nodes, Upsert(r, n) PROVE Kept
    BY <2>2, UpsertKeeps DEF Rows
  <2>3. ASSUME NEW r \in Requests, req[r] \in Asked, req[r].kind = "setStatus",
               UpdateStatus(req[r].node, req[r].to),
               \/ rpc[r] = "sent" /\ rpc'[r] = "200"
               \/ r \in late \ late'
        PROVE  Kept
    <3>1. req[r].node \in Nodes /\ req[r].to \in Statuses
      BY <2>3, AskedByKind
    <3> QED
      BY <2>3, <3>1, UpdateStatusKeeps DEF Rows
  <2>4. ASSUME NEW r \in Requests, NEW q \in Asked, Ask(r, q) PROVE Kept
    BY <2>1, <2>4 DEF Ask
  <2>5. ASSUME NEW r \in Requests, Register(r) PROVE Kept
    <3>1. req[r].node \in Nodes
      BY <2>5, AskedByKind DEF Register, Asks, Awaits, AskedShape
    <3> QED
      BY <2>2, <2>5, <3>1 DEF Register
  <2>6. ASSUME NEW r \in Requests, SetStatus(r) PROVE Kept
    BY <2>3, <2>6 DEF SetStatus, Asks, Awaits, Reply, AskedShape, RegistryTypeOK
  <2>7. ASSUME NEW r \in Requests, Land(r) PROVE Kept
    <3>1. req[r] \in Asked /\ r \in late \ late'
      BY <2>7 DEF Land, AskedShape
    <3>2. CASE req[r].kind = "register" /\ Upsert(r, req[r].node)
      BY <2>2, <3>1, <3>2, AskedByKind
    <3>3. CASE req[r].kind = "setStatus" /\ UpdateStatus(req[r].node, req[r].to)
      BY <2>3, <3>1, <3>3
    <3> QED
      BY <2>7, <3>2, <3>3 DEF Land
  <2>8. ASSUME NEW r \in Requests,
               GetById(r) \/ UpdateLastSeen(r) \/ List(r) \/ Fails(r)
        PROVE  Kept
    BY <2>1, <2>8 DEF GetById, UpdateLastSeen, List, Fails
  <2> QED
    BY <2>4, <2>5, <2>6, <2>7, <2>8 DEF RegistryNext, Statement
<1> QED
  BY <1>1, RegistryCorrect, PTL DEF RegistrySpec, RegistrationKeepsStatus
=============================================================================
