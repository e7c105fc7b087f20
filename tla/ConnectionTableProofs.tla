------------------------ MODULE ConnectionTableProofs -------------------------
(***************************************************************************)
(* Proofs about the connection table, for any number of threads,           *)
(* connections and any table sizes.                                        *)
(***************************************************************************)
EXTENDS ConnectionTable, TLAPS

-------------------------------------------------------------------------------
(* The inductive invariant.  It says who may hold what while a writer      *)
(* waits for its grace period.                                             *)

\* The current version is allocated, and while nobody grows the table it is the
\* only one.
TablesInv ==
    /\ Alive => data \in tables
    /\ lock = NULL => tables \subseteq {data}
    /\ lock # NULL => wpc[lock] = "grow" /\ data \in tables
    /\ \A w \in Writers : wpc[w] = "grow" => lock = w
    /\ \A t \in tables : max[t] <= t

\* Connections in the slots of any allocated version are allocated, and no two
\* slots of one version share a connection.
SlotsInv ==
    \A t \in tables, i \in Slots : slot[t][i] # NULL =>
        /\ slot[t][i] \in conns
        /\ \A j \in Slots : j # i => slot[t][j] # slot[t][i]

\* The connection a writer works on is its own: allocated, in no slot, and no
\* other writer's.
WritersInv ==
    \A w \in Writers : wpc[w] # "idle" =>
        /\ wconn[w] \in conns
        /\ \A t \in tables, i \in Slots : slot[t][i] # wconn[w]
        /\ \A v \in Writers : v # w /\ wpc[v] # "idle" => wconn[v] # wconn[w]

\* A reader that still has an old version is one the growing writer waits for,
\* and one that still has an unlinked connection is one the detaching writer
\* waits for.
ReadersInv ==
    \A r \in Readers : InSection(r) =>
        /\ rdata[r] \in tables
        /\ \A w \in Writers : wpc[w] = "grow" /\ rdata[r] # data => r \in gp[w]
        /\ rpc[r] \in {"deref", "walk_deref"} =>
              /\ rconn[r] \in conns
              /\ \A w \in Writers : wpc[w] = "detach" /\ wconn[w] = rconn[r] => r \in gp[w]

IInv == TypeOK /\ TablesInv /\ SlotsInv /\ WritersInv /\ ReadersInv

-------------------------------------------------------------------------------
(* Types.                                                                  *)

\* The initial table has the initial capacity and is empty.
LEMMA InitIInv == Init => IInv
  BY ConnectionTableAssumption
     DEF Init, IInv, TypeOK, TablesInv, SlotsInv, WritersInv, ReadersInv,
         Capacities, Slots, Alive, InSection

\* Every writer step keeps the types.
LEMMA WriterType == ASSUME TypeOK, NEW w \in Writers, WriterNext(w) PROVE TypeOK'
  <1> USE ConnectionTableAssumption DEF TypeOK, Capacities, Slots, FreeSlots, RaisedMax
  <1>1. ASSUME NEW c \in Conns, Attach(w, c) PROVE TypeOK'
    BY <1>1 DEF Attach, writerVars, readerVars
  <1>2. ASSUME NEW c \in Conns, AttachGrow(w, c) PROVE TypeOK'
    BY <1>2 DEF AttachGrow, MayGrow, Copied, GracePeriod, readerVars, histVars
  <1>3. ASSUME NEW c \in Conns, AttachFails(w, c) PROVE TypeOK'
    BY <1>3 DEF AttachFails, writerVars, readerVars, histVars
  <1>4. CASE AttachGrown(w)
    BY <1>4 DEF AttachGrown, OldTables, readerVars
  <1>5. ASSUME NEW coid \in Slots, Detach(w, coid) PROVE TypeOK'
    <2>1. max' \in [Capacities -> -1..MaxConnections]
      <3>1. CASE UNCHANGED max
        BY <3>1
      <3>2. ASSUME NEW m \in -1..(coid - 1), max' = [max EXCEPT ![data] = m]
            PROVE  max' \in [Capacities -> -1..MaxConnections]
        <4>1. m \in -1..MaxConnections
          OBVIOUS
        <4> QED BY <3>2, <4>1
      <3> QED BY <1>5, <3>1, <3>2 DEF Detach, LowerMax
    <2>2. slot' \in [Capacities -> [Slots -> Conns \cup {NULL}]]
      BY <1>5 DEF Detach
    <2>3. wconn' \in [Writers -> Conns \cup {NULL}]
      BY <1>5 DEF Detach
    <2>4. wpc' \in [Writers -> {"idle", "grow", "detach"}] /\ gp' \in [Writers -> SUBSET Readers]
      BY <1>5 DEF Detach, GracePeriod
    <2>5. attached' \in [Slots -> Conns \cup {NULL}] /\ spilled' \subseteq Slots
      BY <1>5 DEF Detach
    <2>6. UNCHANGED <<data, tables, conns, lock, rpc, rdata, rconn, ri>>
      BY <1>5 DEF Detach, readerVars
    <2> QED BY <2>1, <2>2, <2>3, <2>4, <2>5, <2>6
  <1>6. CASE Detached(w)
    BY <1>6 DEF Detached, readerVars, histVars
  <1> QED BY <1>1, <1>2, <1>3, <1>4, <1>5, <1>6 DEF WriterNext

\* Every reader step keeps the types.
LEMMA ReaderType ==
    ASSUME TypeOK, ReadersInv, NEW r \in Readers, ReaderNext(r) PROVE TypeOK'
  <1> USE ConnectionTableAssumption
      DEF TypeOK, Capacities, Slots, tableVars, writerVars, histVars
  <1>1. ASSUME NEW coid \in Slots, Retrieve(r, coid) PROVE TypeOK'
    BY <1>1 DEF Retrieve
  <1>2. CASE RetrieveSlot(r)
    <2>1. rdata[r] \in Capacities
      BY <1>2 DEF RetrieveSlot, ReadersInv, InSection
    <2> QED BY <1>2, <2>1 DEF RetrieveSlot
  <1>3. CASE RetrieveNone(r)
    BY <1>3 DEF RetrieveNone, ReadUnlock
  <1>4. CASE RetrieveDeref(r)
    BY <1>4 DEF RetrieveDeref, ReadUnlock
  <1>5. CASE Walk(r)
    BY <1>5 DEF Walk
  <1>6. CASE WalkLoad(r)
    BY <1>6 DEF WalkLoad
  <1>7. CASE WalkSkip(r)
    BY <1>7 DEF WalkSkip
  <1>8. CASE WalkSlot(r)
    <2>1. rdata[r] \in Capacities
      BY <1>8 DEF WalkSlot, ReadersInv, InSection
    <2> QED BY <1>8, <2>1 DEF WalkSlot
  <1>9. CASE WalkDeref(r)
    BY <1>9 DEF WalkDeref
  <1>10. CASE WalkEnd(r)
    BY <1>10 DEF WalkEnd, ReadUnlock
  <1> QED BY <1>1, <1>2, <1>3, <1>4, <1>5, <1>6, <1>7, <1>8, <1>9, <1>10
          DEF ReaderNext, ReaderStep

-------------------------------------------------------------------------------
(* The writers.                                                            *)

\* Without a growing writer there is one version.
LEMMA OneTable == ASSUME TablesInv, Alive, lock = NULL PROVE tables = {data}
  <1>1. data \in tables /\ tables \subseteq {data}
    BY DEF TablesInv
  <1> QED BY <1>1

\* A connection stored in a free slot of the current version.
LEMMA AttachInv ==
    ASSUME IInv, TypeOK', NEW w \in Writers, NEW c \in Conns, Attach(w, c) PROVE IInv'
  <1> USE ConnectionTableAssumption
      DEF IInv, TypeOK, Capacities, Slots, Alive, writerVars, readerVars
  <1>1. PICK i \in FreeSlots :
           /\ slot' = [slot EXCEPT ![data][i] = c]
           /\ max' = [max EXCEPT ![data] = RaisedMax(@, i)]
    BY DEF Attach
  <1>2. i \in Slots /\ i < data /\ slot[data][i] = NULL
    BY DEF FreeSlots
  <1>3. tables = {data} /\ lock = NULL /\ c \notin conns /\ conns' = conns \cup {c}
    BY OneTable DEF Attach
  <1>4. TablesInv'
    BY <1>1, <1>2, <1>3 DEF Attach, TablesInv, RaisedMax
  <1>5. SlotsInv'
    BY <1>1, <1>2, <1>3 DEF Attach, SlotsInv
  <1>6. WritersInv'
    BY <1>1, <1>2, <1>3 DEF Attach, WritersInv
  <1>7. ReadersInv'
    BY <1>3 DEF Attach, ReadersInv, InSection
  <1> QED BY <1>4, <1>5, <1>6, <1>7

\* A new version is published; the readers of the old one are waited for.
LEMMA AttachGrowInv ==
    ASSUME IInv, TypeOK', NEW w \in Writers, NEW c \in Conns, AttachGrow(w, c) PROVE IInv'
  <1> USE ConnectionTableAssumption
      DEF IInv, TypeOK, Capacities, Slots, Alive, readerVars, histVars
  <1>1. /\ tables = {data} /\ tables' = {data, 2 * data} /\ data' = 2 * data
        /\ data # 2 * data /\ 2 * data \in Capacities
        /\ c \notin conns /\ conns' = conns \cup {c}
    <2>1. tables = {data}
      BY OneTable DEF AttachGrow, MayGrow
    <2> QED BY <2>1 DEF AttachGrow, MayGrow
  <1>2. \A i \in Slots : slot'[data][i] = slot[data][i]
    BY <1>1 DEF AttachGrow, MayGrow
  <1>3. \A i \in Slots : slot'[2 * data][i] = IF i < data THEN slot[data][i] ELSE NULL
    BY <1>1 DEF AttachGrow, MayGrow, Copied
  <1>4. TablesInv'
    BY <1>1 DEF AttachGrow, MayGrow, TablesInv
  <1>5. \A t \in tables', i \in Slots : slot'[t][i] \in {NULL, slot[data][i]}
    BY <1>1, <1>2, <1>3
  <1>6. SlotsInv'
    <2> SUFFICES ASSUME NEW t \in tables', NEW i \in Slots, slot'[t][i] # NULL
                 PROVE  /\ slot'[t][i] \in conns'
                        /\ \A j \in Slots : j # i => slot'[t][j] # slot'[t][i]
      BY DEF SlotsInv
    <2>1. slot'[t][i] = slot[data][i] /\ slot[data][i] # NULL
      BY <1>5
    <2>2. /\ slot[data][i] \in conns
          /\ \A j \in Slots : j # i => slot[data][j] # slot[data][i]
      BY <1>1, <2>1 DEF SlotsInv
    <2> QED BY <1>1, <1>5, <2>1, <2>2
  <1>7. WritersInv'
    <2>1. \A t \in tables', i \in Slots : slot'[t][i] # NULL => slot'[t][i] \in conns
      BY <1>1, <1>5 DEF SlotsInv
    <2>2. ASSUME NEW v \in Writers, wpc[v] # "idle"
          PROVE  /\ wconn[v] \in conns
                 /\ \A t \in tables', i \in Slots : slot'[t][i] # wconn[v]
      <3>1. /\ wconn[v] \in conns /\ wconn[v] # NULL
            /\ \A i \in Slots : slot[data][i] # wconn[v]
        BY <1>1, <2>2 DEF WritersInv
      <3> QED BY <1>5, <3>1
    <2>3. /\ wpc' = [wpc EXCEPT ![w] = "grow"] /\ wconn' = [wconn EXCEPT ![w] = c]
          /\ wpc[w] = "idle"
      BY DEF AttachGrow, MayGrow
    <2>4. \A v \in Writers : wpc'[v] # "idle" =>
             /\ wconn'[v] \in conns'
             /\ \A t \in tables', i \in Slots : slot'[t][i] # wconn'[v]
      BY <1>1, <2>1, <2>2, <2>3
    <2>5. \A v, u \in Writers : wpc'[v] # "idle" /\ wpc'[u] # "idle" /\ v # u => wconn'[v] # wconn'[u]
      BY <1>1, <2>2, <2>3 DEF WritersInv
    <2> QED BY <2>4, <2>5 DEF WritersInv
  <1>8. ReadersInv'
    BY <1>1 DEF AttachGrow, MayGrow, ReadersInv, TablesInv, InSection, GracePeriod
  <1> QED BY <1>4, <1>6, <1>7, <1>8

\* Nobody has the old version any more when it is freed.
LEMMA AttachGrownInv ==
    ASSUME IInv, TypeOK', NEW w \in Writers, AttachGrown(w) PROVE IInv'
  <1> USE ConnectionTableAssumption
      DEF IInv, TypeOK, Capacities, Slots, Alive, readerVars
  <1>1. /\ lock = w /\ wconn[w] \in conns /\ data \in tables /\ tables' = {data}
    <2>1. wpc[w] = "grow" /\ tables' = tables \ (tables \ {data})
      BY DEF AttachGrown, OldTables
    <2>2. lock = w /\ wconn[w] \in conns
      BY <2>1 DEF TablesInv, WritersInv
    <2>3. data \in tables
      BY <2>1, <2>2 DEF TablesInv
    <2> QED BY <2>1, <2>2, <2>3
  <1>2. TablesInv'
    BY <1>1 DEF AttachGrown, TablesInv, RaisedMax
  <1>3. SlotsInv'
    <2>1. \A i \in Slots : slot'[data][i] = IF i = data THEN wconn[w] ELSE slot[data][i]
      BY DEF AttachGrown
    <2>2. \A i \in Slots : slot[data][i] # wconn[w]
      BY <1>1 DEF AttachGrown, WritersInv
    <2>3. conns' = conns /\ data' = data
      BY DEF AttachGrown
    <2> SUFFICES ASSUME NEW i \in Slots, slot'[data][i] # NULL
                 PROVE  /\ slot'[data][i] \in conns
                        /\ \A j \in Slots : j # i => slot'[data][j] # slot'[data][i]
      BY <1>1, <2>3 DEF SlotsInv
    <2>4. slot[data][i] # NULL =>
             /\ slot[data][i] \in conns
             /\ \A j \in Slots : j # i => slot[data][j] # slot[data][i]
      BY <1>1 DEF SlotsInv
    <2>5. wconn[w] \in conns
      BY <1>1 DEF AttachGrown, WritersInv
    <2>6. CASE i = data
      BY <2>1, <2>2, <2>5, <2>6
    <2>7. CASE i # data
      BY <2>1, <2>2, <2>4, <2>7
    <2> QED BY <2>6, <2>7
  <1>4. WritersInv'
    BY <1>1 DEF AttachGrown, WritersInv
  <1>5. ReadersInv'
    BY <1>1 DEF AttachGrown, ReadersInv, TablesInv, InSection
  <1> QED BY <1>2, <1>3, <1>4, <1>5

\* The connection that could not be stored is in nobody's way.
LEMMA AttachFailsInv ==
    ASSUME IInv, TypeOK', NEW w \in Writers, NEW c \in Conns, AttachFails(w, c) PROVE IInv'
  BY DEF IInv, AttachFails, TablesInv, SlotsInv, WritersInv, ReadersInv, Alive, InSection,
         writerVars, readerVars, histVars

\* A connection leaves its slot; the readers that may have it are waited for.
LEMMA DetachInv ==
    ASSUME IInv, TypeOK', NEW w \in Writers, NEW coid \in Slots, Detach(w, coid) PROVE IInv'
  <1> USE ConnectionTableAssumption
      DEF IInv, TypeOK, Capacities, Slots, Alive, readerVars
  <1> DEFINE c == slot[data][coid]
  <1>1. tables = {data} /\ lock = NULL /\ c # NULL /\ c \in conns
    <2>1. tables = {data} /\ lock = NULL /\ c # NULL
      BY OneTable DEF Detach
    <2> QED BY <2>1 DEF SlotsInv
  <1>2. max'[data] <= data
    BY <1>1 DEF Detach, LowerMax, TablesInv
  <1>3. TablesInv'
    BY <1>1, <1>2 DEF Detach, TablesInv
  <1>4. \A i \in Slots : slot'[data][i] = IF i = coid THEN NULL ELSE slot[data][i]
    BY DEF Detach
  <1>5. SlotsInv'
    BY <1>1, <1>4 DEF Detach, SlotsInv
  <1>6. WritersInv'
    <2>1. \A i \in Slots : slot'[data][i] # c
      BY <1>1, <1>4 DEF SlotsInv
    <2>2. \A v \in Writers : wpc[v] # "idle" => wconn[v] # c /\ wconn[v] # NULL
      BY <1>1 DEF WritersInv
    <2> QED BY <1>1, <1>4, <2>1, <2>2 DEF Detach, WritersInv
  <1>7. ReadersInv'
    BY <1>1 DEF Detach, ReadersInv, InSection, GracePeriod
  <1> QED BY <1>3, <1>5, <1>6, <1>7

\* Nobody has the connection any more when it is freed.
LEMMA DetachedInv ==
    ASSUME IInv, TypeOK', NEW w \in Writers, Detached(w) PROVE IInv'
  <1> USE DEF IInv, TypeOK, Alive, readerVars, histVars
  <1>1. TablesInv'
    BY DEF Detached, TablesInv
  <1>2. SlotsInv'
    BY DEF Detached, SlotsInv, WritersInv
  <1>3. WritersInv'
    BY DEF Detached, WritersInv
  <1>4. ReadersInv'
    BY DEF Detached, ReadersInv, InSection
  <1> QED BY <1>1, <1>2, <1>3, <1>4

-------------------------------------------------------------------------------
(* The readers.                                                            *)

\* A reader step leaves the table alone, and a reader that enters its section
\* loads the current version.
LEMMA ReaderInv ==
    ASSUME IInv, TypeOK', NEW r \in Readers, ReaderNext(r) PROVE IInv'
  <1> USE ConnectionTableAssumption
      DEF IInv, TypeOK, Alive, tableVars, writerVars, histVars
  <1>1. ASSUME NEW coid \in Slots, Retrieve(r, coid) PROVE IInv'
    BY <1>1 DEF Retrieve, TablesInv, SlotsInv, WritersInv, ReadersInv, InSection
  <1>2. CASE RetrieveSlot(r)
    <2>a. rdata[r] \in tables /\ slot[rdata[r]][ri[r]] # NULL
      BY <1>2 DEF RetrieveSlot, ReadersInv, InSection
    <2>b. ri[r] \in Nat /\ rdata[r] \in Capacities /\ max[rdata[r]] \in -1..MaxConnections
      BY <2>a
    <2>c. ri[r] < rdata[r] \/ ri[r] <= max[rdata[r]]
      BY <1>2 DEF RetrieveSlot
    <2>1. rdata[r] \in tables /\ ri[r] \in Slots /\ slot[rdata[r]][ri[r]] # NULL
      BY <2>a, <2>b, <2>c DEF Capacities, Slots
    <2>2. /\ slot[rdata[r]][ri[r]] \in conns
          /\ \A w \in Writers : wpc[w] # "idle" => wconn[w] # slot[rdata[r]][ri[r]]
      BY <2>1 DEF SlotsInv, WritersInv
    <2>3. TablesInv' /\ SlotsInv' /\ WritersInv'
      BY <1>2 DEF RetrieveSlot, TablesInv, SlotsInv, WritersInv
    <2>4. ReadersInv'
      BY <1>2, <2>2 DEF RetrieveSlot, ReadersInv, InSection
    <2> QED BY <2>3, <2>4
  <1>3. CASE RetrieveNone(r)
    BY <1>3 DEF RetrieveNone, ReadUnlock, TablesInv, SlotsInv, WritersInv, ReadersInv, InSection
  <1>4. CASE RetrieveDeref(r)
    BY <1>4 DEF RetrieveDeref, ReadUnlock, TablesInv, SlotsInv, WritersInv, ReadersInv, InSection
  <1>5. CASE Walk(r)
    BY <1>5 DEF Walk, TablesInv, SlotsInv, WritersInv, ReadersInv, InSection
  <1>6. CASE WalkLoad(r)
    BY <1>6 DEF WalkLoad, TablesInv, SlotsInv, WritersInv, ReadersInv, InSection
  <1>7. CASE WalkSkip(r)
    BY <1>7 DEF WalkSkip, TablesInv, SlotsInv, WritersInv, ReadersInv, InSection
  <1>8. CASE WalkSlot(r)
    <2>a. rdata[r] \in tables /\ slot[rdata[r]][ri[r]] # NULL
      BY <1>8 DEF WalkSlot, ReadersInv, InSection
    <2>b. ri[r] \in Nat /\ rdata[r] \in Capacities /\ max[rdata[r]] \in -1..MaxConnections
      BY <2>a
    <2>c. ri[r] < rdata[r] \/ ri[r] <= max[rdata[r]]
      BY <1>8 DEF WalkSlot
    <2>1. rdata[r] \in tables /\ ri[r] \in Slots /\ slot[rdata[r]][ri[r]] # NULL
      BY <2>a, <2>b, <2>c DEF Capacities, Slots
    <2>2. /\ slot[rdata[r]][ri[r]] \in conns
          /\ \A w \in Writers : wpc[w] # "idle" => wconn[w] # slot[rdata[r]][ri[r]]
      BY <2>1 DEF SlotsInv, WritersInv
    <2>3. TablesInv' /\ SlotsInv' /\ WritersInv'
      BY <1>8 DEF WalkSlot, TablesInv, SlotsInv, WritersInv
    <2>4. ReadersInv'
      BY <1>8, <2>2 DEF WalkSlot, ReadersInv, InSection
    <2> QED BY <2>3, <2>4
  <1>9. CASE WalkDeref(r)
    BY <1>9 DEF WalkDeref, TablesInv, SlotsInv, WritersInv, ReadersInv, InSection
  <1>10. CASE WalkEnd(r)
    BY <1>10 DEF WalkEnd, ReadUnlock, TablesInv, SlotsInv, WritersInv, ReadersInv, InSection
  <1> QED BY <1>1, <1>2, <1>3, <1>4, <1>5, <1>6, <1>7, <1>8, <1>9, <1>10
          DEF ReaderNext, ReaderStep

-------------------------------------------------------------------------------

\* The table is destroyed when nobody uses it.
LEMMA DestroyInv == ASSUME IInv, Destroy PROVE IInv'
  <1>1. TypeOK'
    BY DEF IInv, Destroy, TypeOK, writerVars, readerVars, histVars
  <1>2. tables' = {} /\ \A w \in Writers : wpc'[w] = "idle"
    BY DEF Destroy, writerVars
  <1>3. lock' = NULL
    BY DEF IInv, TypeOK, TablesInv, Destroy
  <1>4. \A r \in Readers : rpc'[r] = "idle"
    BY DEF Destroy, readerVars
  <1> QED BY <1>1, <1>2, <1>3, <1>4
          DEF IInv, TablesInv, SlotsInv, WritersInv, ReadersInv, Alive, InSection

\* The invariant is inductive.
LEMMA NextIInv == IInv /\ [Next]_vars => IInv'
  <1> SUFFICES ASSUME IInv, [Next]_vars PROVE IInv'
    OBVIOUS
  <1>1. ASSUME NEW w \in Writers, WriterNext(w) PROVE IInv'
    <2>1. TypeOK'
      BY <1>1, WriterType DEF IInv
    <2> QED BY <1>1, <2>1, AttachInv, AttachGrowInv, AttachGrownInv, AttachFailsInv,
               DetachInv, DetachedInv
            DEF WriterNext
  <1>2. ASSUME NEW r \in Readers, ReaderNext(r) PROVE IInv'
    BY <1>2, ReaderType, ReaderInv DEF IInv
  <1>3. CASE Destroy
    BY <1>3, DestroyInv
  <1>4. CASE UNCHANGED vars
    BY <1>4 DEF IInv, TypeOK, TablesInv, SlotsInv, WritersInv, ReadersInv, Alive, InSection,
                vars, tableVars, writerVars, readerVars, histVars
  <1> QED BY <1>1, <1>2, <1>3, <1>4 DEF Next

\* Every state of the table satisfies the inductive invariant: who may hold an old
\* array or an unlinked connection while add, remove and reserve wait for RCU.
THEOREM TableInvariant == Spec => []IInv
  BY InitIInv, NextIInv, PTL DEF Spec

\* The state of the connection table is well formed.
THEOREM TableTypeOK == Spec => []TypeOK
  <1>1. IInv => TypeOK
    BY DEF IInv
  <1> QED BY <1>1, TableInvariant, PTL

\* RCU safety of qnx_connection_table_retrieve and _for_each: no reader touches a
\* freed array or a freed connection, or walks out of its array.
THEOREM TableReadersSafe == Spec => []ReadersSafe
  <1>1. IInv => ReadersSafe
    BY DEF IInv, ReadersInv, TablesInv, ReadersSafe
  <1> QED BY <1>1, TableInvariant, PTL

\* Two coids never share a connection object.
THEOREM TableSlotsDisjoint == Spec => []SlotsDisjoint
  <1>1. IInv => SlotsDisjoint
    BY DEF IInv, SlotsInv, TablesInv, SlotsDisjoint
  <1> QED BY <1>1, TableInvariant, PTL
-------------------------------------------------------------------------------
(* What the coids mean, and what max covers.                               *)

\* No coid from a free slot lies behind the array, so a growing table has nothing
\* to move beyond the slots it copies.
CoidInv == CoidStable /\ \A i \in Slots : i >= data => attached[i] = NULL

\* Nothing lies behind the extra slot, and while the table grows the new array
\* starts with max = 0.
MaxInv ==
    /\ MaxCovers
    /\ \A i \in Slots : i > data => slot[data][i] = NULL
    /\ lock # NULL => max[data] = 0

\* The steps that leave the table alone leave both alone.
LEMMA SameTable ==
    ASSUME UNCHANGED <<data, slot, max, lock, attached>>, CoidInv, MaxInv
    PROVE  CoidInv' /\ MaxInv'
  BY DEF CoidInv, CoidStable, MaxInv, MaxCovers, Slots

\* A writer step keeps the meaning of every coid.
LEMMA WriterCoid ==
    ASSUME TypeOK, NEW w \in Writers, WriterNext(w), CoidInv PROVE CoidInv'
  <1> USE ConnectionTableAssumption DEF TypeOK, CoidInv, CoidStable, Capacities, Slots
  <1>1. ASSUME NEW c \in Conns, Attach(w, c) PROVE CoidInv'
    BY <1>1 DEF Attach, FreeSlots
  <1>2. ASSUME NEW c \in Conns, AttachGrow(w, c) PROVE CoidInv'
    <2>1. data' = 2 * data /\ slot'[2 * data] = Copied /\ attached' = attached
      BY <1>2 DEF AttachGrow, MayGrow, histVars
    <2>2. \A i \in Slots : slot'[data'][i] = IF i < data THEN slot[data][i] ELSE NULL
      BY <2>1 DEF Copied
    <2>3. data \in Nat /\ data' \in Nat /\ data' > data /\ data' <= MaxConnections
      BY <1>2 DEF AttachGrow, MayGrow
    <2>4. \A i \in Slots : i >= data' => attached'[i] = NULL
      BY <2>1, <2>3
    <2>5. ASSUME NEW i \in 0..(data' - 1) PROVE slot'[data'][i] = attached'[i]
      <3>1. i \in Slots
        <4>1. \A n \in Nat : n <= MaxConnections => \A j \in 0..(n - 1) : j \in 0..MaxConnections
          OBVIOUS
        <4> QED BY <2>3, <4>1
      <3>2. CASE i < data
        <4>1. slot'[data'][i] = slot[data][i]
          BY <2>2, <3>1, <3>2
        <4>2. i \in 0..(data - 1)
          BY <2>3, <3>2
        <4>3. slot[data][i] = attached[i]
          BY <4>2
        <4> QED BY <2>1, <4>1, <4>3
      <3>3. CASE i >= data
        BY <2>1, <2>2, <2>3, <3>1, <3>3
      <3> QED BY <2>3, <3>2, <3>3
    <2> QED BY <2>4, <2>5
  <1>3. ASSUME NEW c \in Conns, AttachFails(w, c) PROVE CoidInv'
    BY <1>3 DEF AttachFails, histVars
  <1>4. CASE AttachGrown(w)
    BY <1>4 DEF AttachGrown
  <1>5. ASSUME NEW coid \in Slots, Detach(w, coid) PROVE CoidInv'
    BY <1>5 DEF Detach
  <1>6. CASE Detached(w)
    BY <1>6 DEF Detached, histVars
  <1> QED BY <1>1, <1>2, <1>3, <1>4, <1>5, <1>6 DEF WriterNext

\* A writer step leaves no connection behind max once it releases the lock.
LEMMA WriterMax ==
    ASSUME TypeOK, TablesInv, NEW w \in Writers, WriterNext(w), MaxInv PROVE MaxInv'
  <1> USE ConnectionTableAssumption DEF TypeOK, MaxInv, MaxCovers, Capacities, Slots
  <1>1. ASSUME NEW c \in Conns, Attach(w, c) PROVE MaxInv'
    BY <1>1 DEF Attach, FreeSlots, RaisedMax
  <1>2. ASSUME NEW c \in Conns, AttachGrow(w, c) PROVE MaxInv'
    <2>1. data' = 2 * data /\ slot'[2 * data] = Copied /\ max'[2 * data] = 0 /\ lock' = w
      BY <1>2 DEF AttachGrow, MayGrow
    <2>2. \A i \in Slots : slot'[data'][i] = IF i < data THEN slot[data][i] ELSE NULL
      BY <2>1 DEF Copied
    <2>3. data \in Nat /\ data' \in Nat /\ data' > data
      BY <1>2 DEF AttachGrow, MayGrow
    <2>4. \A i \in Slots : i > data' => slot'[data'][i] = NULL
      BY <2>2, <2>3
    <2> QED BY <2>1, <2>4
  <1>3. ASSUME NEW c \in Conns, AttachFails(w, c) PROVE MaxInv'
    BY <1>3 DEF AttachFails
  <1>4. CASE AttachGrown(w)
    <2>1. max[data] = 0
      BY <1>4 DEF AttachGrown, TablesInv
    <2>2. max'[data] = data /\ data' = data /\ lock' = NULL
      BY <1>4, <2>1 DEF AttachGrown, RaisedMax
    <2>3. \A i \in Slots : i # data => slot'[data][i] = slot[data][i]
      BY <1>4 DEF AttachGrown
    <2>4. ASSUME NEW i \in Slots, i > data PROVE slot'[data][i] = NULL
      <3>1. i # data /\ slot[data][i] = NULL
        BY <2>4
      <3> QED BY <2>3, <3>1
    <2>5. \A i \in Slots : slot'[data][i] # NULL => i <= data
      BY <2>4
    <2> QED BY <2>2, <2>4, <2>5
  <1>5. ASSUME NEW coid \in Slots, Detach(w, coid) PROVE MaxInv'
    <2>1. /\ lock = NULL /\ lock' = NULL /\ data' = data
          /\ \A i \in Slots : slot'[data][i] = IF i = coid THEN NULL ELSE slot[data][i]
          /\ LowerMax(coid)
      BY <1>5 DEF Detach
    <2>2. CASE coid # max[data]
      BY <2>1, <2>2 DEF LowerMax
    <2>3. CASE coid = max[data]
      <3>1. PICK m \in -1..(coid - 1) : IsNewMax(coid, m) /\ max' = [max EXCEPT ![data] = m]
        BY <2>1, <2>3 DEF LowerMax
      <3>2. \A i \in (m + 1)..(coid - 1) : slot[data][i] = NULL
        BY <3>1 DEF IsNewMax
      <3>3. max'[data] = m
        BY <3>1
      <3>4. ASSUME NEW i \in Slots, slot'[data][i] # NULL PROVE i <= m
        <4>1. i # coid /\ slot[data][i] # NULL
          BY <2>1, <3>4
        <4>2. i <= max[data]
          BY <2>1, <4>1
        <4> QED BY <2>3, <3>2, <4>1, <4>2
      <3> QED BY <2>1, <3>3, <3>4
    <2> QED BY <2>2, <2>3
  <1>6. CASE Detached(w)
    BY <1>6 DEF Detached
  <1> QED BY <1>1, <1>2, <1>3, <1>4, <1>5, <1>6 DEF WriterNext

\* A reader step changes neither a slot nor max.
LEMMA ReaderSame ==
    ASSUME NEW r \in Readers, ReaderNext(r) PROVE UNCHANGED <<data, slot, max, lock, attached>>
  BY DEF ReaderNext, ReaderStep, Retrieve, RetrieveSlot, RetrieveNone, RetrieveDeref, Walk,
         WalkLoad, WalkSkip, WalkSlot, WalkDeref, WalkEnd, tableVars, histVars

\* Both invariants hold in every state.
LEMMA TableMeaning == Spec => [](CoidInv /\ MaxInv)
  <1>1. Init => CoidInv /\ MaxInv
    BY ConnectionTableAssumption
       DEF Init, CoidInv, CoidStable, MaxInv, MaxCovers, Capacities, Slots
  <1>2. IInv /\ CoidInv /\ MaxInv /\ [Next]_vars => CoidInv' /\ MaxInv'
    <2> SUFFICES ASSUME IInv, CoidInv, MaxInv, [Next]_vars PROVE CoidInv' /\ MaxInv'
      OBVIOUS
    <2>1. ASSUME NEW w \in Writers, WriterNext(w) PROVE CoidInv' /\ MaxInv'
      BY <2>1, WriterCoid, WriterMax DEF IInv
    <2>2. ASSUME NEW r \in Readers, ReaderNext(r) PROVE CoidInv' /\ MaxInv'
      BY <2>2, ReaderSame, SameTable
    <2>3. CASE Destroy
      <3>1. UNCHANGED <<data, slot, max, lock, attached>>
        BY <2>3 DEF Destroy, histVars
      <3> QED BY <3>1, SameTable
    <2>4. CASE UNCHANGED vars
      <3>1. UNCHANGED <<data, slot, max, lock, attached>>
        BY <2>4 DEF vars, tableVars, histVars
      <3> QED BY <3>1, SameTable
    <2> QED BY <2>1, <2>2, <2>3, <2>4 DEF Next
  <1> QED BY <1>1, <1>2, TableInvariant, PTL DEF Spec

\* A coid from a free slot keeps its meaning from qnx_connection_table_add to
\* qnx_connection_table_remove, however often the table grows.
THEOREM TableCoidStable == Spec => []CoidStable
  <1>1. CoidInv => CoidStable
    BY DEF CoidInv
  <1> QED BY <1>1, TableMeaning, PTL

\* qnx_connection_table_for_each, which stops at max, sees every connection when no
\* writer is inside the lock.
THEOREM TableMaxCovers == Spec => []MaxCovers
  <1>1. MaxInv => MaxCovers
    BY DEF MaxInv
  <1> QED BY <1>1, TableMeaning, PTL
===============================================================================
