--------------------------- MODULE ConnectionTable ----------------------------
(***************************************************************************)
(* The connection table of one process, kernel/connection_table.[ch], and  *)
(* the calls of kernel/process_entry.c that use it: ConnectAttach and      *)
(* ConnectDetach change it under table->lock, every MsgSend looks its coid *)
(* up without a lock and /proc/qnxcomm/connections walks over it.  What    *)
(* the lock-free readers hold is protected by RCU only: the writers free a *)
(* connection, or the array a growing table leaves behind, after           *)
(* synchronize_rcu.                                                        *)
(*                                                                         *)
(* A version of the array (struct qnx_connection_table_data) is named by   *)
(* its capacity: growing doubles it, so no capacity comes twice.  A version*)
(* has capacity + 1 slots (conn[1] plus "newsize" more).                   *)
(***************************************************************************)
EXTENDS Integers, FiniteSets

CONSTANTS
    Writers,          \* threads in ConnectAttach or ConnectDetach
    Readers,          \* threads in MsgSend..., or reading /proc
    Conns,            \* addresses kmalloc can return for a connection
    InitialSize,      \* QNX_INITIAL_TABLE_SIZE
    MaxConnections,   \* qnx_max_connections_per_process
    NULL

ASSUME ConnectionTableAssumption ==
    /\ InitialSize \in Nat \ {0}
    /\ MaxConnections \in Nat
    /\ InitialSize <= MaxConnections
    /\ NULL \notin Conns \cup Writers

VARIABLES
    data,        \* table->data: the current version
    slot,        \* conn[] of each version
    max,         \* max of each version
    tables,      \* the versions allocated
    conns,       \* the connections allocated
    lock,        \* the holder of table->lock while it sleeps with it
    wpc, wconn,  \* per writer: where it is, the connection it works on
    gp,          \* per writer: the readers its synchronize_rcu waits for
    rpc,         \* per reader: where it is in its read-side section
    rdata,       \* the version it has loaded
    rconn,       \* the connection it has loaded
    ri,          \* the coid it looks up next
    attached,    \* history: the connection each coid from a free slot stands for
    spilled      \* history: the coids returned by an attach that grew the table

tableVars == <<data, slot, max, tables, conns, lock>>
writerVars == <<wpc, wconn, gp>>
readerVars == <<rpc, rdata, rconn, ri>>
histVars == <<attached, spilled>>
vars == <<tableVars, writerVars, readerVars, histVars>>

\* The table exists until qnx_process_entry_free destroys it.
Alive == tables # {}

Capacities == InitialSize..MaxConnections
Slots == 0..MaxConnections

TypeOK ==
    /\ data \in Capacities
    /\ slot \in [Capacities -> [Slots -> Conns \cup {NULL}]]
    /\ max \in [Capacities -> -1..MaxConnections]
    /\ tables \subseteq Capacities
    /\ conns \subseteq Conns
    /\ lock \in Writers \cup {NULL}
    /\ wpc \in [Writers -> {"idle", "grow", "detach"}]
    /\ wconn \in [Writers -> Conns \cup {NULL}]
    /\ gp \in [Writers -> SUBSET Readers]
    /\ rpc \in [Readers -> {"idle", "retrieve", "deref", "walk_load", "walk", "walk_deref"}]
    /\ rdata \in [Readers -> Capacities \cup {NULL}]
    /\ rconn \in [Readers -> Conns \cup {NULL}]
    /\ ri \in [Readers -> Nat]
    /\ attached \in [Slots -> Conns \cup {NULL}]
    /\ spilled \subseteq Slots

\* qnx_connection_table_init
Init ==
    /\ data = InitialSize
    /\ slot = [c \in Capacities |-> [i \in Slots |-> NULL]]
    /\ max = [c \in Capacities |-> 0]
    /\ tables = {InitialSize}
    /\ conns = {}
    /\ lock = NULL
    /\ wpc = [w \in Writers |-> "idle"]
    /\ wconn = [w \in Writers |-> NULL]
    /\ gp = [w \in Writers |-> {}]
    /\ rpc = [r \in Readers |-> "idle"]
    /\ rdata = [r \in Readers |-> NULL]
    /\ rconn = [r \in Readers |-> NULL]
    /\ ri = [r \in Readers |-> 0]
    /\ attached = [i \in Slots |-> NULL]
    /\ spilled = {}

-------------------------------------------------------------------------------
(* RCU, as the kernel provides it.                                         *)

InSection(r) == rpc[r] # "idle"

\* The readers a synchronize_rcu starting now has to wait for.
GracePeriod == {r \in Readers : InSection(r)}

\* rcu_read_unlock of r: whoever waits for r needs to no longer.  r returns, and
\* its local variables are gone.
ReadUnlock(r) ==
    /\ rpc' = [rpc EXCEPT ![r] = "idle"]
    /\ rdata' = [rdata EXCEPT ![r] = NULL]
    /\ rconn' = [rconn EXCEPT ![r] = NULL]
    /\ ri' = [ri EXCEPT ![r] = 0]
    /\ gp' = [w \in Writers |-> gp[w] \ {r}]

-------------------------------------------------------------------------------
(* ConnectAttach: qnx_process_entry_add_connection after its checks, and   *)
(* qnx_connection_table_add.                                               *)

FreeSlots == {i \in 1..(data - 1) : slot[data][i] = NULL}

\* max is not raised.
RaisedMaxNot(m, i) == m

\* "if (rc > max) max = rc" at the end of qnx_connection_table_add.
RaisedMax(m, i) == IF i > m THEN i ELSE m

\* The first free slot takes the new connection c; its index is the coid.
Attach(w, c) ==
    /\ Alive /\ wpc[w] = "idle" /\ lock = NULL
    /\ c \notin conns
    /\ conns' = conns \cup {c}
    /\ \E i \in FreeSlots :
          /\ \A j \in FreeSlots : i <= j
          /\ slot' = [slot EXCEPT ![data][i] = c]
          /\ max' = [max EXCEPT ![data] = RaisedMax(@, i)]
          /\ attached' = [attached EXCEPT ![i] = c]
    /\ UNCHANGED <<data, tables, lock, writerVars, readerVars, spilled>>

\* One pointer too few is copied.
CopiedOneShort == [i \in Slots |-> IF i < data - 1 THEN slot[data][i] ELSE NULL]

\* The slots beyond the old ones are not cleared.
CopiedNoMemset == [i \in Slots |-> IF i < data THEN slot[data][i] ELSE "garbage"]

\* What qnx_connection_table_reserve_unlocked copies into the new array.
Copied == [i \in Slots |-> IF i < data THEN slot[data][i] ELSE NULL]

\* "if (newsize > qnx_max_connections_per_process) return -EMFILE" passes.
MayGrow == 2 * data <= MaxConnections

\* No slot is free: qnx_connection_table_reserve_unlocked publishes an array of
\* twice the size and waits for the readers, table->lock held.
AttachGrow(w, c) ==
    /\ Alive /\ wpc[w] = "idle" /\ lock = NULL
    /\ c \notin conns
    /\ FreeSlots = {}
    /\ MayGrow
    /\ conns' = conns \cup {c}
    /\ tables' = tables \cup {2 * data}
    /\ slot' = [slot EXCEPT ![2 * data] = Copied]
    /\ max' = [max EXCEPT ![2 * data] = 0]
    /\ data' = 2 * data
    /\ lock' = w
    /\ wpc' = [wpc EXCEPT ![w] = "grow"]
    /\ wconn' = [wconn EXCEPT ![w] = c]
    /\ gp' = [gp EXCEPT ![w] = GracePeriod]
    /\ UNCHANGED <<readerVars, histVars>>

\* The versions superseded by the current one.
OldTables == tables \ {data}

\* The wait is over: kfree(old), and the new connection goes to the slot at
\* index capacity, which is also the coid returned.
AttachGrown(w) ==
    /\ wpc[w] = "grow"
    /\ gp[w] = {}
    /\ tables' = tables \ OldTables
    /\ slot' = [slot EXCEPT ![data][data] = wconn[w]]
    /\ max' = [max EXCEPT ![data] = RaisedMax(@, data)]
    /\ spilled' = spilled \cup {data}
    /\ lock' = NULL
    /\ wpc' = [wpc EXCEPT ![w] = "idle"]
    /\ wconn' = [wconn EXCEPT ![w] = NULL]
    /\ UNCHANGED <<data, conns, gp, readerVars, attached>>

\* The table may not grow any more (EMFILE), or there is no memory for the array
\* (ENOMEM, at any size).  The connection just allocated is neither stored nor
\* freed.
AttachFails(w, c) ==
    /\ Alive /\ wpc[w] = "idle" /\ lock = NULL
    /\ c \notin conns
    /\ FreeSlots = {}
    /\ conns' = conns \cup {c}
    /\ UNCHANGED <<data, slot, max, tables, lock, writerVars, readerVars, histVars>>

-------------------------------------------------------------------------------
(* ConnectDetach: qnx_connection_table_remove.                             *)

\* m is where the search below coid for the new maximum ends.  That is -1 at the
\* latest: conn[-1] overlaps the member max, which is not 0 then.
IsNewMax(coid, m) ==
    /\ m >= 0 => slot[data][m] # NULL
    /\ \A i \in (m + 1)..(coid - 1) : slot[data][i] = NULL

\* max after the removal of coid.
LowerMax(coid) ==
    IF coid = max[data]
       THEN \E m \in -1..(coid - 1) :
               IsNewMax(coid, m) /\ max' = [max EXCEPT ![data] = m]
       ELSE UNCHANGED max

\* The connection is not unlinked.
DetachKeepsSlot(w, coid) ==
    /\ Alive /\ wpc[w] = "idle" /\ lock = NULL
    /\ coid < data
    /\ slot[data][coid] # NULL
    /\ LowerMax(coid)
    /\ attached' = attached
    /\ spilled' = spilled
    /\ wpc' = [wpc EXCEPT ![w] = "detach"]
    /\ wconn' = [wconn EXCEPT ![w] = slot[data][coid]]
    /\ gp' = [gp EXCEPT ![w] = GracePeriod]
    /\ UNCHANGED <<data, slot, tables, conns, lock, readerVars>>

\* Unlink under the lock, then wait for the readers.
Detach(w, coid) ==
    /\ Alive /\ wpc[w] = "idle" /\ lock = NULL
    /\ coid < data
    /\ slot[data][coid] # NULL
    /\ LowerMax(coid)
    /\ slot' = [slot EXCEPT ![data][coid] = NULL]
    /\ attached' = [attached EXCEPT ![coid] = NULL]
    /\ spilled' = spilled \ {coid}
    /\ wpc' = [wpc EXCEPT ![w] = "detach"]
    /\ wconn' = [wconn EXCEPT ![w] = slot[data][coid]]
    /\ gp' = [gp EXCEPT ![w] = GracePeriod]
    /\ UNCHANGED <<data, tables, conns, lock, readerVars>>

\* synchronize_rcu is missing.
DetachedAtOnce(w) ==
    /\ wpc[w] = "detach"
    /\ conns' = conns \ {wconn[w]}
    /\ wpc' = [wpc EXCEPT ![w] = "idle"]
    /\ wconn' = [wconn EXCEPT ![w] = NULL]
    /\ UNCHANGED <<data, slot, max, tables, lock, gp, readerVars, histVars>>

\* kfree(conn)
Detached(w) ==
    /\ wpc[w] = "detach"
    /\ gp[w] = {}
    /\ conns' = conns \ {wconn[w]}
    /\ wpc' = [wpc EXCEPT ![w] = "idle"]
    /\ wconn' = [wconn EXCEPT ![w] = NULL]
    /\ UNCHANGED <<data, slot, max, tables, lock, gp, readerVars, histVars>>

-------------------------------------------------------------------------------
(* qnx_connection_table_retrieve                                           *)

\* rcu_read_lock and the load of table->data.
Retrieve(r, coid) ==
    /\ Alive /\ rpc[r] = "idle"
    /\ rpc' = [rpc EXCEPT ![r] = "retrieve"]
    /\ rdata' = [rdata EXCEPT ![r] = data]
    /\ ri' = [ri EXCEPT ![r] = coid]
    /\ UNCHANGED <<tableVars, writerVars, rconn, histVars>>

\* The load of the slot, if the coid is within the capacity.
RetrieveSlot(r) ==
    /\ rpc[r] = "retrieve"
    /\ ri[r] < rdata[r]
    /\ slot[rdata[r]][ri[r]] # NULL
    /\ rconn' = [rconn EXCEPT ![r] = slot[rdata[r]][ri[r]]]
    /\ rpc' = [rpc EXCEPT ![r] = "deref"]
    /\ UNCHANGED <<tableVars, writerVars, rdata, ri, histVars>>

\* No such connection: the caller gets EBADF.
RetrieveNone(r) ==
    /\ rpc[r] = "retrieve"
    /\ ri[r] < rdata[r] => slot[rdata[r]][ri[r]] = NULL
    /\ ReadUnlock(r)
    /\ UNCHANGED <<tableVars, wpc, wconn, histVars>>

\* rc = *conn and rcu_read_unlock.
RetrieveDeref(r) ==
    /\ rpc[r] = "deref"
    /\ ReadUnlock(r)
    /\ UNCHANGED <<tableVars, wpc, wconn, histVars>>

-------------------------------------------------------------------------------
(* qnx_show_connections: qnx_connection_table_is_empty and then            *)
(* qnx_connection_table_for_each, in one read-side section.                *)

\* The load of table->data in qnx_connection_table_is_empty.
Walk(r) ==
    /\ Alive /\ rpc[r] = "idle"
    /\ max[data] > 0
    /\ rpc' = [rpc EXCEPT ![r] = "walk_load"]
    /\ rdata' = [rdata EXCEPT ![r] = data]
    /\ UNCHANGED <<tableVars, writerVars, rconn, ri, histVars>>

\* The load of table->data in qnx_connection_table_for_each.
WalkLoad(r) ==
    /\ rpc[r] = "walk_load"
    /\ rpc' = [rpc EXCEPT ![r] = "walk"]
    /\ rdata' = [rdata EXCEPT ![r] = data]
    /\ ri' = [ri EXCEPT ![r] = 0]
    /\ UNCHANGED <<tableVars, writerVars, rconn, histVars>>

\* The loop does not advance over an empty slot.
WalkSkipStuck(r) ==
    /\ rpc[r] = "walk"
    /\ ri[r] <= max[rdata[r]]
    /\ slot[rdata[r]][ri[r]] = NULL
    /\ UNCHANGED vars

\* One round of the loop: an empty slot ...
WalkSkip(r) ==
    /\ rpc[r] = "walk"
    /\ ri[r] <= max[rdata[r]]
    /\ slot[rdata[r]][ri[r]] = NULL
    /\ ri' = [ri EXCEPT ![r] = @ + 1]
    /\ UNCHANGED <<tableVars, writerVars, rpc, rdata, rconn, histVars>>

\* ... or a connection ...
WalkSlot(r) ==
    /\ rpc[r] = "walk"
    /\ ri[r] <= max[rdata[r]]
    /\ slot[rdata[r]][ri[r]] # NULL
    /\ rconn' = [rconn EXCEPT ![r] = slot[rdata[r]][ri[r]]]
    /\ rpc' = [rpc EXCEPT ![r] = "walk_deref"]
    /\ UNCHANGED <<tableVars, writerVars, rdata, ri, histVars>>

\* ... or the end behind max.
WalkEnd(r) ==
    /\ rpc[r] = "walk"
    /\ ri[r] > max[rdata[r]]
    /\ ReadUnlock(r)
    /\ UNCHANGED <<tableVars, wpc, wconn, histVars>>

\* func(i, conn, arg)
WalkDeref(r) ==
    /\ rpc[r] = "walk_deref"
    /\ rpc' = [rpc EXCEPT ![r] = "walk"]
    /\ rconn' = [rconn EXCEPT ![r] = NULL]
    /\ ri' = [ri EXCEPT ![r] = @ + 1]
    /\ UNCHANGED <<tableVars, writerVars, rdata, histVars>>

-------------------------------------------------------------------------------
(* qnx_connection_table_destroy, when the last user of the entry is gone.  *)

\* The loop runs while i < max: the connection at max, if there is one, is not
\* freed.
Destroy ==
    /\ Alive
    /\ \A w \in Writers : wpc[w] = "idle"
    /\ \A r \in Readers : rpc[r] = "idle"
    /\ conns' = conns \ {slot[data][i] : i \in 0..(max[data] - 1)}
    /\ tables' = {}
    /\ UNCHANGED <<data, slot, max, lock, writerVars, readerVars, histVars>>

-------------------------------------------------------------------------------

WriterNext(w) ==
    \/ \E c \in Conns : Attach(w, c) \/ AttachGrow(w, c) \/ AttachFails(w, c)
    \/ AttachGrown(w)
    \/ \E coid \in Slots : Detach(w, coid)
    \/ Detached(w)

\* The steps of a reader inside its read-side section.
ReaderStep(r) ==
    \/ RetrieveSlot(r) \/ RetrieveNone(r) \/ RetrieveDeref(r)
    \/ WalkLoad(r) \/ WalkSkip(r) \/ WalkSlot(r) \/ WalkDeref(r) \/ WalkEnd(r)

ReaderNext(r) ==
    \/ \E coid \in Slots : Retrieve(r, coid)
    \/ Walk(r)
    \/ ReaderStep(r)

Next ==
    \/ \E w \in Writers : WriterNext(w)
    \/ \E r \in Readers : ReaderNext(r)
    \/ Destroy

Spec == Init /\ [][Next]_vars

FairSpec ==
    /\ Spec
    /\ \A r \in Readers : WF_vars(ReaderStep(r))
    /\ \A w \in Writers : WF_vars(AttachGrown(w) \/ Detached(w))

-------------------------------------------------------------------------------
(* Properties.                                                             *)

\* No lock-free reader touches freed memory: the array it has loaded is
\* allocated, the walk stays within it (its last slot has index capacity), and
\* the connection it is about to read is allocated, whatever attach, growth and
\* detach do meanwhile.
ReadersSafe ==
    \A r \in Readers : InSection(r) =>
        /\ rdata[r] \in tables
        /\ max[rdata[r]] <= rdata[r]
        /\ rpc[r] \in {"deref", "walk_deref"} => rconn[r] \in conns

\* A coid from a free slot keeps its meaning: from ConnectAttach to ConnectDetach
\* a lookup finds the connection the coid was handed out for, also while and after
\* the table grows and although other coids come and go.
CoidStable == \A i \in 0..(data - 1) : slot[data][i] = attached[i]

\* When no writer is at work /proc shows every connection: none lies behind max.
MaxCovers ==
    lock = NULL => \A i \in Slots : slot[data][i] # NULL => i <= max[data]

\* Two coids never share a connection object, so a detach frees no connection
\* that another coid still refers to.
SlotsDisjoint ==
    Alive => \A i, j \in Slots :
                i # j /\ slot[data][i] # NULL => slot[data][i] # slot[data][j]

\* A writer that waits for the readers is done at last.  A reader that walks the
\* table does end, so the lock held across synchronize_rcu is released.
WritersFinish == \A w \in Writers : wpc[w] # "idle" ~> wpc[w] = "idle"

\* What tests/setup.cpp expects of every coid: a coid that ConnectAttach returned,
\* also when the table had to grow for it, can be used and detached.
CoidUsable == \A i \in spilled : i < data /\ slot[data][i] # NULL
===============================================================================
