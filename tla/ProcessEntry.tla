----------------------------- MODULE ProcessEntry -----------------------------
(***************************************************************************)
(* The server process as kernel/process_entry.[ch] and                     *)
(* kernel/driver_data.[ch] keep it: its entry in the driver's process      *)
(* list, its one channel and the messages received but not yet answered.   *)
(* Lookups run under RCU and removals wait for a grace period before they  *)
(* drop the list's reference, so lookup plus kref_get is one step and an   *)
(* unlinked object is never found.                                         *)
(***************************************************************************)
EXTENDS Channel

VARIABLES
    pending,       \* entry->pending
    chanListed,    \* the channel is in entry->channels
    entryListed,   \* the entry is in driver_data.process_entries
    entryRefs      \* entry->refcnt; 0: qnx_process_entry_free runs or has run

entryVars == <<pending, chanListed, entryListed, entryRefs>>

EntryTypeOK ==
    /\ pending \subseteq Ptr
    /\ chanListed \in BOOLEAN
    /\ entryListed \in BOOLEAN
    /\ entryRefs \in Int

\* qnxcomm_open of the server, then ChannelCreate.
EntryInit ==
    /\ pending = {}
    /\ chanListed = TRUE
    /\ entryListed = TRUE
    /\ entryRefs = 1

-------------------------------------------------------------------------------

\* qnx_process_entry_add_pending(m), done with m's state = PENDING.
AddPending(m) ==
    /\ pending' = pending \cup {m}
    /\ state' = [state EXCEPT ![m] = "PENDING"]
    /\ UNCHANGED <<rcvid, status, woken, heap, gbl_next_rcvid,
                   chanListed, entryListed, entryRefs>>

\* The messages qnx_process_entry_release_pending(k) may find.
PendingWith(k) == {m \in pending : rcvid[m] = k}

\* The list_del is missing.
ReleasePendingKeeps(m) == UNCHANGED entryVars

\* qnx_process_entry_release_pending returned m.
ReleasePending(m) ==
    /\ pending' = pending \ {m}
    /\ UNCHANGED <<chanListed, entryListed, entryRefs>>

\* qnx_driver_data_find_channel finds the channel of a connection.
ChannelFound == entryListed /\ chanListed

\* The kref_get is missing.
EntryGetNot == UNCHANGED entryVars

\* qnx_driver_data_find_process found the entry.
EntryGet ==
    /\ entryRefs' = entryRefs + 1
    /\ UNCHANGED <<pending, chanListed, entryListed>>

\* kref_put of qnx_process_entry_release.
EntryRelease ==
    /\ entryRefs' = entryRefs - 1
    /\ UNCHANGED <<pending, chanListed, entryListed>>

\* qnx_channel_release is missing.
UnlinkChannelNoPut ==
    /\ chanListed
    /\ chanListed' = FALSE
    /\ UNCHANGED <<msgVars, chanVars, pending, entryListed, entryRefs>>

\* The channel leaves entry->channels and the list drops its reference.
UnlinkChannel ==
    /\ chanListed
    /\ chanListed' = FALSE
    /\ ChannelRelease
    /\ UNCHANGED <<pending, entryListed, entryRefs>>

\* qnx_driver_data_remove
UnlinkEntry ==
    /\ entryListed' = FALSE
    /\ UNCHANGED <<pending, chanListed, entryRefs>>
===============================================================================
