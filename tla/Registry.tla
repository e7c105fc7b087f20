-------------------------------- MODULE Registry ------------------------------
(***************************************************************************)
(* Which processes, files, channels, connections and poll descriptors the  *)
(* driver knows, and how long it keeps them: kernel/driver_data.c,         *)
(* kernel/process_entry.c and open, close, poll and the administrative     *)
(* ioctls of kernel/qnxcomm_driver.c, for several processes.               *)
(*                                                                         *)
(* Files, process entries and channels are addresses, reused after they    *)
(* have been freed.  Every list is changed under its lock and searched     *)
(* under RCU, so the calls are steps; qnxcomm_open is two steps, because   *)
(* its search and its insertion are.  Messages are left to MsgPassing, the *)
(* array of connections to ConnectionTable: here it is a set.              *)
(***************************************************************************)
EXTENDS Integers, FiniteSetsExt, SequencesExt

CONSTANTS
    Pids,          \* processes
    Files,         \* addresses of struct file
    Entries,       \* addresses of struct qnx_process_entry
    Chans,         \* addresses of struct qnx_channel
    StartChannels, \* the value of max_channels at the start
    LastChannels,  \* bound on max_channels
    MaxChid,       \* bound on the channel ids handed out
    MaxPolls,      \* bound on the calls of poll
    NULL

ASSUME RegistryAssumption ==
    /\ IsFiniteSet(Pids) /\ IsFiniteSet(Files) /\ IsFiniteSet(Entries) /\ IsFiniteSet(Chans)
    /\ StartChannels \in Nat /\ LastChannels \in Nat /\ StartChannels <= LastChannels
    /\ MaxChid \in Nat /\ MaxPolls \in Nat
    /\ NULL \notin Pids \cup Files \cup Entries \cup Chans

VARIABLES
    mode,              \* f->f_mode: "rdwr", "poll" (O_RDONLY), or "none" for a free file
    private,           \* f->private_data
    opening,           \* the process inside qnxcomm_open, between search and insertion
    process_entries,   \* driver_data.process_entries, newest first
    pid,               \* entry->pid
    entryRefs,         \* entry->refcnt; 0: free memory
    channels,          \* entry->channels
    pollfds,           \* entry->pollfds, newest first: records of file and chid
    connections,       \* entry->connections: records of pid and chid
    chid,              \* chnl->chid
    chanRefs,          \* chnl->refcnt; 0: free memory
    gbl_next_channel_id,
    max_channels,      \* qnx_max_channels_per_process
    polls,             \* history: references to each channel taken by poll
    serial             \* history: how many channels had been made when this one was

fileVars == <<mode, private, opening>>
entryVars == <<process_entries, pid, entryRefs, channels, pollfds, connections>>
chanVars == <<chid, chanRefs, gbl_next_channel_id, serial>>
regVars == <<fileVars, entryVars, chanVars, max_channels, polls>>

PollFd == [file : Files, chid : 1..MaxChid]
Connection == [pid : Pids, chid : 1..MaxChid, serial : 1..MaxChid]

RegTypeOK ==
    /\ mode \in [Files -> {"none", "rdwr", "poll"}]
    /\ private \in [Files -> Entries \cup {NULL}]
    /\ opening \in [Files -> Pids \cup {NULL}]
    /\ process_entries \in Seq(Entries)
    /\ pid \in [Entries -> Pids \cup {NULL}]
    /\ entryRefs \in [Entries -> Nat]
    /\ channels \in [Entries -> SUBSET Chans]
    /\ pollfds \in [Entries -> Seq(PollFd)]
    /\ connections \in [Entries -> SUBSET Connection]
    /\ chid \in [Chans -> 0..MaxChid]
    /\ chanRefs \in [Chans -> Nat]
    /\ gbl_next_channel_id \in 0..MaxChid
    /\ max_channels \in StartChannels..LastChannels
    /\ polls \in [Chans -> 0..MaxPolls]
    /\ serial \in [Chans -> 0..MaxChid]
    /\ \A e \in Entries : Cardinality(channels[e]) <= max_channels

RegInit ==
    /\ mode = [f \in Files |-> "none"]
    /\ private = [f \in Files |-> NULL]
    /\ opening = [f \in Files |-> NULL]
    /\ process_entries = <<>>
    /\ pid = [e \in Entries |-> NULL]
    /\ entryRefs = [e \in Entries |-> 0]
    /\ channels = [e \in Entries |-> {}]
    /\ pollfds = [e \in Entries |-> <<>>]
    /\ connections = [e \in Entries |-> {}]
    /\ chid = [c \in Chans |-> 0]
    /\ chanRefs = [c \in Chans |-> 0]
    /\ gbl_next_channel_id = 0
    /\ max_channels = StartChannels
    /\ polls = [c \in Chans |-> 0]
    /\ serial = [c \in Chans |-> 0]

-------------------------------------------------------------------------------
(* Searches.                                                               *)

\* Places in the process list of process p's entries.
PlacesOf(p) == {i \in DOMAIN process_entries : pid[process_entries[i]] = p}

\* qnx_driver_data_is_process_available
ProcessAvailable(p) == PlacesOf(p) # {}

\* qnx_driver_data_find_process: the first match.
FindProcess(p) == process_entries[Min(PlacesOf(p))]

\* qnx_process_entry_find_channel and _is_channel_available: at most one match.
ChannelsWith(e, k) == {c \in channels[e] : chid[c] = k}

\* What qnx_driver_data_find_channel finds for a connection.
Reached(p, k) == IF ProcessAvailable(p) THEN ChannelsWith(FindProcess(p), k) ELSE {}

\* qnx_process_entry_find_channel_from_file
ChannelFromFile(e, f) ==
    LET places == {i \in DOMAIN pollfds[e] : pollfds[e][i].file = f}
    IN  IF places = {} THEN {} ELSE ChannelsWith(e, pollfds[e][Min(places)].chid)

-------------------------------------------------------------------------------
(* Reference counts.                                                       *)

\* The channels of cs lose one reference each.
PutChannels(cs) == chanRefs' = [c \in Chans |-> chanRefs[c] - (IF c \in cs THEN 1 ELSE 0)]

\* The channels of the entry keep their reference.
EntryPutKeepsChannels(e) ==
    /\ entryRefs' = [entryRefs EXCEPT ![e] = @ - 1]
    /\ IF entryRefs[e] = 1
          THEN /\ channels' = [channels EXCEPT ![e] = {}]
               /\ connections' = [connections EXCEPT ![e] = {}]
               /\ pid' = [pid EXCEPT ![e] = NULL]
          ELSE UNCHANGED <<channels, connections, pid>>
    /\ UNCHANGED chanRefs

\* qnx_process_entry_release; the last one runs qnx_process_entry_free, which
\* releases the channels and connections (not the poll descriptors) and frees it.
EntryPut(e) ==
    /\ entryRefs' = [entryRefs EXCEPT ![e] = @ - 1]
    /\ IF entryRefs[e] = 1
          THEN /\ PutChannels(channels[e])
               /\ channels' = [channels EXCEPT ![e] = {}]
               /\ connections' = [connections EXCEPT ![e] = {}]
               /\ pid' = [pid EXCEPT ![e] = NULL]
          ELSE UNCHANGED <<chanRefs, channels, connections, pid>>

-------------------------------------------------------------------------------
(* qnxcomm_open.                                                           *)

\* qnx_process_entry_init, then qnx_driver_data_add_process: f becomes a file of
\* process p.
AddProcess(p, f) ==
    /\ \E e \in Entries :
          /\ entryRefs[e] = 0
          /\ e \notin ToSet(process_entries)
          /\ entryRefs' = [entryRefs EXCEPT ![e] = 1]
          /\ pid' = [pid EXCEPT ![e] = p]
          /\ pollfds' = [pollfds EXCEPT ![e] = <<>>]
          /\ private' = [private EXCEPT ![f] = e]
          /\ process_entries' = <<e>> \o process_entries
    /\ mode' = [mode EXCEPT ![f] = "rdwr"]
    /\ UNCHANGED <<channels, connections, chanVars, max_channels, polls>>

\* O_RDWR: the search; with an entry in the list the call returns ENOSPC.
OpenCheck(p, f) ==
    /\ mode[f] = "none" /\ opening[f] = NULL
    /\ ~ProcessAvailable(p)
    /\ opening' = [opening EXCEPT ![f] = p]
    /\ UNCHANGED <<mode, private, entryVars, chanVars, max_channels, polls>>

\* O_RDWR: allocation and insertion.
OpenAdd(f) ==
    /\ opening[f] # NULL
    /\ AddProcess(opening[f], f)
    /\ opening' = [opening EXCEPT ![f] = NULL]

\* The entry is used without a reference.
OpenPollNoGet(p, f) ==
    /\ mode[f] = "none" /\ opening[f] = NULL
    /\ mode' = [mode EXCEPT ![f] = "poll"]
    /\ private' = [private EXCEPT ![f] = IF ProcessAvailable(p) THEN FindProcess(p) ELSE NULL]
    /\ UNCHANGED <<opening, entryVars, chanVars, max_channels, polls>>

\* O_RDONLY: a poll descriptor refers to the entry of its process, if any.
OpenPoll(p, f) ==
    /\ mode[f] = "none" /\ opening[f] = NULL
    /\ mode' = [mode EXCEPT ![f] = "poll"]
    /\ IF ProcessAvailable(p)
          THEN /\ private' = [private EXCEPT ![f] = FindProcess(p)]
               /\ entryRefs' = [entryRefs EXCEPT ![FindProcess(p)] = @ + 1]
          ELSE UNCHANGED <<private, entryRefs>>
    /\ UNCHANGED <<opening, process_entries, pid, channels, pollfds, connections, chanVars,
                   max_channels, polls>>

-------------------------------------------------------------------------------
(* qnxcomm_close, called when the last descriptor of f is gone.            *)

\* qnx_driver_data_remove(p): the first entry with that pid leaves the list.
RemoveProcess(p) ==
    process_entries' = IF ProcessAvailable(p) THEN RemoveAt(process_entries, Min(PlacesOf(p)))
                                              ELSE process_entries

\* qnx_process_entry_remove_pollfd is missing.
RemovePollFdNot(e, f) == UNCHANGED pollfds

\* qnx_process_entry_remove_pollfd: the first record of f goes.
RemovePollFd(e, f) ==
    LET places == {i \in DOMAIN pollfds[e] : pollfds[e][i].file = f}
    IN  pollfds' = IF places = {} THEN pollfds
                   ELSE [pollfds EXCEPT ![e] = RemoveAt(@, Min(places))]

\* The entry is released before it leaves the list, and stays there if a poll
\* descriptor still refers to it.
ReleaseKeepsListed(f) ==
    /\ mode[f] # "none"
    /\ mode' = [mode EXCEPT ![f] = "none"]
    /\ private' = [private EXCEPT ![f] = NULL]
    /\ IF private[f] = NULL THEN UNCHANGED <<entryVars, chanRefs>>
       ELSE /\ EntryPut(private[f])
            /\ IF mode[f] = "rdwr"
                  THEN /\ IF entryRefs[private[f]] = 1 THEN RemoveProcess(pid[private[f]])
                                                       ELSE UNCHANGED process_entries
                       /\ UNCHANGED pollfds
                  ELSE RemovePollFd(private[f], f) /\ UNCHANGED process_entries
    /\ UNCHANGED <<opening, chid, gbl_next_channel_id, serial, max_channels, polls>>

Release(f) ==
    /\ mode[f] # "none"
    /\ mode' = [mode EXCEPT ![f] = "none"]
    /\ private' = [private EXCEPT ![f] = NULL]
    /\ IF private[f] = NULL THEN UNCHANGED <<entryVars, chanRefs>>
       ELSE /\ EntryPut(private[f])
            /\ IF mode[f] = "rdwr"
                  THEN RemoveProcess(pid[private[f]]) /\ UNCHANGED pollfds
                  ELSE RemovePollFd(private[f], f) /\ UNCHANGED process_entries
    /\ UNCHANGED <<opening, chid, gbl_next_channel_id, serial, max_channels, polls>>

-------------------------------------------------------------------------------
(* qnxcomm_ioctl by process p on file f.                                   *)

\* The pid is not compared.
IoctlResultAnyone(p, f) == IF private[f] = NULL THEN "ENOTTY" ELSE "OK"

\* Without an entry ENOTTY, from another process than the opener's ENOSPC.
IoctlResult(p, f) ==
    CASE private[f] = NULL -> "ENOTTY"
      [] private[f] # NULL /\ pid[private[f]] # p -> "ENOSPC"
      [] OTHER -> "OK"

\* The id is the lowest one free in the process.
NewChannelIdLocal(e) == Min((1..MaxChid) \ {chid[c] : c \in channels[e]})

\* get_new_channel_id
NewChannelId(e) == gbl_next_channel_id + 1

\* qnx_process_entry_add_channel; a channel beyond the limit is freed again (with
\* EMFILE) and has used up an id.
ChannelCreate(e) ==
    /\ gbl_next_channel_id < MaxChid
    /\ gbl_next_channel_id' = gbl_next_channel_id + 1
    /\ IF Cardinality(channels[e]) < max_channels
          THEN \E c \in Chans :
                 /\ chanRefs[c] = 0
                 /\ chanRefs' = [chanRefs EXCEPT ![c] = 1]
                 /\ chid' = [chid EXCEPT ![c] = NewChannelId(e)]
                 /\ serial' = [serial EXCEPT ![c] = gbl_next_channel_id + 1]
                 /\ channels' = [channels EXCEPT ![e] = @ \cup {c}]
          ELSE UNCHANGED <<chanRefs, chid, serial, channels>>
    /\ UNCHANGED <<fileVars, process_entries, pid, entryRefs, pollfds, connections,
                   max_channels, polls>>

\* qnx_process_entry_remove_channel; without a match EINVAL.
ChannelDestroy(e, k) ==
    /\ ChannelsWith(e, k) # {}
    /\ channels' = [channels EXCEPT ![e] = @ \ ChannelsWith(e, k)]
    /\ PutChannels(ChannelsWith(e, k))
    /\ UNCHANGED <<fileVars, process_entries, pid, entryRefs, pollfds, connections,
                   chid, gbl_next_channel_id, serial, max_channels, polls>>

\* qnx_process_entry_add_pollfd; without the channel ESRCH.
AddPollFd(e, f, k) ==
    /\ ChannelsWith(e, k) # {}
    /\ pollfds' = [pollfds EXCEPT ![e] = <<[file |-> f, chid |-> k]>> \o @]
    /\ UNCHANGED <<fileVars, process_entries, pid, entryRefs, channels, connections,
                   chanVars, max_channels, polls>>

\* qnx_process_entry_add_connection; without process or channel ESRCH.
ConnectAttach(e, p, k) ==
    /\ \E c \in Reached(p, k) :
          connections' = [connections EXCEPT
              ![e] = @ \cup {[pid |-> p, chid |-> k, serial |-> serial[c]]}]
    /\ UNCHANGED <<fileVars, process_entries, pid, entryRefs, channels, pollfds,
                   chanVars, max_channels, polls>>

\* qnx_process_entry_remove_connection
ConnectDetach(e, conn) ==
    /\ connections' = [connections EXCEPT ![e] = @ \ {conn}]
    /\ UNCHANGED <<fileVars, process_entries, pid, entryRefs, channels, pollfds,
                   chanVars, max_channels, polls>>

-------------------------------------------------------------------------------

\* qnxcomm_poll: find_channel's reference is kept for good.  Without a channel
\* POLLHUP.
Poll(f) ==
    /\ private[f] # NULL
    /\ \E c \in ChannelFromFile(private[f], f) :
          /\ polls[c] < MaxPolls
          /\ chanRefs' = [chanRefs EXCEPT ![c] = @ + 1]
          /\ polls' = [polls EXCEPT ![c] = @ + 1]
    /\ UNCHANGED <<fileVars, entryVars, chid, gbl_next_channel_id, serial, max_channels>>

\* set_max_connetions for max_channels: "don't allow shrinking".
SetMaxChannels(n) ==
    /\ n > max_channels
    /\ max_channels' = n
    /\ UNCHANGED <<fileVars, entryVars, chanVars, polls>>

-------------------------------------------------------------------------------

\* The files that refer to entry e.
FilesOf(e) == {f \in Files : private[f] = e}

\* An entry's reference count is the number of files that refer to it, so it lives
\* exactly as long as the process's own file and its poll descriptors, in whichever
\* order they are closed (qnxcomm_close may run for a poll descriptor last).
EntryRefsExact == \A e \in Entries : entryRefs[e] = Cardinality(FilesOf(e))
===============================================================================
