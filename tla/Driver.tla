--------------------------------- MODULE Driver -------------------------------
(***************************************************************************)
(* The driver by itself: any process may make any call at any time on a    *)
(* file it has opened.                                                     *)
(***************************************************************************)
EXTENDS Registry

CONSTANTS
    SerialOpen,   \* TRUE: a process opens the driver under a mutex, as the library does
    MaxRecords    \* bound on the records of poll descriptors of one process

ASSUME DriverAssumption == SerialOpen \in BOOLEAN /\ MaxRecords \in Nat

\* History: the files (addresses) that have ever been registered for poll otherwise
\* than by MsgReceivePollFd: opened O_RDWR, or a second time.
VARIABLE odd

driverVars == <<regVars, odd>>

Init == RegInit /\ odd = {}

\* qnxcomm_open with O_RDWR, up to the search.
Open(p, f) ==
    /\ SerialOpen => \A g \in Files : opening[g] # p
    /\ OpenCheck(p, f)

\* The ioctls, by the process the file belongs to.
Ioctl(p, f) ==
    /\ mode[f] # "none"
    /\ IoctlResult(p, f) = "OK"
    /\ LET e == private[f] IN
       \/ ChannelCreate(e)
       \/ \E k \in 1..MaxChid : ChannelDestroy(e, k)
       \/ \E q \in Pids, k \in 1..MaxChid : ConnectAttach(e, q, k)
       \/ \E conn \in connections[e] : ConnectDetach(e, conn)

\* MsgReceivePollFd registers a file it has just opened O_RDONLY, once.
RegisteredByLibrary(f) ==
    /\ mode[f] = "poll"
    /\ \A i \in DOMAIN pollfds[private[f]] : pollfds[private[f]][i].file # f

\* The ioctl QNX_IO_REGISTER_POLLFD itself takes any file, as often as it comes.
RegisterPollFd(p, f, k) ==
    /\ IoctlResult(p, f) = "OK"
    /\ Len(pollfds[private[f]]) < MaxRecords
    /\ AddPollFd(private[f], f, k)
    /\ odd' = IF RegisteredByLibrary(f) THEN odd ELSE odd \cup {f}

Next ==
    \/ \E p \in Pids, f \in Files :
          (Open(p, f) \/ OpenPoll(p, f) \/ Ioctl(p, f)) /\ UNCHANGED odd
    \/ \E f \in Files : (OpenAdd(f) \/ Release(f) \/ Poll(f)) /\ UNCHANGED odd
    \/ \E p \in Pids, f \in Files, k \in 1..MaxChid : RegisterPollFd(p, f, k)
    \/ \E n \in StartChannels..LastChannels : SetMaxChannels(n) /\ UNCHANGED odd

Spec == Init /\ [][Next]_driverVars

-------------------------------------------------------------------------------

\* The process list holds the entry of every file opened O_RDWR and nothing else:
\* no freed entry, no entry that only poll descriptors keep alive, no two entries
\* of one process.
ListExact ==
    /\ \A i, j \in DOMAIN process_entries :
          pid[process_entries[i]] = pid[process_entries[j]] => i = j
    /\ ToSet(process_entries) =
          {private[f] : f \in {g \in Files : mode[g] = "rdwr" /\ private[g] # NULL}}

\* The record of a poll descriptor made by MsgReceivePollFd lives no longer than its
\* file, is in the entry the file refers to and is the only one of the file, whatever
\* other registrations the driver accepts and whichever file is closed first:
\* qnx_process_entry_free, which ignores pollfds, leaks none of them, and a new file
\* at the same address never finds the channel of an old one.
PollRecordsLive ==
    \A e \in Entries : \A i \in DOMAIN pollfds[e] :
        LET f == pollfds[e][i].file
        IN  f \notin odd =>
              /\ mode[f] = "poll" /\ private[f] = e
              /\ \A j \in DOMAIN pollfds[e] : pollfds[e][j].file = f => j = i

\* The same for every record.  It fails: qnxcomm_ioctl registers a file opened O_RDWR
\* and a file that has a record, and qnxcomm_close drops one record or none.
NoStaleRecord ==
    \A e \in Entries : \A i \in DOMAIN pollfds[e] :
        LET f == pollfds[e][i].file IN mode[f] # "none" /\ private[f] = e

\* A channel is in one process's list at most, and its reference count is that
\* list's reference plus one for every poll that ever found it: ChannelDestroy and
\* the end of the process free the channels that were never polled, and no others.
ChannelRefsExact ==
    \A c \in Chans :
        LET owners == {e \in Entries : c \in channels[e]}
        IN  /\ Cardinality(owners) <= 1
            /\ chanRefs[c] = Cardinality(owners) + polls[c]

\* A connection reaches the channel it was attached to or none, even when its server
\* has gone, its memory and its pid have been reused and the new process has made
\* channels: channel ids are never given twice.
ConnectionsNotRedirected ==
    \A e \in Entries : \A conn \in connections[e] :
        \A c \in Reached(conn.pid, conn.chid) : serial[c] = conn.serial
===============================================================================
