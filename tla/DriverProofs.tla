------------------------------ MODULE DriverProofs ----------------------------
(***************************************************************************)
(* Proofs about the driver by itself, for any number of processes, files,  *)
(* entries and channels, whether or not opens are serialised.              *)
(***************************************************************************)
EXTENDS Driver, RegistryProofs

-------------------------------------------------------------------------------
(* Entries.                                                                *)

\* qnxcomm_open with O_RDWR, the insertion.
LEMMA OpenAddEntryInv == ASSUME EntryInv, NEW f \in Files, OpenAdd(f) PROVE EntryInv'
  <1>1. PICK p \in Pids : p = opening[f] /\ mode[f] = "none"
    BY DEF OpenAdd, EntryInv, FileTypes, FreeFiles
  <1> QED BY <1>1, AddProcessEntryInv DEF OpenAdd

\* Every step keeps files, list and reference counts in order.
LEMMA NextEntryInv == EntryInv /\ [Next]_driverVars => EntryInv'
  <1> SUFFICES ASSUME EntryInv, [Next]_driverVars PROVE EntryInv'
    OBVIOUS
  <1>1. ASSUME NEW p \in Pids, NEW f \in Files, Open(p, f) PROVE EntryInv'
    <2>1. /\ mode[f] = "none"
          /\ opening' = [opening EXCEPT ![f] = p]
          /\ UNCHANGED <<mode, private, process_entries, entryRefs>>
      BY <1>1 DEF Open, OpenCheck, entryVars
    <2> QED BY <2>1 DEF EntryInv, FileTypes, FreeFiles, EntryRefsExact, FilesOf
  <1>2. ASSUME NEW p \in Pids, NEW f \in Files, Ioctl(p, f) PROVE EntryInv'
    <2>1. UNCHANGED <<mode, private, opening, process_entries, entryRefs>>
      BY <1>2 DEF Ioctl, ChannelCreate, ChannelDestroy, ConnectAttach, ConnectDetach, fileVars
    <2> QED BY <2>1, EntryFrame
  <1>3. ASSUME NEW f \in Files, Poll(f) PROVE EntryInv'
    <2>1. UNCHANGED <<mode, private, opening, process_entries, entryRefs>>
      BY <1>3 DEF Poll, fileVars, entryVars
    <2> QED BY <2>1, EntryFrame
  <1>4. ASSUME NEW p \in Pids, NEW f \in Files, NEW k \in 1..MaxChid, RegisterPollFd(p, f, k)
        PROVE EntryInv'
    <2>1. UNCHANGED <<mode, private, opening, process_entries, entryRefs>>
      BY <1>4 DEF RegisterPollFd, AddPollFd, fileVars
    <2> QED BY <2>1, EntryFrame
  <1>5. ASSUME NEW n, SetMaxChannels(n) PROVE EntryInv'
    <2>1. UNCHANGED <<mode, private, opening, process_entries, entryRefs>>
      BY <1>5 DEF SetMaxChannels, fileVars, entryVars
    <2> QED BY <2>1, EntryFrame
  <1>6. CASE UNCHANGED driverVars
    BY <1>6, EntryFrame DEF driverVars, regVars, fileVars, entryVars
  <1> QED BY <1>1, <1>2, <1>3, <1>4, <1>5, <1>6, OpenAddEntryInv, OpenPollEntryInv,
             ReleaseEntryInv DEF Next

\* An entry's reference count is the number of files that refer to it, in whichever
\* order a process and its poll descriptors are closed.
THEOREM DriverEntryRefsExact == Spec => []EntryRefsExact
  <1>1. EntryInv => EntryRefsExact
    BY DEF EntryInv
  <1> QED BY <1>1, InitEntryInv, NextEntryInv, PTL DEF Spec, Init

-------------------------------------------------------------------------------
(* Channels and connections.                                               *)

\* Every step keeps the channels in order.
LEMMA NextChannelInv == EntryInv /\ ChannelInv /\ [Next]_driverVars => ChannelInv'
  <1> SUFFICES ASSUME EntryInv, ChannelInv, [Next]_driverVars PROVE ChannelInv'
    OBVIOUS
  <1>1. ASSUME NEW p \in Pids, NEW f \in Files, Ioctl(p, f) PROVE ChannelInv'
    <2>1. PICK e \in Entries : e = private[f]
      BY <1>1 DEF Ioctl, IoctlResult, EntryInv, FileTypes
    <2>2. CASE ChannelCreate(e)
      BY <2>2, ChannelCreateInv
    <2>3. ASSUME NEW k, ChannelDestroy(e, k) PROVE ChannelInv'
      BY <2>3, ChannelDestroyInv
    <2>4. ASSUME NEW q \in Pids, NEW k \in 1..MaxChid, ConnectAttach(e, q, k) PROVE ChannelInv'
      BY <2>4, ConnectAttachInv
    <2>5. ASSUME NEW conn, ConnectDetach(e, conn) PROVE ChannelInv'
      BY <2>5 DEF ConnectDetach, chanVars, ChannelInv, ChannelTypes, OneOwner, RefsOfOwner,
                  IdsAreSerials, Owned
    <2> QED BY <1>1, <2>1, <2>2, <2>3, <2>4, <2>5 DEF Ioctl
  <1>2. ASSUME NEW p \in Pids, NEW f \in Files, Open(p, f) \/ OpenPoll(p, f) PROVE ChannelInv'
    BY <1>2, ChannelFrame DEF Open, OpenCheck, OpenPoll, entryVars, chanVars
  <1>3. ASSUME NEW f \in Files, OpenAdd(f) PROVE ChannelInv'
    BY <1>3, ChannelFrame DEF OpenAdd, AddProcess, chanVars
  <1>4. ASSUME NEW p \in Pids, NEW f \in Files, NEW k \in 1..MaxChid, RegisterPollFd(p, f, k)
        PROVE ChannelInv'
    BY <1>4, ChannelFrame DEF RegisterPollFd, AddPollFd, chanVars
  <1>5. ASSUME NEW n, SetMaxChannels(n) PROVE ChannelInv'
    BY <1>5, ChannelFrame DEF SetMaxChannels, entryVars, chanVars
  <1>6. CASE UNCHANGED driverVars
    BY <1>6, ChannelFrame DEF driverVars, regVars, entryVars, chanVars
  <1> QED BY <1>1, <1>2, <1>3, <1>4, <1>5, <1>6, ReleaseChannelInv, PollInv DEF Next

\* Both invariants hold throughout.
THEOREM DriverInvariant == Spec => [](EntryInv /\ ChannelInv)
  <1>1. EntryInv /\ ChannelInv /\ [Next]_driverVars => (EntryInv /\ ChannelInv)'
    BY NextEntryInv, NextChannelInv
  <1> QED BY <1>1, InitEntryInv, InitChannelInv, PTL DEF Spec, Init

\* A channel has one owner at most, and its reference count is the owner's reference
\* plus one for every poll that found it.
THEOREM DriverChannelRefsExact == Spec => []ChannelRefsExact
  <1>1. ChannelInv => ChannelRefsExact
    <2> SUFFICES ASSUME ChannelInv, NEW c \in Chans
                 PROVE  LET owners == {e \in Entries : c \in channels[e]}
                        IN  /\ Cardinality(owners) <= 1
                            /\ chanRefs[c] = Cardinality(owners) + polls[c]
      BY DEF ChannelRefsExact
    <2> DEFINE owners == {e \in Entries : c \in channels[e]}
    <2>1. chanRefs[c] = (IF Owned(c) THEN 1 ELSE 0) + polls[c]
      BY DEF ChannelInv, RefsOfOwner
    <2>2. CASE Owned(c)
      <3>1. PICK e \in Entries : c \in channels[e]
        BY <2>2 DEF Owned
      <3>2. owners = {e}
        BY <3>1 DEF ChannelInv, OneOwner
      <3>3. Cardinality(owners) = 1
        BY <3>2, FS_Singleton
      <3> QED BY <2>1, <2>2, <3>3
    <2>3. CASE ~Owned(c)
      <3>1. owners = {}
        BY <2>3 DEF Owned
      <3>2. Cardinality(owners) = 0
        BY <3>1, FS_EmptySet
      <3> QED BY <2>1, <2>3, <3>2
    <2> QED BY <2>2, <2>3
  <1> QED BY <1>1, DriverInvariant, PTL

\* A connection reaches the channel it was attached to or none, although pids and
\* memory are reused: get_new_channel_id never returns an id twice.
THEOREM DriverConnectionsNotRedirected == Spec => []ConnectionsNotRedirected
  <1>1. EntryInv /\ ChannelInv => ConnectionsNotRedirected
    <2> SUFFICES ASSUME EntryInv, ChannelInv, NEW e \in Entries, NEW conn \in connections[e],
                        NEW c \in Reached(conn.pid, conn.chid)
                 PROVE  serial[c] = conn.serial
      BY DEF ConnectionsNotRedirected
    <2>1. ProcessAvailable(conn.pid) /\ c \in ChannelsWith(FindProcess(conn.pid), conn.chid)
      BY DEF Reached
    <2>2. c \in Chans /\ chid[c] = conn.chid
      BY <2>1, FoundIsEntry DEF ChannelsWith, EntryInv, ChannelInv, ChannelTypes
    <2> QED BY <2>2 DEF ChannelInv, IdsAreSerials
  <1> QED BY <1>1, DriverInvariant, PTL

-------------------------------------------------------------------------------
(* Poll descriptors: a record belongs to an open file of the entry, and a  *)
(* file has one record at most, unless it was registered otherwise than by *)
(* the library.                                                            *)

PollInvariant ==
    /\ pollfds \in [Entries -> Seq(PollFd)]
    /\ PollRecordsLive

\* A record names a file.
LEMMA RecordFile ==
    ASSUME NEW q \in Seq(PollFd), NEW i \in DOMAIN q
    PROVE  q[i].file \in Files
  <1>1. i \in 1..Len(q)
    BY LenProperties
  <1>2. q[i] \in PollFd
    BY <1>1, ElementOfSeq
  <1> QED BY <1>2 DEF PollFd

\* A step that leaves the records alone and every poll descriptor with its entry.
LEMMA PollFrame ==
    ASSUME PollInvariant, UNCHANGED <<pollfds, odd>>,
           \A f \in Files : mode[f] = "poll" /\ private[f] # NULL =>
              mode'[f] = "poll" /\ private'[f] = private[f]
    PROVE  PollInvariant'
  <1>1. \A e \in Entries : \A i \in DOMAIN pollfds[e] :
           pollfds[e][i].file \in Files /\ e # NULL
    BY RegistryAssumption, RecordFile DEF PollInvariant
  <1> QED BY <1>1 DEF PollInvariant, PollRecordsLive

\* qnx_process_entry_add_pollfd on any file.
LEMMA RegisterPollFdPolls ==
    ASSUME EntryInv, PollInvariant, NEW p \in Pids, NEW f \in Files, NEW k \in 1..MaxChid,
           RegisterPollFd(p, f, k)
    PROVE  PollInvariant'
  <1>1. PICK e \in Entries : e = private[f]
    BY DEF RegisterPollFd, IoctlResult, EntryInv, FileTypes
  <1> DEFINE rec == [file |-> f, chid |-> k]
             q == pollfds[e]
             r == <<rec>> \o q
  <1>2. /\ f \notin odd' => mode[f] = "poll" /\ \A i \in DOMAIN q : q[i].file # f
        /\ odd \subseteq odd'
        /\ pollfds' = [pollfds EXCEPT ![e] = r]
        /\ UNCHANGED <<mode, private>>
    BY <1>1 DEF RegisterPollFd, RegisteredByLibrary, AddPollFd, fileVars
  <1>3. rec \in PollFd /\ rec.file = f /\ q \in Seq(PollFd)
    BY DEF PollFd, PollInvariant
  <1>4. Len(q) \in Nat
    BY <1>3, LenProperties
  <1> HIDE DEF rec, q
  <1>5. /\ r \in Seq(PollFd)
        /\ DOMAIN r = 1..(Len(q) + 1) /\ r[1] = rec
        /\ \A j \in DOMAIN r : j # 1 => j - 1 \in DOMAIN q /\ r[j] = q[j - 1]
    BY <1>3, PrependList
  <1> HIDE DEF r
  <1>6. ASSUME NEW i \in DOMAIN r, r[i].file \notin odd'
        PROVE  mode[r[i].file] = "poll" /\ private[r[i].file] = e
    <2>1. CASE i = 1
      BY <1>1, <1>2, <1>3, <1>5, <1>6, <2>1
    <2>2. CASE i # 1
      <3>1. i - 1 \in DOMAIN q /\ r[i] = q[i - 1] /\ q[i - 1].file \notin odd
        BY <1>2, <1>5, <1>6, <2>2
      <3> QED BY <3>1 DEF PollInvariant, PollRecordsLive, q
    <2> QED BY <2>1, <2>2
  <1>7. ASSUME NEW i \in DOMAIN r, NEW j \in DOMAIN r, r[i].file = r[j].file,
               r[i].file \notin odd'
        PROVE  i = j
    <2>1. CASE i = 1
      BY <1>2, <1>3, <1>5, <1>7, <2>1
    <2>2. CASE j = 1
      BY <1>2, <1>3, <1>5, <1>7, <2>2
    <2>3. CASE i # 1 /\ j # 1
      <3>1. /\ i - 1 \in DOMAIN q /\ j - 1 \in DOMAIN q
            /\ q[i - 1].file = q[j - 1].file /\ q[i - 1].file \notin odd
        BY <1>2, <1>5, <1>7, <2>3
      <3>2. i - 1 = j - 1
        BY <3>1 DEF PollInvariant, PollRecordsLive, q
      <3> QED BY <1>4, <1>5, <3>2
    <2> QED BY <2>1, <2>2, <2>3
  <1>8. \A x \in Entries : pollfds'[x] = IF x = e THEN r ELSE pollfds[x]
    BY <1>2 DEF PollInvariant
  <1>9. pollfds' \in [Entries -> Seq(PollFd)]
    BY <1>2, <1>5 DEF PollInvariant
  <1>10. PollRecordsLive'
    <2> SUFFICES ASSUME NEW x \in Entries, NEW i \in DOMAIN pollfds'[x],
                        pollfds'[x][i].file \notin odd'
                 PROVE  /\ mode[pollfds'[x][i].file] = "poll" /\ private[pollfds'[x][i].file] = x
                        /\ \A j \in DOMAIN pollfds'[x] :
                              pollfds'[x][j].file = pollfds'[x][i].file => j = i
      BY <1>2 DEF PollRecordsLive
    <2>1. CASE x = e
      BY <1>6, <1>7, <1>8, <2>1
    <2>2. CASE x # e
      BY <1>2, <1>8, <2>2 DEF PollInvariant, PollRecordsLive
    <2> QED BY <2>1, <2>2
  <1> QED BY <1>9, <1>10 DEF PollInvariant

\* qnxcomm_close: the record of a file registered by the library goes with it.
LEMMA ReleasePolls ==
    ASSUME EntryInv, PollInvariant, NEW f \in Files, Release(f), UNCHANGED odd
    PROVE  PollInvariant'
  <1>1. /\ mode[f] # "none"
        /\ \A g \in Files : g # f => mode'[g] = mode[g] /\ private'[g] = private[g]
    BY DEF Release, EntryInv, FileTypes
  <1>2. CASE private[f] = NULL \/ mode[f] # "poll"
    <2>1. UNCHANGED pollfds
      BY <1>1, <1>2 DEF Release, entryVars, EntryInv, FileTypes
    <2> QED BY <1>1, <1>2, <2>1, PollFrame
  <1>3. CASE private[f] # NULL /\ mode[f] = "poll"
    <2>1. PICK e \in Entries : e = private[f] /\ RemovePollFd(e, f)
      BY <1>3 DEF Release, EntryInv, FileTypes
    <2> DEFINE q == pollfds[e]
               places == {i \in DOMAIN q : q[i].file = f}
               r == pollfds'[e]
    <2>2. q \in Seq(PollFd) /\ DOMAIN q = 1..Len(q) /\ Len(q) \in Nat
      BY LenProperties DEF PollInvariant
    <2>3. /\ \A x \in Entries : x # e => pollfds'[x] = pollfds[x]
          /\ pollfds' = IF places = {} THEN pollfds
                        ELSE [pollfds EXCEPT ![e] = RemoveAt(q, Min(places))]
      BY <2>1 DEF RemovePollFd, PollInvariant
    <2>4. /\ r \in Seq(PollFd) /\ pollfds' \in [Entries -> Seq(PollFd)]
          /\ \A i \in DOMAIN r : \E k \in DOMAIN q : (q[k].file # f \/ f \in odd) /\ r[i] = q[k]
          /\ \A i, j \in DOMAIN r : i # j =>
                \E k, l \in DOMAIN q : k # l /\ r[i] = q[k] /\ r[j] = q[l]
      <3>1. CASE places = {}
        <4>1. r = q /\ pollfds' = pollfds
          BY <2>3, <3>1
        <4> QED BY <2>2, <3>1, <4>1 DEF PollInvariant
      <3>2. CASE places # {}
        <4> DEFINE n == Min(places)
        <4>1. n \in places
          <5>1. places \in SUBSET Nat /\ places # {}
            BY <2>2, <3>2
          <5> HIDE DEF places
          <5> QED BY <5>1, MinIn
        <4>2. pollfds' = [pollfds EXCEPT ![e] = RemoveAt(q, n)]
          BY <2>3, <3>2
        <4>3. n \in 1..Len(q) /\ q[n].file = f
          BY <2>2, <4>1
        <4> HIDE DEF n
        <4>4. r = RemoveAt(q, n)
          BY <4>2 DEF PollInvariant
        <4>5. r \in Seq(PollFd) /\ Drops(q, r, n)
          BY <2>2, <4>3, <4>4, RemoveAtDrops
        <4>6. pollfds' \in [Entries -> Seq(PollFd)]
          BY <4>2, <4>4, <4>5 DEF PollInvariant
        <4>7. f \notin odd => \A k \in DOMAIN q : k # n => q[k].file # f
          BY <2>2, <4>3 DEF PollInvariant, PollRecordsLive
        <4> HIDE DEF q, r
        <4>8. /\ \A j \in DOMAIN r : \E k \in DOMAIN q : k # n /\ r[j] = q[k]
              /\ \A j, l \in DOMAIN r : j # l =>
                    \E k, m \in DOMAIN q : k # m /\ k # n /\ m # n /\ r[j] = q[k] /\ r[l] = q[m]
          <5>1. q \in Seq(PollFd) /\ r \in Seq(PollFd) /\ n \in 1..Len(q) /\ Drops(q, r, n)
            BY <2>2, <4>3, <4>5
          <5>2. \A j \in DOMAIN r : \E k \in DOMAIN q : k # n /\ r[j] = q[k]
            BY <5>1, DropsFrom
          <5>3. ASSUME NEW j \in DOMAIN r, NEW l \in DOMAIN r, j # l
                PROVE  \E k, m \in DOMAIN q : k # m /\ k # n /\ m # n /\ r[j] = q[k] /\ r[l] = q[m]
            BY <5>1, <5>3, DropsFrom
          <5> QED BY <5>2, <5>3
        <4> QED BY <4>5, <4>6, <4>7, <4>8
      <3> QED BY <3>1, <3>2
    <2>5. ASSUME NEW x \in Entries, NEW i \in DOMAIN pollfds'[x], pollfds'[x][i].file \notin odd
          PROVE  /\ pollfds'[x][i].file # f /\ pollfds'[x][i].file \in Files
                 /\ mode[pollfds'[x][i].file] = "poll" /\ private[pollfds'[x][i].file] = x
      <3>1. pollfds'[x][i].file \in Files
        BY <2>4, RecordFile
      <3>2. CASE x = e
        <4>1. PICK k \in DOMAIN q : (q[k].file # f \/ f \in odd) /\ pollfds'[x][i] = q[k]
          BY <2>4, <3>2
        <4>2. q[k].file # f
          BY <2>5, <4>1
        <4> QED BY <2>5, <3>1, <3>2, <4>1, <4>2 DEF PollInvariant, PollRecordsLive
      <3>3. CASE x # e
        BY <2>1, <2>3, <2>5, <3>1, <3>3 DEF PollInvariant, PollRecordsLive
      <3> QED BY <3>2, <3>3
    <2>6. ASSUME NEW x \in Entries, NEW i \in DOMAIN pollfds'[x], NEW j \in DOMAIN pollfds'[x],
                 pollfds'[x][i].file \notin odd, pollfds'[x][j].file = pollfds'[x][i].file
          PROVE  j = i
      <3> SUFFICES ASSUME i # j PROVE FALSE
        OBVIOUS
      <3>1. CASE x = e
        <4>1. PICK k, l \in DOMAIN q : k # l /\ r[i] = q[k] /\ r[j] = q[l]
          BY <2>4, <3>1
        <4> QED BY <2>6, <3>1, <4>1 DEF PollInvariant, PollRecordsLive
      <3>2. CASE x # e
        BY <2>3, <2>6, <3>2 DEF PollInvariant, PollRecordsLive
      <3> QED BY <3>1, <3>2
    <2>7. PollRecordsLive'
      BY <1>1, <2>5, <2>6 DEF PollRecordsLive
    <2> QED BY <2>4, <2>7 DEF PollInvariant
  <1> QED BY <1>2, <1>3

\* The records of poll descriptors made by MsgReceivePollFd never outlive their files,
\* although qnx_process_entry_free ignores them and the driver also accepts other
\* registrations.
THEOREM DriverPollRecordsLive == Spec => []PollRecordsLive
  <1>1. Init => PollInvariant
    <2> SUFFICES ASSUME Init PROVE PollInvariant
      OBVIOUS
    <2>1. pollfds = [e \in Entries |-> <<>>]
      BY DEF Init, RegInit
    <2> QED BY <2>1, EmptySeq DEF PollInvariant, PollRecordsLive
  <1>2. EntryInv /\ PollInvariant /\ [Next]_driverVars => PollInvariant'
    <2> SUFFICES ASSUME EntryInv, PollInvariant, [Next]_driverVars PROVE PollInvariant'
      OBVIOUS
    <2>1. ASSUME NEW f \in Files, OpenAdd(f), UNCHANGED odd PROVE PollInvariant'
      <3>1. PICK e \in Entries : pollfds' = [pollfds EXCEPT ![e] = <<>>]
        BY <2>1 DEF OpenAdd, AddProcess
      <3>2. /\ mode[f] = "none"
            /\ \A g \in Files : g # f => mode'[g] = mode[g] /\ private'[g] = private[g]
        BY <2>1 DEF OpenAdd, AddProcess, EntryInv, FreeFiles, FileTypes
      <3>3. \A x \in Entries : pollfds'[x] = <<>> \/ pollfds'[x] = pollfds[x]
        BY <3>1 DEF PollInvariant
      <3>4. pollfds' \in [Entries -> Seq(PollFd)]
        BY <3>1, EmptySeq DEF PollInvariant
      <3>5. \A x \in Entries : \A i \in DOMAIN pollfds[x] : pollfds[x][i].file \in Files
        BY RecordFile DEF PollInvariant
      <3>6. PollRecordsLive'
        <4> SUFFICES ASSUME NEW x \in Entries, NEW i \in DOMAIN pollfds'[x],
                            pollfds'[x][i].file \notin odd
                     PROVE  /\ mode'[pollfds'[x][i].file] = "poll"
                            /\ private'[pollfds'[x][i].file] = x
                            /\ \A j \in DOMAIN pollfds'[x] :
                                  pollfds'[x][j].file = pollfds'[x][i].file => j = i
          BY <2>1 DEF PollRecordsLive
        <4>1. pollfds'[x] = pollfds[x]
          BY <3>3
        <4> QED BY <3>2, <3>5, <4>1 DEF PollInvariant, PollRecordsLive
      <3> QED BY <3>4, <3>6 DEF PollInvariant
    <2>2. ASSUME NEW p \in Pids, NEW f \in Files, OpenPoll(p, f), UNCHANGED odd PROVE PollInvariant'
      <3>1. /\ mode[f] = "none" /\ UNCHANGED pollfds
            /\ \A g \in Files : g # f => mode'[g] = mode[g] /\ private'[g] = private[g]
        BY <2>2 DEF OpenPoll, EntryInv, FileTypes
      <3> QED BY <2>2, <3>1, PollFrame
    <2>3. ASSUME NEW p \in Pids, NEW f \in Files, Open(p, f) \/ Ioctl(p, f), UNCHANGED odd
          PROVE PollInvariant'
      BY <2>3, PollFrame DEF Open, OpenCheck, Ioctl, ChannelCreate, ChannelDestroy, ConnectAttach,
         ConnectDetach, fileVars, entryVars
    <2>4. ASSUME NEW f \in Files, Poll(f), UNCHANGED odd PROVE PollInvariant'
      BY <2>4, PollFrame DEF Poll, fileVars, entryVars
    <2>5. ASSUME NEW n, SetMaxChannels(n), UNCHANGED odd PROVE PollInvariant'
      BY <2>5, PollFrame DEF SetMaxChannels, fileVars, entryVars
    <2>6. CASE UNCHANGED driverVars
      BY <2>6, PollFrame DEF driverVars, regVars, fileVars, entryVars
    <2> QED BY <2>1, <2>2, <2>3, <2>4, <2>5, <2>6, RegisterPollFdPolls, ReleasePolls DEF Next
  <1>3. PollInvariant => PollRecordsLive
    BY DEF PollInvariant
  <1> QED BY <1>1, <1>2, <1>3, DriverInvariant, PTL DEF Spec, Init

-------------------------------------------------------------------------------
(* The process list, when a process does not open the driver twice at the  *)
(* same time.                                                              *)

\* qnxcomm_open with O_RDWR, the search.
LEMMA OpenRegister ==
    ASSUME SerialOpen, EntryInv, RegisterInv, NEW p \in Pids, NEW f \in Files, Open(p, f)
    PROVE  RegisterInv'
  <1>1. /\ UNCHANGED <<mode, private, process_entries, pid>>
        /\ opening' = [opening EXCEPT ![f] = p]
        /\ \A g \in Files : opening[g] # p
        /\ ~ProcessAvailable(p)
    BY DEF Open, OpenCheck, entryVars
  <1>2. \A a \in ToSet(process_entries) : pid[a] # p
    BY <1>1 DEF ProcessAvailable, PlacesOf, ToSet
  <1>3. OpeningInv'
    BY <1>1, <1>2 DEF RegisterInv, OpeningInv, EntryInv, FileTypes
  <1>4. ListInv'
    BY <1>1 DEF RegisterInv, ListInv
  <1>5. OwnersInv'
    BY <1>1 DEF RegisterInv, OwnersInv
  <1> QED BY <1>3, <1>4, <1>5 DEF RegisterInv

\* qnxcomm_open with O_RDWR, the insertion.
LEMMA OpenAddRegister ==
    ASSUME EntryInv, RegisterInv, NEW f \in Files, OpenAdd(f) PROVE RegisterInv'
  <1>1. PICK p \in Pids : p = opening[f] /\ p # NULL /\ mode[f] = "none"
    BY RegistryAssumption DEF OpenAdd, EntryInv, FileTypes, FreeFiles
  <1>2. AddProcess(p, f) /\ opening' = [opening EXCEPT ![f] = NULL]
    BY <1>1 DEF OpenAdd
  <1>3. /\ \A a \in ToSet(process_entries) : pid[a] # p
        /\ \A g \in Files : g # f => opening[g] # p
    BY <1>1 DEF RegisterInv, OpeningInv
  <1> QED BY <1>1, <1>2, <1>3, AddProcessRegister

\* When the processes open the driver one open at a time, as the user space library
\* does, the list holds the entries of the files opened O_RDWR and no process twice.
THEOREM DriverListExact == SerialOpen => (Spec => []ListExact)
  <1> SUFFICES ASSUME SerialOpen PROVE Spec => []ListExact
    OBVIOUS
  <1>1. EntryInv /\ RegisterInv /\ [Next]_driverVars => RegisterInv'
    <2> SUFFICES ASSUME EntryInv, RegisterInv, [Next]_driverVars PROVE RegisterInv'
      OBVIOUS
    <2>1. ASSUME NEW p \in Pids, NEW f \in Files, Ioctl(p, f) PROVE RegisterInv'
      BY <2>1, RegisterFrame DEF Ioctl, ChannelCreate, ChannelDestroy, ConnectAttach, ConnectDetach,
         fileVars
    <2>2. ASSUME NEW f \in Files, Poll(f) PROVE RegisterInv'
      BY <2>2, RegisterFrame DEF Poll, fileVars, entryVars
    <2>3. ASSUME NEW p, NEW f, NEW k, RegisterPollFd(p, f, k) PROVE RegisterInv'
      BY <2>3, RegisterFrame DEF RegisterPollFd, AddPollFd, fileVars
    <2>4. ASSUME NEW n, SetMaxChannels(n) PROVE RegisterInv'
      BY <2>4, RegisterFrame DEF SetMaxChannels, fileVars, entryVars
    <2>5. CASE UNCHANGED driverVars
      BY <2>5, RegisterFrame DEF driverVars, regVars, fileVars, entryVars
    <2> QED BY <2>1, <2>2, <2>3, <2>4, <2>5, OpenRegister, OpenAddRegister, OpenPollRegister,
            ReleaseRegister DEF Next
  <1>2. RegisterInv => ListExact
    <2> SUFFICES ASSUME RegisterInv PROVE ListExact
      OBVIOUS
    <2>1. \A i, j \in DOMAIN process_entries :
             pid[process_entries[i]] = pid[process_entries[j]] => i = j
      BY DEF RegisterInv, ListInv, ToSet, Once
    <2>2. ToSet(process_entries) =
             {private[f] : f \in {g \in Files : mode[g] = "rdwr" /\ private[g] # NULL}}
      BY DEF RegisterInv, OwnersInv
    <2> QED BY <2>1, <2>2 DEF ListExact
  <1> QED BY <1>1, <1>2, InitRegister, DriverInvariant, PTL DEF Spec, Init
===============================================================================
