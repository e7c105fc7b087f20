----------------------------- MODULE RegistryProofs ---------------------------
(***************************************************************************)
(* What every operation of the registry keeps, whoever calls it: lemmas    *)
(* for the proofs about the driver and about the user space library.       *)
(***************************************************************************)
EXTENDS Registry, ListLemmas, FiniteSetTheorems, SequenceTheorems, TLAPS

-------------------------------------------------------------------------------
(* Types, as far as they are needed.                                       *)

FileTypes ==
    /\ mode \in [Files -> {"none", "rdwr", "poll"}]
    /\ private \in [Files -> Entries \cup {NULL}]
    /\ opening \in [Files -> Pids \cup {NULL}]
    /\ process_entries \in Seq(Entries)
    /\ entryRefs \in [Entries -> Nat]

ChannelTypes ==
    /\ channels \in [Entries -> SUBSET Chans]
    /\ connections \in [Entries -> SUBSET Connection]
    /\ chid \in [Chans -> Nat]
    /\ serial \in [Chans -> Nat]
    /\ chanRefs \in [Chans -> Nat]
    /\ polls \in [Chans -> Nat]
    /\ gbl_next_channel_id \in Nat

\* The first place of a process in the list.
LEMMA FirstPlace ==
    ASSUME FileTypes, NEW p, ProcessAvailable(p)
    PROVE  Min(PlacesOf(p)) \in 1..Len(process_entries)
  <1>1. DOMAIN process_entries = 1..Len(process_entries) /\ Len(process_entries) \in Nat
    BY LenProperties DEF FileTypes
  <1>2. PlacesOf(p) \in SUBSET Nat /\ PlacesOf(p) # {}
    BY <1>1 DEF PlacesOf, ProcessAvailable
  <1>3. Min(PlacesOf(p)) \in PlacesOf(p)
    BY <1>2, MinIn
  <1> QED BY <1>1, <1>3 DEF PlacesOf

\* A process that is found in the list is an entry.
LEMMA FoundIsEntry ==
    ASSUME FileTypes, NEW p, ProcessAvailable(p)
    PROVE  FindProcess(p) \in Entries
  BY FirstPlace, ElementOfSeq DEF FindProcess, FileTypes

\* Taking an entry out of the list leaves a list of entries.
LEMMA RemoveProcessType ==
    ASSUME FileTypes, NEW p, RemoveProcess(p)
    PROVE  process_entries' \in Seq(Entries)
  <1>1. CASE ProcessAvailable(p)
    <2>1. Min(PlacesOf(p)) \in 1..Len(process_entries)
      BY <1>1, FirstPlace
    <2> QED BY <1>1, <2>1, RemoveAtSeq DEF RemoveProcess, FileTypes
  <1>2. CASE ~ProcessAvailable(p)
    BY <1>2 DEF RemoveProcess, FileTypes
  <1> QED BY <1>1, <1>2

-------------------------------------------------------------------------------
(* Entries: a free file refers to nothing, and a file that is being opened *)
(* is still free.                                                          *)

FreeFiles ==
    \A f \in Files :
        /\ mode[f] = "none" => private[f] = NULL
        /\ opening[f] # NULL => mode[f] = "none"

EntryInv == FileTypes /\ FreeFiles /\ EntryRefsExact

\* At the start there are no files and no entries.
LEMMA InitEntryInv == RegInit => EntryInv
  <1> SUFFICES ASSUME RegInit PROVE EntryInv
    OBVIOUS
  <1>1. FileTypes
    BY EmptySeq DEF RegInit, FileTypes
  <1>2. FreeFiles
    BY DEF RegInit, FreeFiles
  <1>3. EntryRefsExact
    <2> SUFFICES ASSUME NEW e \in Entries PROVE entryRefs[e] = Cardinality(FilesOf(e))
      BY DEF EntryRefsExact
    <2>1. FilesOf(e) = {}
      BY RegistryAssumption DEF RegInit, FilesOf
    <2> QED BY <2>1, FS_EmptySet DEF RegInit
  <1> QED BY <1>1, <1>2, <1>3 DEF EntryInv

\* The files of an entry are finitely many.
LEMMA FilesOfFinite ==
    ASSUME NEW e
    PROVE  IsFiniteSet(FilesOf(e)) /\ Cardinality(FilesOf(e)) \in Nat
  <1>1. FilesOf(e) \in SUBSET Files
    BY DEF FilesOf
  <1> QED BY <1>1, RegistryAssumption, FS_Subset, FS_CardinalityType

\* A file that referred to nothing gets entry e, and e one reference more.
LEMMA GetKeepsRefs ==
    ASSUME FileTypes, EntryRefsExact, NEW f \in Files, NEW e \in Entries, private[f] = NULL,
           private' = [private EXCEPT ![f] = e],
           entryRefs' = [entryRefs EXCEPT ![e] = entryRefs[e] + 1]
    PROVE  EntryRefsExact'
  <1> SUFFICES ASSUME NEW x \in Entries PROVE entryRefs'[x] = Cardinality(FilesOf(x)')
    BY DEF EntryRefsExact
  <1>1. entryRefs[x] = Cardinality(FilesOf(x)) /\ e # NULL /\ x # NULL
    BY RegistryAssumption DEF EntryRefsExact
  <1>2. CASE x = e
    <2>1. FilesOf(x)' = FilesOf(x) \cup {f} /\ f \notin FilesOf(x)
      BY <1>1, <1>2 DEF FilesOf, FileTypes
    <2>2. Cardinality(FilesOf(x) \cup {f}) = Cardinality(FilesOf(x)) + 1
      BY <2>1, FilesOfFinite, FS_AddElement
    <2> QED BY <1>1, <1>2, <2>1, <2>2 DEF FileTypes
  <1>3. CASE x # e
    <2>1. FilesOf(x)' = FilesOf(x)
      BY <1>1, <1>3 DEF FilesOf, FileTypes
    <2> QED BY <1>1, <1>3, <2>1 DEF FileTypes
  <1> QED BY <1>2, <1>3

\* A file that referred to entry e refers to nothing any more, and e has one
\* reference less.
LEMMA PutKeepsRefs ==
    ASSUME FileTypes, EntryRefsExact, NEW f \in Files, private[f] # NULL,
           private' = [private EXCEPT ![f] = NULL],
           entryRefs' = [entryRefs EXCEPT ![private[f]] = entryRefs[private[f]] - 1]
    PROVE  EntryRefsExact' /\ entryRefs' \in [Entries -> Nat]
  <1>0. PICK e \in Entries : e = private[f] /\ e # NULL
    BY DEF FileTypes
  <1>1. FilesOf(e)' = FilesOf(e) \ {f} /\ f \in FilesOf(e)
    BY <1>0 DEF FilesOf, FileTypes
  <1>2. Cardinality(FilesOf(e) \ {f}) = Cardinality(FilesOf(e)) - 1
    BY <1>1, FilesOfFinite, FS_RemoveElement
  <1>3. Cardinality(FilesOf(e) \ {f}) \in Nat
    BY FilesOfFinite, FS_RemoveElement, FS_CardinalityType
  <1>4. entryRefs[e] = Cardinality(FilesOf(e))
    BY <1>0 DEF EntryRefsExact
  <1>5. entryRefs' \in [Entries -> Nat] /\ entryRefs'[e] = Cardinality(FilesOf(e)')
    BY <1>0, <1>1, <1>2, <1>3, <1>4 DEF FileTypes
  <1>6. \A x \in Entries : x # e => entryRefs'[x] = Cardinality(FilesOf(x)')
    <2> SUFFICES ASSUME NEW x \in Entries, x # e
                 PROVE  entryRefs'[x] = Cardinality(FilesOf(x)')
      OBVIOUS
    <2>1. FilesOf(x)' = FilesOf(x)
      BY <1>0, RegistryAssumption DEF FilesOf, FileTypes
    <2> QED BY <1>0, <2>1 DEF EntryRefsExact, FileTypes
  <1> QED BY <1>5, <1>6 DEF EntryRefsExact

\* The steps that change neither files nor reference counts.
LEMMA EntryFrame ==
    ASSUME EntryInv, UNCHANGED <<mode, private, opening, process_entries, entryRefs>>
    PROVE  EntryInv'
  BY DEF EntryInv, FileTypes, FreeFiles, EntryRefsExact, FilesOf

\* qnxcomm_open with O_RDWR: a free file becomes a file of process p.
LEMMA AddProcessEntryInv ==
    ASSUME EntryInv, NEW p \in Pids, NEW f \in Files, mode[f] = "none", AddProcess(p, f),
           opening' = [opening EXCEPT ![f] = NULL]
    PROVE  EntryInv'
  <1> USE DEF EntryInv
  <1>1. PICK e \in Entries :
           /\ entryRefs[e] = 0
           /\ entryRefs' = [entryRefs EXCEPT ![e] = 1]
           /\ private' = [private EXCEPT ![f] = e]
           /\ process_entries' = <<e>> \o process_entries
    BY DEF AddProcess
  <1>2. private[f] = NULL
    BY DEF FreeFiles
  <1>3. mode' = [mode EXCEPT ![f] = "rdwr"]
    BY DEF AddProcess
  <1>4. entryRefs' = [entryRefs EXCEPT ![e] = entryRefs[e] + 1]
    BY <1>1
  <1>5. EntryRefsExact'
    BY <1>1, <1>2, <1>4, GetKeepsRefs
  <1>6. process_entries' \in Seq(Entries)
    <2>1. <<e>> \in Seq(Entries)
      OBVIOUS
    <2> QED BY <1>1, <2>1, ConcatProperties DEF FileTypes
  <1>7. FileTypes'
    BY <1>1, <1>3, <1>6 DEF FileTypes
  <1>8. FreeFiles'
    BY <1>1, <1>3 DEF FreeFiles, FileTypes
  <1> QED BY <1>5, <1>7, <1>8

\* qnxcomm_open with O_RDONLY.
LEMMA OpenPollEntryInv ==
    ASSUME EntryInv, NEW p \in Pids, NEW f \in Files, OpenPoll(p, f) PROVE EntryInv'
  <1> USE DEF EntryInv
  <1>1. /\ mode[f] = "none" /\ opening[f] = NULL /\ private[f] = NULL
        /\ mode' = [mode EXCEPT ![f] = "poll"]
        /\ UNCHANGED <<opening, process_entries>>
    BY DEF OpenPoll, FreeFiles
  <1>2. CASE ProcessAvailable(p)
    <2> DEFINE e == FindProcess(p)
    <2>1. e \in Entries
      BY <1>2, FoundIsEntry
    <2>2. /\ private' = [private EXCEPT ![f] = e]
          /\ entryRefs' = [entryRefs EXCEPT ![e] = entryRefs[e] + 1]
      BY <1>2 DEF OpenPoll
    <2> HIDE DEF e
    <2>3. EntryRefsExact'
      BY <1>1, <2>1, <2>2, GetKeepsRefs
    <2>4. FileTypes' /\ FreeFiles'
      BY <1>1, <2>1, <2>2 DEF FileTypes, FreeFiles
    <2> QED BY <2>3, <2>4
  <1>3. CASE ~ProcessAvailable(p)
    <2>1. UNCHANGED <<private, entryRefs>>
      BY <1>3 DEF OpenPoll
    <2>2. FileTypes' /\ FreeFiles'
      BY <1>1, <2>1 DEF FileTypes, FreeFiles
    <2>3. EntryRefsExact'
      BY <2>1 DEF EntryRefsExact, FilesOf
    <2> QED BY <2>2, <2>3
  <1> QED BY <1>2, <1>3

\* qnxcomm_close.
LEMMA ReleaseEntryInv ==
    ASSUME EntryInv, NEW f \in Files, Release(f) PROVE EntryInv'
  <1> USE DEF EntryInv
  <1>1. /\ mode[f] # "none" /\ opening[f] = NULL
        /\ mode' = [mode EXCEPT ![f] = "none"]
        /\ private' = [private EXCEPT ![f] = NULL]
        /\ UNCHANGED opening
    BY DEF Release, FreeFiles
  <1>2. FreeFiles'
    BY <1>1 DEF FreeFiles, FileTypes
  <1>3. CASE private[f] = NULL
    <2>1. UNCHANGED <<entryRefs, process_entries>>
      BY <1>3 DEF Release, entryVars
    <2>2. private' = private
      BY <1>1, <1>3 DEF FileTypes
    <2>3. FileTypes'
      BY <1>1, <2>1, <2>2 DEF FileTypes
    <2> QED BY <1>2, <2>1, <2>2, <2>3 DEF EntryRefsExact, FilesOf
  <1>4. CASE private[f] # NULL
    <2>1. entryRefs' = [entryRefs EXCEPT ![private[f]] = entryRefs[private[f]] - 1]
      BY <1>4 DEF Release, EntryPut
    <2>2. EntryRefsExact' /\ entryRefs' \in [Entries -> Nat]
      BY <1>1, <1>4, <2>1, PutKeepsRefs
    <2>3. RemoveProcess(pid[private[f]]) \/ UNCHANGED process_entries
      BY <1>4 DEF Release
    <2>4. process_entries' \in Seq(Entries)
      BY <2>3, RemoveProcessType DEF FileTypes
    <2>5. FileTypes'
      BY <1>1, <2>2, <2>4 DEF FileTypes
    <2> QED BY <1>2, <2>2, <2>5
  <1> QED BY <1>3, <1>4

-------------------------------------------------------------------------------
(* Channels: one owner at most, one reference for it and one per poll; an  *)
(* id is the number of the channel in the order of creation, and so is the *)
(* id a connection was made with.                                          *)

Owned(c) == \E e \in Entries : c \in channels[e]

OneOwner ==
    \A c \in Chans : \A x, y \in Entries : c \in channels[x] /\ c \in channels[y] => x = y

RefsOfOwner == \A c \in Chans : chanRefs[c] = (IF Owned(c) THEN 1 ELSE 0) + polls[c]

IdsAreSerials ==
    /\ \A c \in Chans : serial[c] = chid[c]
    /\ \A e \in Entries : \A conn \in connections[e] : conn.serial = conn.chid

ChannelInv == ChannelTypes /\ OneOwner /\ RefsOfOwner /\ IdsAreSerials

\* At the start there are no channels.
LEMMA InitChannelInv == RegInit => ChannelInv
  BY DEF RegInit, ChannelInv, ChannelTypes, OneOwner, RefsOfOwner, IdsAreSerials, Owned

\* The steps that change no channel and no connection.
LEMMA ChannelFrame ==
    ASSUME ChannelInv, UNCHANGED <<channels, connections, chid, serial, chanRefs, polls,
                                   gbl_next_channel_id>>
    PROVE  ChannelInv'
  BY DEF ChannelInv, ChannelTypes, OneOwner, RefsOfOwner, IdsAreSerials, Owned

\* Entry e gives up channels cs: they lose the list's reference.
LEMMA PutChannelsInv ==
    ASSUME ChannelInv, NEW e \in Entries, NEW cs \in SUBSET channels[e], PutChannels(cs),
           channels' = [channels EXCEPT ![e] = channels[e] \ cs],
           UNCHANGED polls
    PROVE  /\ channels' \in [Entries -> SUBSET Chans]
           /\ chanRefs' \in [Chans -> Nat]
           /\ OneOwner' /\ RefsOfOwner'
  <1> USE DEF ChannelInv
  <1>1. channels' \in [Entries -> SUBSET Chans] /\ OneOwner'
    BY DEF ChannelTypes, OneOwner
  <1>2. ASSUME NEW c \in Chans
        PROVE  /\ chanRefs'[c] \in Nat
               /\ chanRefs'[c] = (IF Owned(c)' THEN 1 ELSE 0) + polls'[c]
    <2>1. chanRefs'[c] = chanRefs[c] - (IF c \in cs THEN 1 ELSE 0)
      BY DEF PutChannels
    <2>2. chanRefs[c] = (IF Owned(c) THEN 1 ELSE 0) + polls[c] /\ polls[c] \in Nat
      BY DEF RefsOfOwner, ChannelTypes
    <2>3. CASE c \in cs
      <3>1. Owned(c)
        BY <2>3 DEF Owned
      <3>2. \A x \in Entries : c \notin channels'[x]
        BY <2>3 DEF OneOwner, ChannelTypes
      <3>3. ~Owned(c)'
        BY <3>2 DEF Owned
      <3> QED BY <2>1, <2>2, <2>3, <3>1, <3>3
    <2>4. CASE c \notin cs
      <3>1. \A x \in Entries : c \in channels'[x] <=> c \in channels[x]
        BY <2>4 DEF ChannelTypes
      <3>2. Owned(c)' <=> Owned(c)
        BY <3>1 DEF Owned
      <3>3. chanRefs'[c] = chanRefs[c]
        BY <2>1, <2>4, <2>2
      <3> QED BY <2>2, <3>2, <3>3
    <2> QED BY <2>3, <2>4
  <1>3. chanRefs' \in [Chans -> Nat]
    BY <1>2 DEF PutChannels
  <1> QED BY <1>1, <1>2, <1>3 DEF RefsOfOwner

\* qnx_process_entry_add_channel.
LEMMA ChannelCreateInv ==
    ASSUME ChannelInv, NEW e \in Entries, ChannelCreate(e) PROVE ChannelInv'
  <1> USE DEF ChannelInv
  <1>1. CASE Cardinality(channels[e]) < max_channels
    <2>1. PICK c \in Chans :
             /\ chanRefs[c] = 0
             /\ chanRefs' = [chanRefs EXCEPT ![c] = 1]
             /\ chid' = [chid EXCEPT ![c] = gbl_next_channel_id + 1]
             /\ serial' = [serial EXCEPT ![c] = gbl_next_channel_id + 1]
             /\ channels' = [channels EXCEPT ![e] = channels[e] \cup {c}]
      BY <1>1 DEF ChannelCreate, NewChannelId
    <2>2. /\ gbl_next_channel_id' = gbl_next_channel_id + 1
          /\ UNCHANGED <<connections, polls>>
      BY DEF ChannelCreate
    <2>3. ~Owned(c) /\ polls[c] = 0
      BY <2>1 DEF RefsOfOwner, ChannelTypes
    <2>4. ChannelTypes'
      BY <2>1, <2>2 DEF ChannelTypes
    <2>5. OneOwner'
      BY <2>1, <2>3 DEF OneOwner, Owned, ChannelTypes
    <2>6. IdsAreSerials'
      BY <2>1, <2>2 DEF IdsAreSerials, ChannelTypes
    <2>7. ASSUME NEW d \in Chans PROVE chanRefs'[d] = (IF Owned(d)' THEN 1 ELSE 0) + polls'[d]
      <3>1. CASE d = c
        <4>1. Owned(d)'
          BY <2>1, <3>1 DEF Owned, ChannelTypes
        <4> QED BY <2>1, <2>2, <2>3, <3>1, <4>1 DEF ChannelTypes
      <3>2. CASE d # c
        <4>1. Owned(d)' <=> Owned(d)
          BY <2>1, <3>2 DEF Owned, ChannelTypes
        <4> QED BY <2>1, <2>2, <3>2, <4>1 DEF ChannelTypes, RefsOfOwner
      <3> QED BY <3>1, <3>2
    <2> QED BY <2>4, <2>5, <2>6, <2>7 DEF RefsOfOwner
  <1>2. CASE ~(Cardinality(channels[e]) < max_channels)
    <2>1. /\ UNCHANGED <<channels, connections, chid, serial, chanRefs, polls>>
          /\ gbl_next_channel_id' = gbl_next_channel_id + 1
      BY <1>2 DEF ChannelCreate
    <2> QED BY <2>1 DEF ChannelTypes, OneOwner, RefsOfOwner, IdsAreSerials, Owned
  <1> QED BY <1>1, <1>2

\* qnx_process_entry_remove_channel.
LEMMA ChannelDestroyInv ==
    ASSUME ChannelInv, NEW e \in Entries, NEW k, ChannelDestroy(e, k) PROVE ChannelInv'
  <1>1. ChannelsWith(e, k) \in SUBSET channels[e]
    BY DEF ChannelsWith
  <1>2. /\ channels' = [channels EXCEPT ![e] = channels[e] \ ChannelsWith(e, k)]
        /\ PutChannels(ChannelsWith(e, k))
        /\ UNCHANGED <<connections, chid, serial, polls, gbl_next_channel_id>>
    BY DEF ChannelDestroy
  <1>3. /\ channels' \in [Entries -> SUBSET Chans]
        /\ chanRefs' \in [Chans -> Nat]
        /\ OneOwner' /\ RefsOfOwner'
    BY <1>1, <1>2, PutChannelsInv
  <1> QED BY <1>2, <1>3 DEF ChannelInv, ChannelTypes, IdsAreSerials

\* qnx_process_entry_add_connection: the channel found has the id asked for.
LEMMA ConnectAttachInv ==
    ASSUME EntryInv, ChannelInv, NEW e \in Entries, NEW p \in Pids, NEW k \in 1..MaxChid,
           ConnectAttach(e, p, k)
    PROVE  ChannelInv'
  <1>1. PICK c \in Reached(p, k) :
           connections' = [connections EXCEPT
              ![e] = connections[e] \cup {[pid |-> p, chid |-> k, serial |-> serial[c]]}]
    BY DEF ConnectAttach
  <1>2. UNCHANGED <<channels, chid, serial, chanRefs, polls, gbl_next_channel_id>>
    BY DEF ConnectAttach, chanVars
  <1>3. ProcessAvailable(p) /\ c \in ChannelsWith(FindProcess(p), k)
    BY DEF Reached
  <1>4. c \in Chans /\ chid[c] = k
    BY <1>3, FoundIsEntry DEF ChannelsWith, EntryInv, ChannelInv, ChannelTypes
  <1>5. serial[c] = k
    BY <1>4 DEF ChannelInv, IdsAreSerials
  <1>6. [pid |-> p, chid |-> k, serial |-> serial[c]] \in Connection
    BY <1>5 DEF Connection
  <1>7. ChannelTypes' /\ IdsAreSerials'
    BY <1>1, <1>2, <1>5, <1>6 DEF ChannelInv, ChannelTypes, IdsAreSerials
  <1> QED BY <1>2, <1>7 DEF ChannelInv, OneOwner, RefsOfOwner, Owned

\* qnxcomm_close with qnx_process_entry_free.
LEMMA ReleaseChannelInv ==
    ASSUME EntryInv, ChannelInv, NEW f \in Files, Release(f) PROVE ChannelInv'
  <1>1. UNCHANGED <<chid, serial, polls, gbl_next_channel_id>>
    BY DEF Release
  <1>2. CASE private[f] = NULL
    <2>1. UNCHANGED <<channels, connections, chanRefs>>
      BY <1>2 DEF Release, entryVars
    <2> QED BY <1>1, <2>1, ChannelFrame
  <1>3. CASE private[f] # NULL
    <2>1. PICK e \in Entries : e = private[f] /\ EntryPut(e)
      BY <1>3 DEF Release, EntryInv, FileTypes
    <2>2. CASE entryRefs[e] = 1
      <3>1. /\ PutChannels(channels[e])
            /\ channels' = [channels EXCEPT ![e] = {}]
            /\ connections' = [connections EXCEPT ![e] = {}]
        BY <2>1, <2>2 DEF EntryPut
      <3>2. channels' = [channels EXCEPT ![e] = channels[e] \ channels[e]]
        BY <3>1
      <3>3. /\ channels' \in [Entries -> SUBSET Chans]
            /\ chanRefs' \in [Chans -> Nat]
            /\ OneOwner' /\ RefsOfOwner'
        BY <1>1, <3>1, <3>2, PutChannelsInv
      <3> QED BY <1>1, <3>1, <3>3 DEF ChannelInv, ChannelTypes, IdsAreSerials
    <2>3. CASE entryRefs[e] # 1
      <3>1. UNCHANGED <<channels, connections, chanRefs>>
        BY <2>1, <2>3 DEF EntryPut
      <3> QED BY <1>1, <3>1, ChannelFrame
    <2> QED BY <2>2, <2>3
  <1> QED BY <1>2, <1>3

\* qnxcomm_poll.
LEMMA PollInv ==
    ASSUME EntryInv, ChannelInv, NEW f \in Files, Poll(f) PROVE ChannelInv'
  <1> USE DEF ChannelInv
  <1>1. PICK c \in ChannelFromFile(private[f], f) :
           /\ chanRefs' = [chanRefs EXCEPT ![c] = chanRefs[c] + 1]
           /\ polls' = [polls EXCEPT ![c] = polls[c] + 1]
    BY DEF Poll
  <1>2. UNCHANGED <<channels, connections, chid, serial, gbl_next_channel_id>>
    BY DEF Poll, entryVars
  <1>3. private[f] \in Entries
    BY DEF Poll, EntryInv, FileTypes
  <1>4. c \in channels[private[f]]
    BY DEF ChannelFromFile, ChannelsWith
  <1>5. c \in Chans
    BY <1>3, <1>4 DEF ChannelTypes
  <1>6. ChannelTypes'
    BY <1>1, <1>2, <1>5 DEF ChannelTypes
  <1>7. \A d \in Chans : Owned(d)' <=> Owned(d)
    BY <1>2 DEF Owned
  <1>8. RefsOfOwner'
    BY <1>1, <1>5, <1>7 DEF RefsOfOwner, ChannelTypes
  <1> QED BY <1>2, <1>6, <1>8 DEF OneOwner, IdsAreSerials

-------------------------------------------------------------------------------
(* The process list, when a process does not open the driver twice at the  *)
(* same time.                                                              *)

ListInv ==
    /\ pid \in [Entries -> Pids \cup {NULL}]
    /\ \A x : Once(process_entries, x)
    /\ \A a, b \in ToSet(process_entries) : pid[a] = pid[b] => a = b
    /\ \A a \in ToSet(process_entries) : pid[a] # NULL

\* The list and the files opened O_RDWR.
OwnersInv ==
    /\ \A a : a \in ToSet(process_entries) <=>
                 \E f \in Files : mode[f] = "rdwr" /\ private[f] = a
    /\ \A f \in Files : mode[f] = "rdwr" => private[f] # NULL
    /\ \A f, g \in Files : mode[f] = "rdwr" /\ mode[g] = "rdwr" /\ private[f] = private[g] => f = g

\* A process that is opening the driver is not in the list, and opens it once.
OpeningInv ==
    \A f \in Files : opening[f] # NULL =>
        /\ \A a \in ToSet(process_entries) : pid[a] # opening[f]
        /\ \A g \in Files : opening[g] = opening[f] => g = f

RegisterInv == ListInv /\ OwnersInv /\ OpeningInv

\* At the start the list is empty.
LEMMA InitRegister == RegInit => RegisterInv
  <1> SUFFICES ASSUME RegInit PROVE RegisterInv
    OBVIOUS
  <1>1. /\ process_entries = <<>> /\ pid = [e \in Entries |-> NULL]
        /\ \A f \in Files : mode[f] = "none" /\ opening[f] = NULL
    BY DEF RegInit
  <1> QED BY <1>1, EmptyList DEF RegisterInv, ListInv, OwnersInv, OpeningInv

\* The members of the list are entries.
LEMMA ListedEntries ==
    ASSUME FileTypes PROVE \A a \in ToSet(process_entries) : a \in Entries
  <1>1. \A i \in DOMAIN process_entries : process_entries[i] \in Entries
    BY LenProperties, ElementOfSeq DEF FileTypes
  <1> QED BY <1>1 DEF ToSet

\* A step that changes neither the list nor a file.
LEMMA RegisterFrame ==
    ASSUME RegisterInv, UNCHANGED <<mode, private, opening, process_entries, pid>>
    PROVE  RegisterInv'
  <1>1. ListInv'
    BY DEF RegisterInv, ListInv
  <1>2. OwnersInv' /\ OpeningInv'
    BY DEF RegisterInv, OwnersInv, OpeningInv
  <1> QED BY <1>1, <1>2 DEF RegisterInv

\* qnxcomm_open with O_RDWR: the insertion of a process that is not in the list and
\* that nobody else is about to insert.
LEMMA AddProcessRegister ==
    ASSUME EntryInv, RegisterInv, NEW p \in Pids, NEW f \in Files, mode[f] = "none",
           AddProcess(p, f), opening' = [opening EXCEPT ![f] = NULL],
           \A a \in ToSet(process_entries) : pid[a] # p,
           \A g \in Files : g # f => opening[g] # p
    PROVE  RegisterInv'
  <1>1. PICK e \in Entries :
           /\ entryRefs[e] = 0
           /\ e \notin ToSet(process_entries)
           /\ pid' = [pid EXCEPT ![e] = p]
           /\ private' = [private EXCEPT ![f] = e]
           /\ process_entries' = <<e>> \o process_entries
    BY DEF AddProcess
  <1>2. mode' = [mode EXCEPT ![f] = "rdwr"] /\ p # NULL
    BY RegistryAssumption DEF AddProcess
  <1>3. \A g \in Files : private[g] # e
    <2>1. FilesOf(e) = {}
      <3>1. Cardinality(FilesOf(e)) = 0
        BY <1>1 DEF EntryInv, EntryRefsExact
      <3> QED BY <3>1, FilesOfFinite, FS_EmptySet
    <2> QED BY <2>1 DEF FilesOf
  <1>4. /\ ToSet(process_entries') = ToSet(process_entries) \cup {e}
        /\ \A x : Once(process_entries, x) /\ (x = e => e \notin ToSet(process_entries)) =>
              Once(process_entries', x)
    BY <1>1, PrependSet DEF EntryInv, FileTypes
  <1>5. /\ \A a \in ToSet(process_entries) : a \in Entries /\ a # e /\ pid'[a] = pid[a] /\ pid[a] # p
        /\ pid'[e] = p
    BY <1>1, <1>2, ListedEntries DEF EntryInv, RegisterInv, ListInv, OpeningInv
  <1>6. /\ \A g \in Files : g # f => mode'[g] = mode[g] /\ private'[g] = private[g]
                                     /\ opening'[g] = opening[g]
        /\ mode'[f] = "rdwr" /\ private'[f] = e /\ opening'[f] = NULL
    BY <1>1, <1>2 DEF EntryInv, FileTypes
  <1>7. pid' \in [Entries -> Pids \cup {NULL}]
    BY <1>1, <1>2 DEF RegisterInv, ListInv
  <1>8. ListInv'
    <2>1. \A x : Once(process_entries', x)
      BY <1>1, <1>4 DEF RegisterInv, ListInv
    <2>2. \A a, b \in ToSet(process_entries') : pid'[a] = pid'[b] => a = b
      BY <1>4, <1>5 DEF RegisterInv, ListInv
    <2>3. \A a \in ToSet(process_entries') : pid'[a] # NULL
      BY <1>2, <1>4, <1>5 DEF RegisterInv, ListInv
    <2> QED BY <1>7, <2>1, <2>2, <2>3 DEF ListInv
  <1>9. OwnersInv'
    <2>1. \A a : a \in ToSet(process_entries') <=>
                    \E g \in Files : mode'[g] = "rdwr" /\ private'[g] = a
      <3>1. ASSUME NEW a, a \in ToSet(process_entries')
            PROVE  \E g \in Files : mode'[g] = "rdwr" /\ private'[g] = a
        BY <1>2, <1>4, <1>6, <3>1 DEF RegisterInv, OwnersInv
      <3>2. ASSUME NEW g \in Files, mode'[g] = "rdwr" PROVE private'[g] \in ToSet(process_entries')
        BY <1>4, <1>6, <3>2 DEF RegisterInv, OwnersInv
      <3> QED BY <3>1, <3>2
    <2>2. \A g \in Files : mode'[g] = "rdwr" => private'[g] # NULL
      BY <1>6, RegistryAssumption DEF RegisterInv, OwnersInv
    <2>3. \A g, h \in Files :
             mode'[g] = "rdwr" /\ mode'[h] = "rdwr" /\ private'[g] = private'[h] => g = h
      BY <1>3, <1>6 DEF RegisterInv, OwnersInv
    <2> QED BY <2>1, <2>2, <2>3 DEF OwnersInv
  <1>10. OpeningInv'
    <2> SUFFICES ASSUME NEW g \in Files, opening'[g] # NULL
                 PROVE  /\ \A a \in ToSet(process_entries') : pid'[a] # opening'[g]
                        /\ \A h \in Files : opening'[h] = opening'[g] => h = g
      BY DEF OpeningInv
    <2>1. g # f /\ opening'[g] = opening[g] /\ opening[g] # p
      BY <1>6 DEF RegisterInv, OpeningInv
    <2> QED BY <1>4, <1>5, <1>6, <2>1 DEF RegisterInv, OpeningInv
  <1> QED BY <1>8, <1>9, <1>10 DEF RegisterInv

\* qnxcomm_close.
LEMMA ReleaseRegister ==
    ASSUME EntryInv, RegisterInv, NEW f \in Files, Release(f)
    PROVE  RegisterInv'
  <1>1. /\ mode[f] # "none" /\ mode'[f] = "none" /\ private'[f] = NULL /\ UNCHANGED opening
        /\ \A g \in Files : g # f => mode'[g] = mode[g] /\ private'[g] = private[g]
    BY DEF Release, EntryInv, FileTypes
  <1>2. CASE private[f] = NULL
    <2>1. UNCHANGED <<process_entries, pid>> /\ mode[f] # "rdwr"
      BY <1>2 DEF Release, entryVars, RegisterInv, OwnersInv
    <2>2. OwnersInv'
      BY <1>1, <2>1 DEF RegisterInv, OwnersInv
    <2>3. ListInv'
      BY <2>1 DEF RegisterInv, ListInv
    <2>4. OpeningInv'
      BY <1>1, <2>1 DEF RegisterInv, OpeningInv
    <2> QED BY <2>2, <2>3, <2>4 DEF RegisterInv
  <1>3. CASE private[f] # NULL
    <2>1. PICK e \in Entries : e = private[f] /\ EntryPut(e)
      BY <1>3 DEF Release, EntryInv, FileTypes
    <2>2. /\ pid' \in [Entries -> Pids \cup {NULL}]
          /\ \A a \in Entries : a # e => pid'[a] = pid[a]
          /\ entryRefs[e] # 1 => UNCHANGED pid
      BY <2>1 DEF EntryPut, RegisterInv, ListInv
    <2>3. CASE mode[f] # "rdwr"
      <3>1. UNCHANGED process_entries
        BY <1>3, <2>3 DEF Release
      <3>2. e \in ToSet(process_entries) => entryRefs[e] # 1
        <4> SUFFICES ASSUME e \in ToSet(process_entries), entryRefs[e] = 1 PROVE FALSE
          OBVIOUS
        <4>1. PICK g \in Files : mode[g] = "rdwr" /\ private[g] = e
          BY DEF RegisterInv, OwnersInv
        <4>2. f \in FilesOf(e) /\ g \in FilesOf(e) /\ g # f
          BY <2>1, <2>3, <4>1 DEF FilesOf
        <4>3. Cardinality(FilesOf(e)) = 1
          BY DEF EntryInv, EntryRefsExact
        <4> QED BY <4>2, <4>3, FilesOfFinite, FS_Singleton
      <3>3. \A a \in ToSet(process_entries) : a \in Entries /\ pid'[a] = pid[a]
        BY <2>2, <3>2, ListedEntries DEF EntryInv
      <3>4. ListInv'
        BY <2>2, <3>1, <3>3 DEF RegisterInv, ListInv
      <3>5. OwnersInv'
        BY <1>1, <2>3, <3>1 DEF RegisterInv, OwnersInv
      <3>6. OpeningInv'
        BY <1>1, <3>1, <3>3 DEF RegisterInv, OpeningInv
      <3> QED BY <3>4, <3>5, <3>6 DEF RegisterInv
    <2>4. CASE mode[f] = "rdwr"
      <3>1. RemoveProcess(pid[e]) /\ e \in ToSet(process_entries)
        BY <1>3, <2>1, <2>4 DEF Release, RegisterInv, OwnersInv
      <3>2. /\ \A x : Once(process_entries', x)
            /\ ToSet(process_entries') = ToSet(process_entries) \ {e}
        <4> DEFINE n == Min(PlacesOf(pid[e]))
        <4>1. ProcessAvailable(pid[e])
          BY <3>1 DEF ProcessAvailable, PlacesOf, ToSet
        <4>2. n \in 1..Len(process_entries) /\ n \in DOMAIN process_entries
          BY <4>1, FirstPlace, LenProperties DEF EntryInv, FileTypes
        <4>3. pid[process_entries[n]] = pid[e]
          <5>1. PlacesOf(pid[e]) \in SUBSET Nat /\ PlacesOf(pid[e]) # {}
            BY <4>1, LenProperties DEF PlacesOf, ProcessAvailable, EntryInv, FileTypes
          <5>2. n \in PlacesOf(pid[e])
            BY <5>1, MinIn
          <5> QED BY <5>2 DEF PlacesOf
        <4>4. process_entries' = RemoveAt(process_entries, n)
          BY <3>1, <4>1 DEF RemoveProcess
        <4> HIDE DEF n
        <4>5. process_entries[n] = e
          BY <3>1, <4>2, <4>3 DEF RegisterInv, ListInv, ToSet
        <4>6. process_entries \in Seq(Entries)
          BY DEF EntryInv, FileTypes
        <4>7. process_entries' \in Seq(Entries) /\ Drops(process_entries, process_entries', n)
          BY <4>2, <4>4, <4>6, RemoveAtDrops
        <4>8. /\ Once(process_entries, process_entries[n]) =>
                    ToSet(process_entries') = ToSet(process_entries) \ {process_entries[n]}
              /\ \A x : Once(process_entries, x) => Once(process_entries', x)
          BY <4>2, <4>6, <4>7, DropsSet
        <4>9. \A x : Once(process_entries, x)
          BY DEF RegisterInv, ListInv
        <4> QED BY <4>5, <4>8, <4>9
      <3>3. \A a \in ToSet(process_entries') : /\ a \in ToSet(process_entries) /\ a \in Entries
                                               /\ pid'[a] = pid[a]
        BY <2>2, <3>2, ListedEntries DEF EntryInv
      <3>4. ListInv'
        BY <2>2, <3>2, <3>3 DEF RegisterInv, ListInv
      <3>5. \A g \in Files : mode[g] = "rdwr" /\ private[g] = e => g = f
        BY <2>1, <2>4 DEF RegisterInv, OwnersInv
      <3>6. OwnersInv'
        <4>1. ASSUME NEW a, a \in ToSet(process_entries')
              PROVE  \E g \in Files : mode'[g] = "rdwr" /\ private'[g] = a
          <5>1. a \in ToSet(process_entries) /\ a # e
            BY <3>2, <4>1
          <5>2. PICK g \in Files : mode[g] = "rdwr" /\ private[g] = a
            BY <5>1 DEF RegisterInv, OwnersInv
          <5> QED BY <1>1, <2>1, <5>1, <5>2
        <4>2. ASSUME NEW g \in Files, mode'[g] = "rdwr" PROVE private'[g] \in ToSet(process_entries')
          <5>1. g # f /\ mode[g] = "rdwr" /\ private'[g] = private[g]
            BY <1>1, <4>2
          <5>2. private[g] \in ToSet(process_entries) /\ private[g] # e
            BY <3>5, <5>1 DEF RegisterInv, OwnersInv
          <5> QED BY <3>2, <5>1, <5>2
        <4>3. \A g \in Files : mode'[g] = "rdwr" => private'[g] # NULL
          BY <1>1 DEF RegisterInv, OwnersInv
        <4>4. \A g, h \in Files :
                 mode'[g] = "rdwr" /\ mode'[h] = "rdwr" /\ private'[g] = private'[h] => g = h
          BY <1>1 DEF RegisterInv, OwnersInv
        <4> QED BY <4>1, <4>2, <4>3, <4>4 DEF OwnersInv
      <3>7. OpeningInv'
        BY <1>1, <3>3 DEF RegisterInv, OpeningInv
      <3> QED BY <3>4, <3>6, <3>7 DEF RegisterInv
    <2> QED BY <2>3, <2>4
  <1> QED BY <1>2, <1>3

\* qnxcomm_open with O_RDONLY.
LEMMA OpenPollRegister ==
    ASSUME EntryInv, RegisterInv, NEW p \in Pids, NEW f \in Files, OpenPoll(p, f)
    PROVE  RegisterInv'
  <1>1. /\ mode[f] = "none" /\ mode'[f] = "poll"
        /\ UNCHANGED <<opening, process_entries, pid>>
        /\ \A g \in Files : g # f => mode'[g] = mode[g] /\ private'[g] = private[g]
    BY DEF OpenPoll, EntryInv, FileTypes
  <1>2. OwnersInv'
    BY <1>1 DEF RegisterInv, OwnersInv
  <1>3. ListInv'
    BY <1>1 DEF RegisterInv, ListInv
  <1>4. OpeningInv'
    BY <1>1 DEF RegisterInv, OpeningInv
  <1> QED BY <1>2, <1>3, <1>4 DEF RegisterInv
===============================================================================
