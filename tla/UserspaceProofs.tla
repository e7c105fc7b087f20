---------------------------- MODULE UserspaceProofs ---------------------------
(***************************************************************************)
(* Proofs about processes that use the driver through the user space       *)
(* library, for any number of processes, threads, descriptors and forks.   *)
(***************************************************************************)
EXTENDS Userspace, RegistryProofs

-------------------------------------------------------------------------------
(* Descriptors and files.                                                  *)

DescriptorTypes ==
    /\ fdtab \in [Pids -> [Fds -> Files \cup {NULL}]]
    /\ fd \in [Pids -> Fds \cup {NoFd}]
    /\ opening = [f \in Files |-> NULL]

\* A file is open as long as a process has a descriptor for it.
DescriptorsInv ==
    \A f \in Files : mode[f] # "none" <=> \E p \in Pids, n \in Fds : fdtab[p][n] = f

BaseInv == DescriptorTypes /\ DescriptorsInv /\ EntryInv /\ RegisterInv

-------------------------------------------------------------------------------
(* Threads and the mutex.                                                  *)

ThreadTypes ==
    /\ alive \subseteq used /\ used \subseteq Pids
    /\ mtx \in [Pids -> Threads \cup {NULL, "orphan"}]
    /\ pc \in [Threads -> {"idle", "read", "ioctl", "lock", "close", "open",
                           "poll_register", "poll_close"}]
    /\ num \in [Threads -> Fds \cup {NoFd}]

\* n is a connection of process p to the driver.
Connects(p, n) == fdtab[p][n] # NULL /\ mode[fdtab[p][n]] = "rdwr"

Polling(th) == pc[th] \in {"poll_register", "poll_close"}

\* A thread in a call belongs to a process that runs; between lock and unlock it owns
\* the mutex; and the poll descriptor it has just opened is its own.
ThreadsInv ==
    /\ \A th \in Threads : pc[th] # "idle" => ProcessOf[th] \in alive
    /\ \A th \in Threads : pc[th] \in {"close", "open"} => mtx[ProcessOf[th]] = th
    /\ \A th \in Threads : Polling(th) =>
          /\ num[th] \in Fds
          /\ fdtab[ProcessOf[th]][num[th]] # NULL
          /\ mode[fdtab[ProcessOf[th]][num[th]]] = "poll"
    /\ \A th, o \in Threads :
          Polling(th) /\ Polling(o) /\ ProcessOf[th] = ProcessOf[o] /\ num[th] = num[o] => th = o

\* The process is not between close and open of a reconnect, and was not forked from
\* one that was.
Settled(p) ==
    \/ mtx[p] = NULL
    \/ \E th \in Threads : ProcessOf[th] = p /\ mtx[p] = th /\ pc[th] = "close"

\* While fd is settled it is the process's connection, or there is none; between close
\* and open there is none; and there are never two.
ConnectionInv ==
    /\ \A p \in Pids : \A m, n \in Fds : Connects(p, m) /\ Connects(p, n) => m = n
    /\ \A p \in alive : Settled(p) => \A n \in Fds : Connects(p, n) <=> fd[p] = n
    /\ \A th \in Threads : pc[th] = "open" => \A n \in Fds : ~Connects(ProcessOf[th], n)

UserInv == BaseInv /\ ThreadTypes /\ ThreadsInv /\ ConnectionInv

-------------------------------------------------------------------------------
(* What the operations on descriptors do.                                  *)

\* All descriptors but n of process p, and what kind of file they have, stay.
Keeps(p, n) ==
    \A q \in Pids, m \in Fds : q # p \/ m # n =>
        /\ fdtab'[q][m] = fdtab[q][m]
        /\ fdtab[q][m] # NULL => mode'[fdtab[q][m]] = mode[fdtab[q][m]]

\* A descriptor in use has a file, and it is open.
LEMMA OpenFile ==
    ASSUME BaseInv, NEW p \in Pids, NEW n \in Fds, fdtab[p][n] # NULL
    PROVE  fdtab[p][n] \in Files /\ mode[fdtab[p][n]] # "none"
  BY DEF BaseInv, DescriptorTypes, DescriptorsInv

\* The number no descriptor has.
LEMMA NoFdFree == \A n \in Fds : n # NoFd
  BY UserspaceAssumption DEF NoFd

\* The lowest free descriptor.
LEMMA LowestFree ==
    ASSUME NEW p \in Pids, Free(p) # {}
    PROVE  Min(Free(p)) \in Fds /\ fdtab[p][Min(Free(p))] = NULL
  <1>1. Free(p) \in SUBSET Nat
    BY UserspaceAssumption DEF Free
  <1>2. Min(Free(p)) \in Free(p)
    BY <1>1, MinIn
  <1> QED BY <1>2 DEF Free

\* A process gets a descriptor for a new file.
LEMMA NewDescriptor ==
    ASSUME BaseInv, NEW p \in Pids, NEW n \in Fds, fdtab[p][n] = NULL,
           NEW f \in Files, mode[f] = "none", NEW m \in {"rdwr", "poll"},
           fdtab' = [fdtab EXCEPT ![p][n] = f], mode' = [mode EXCEPT ![f] = m]
    PROVE  /\ fdtab' \in [Pids -> [Fds -> Files \cup {NULL}]]
           /\ DescriptorsInv'
           /\ Keeps(p, n) /\ fdtab'[p][n] = f /\ mode'[f] = m
  <1>1. fdtab \in [Pids -> [Fds -> Files \cup {NULL}]] /\ mode \in [Files -> {"none", "rdwr", "poll"}]
    BY DEF BaseInv, DescriptorTypes, EntryInv, FileTypes
  <1>2. /\ fdtab' \in [Pids -> [Fds -> Files \cup {NULL}]]
        /\ fdtab'[p][n] = f
        /\ \A q \in Pids, k \in Fds : q # p \/ k # n => fdtab'[q][k] = fdtab[q][k]
    BY <1>1
  <1>3. mode'[f] = m /\ \A g \in Files : g # f => mode'[g] = mode[g]
    BY <1>1
  <1>4. \A q \in Pids, k \in Fds : fdtab[q][k] # f
    BY DEF BaseInv, DescriptorsInv
  <1>5. Keeps(p, n)
    BY <1>1, <1>2, <1>3, <1>4 DEF Keeps
  <1>6. DescriptorsInv'
    <2> SUFFICES ASSUME NEW g \in Files
                 PROVE  mode'[g] # "none" <=> \E q \in Pids, k \in Fds : fdtab'[q][k] = g
      BY DEF DescriptorsInv
    <2>1. CASE g = f
      BY <1>2, <1>3, <2>1
    <2>2. CASE g # f
      <3>1. mode[g] # "none" <=> \E q \in Pids, k \in Fds : fdtab[q][k] = g
        BY DEF BaseInv, DescriptorsInv
      <3>2. \A q \in Pids, k \in Fds : fdtab'[q][k] = g <=> fdtab[q][k] = g
        BY <1>2, <2>2, RegistryAssumption
      <3> QED BY <1>3, <2>2, <3>1, <3>2
    <2> QED BY <2>1, <2>2
  <1> QED BY <1>2, <1>3, <1>5, <1>6

\* initialize(): a connection at a new descriptor, or none.
LEMMA InitializeBase ==
    ASSUME BaseInv, NEW p \in Pids, Initialize(p)
    PROVE  /\ BaseInv'
           /\ \A q \in Pids : q # p => fd'[q] = fd[q]
           /\ \/ /\ fd'[p] \in Fds /\ fdtab[p][fd'[p]] = NULL
                 /\ fdtab'[p][fd'[p]] # NULL /\ mode'[fdtab'[p][fd'[p]]] = "rdwr"
                 /\ Keeps(p, fd'[p])
              \/ fd'[p] = NoFd /\ UNCHANGED <<fdtab, regVars>>
  <1>0. DescriptorTypes /\ DescriptorsInv /\ EntryInv /\ RegisterInv
    BY DEF BaseInv
  <1>1. ASSUME ~ProcessAvailable(p), Free(p) # {}, UNCHANGED opening,
               fd' = [fd EXCEPT ![p] = Min(Free(p))],
               NEW f \in Files, mode[f] = "none", AddProcess(p, f),
               fdtab' = [fdtab EXCEPT ![p][Min(Free(p))] = f]
        PROVE  /\ BaseInv' /\ fd'[p] \in Fds /\ fdtab[p][fd'[p]] = NULL
               /\ fdtab'[p][fd'[p]] # NULL /\ mode'[fdtab'[p][fd'[p]]] = "rdwr"
               /\ Keeps(p, fd'[p])
    <2>1. PICK n \in Fds : n = Min(Free(p)) /\ fdtab[p][n] = NULL
      BY <1>1, LowestFree
    <2>2. fd' = [fd EXCEPT ![p] = n] /\ fdtab' = [fdtab EXCEPT ![p][n] = f]
      BY <1>1, <2>1
    <2>3. fd' \in [Pids -> Fds \cup {NoFd}] /\ fd'[p] = n
      BY <1>0, <2>2 DEF DescriptorTypes
    <2>4. mode' = [mode EXCEPT ![f] = "rdwr"]
      BY <1>1 DEF AddProcess
    <2>5. /\ fdtab' \in [Pids -> [Fds -> Files \cup {NULL}]]
          /\ DescriptorsInv'
          /\ Keeps(p, n) /\ fdtab'[p][n] = f /\ mode'[f] = "rdwr"
      BY <1>1, <2>1, <2>2, <2>4, NewDescriptor, ZenonT(30)
    <2>6. opening' = [opening EXCEPT ![f] = NULL] /\ \A g \in Files : opening[g] = NULL
      BY <1>0, <1>1 DEF DescriptorTypes
    <2>7. \A a \in ToSet(process_entries) : pid[a] # p
      BY <1>1 DEF ProcessAvailable, PlacesOf, ToSet
    <2>8. p # NULL /\ f # NULL
      BY RegistryAssumption
    <2>9. EntryInv'
      BY <1>0, <1>1, <2>6, AddProcessEntryInv
    <2>10. RegisterInv'
      BY <1>0, <1>1, <2>6, <2>7, <2>8, AddProcessRegister
    <2>11. DescriptorTypes'
      BY <1>0, <1>1, <2>3, <2>5 DEF DescriptorTypes
    <2> QED BY <2>1, <2>3, <2>5, <2>8, <2>9, <2>10, <2>11 DEF BaseInv
  <1>2. ASSUME fd' = [fd EXCEPT ![p] = NoFd], UNCHANGED <<fdtab, regVars>>
        PROVE  BaseInv' /\ fd'[p] = NoFd
    <2>1. UNCHANGED <<mode, private, opening, process_entries, entryRefs, pid>>
      BY <1>2 DEF regVars, fileVars, entryVars
    <2>2. EntryInv' /\ RegisterInv'
      BY <1>0, <2>1, EntryFrame, RegisterFrame
    <2>3. DescriptorTypes' /\ DescriptorsInv' /\ fd'[p] = NoFd
      BY <1>0, <1>2, <2>1 DEF DescriptorTypes, DescriptorsInv
    <2> QED BY <2>2, <2>3 DEF BaseInv
  <1>3. \A q \in Pids : q # p => fd'[q] = fd[q]
    BY <1>0 DEF Initialize, DescriptorTypes
  <1>4. CASE /\ ~ProcessAvailable(p) /\ Free(p) # {} /\ UNCHANGED opening
             /\ fd' = [fd EXCEPT ![p] = Min(Free(p))]
             /\ \E f \in Files : /\ mode[f] = "none" /\ AddProcess(p, f)
                                 /\ fdtab' = [fdtab EXCEPT ![p][Min(Free(p))] = f]
    BY <1>1, <1>3, <1>4
  <1>5. CASE fd' = [fd EXCEPT ![p] = NoFd] /\ UNCHANGED <<fdtab, regVars>>
    BY <1>2, <1>3, <1>5
  <1> QED BY <1>4, <1>5 DEF Initialize

\* close: the descriptor is free, and the file is released with its last descriptor.
LEMMA CloseFdBase ==
    ASSUME BaseInv, NEW p \in Pids, NEW n \in Fds, fdtab[p][n] # NULL, CloseFd(p, n), UNCHANGED fd
    PROVE  BaseInv' /\ Keeps(p, n) /\ fdtab'[p][n] = NULL
  <1>0. DescriptorTypes /\ DescriptorsInv /\ EntryInv /\ RegisterInv
    BY DEF BaseInv
  <1>1. PICK f \in Files : f = fdtab[p][n] /\ mode[f] # "none" /\ f # NULL
    BY OpenFile
  <1>2. fdtab' = [fdtab EXCEPT ![p][n] = NULL]
    BY DEF CloseFd
  <1>3. /\ fdtab' \in [Pids -> [Fds -> Files \cup {NULL}]]
        /\ fdtab'[p][n] = NULL
        /\ \A q \in Pids, k \in Fds : q # p \/ k # n => fdtab'[q][k] = fdtab[q][k]
    BY <1>0, <1>2 DEF DescriptorTypes
  <1>4. \A q \in Pids, k \in Fds : fdtab[q][k] = f <=> <<q, k>> \in Refs(f)
    BY DEF Refs
  <1>5. CASE Refs(f) = {<<p, n>>}
    <2>1. Release(f)
      BY <1>1, <1>5 DEF CloseFd
    <2>2. EntryInv' /\ RegisterInv'
      BY <1>0, <2>1, ReleaseEntryInv, ReleaseRegister
    <2>3. /\ mode'[f] = "none" /\ UNCHANGED opening
          /\ \A g \in Files : g # f => mode'[g] = mode[g]
      BY <1>0, <2>1 DEF Release, EntryInv, FileTypes
    <2>4. \A q \in Pids, k \in Fds : q # p \/ k # n => fdtab[q][k] # f
      BY <1>4, <1>5
    <2>5. Keeps(p, n)
      BY <1>0, <1>3, <2>3, <2>4 DEF Keeps, DescriptorTypes
    <2>6. DescriptorsInv'
      <3> SUFFICES ASSUME NEW g \in Files
                   PROVE  mode'[g] # "none" <=> \E q \in Pids, k \in Fds : fdtab'[q][k] = g
        BY DEF DescriptorsInv
      <3>1. CASE g = f
        BY <1>1, <1>3, <2>3, <2>4, <3>1
      <3>2. CASE g # f
        <4>1. mode[g] # "none" <=> \E q \in Pids, k \in Fds : fdtab[q][k] = g
          BY <1>0 DEF DescriptorsInv
        <4>2. \A q \in Pids, k \in Fds : fdtab'[q][k] = g <=> fdtab[q][k] = g
          BY <1>1, <1>3, <3>2, RegistryAssumption
        <4> QED BY <2>3, <3>2, <4>1, <4>2
      <3> QED BY <3>1, <3>2
    <2>7. DescriptorTypes'
      BY <1>0, <1>3, <2>3 DEF DescriptorTypes
    <2> QED BY <1>3, <2>2, <2>5, <2>6, <2>7 DEF BaseInv
  <1>6. CASE Refs(f) # {<<p, n>>}
    <2>1. UNCHANGED <<mode, private, opening, process_entries, entryRefs, pid>>
      BY <1>1, <1>6 DEF CloseFd, regVars, fileVars, entryVars
    <2>2. EntryInv' /\ RegisterInv'
      BY <1>0, <2>1, EntryFrame, RegisterFrame
    <2>3. PICK r \in Refs(f) : r # <<p, n>>
      BY <1>1, <1>4, <1>6
    <2>4. PICK q \in Pids, k \in Fds : r = <<q, k>> /\ fdtab[q][k] = f
      BY DEF Refs
    <2>5. q # p \/ k # n
      BY <2>3, <2>4
    <2>6. Keeps(p, n)
      BY <1>3, <2>1 DEF Keeps
    <2>7. DescriptorsInv'
      <3> SUFFICES ASSUME NEW g \in Files
                   PROVE  mode[g] # "none" <=> \E x \in Pids, m \in Fds : fdtab'[x][m] = g
        BY <2>1 DEF DescriptorsInv
      <3>1. mode[g] # "none" <=> \E x \in Pids, m \in Fds : fdtab[x][m] = g
        BY <1>0 DEF DescriptorsInv
      <3>2. CASE g = f
        <4>1. fdtab'[q][k] = g
          BY <1>3, <2>4, <2>5, <3>2
        <4> QED BY <1>1, <3>2, <4>1
      <3>3. CASE g # f
        <4>1. \A x \in Pids, m \in Fds : fdtab'[x][m] = g <=> fdtab[x][m] = g
          BY <1>1, <1>3, <3>3, RegistryAssumption
        <4> QED BY <3>1, <4>1
      <3> QED BY <3>2, <3>3
    <2>8. DescriptorTypes'
      BY <1>0, <1>3, <2>1 DEF DescriptorTypes
    <2> QED BY <1>3, <2>2, <2>6, <2>7, <2>8 DEF BaseInv
  <1> QED BY <1>5, <1>6

\* MsgReceivePollFd opens a poll descriptor.
LEMMA PollFdBase ==
    ASSUME BaseInv, NEW th \in Threads, NEW p \in Pids, p = ProcessOf[th], MsgReceivePollFd(th),
           num \in [Threads -> Fds \cup {NoFd}]
    PROVE  /\ BaseInv'
           /\ num'[th] \in Fds /\ fdtab[p][num'[th]] = NULL /\ Keeps(p, num'[th])
           /\ fdtab'[p][num'[th]] # NULL /\ mode'[fdtab'[p][num'[th]]] = "poll"
  <1>0. DescriptorTypes /\ DescriptorsInv /\ EntryInv /\ RegisterInv
    BY DEF BaseInv
  <1>1. PICK n \in Fds : n = Min(Free(p)) /\ fdtab[p][n] = NULL
    BY LowestFree DEF MsgReceivePollFd
  <1>2. PICK f \in Files : OpenPoll(p, f) /\ fdtab' = [fdtab EXCEPT ![p][n] = f]
    BY <1>1 DEF MsgReceivePollFd
  <1>3. mode[f] = "none" /\ mode' = [mode EXCEPT ![f] = "poll"] /\ UNCHANGED opening
    BY <1>2 DEF OpenPoll
  <1>4. /\ fdtab' \in [Pids -> [Fds -> Files \cup {NULL}]]
        /\ DescriptorsInv'
        /\ Keeps(p, n) /\ fdtab'[p][n] = f /\ mode'[f] = "poll"
    BY <1>1, <1>2, <1>3, NewDescriptor, ZenonT(30)
  <1>5. EntryInv' /\ RegisterInv'
    BY <1>0, <1>2, OpenPollEntryInv, OpenPollRegister
  <1>6. num'[th] = n /\ UNCHANGED fd
    BY <1>1 DEF MsgReceivePollFd
  <1>7. DescriptorTypes'
    BY <1>0, <1>3, <1>4, <1>6 DEF DescriptorTypes
  <1> QED BY <1>1, <1>4, <1>5, <1>6, <1>7, RegistryAssumption DEF BaseInv

\* fork: the child has the descriptors of its parent.
LEMMA ForkBase ==
    ASSUME BaseInv, NEW p \in Pids, NEW q \in Pids, \A n \in Fds : fdtab[q][n] = NULL,
           fdtab' = [fdtab EXCEPT ![q] = fdtab[p]], fd' = [fd EXCEPT ![q] = fd[p]],
           UNCHANGED regVars
    PROVE  /\ BaseInv'
           /\ \A n \in Fds : fdtab'[q][n] = fdtab[p][n]
           /\ \A r \in Pids, n \in Fds : r # q => fdtab'[r][n] = fdtab[r][n]
  <1>0. DescriptorTypes /\ DescriptorsInv /\ EntryInv /\ RegisterInv
    BY DEF BaseInv
  <1>1. UNCHANGED <<mode, private, opening, process_entries, entryRefs, pid>>
    BY DEF regVars, fileVars, entryVars
  <1>2. EntryInv' /\ RegisterInv'
    BY <1>0, <1>1, EntryFrame, RegisterFrame
  <1>3. /\ DescriptorTypes'
        /\ \A n \in Fds : fdtab'[q][n] = fdtab[p][n]
        /\ \A r \in Pids, n \in Fds : r # q => fdtab'[r][n] = fdtab[r][n]
    BY <1>0, <1>1 DEF DescriptorTypes
  <1>4. ASSUME NEW f \in Files
        PROVE  mode[f] # "none" <=> \E r \in Pids, n \in Fds : fdtab'[r][n] = f
    <2>1. mode[f] # "none" <=> \E r \in Pids, n \in Fds : fdtab[r][n] = f
      BY <1>0 DEF DescriptorsInv
    <2>2. f # NULL
      BY RegistryAssumption
    <2>3. ASSUME NEW r \in Pids, NEW n \in Fds, fdtab[r][n] = f PROVE fdtab'[r][n] = f
      BY <1>3, <2>2, <2>3
    <2> QED BY <1>3, <2>1, <2>3
  <1>5. DescriptorsInv'
    BY <1>1, <1>4 DEF DescriptorsInv
  <1> QED BY <1>2, <1>3, <1>5 DEF BaseInv

\* The steps that change neither files nor descriptors.
LEMMA BaseFrame ==
    ASSUME BaseInv, UNCHANGED <<fdtab, fd, mode, private, opening, process_entries, entryRefs, pid>>
    PROVE  BaseInv'
  <1>1. EntryInv' /\ RegisterInv'
    BY EntryFrame, RegisterFrame DEF BaseInv
  <1>2. DescriptorTypes' /\ DescriptorsInv'
    BY DEF BaseInv, DescriptorTypes, DescriptorsInv
  <1> QED BY <1>1, <1>2 DEF BaseInv

-------------------------------------------------------------------------------
(* Threads and connections, one step per action.                           *)

\* A thread moves on inside its call, or returns, without touching the mutex, the
\* descriptors or the files.
LEMMA ThreadMoves ==
    ASSUME UserInv, NEW th \in Threads, NEW l,
           l \in {"idle", "read", "ioctl", "lock"} \/ (l = "poll_close" /\ Polling(th)),
           pc[th] \notin {"close", "open"},
           l # "idle" => ProcessOf[th] \in alive,
           pc' = [pc EXCEPT ![th] = l],
           num' \in [Threads -> Fds \cup {NoFd}],
           \A o \in Threads : o # th \/ l = "poll_close" => num'[o] = num[o],
           UNCHANGED <<alive, used, fdtab, fd, mtx, mode>>
    PROVE  (ThreadTypes /\ ThreadsInv /\ ConnectionInv)'
  <1>1. ThreadTypes'
    BY DEF UserInv, ThreadTypes
  <1>2. pc'[th] = l /\ \A o \in Threads : o # th => pc'[o] = pc[o]
    BY DEF UserInv, ThreadTypes
  <1>3. \A o \in Threads : Polling(o)' => Polling(o) /\ num'[o] = num[o]
    BY <1>2 DEF Polling
  <1>4. ThreadsInv'
    <2>1. \A o \in Threads : pc'[o] # "idle" => ProcessOf[o] \in alive'
      BY <1>2 DEF UserInv, ThreadsInv
    <2>2. \A o \in Threads : pc'[o] \in {"close", "open"} => mtx'[ProcessOf[o]] = o
      BY <1>2 DEF UserInv, ThreadsInv, Polling
    <2>3. \A o \in Threads : Polling(o)' =>
             /\ num'[o] \in Fds
             /\ fdtab'[ProcessOf[o]][num'[o]] # NULL
             /\ mode'[fdtab'[ProcessOf[o]][num'[o]]] = "poll"
      BY <1>3 DEF UserInv, ThreadsInv
    <2>4. \A x, o \in Threads :
             Polling(x)' /\ Polling(o)' /\ ProcessOf[x] = ProcessOf[o] /\ num'[x] = num'[o] => x = o
      BY <1>3 DEF UserInv, ThreadsInv
    <2> QED BY <2>1, <2>2, <2>3, <2>4 DEF ThreadsInv
  <1>5. \A p \in Pids, n \in Fds : Connects(p, n)' <=> Connects(p, n)
    BY DEF Connects
  <1>6. \A p \in Pids : Settled(p)' => Settled(p)
    BY <1>2 DEF Settled
  <1>7. alive \subseteq Pids /\ \A o \in Threads : ProcessOf[o] \in Pids
    BY UserspaceAssumption DEF UserInv, ThreadTypes
  <1>8. ConnectionInv'
    BY <1>2, <1>5, <1>6, <1>7 DEF UserInv, ConnectionInv, Polling
  <1> QED BY <1>1, <1>4, <1>8

\* The descriptors of a process whose threads stay where they are change.
\* Threads of other processes do not notice.
LEMMA OthersKeep ==
    ASSUME UserInv, NEW p \in Pids, NEW n \in Fds, Keeps(p, n)
    PROVE  /\ \A q \in Pids, m \in Fds : q # p \/ m # n => (Connects(q, m)' <=> Connects(q, m))
           /\ \A th \in Threads : Polling(th) /\ (ProcessOf[th] # p \/ num[th] # n) =>
                 /\ fdtab'[ProcessOf[th]][num[th]] # NULL
                 /\ mode'[fdtab'[ProcessOf[th]][num[th]]] = "poll"
  <1>1. \A q \in Pids, m \in Fds : q # p \/ m # n => (Connects(q, m)' <=> Connects(q, m))
    BY DEF Keeps, Connects
  <1>2. \A th \in Threads : ProcessOf[th] \in Pids
    BY UserspaceAssumption
  <1> QED BY <1>1, <1>2 DEF Keeps, UserInv, ThreadsInv

\* The kernel closes the descriptors of a process that has ended.
LEMMA ExitCloseUser ==
    ASSUME UserInv, NEW p \in Pids, NEW n \in Fds, ExitClose(p, n) PROVE UserInv'
  <1>1. /\ p \notin alive /\ fdtab[p][n] # NULL /\ CloseFd(p, n)
        /\ UNCHANGED <<alive, used, fd, mtx, pc, num>>
    BY DEF ExitClose, threadVars
  <1>2. BaseInv' /\ Keeps(p, n) /\ fdtab'[p][n] = NULL
    BY <1>1, CloseFdBase DEF UserInv
  <1>3. ThreadTypes'
    BY <1>1 DEF UserInv, ThreadTypes
  <1>4. \A th \in Threads : Polling(th)' <=> Polling(th)
    BY <1>1 DEF Polling
  <1>5. ThreadsInv'
    BY <1>1, <1>2, <1>4, OthersKeep DEF UserInv, ThreadsInv, Polling
  <1>6. \A q \in Pids, m \in Fds : Connects(q, m)' => Connects(q, m)
    BY <1>2, OthersKeep DEF Connects
  <1>7. \A q \in Pids : Settled(q)' <=> Settled(q)
    BY <1>1 DEF Settled
  <1>8. \A q \in alive, m \in Fds : Connects(q, m)' <=> Connects(q, m)
    BY <1>1, <1>2, OthersKeep DEF UserInv, ThreadTypes
  <1>9. ConnectionInv'
    <2>1. \A q \in Pids : \A k, m \in Fds : Connects(q, k)' /\ Connects(q, m)' => k = m
      BY <1>6 DEF UserInv, ConnectionInv
    <2>2. \A q \in alive' : Settled(q)' => \A m \in Fds : Connects(q, m)' <=> fd'[q] = m
      BY <1>1, <1>7, <1>8 DEF UserInv, ConnectionInv, ThreadTypes
    <2>3. \A th \in Threads : pc'[th] = "open" => \A m \in Fds : ~Connects(ProcessOf[th], m)'
      BY <1>1, <1>6, UserspaceAssumption DEF UserInv, ConnectionInv
    <2> QED BY <2>1, <2>2, <2>3 DEF ConnectionInv
  <1> QED BY <1>2, <1>3, <1>5, <1>9 DEF UserInv

\* A poll descriptor is closed, by UserClose or by PollClose.
LEMMA ClosePollUser ==
    ASSUME UserInv, NEW p \in Pids, NEW n \in Fds, fdtab[p][n] # NULL,
           mode[fdtab[p][n]] = "poll", CloseFd(p, n), UNCHANGED <<alive, used, fd, mtx>>,
           ThreadTypes',
           \A o \in Threads : Polling(o)' =>
              Polling(o) /\ num'[o] = num[o] /\ (ProcessOf[o] # p \/ num[o] # n),
           \A o \in Threads : pc'[o] = pc[o] \/ (pc'[o] = "idle" /\ Polling(o))
    PROVE  UserInv'
  <1>1. BaseInv' /\ Keeps(p, n) /\ fdtab'[p][n] = NULL
    BY CloseFdBase DEF UserInv
  <1>2. ThreadsInv'
    <2>1. \A o \in Threads : pc'[o] # "idle" => ProcessOf[o] \in alive'
      BY DEF UserInv, ThreadsInv
    <2>2. \A o \in Threads : pc'[o] \in {"close", "open"} => mtx'[ProcessOf[o]] = o
      BY DEF UserInv, ThreadsInv
    <2>3. \A o \in Threads : Polling(o)' =>
             /\ num'[o] \in Fds
             /\ fdtab'[ProcessOf[o]][num'[o]] # NULL
             /\ mode'[fdtab'[ProcessOf[o]][num'[o]]] = "poll"
      BY <1>1, OthersKeep DEF UserInv, ThreadsInv
    <2>4. \A x, o \in Threads :
             Polling(x)' /\ Polling(o)' /\ ProcessOf[x] = ProcessOf[o] /\ num'[x] = num'[o] => x = o
      BY DEF UserInv, ThreadsInv
    <2> QED BY <2>1, <2>2, <2>3, <2>4 DEF ThreadsInv
  <1>3. \A q \in Pids, m \in Fds : Connects(q, m)' <=> Connects(q, m)
    <2>1. ~Connects(p, n) /\ ~Connects(p, n)'
      BY <1>1 DEF Connects
    <2> QED BY <1>1, <2>1, OthersKeep
  <1>4. \A q \in Pids : Settled(q)' <=> Settled(q)
    BY DEF Settled, Polling
  <1>5. alive \subseteq Pids /\ \A o \in Threads : ProcessOf[o] \in Pids
    BY UserspaceAssumption DEF UserInv, ThreadTypes
  <1>6. ConnectionInv'
    BY <1>3, <1>4, <1>5 DEF UserInv, ConnectionInv, Polling
  <1> QED BY <1>1, <1>2, <1>6 DEF UserInv

\* The program closes a poll descriptor.
LEMMA UserCloseUser ==
    ASSUME UserInv, NEW th \in Threads, NEW n \in Fds, UserClose(th, n) PROVE UserInv'
  <1>1. PICK p \in Pids : p = ProcessOf[th]
    BY UserspaceAssumption
  <1>2. /\ fdtab[p][n] # NULL /\ mode[fdtab[p][n]] = "poll" /\ CloseFd(p, n)
        /\ \A o \in Threads : ProcessOf[o] = p /\ Polling(o) => num[o] # n
        /\ UNCHANGED <<alive, used, fd, mtx, pc, num>>
    BY <1>1 DEF UserClose, Free, threadVars, Polling
  <1>3. ThreadTypes'
    BY <1>2 DEF UserInv, ThreadTypes
  <1>4. \A o \in Threads : Polling(o)' <=> Polling(o)
    BY <1>2 DEF Polling
  <1> QED BY <1>2, <1>3, <1>4, ClosePollUser

\* The registration has failed, and MsgReceivePollFd closes what it has opened.
LEMMA PollCloseUser ==
    ASSUME UserInv, NEW th \in Threads, PollClose(th) PROVE UserInv'
  <1>1. PICK p \in Pids : p = ProcessOf[th]
    BY UserspaceAssumption
  <1>2. /\ pc[th] = "poll_close" /\ CloseFd(p, num[th])
        /\ pc' = [pc EXCEPT ![th] = "idle"] /\ num' = [num EXCEPT ![th] = NoFd]
        /\ UNCHANGED <<alive, used, fd, mtx>>
    BY <1>1 DEF PollClose, Return, Goto
  <1>3. PICK n \in Fds : n = num[th] /\ fdtab[p][n] # NULL /\ mode[fdtab[p][n]] = "poll"
    BY <1>1, <1>2 DEF UserInv, ThreadsInv, Polling
  <1>4. ThreadTypes'
    BY <1>2 DEF UserInv, ThreadTypes
  <1>5. /\ pc'[th] = "idle" /\ Polling(th)
        /\ \A o \in Threads : o # th => pc'[o] = pc[o] /\ num'[o] = num[o]
    BY <1>2 DEF UserInv, ThreadTypes, Polling
  <1>6. \A o \in Threads : Polling(o)' =>
           Polling(o) /\ num'[o] = num[o] /\ (ProcessOf[o] # p \/ num[o] # n)
    BY <1>1, <1>3, <1>5 DEF UserInv, ThreadsInv, Polling
  <1> QED BY <1>2, <1>3, <1>4, <1>5, <1>6, ClosePollUser

\* MsgReceivePollFd
LEMMA PollFdUser ==
    ASSUME UserInv, NEW th \in Threads, MsgReceivePollFd(th) PROVE UserInv'
  <1>1. PICK p \in Pids : p = ProcessOf[th]
    BY UserspaceAssumption
  <1>2. /\ p \in alive /\ pc[th] = "idle" /\ pc' = [pc EXCEPT ![th] = "poll_register"]
        /\ num' = [num EXCEPT ![th] = Min(Free(p))]
        /\ UNCHANGED <<alive, used, fd, mtx>>
    BY <1>1 DEF MsgReceivePollFd, Goto
  <1>3. num \in [Threads -> Fds \cup {NoFd}]
    BY DEF UserInv, ThreadTypes
  <1>4. /\ BaseInv'
        /\ num'[th] \in Fds /\ fdtab[p][num'[th]] = NULL /\ Keeps(p, num'[th])
        /\ fdtab'[p][num'[th]] # NULL /\ mode'[fdtab'[p][num'[th]]] = "poll"
    BY <1>1, <1>3, PollFdBase DEF UserInv
  <1>5. PICK n \in Fds : n = num'[th]
    BY <1>4
  <1>6. num' = [num EXCEPT ![th] = n]
    BY <1>2, <1>3, <1>5
  <1>7. ThreadTypes'
    BY <1>2, <1>6 DEF UserInv, ThreadTypes
  <1>8. /\ pc'[th] = "poll_register" /\ num'[th] = n
        /\ \A o \in Threads : o # th => pc'[o] = pc[o] /\ num'[o] = num[o]
    BY <1>2, <1>6 DEF UserInv, ThreadTypes
  <1>9. \A o \in Threads : o # th => (Polling(o)' <=> Polling(o))
    BY <1>8 DEF Polling
  <1>10. \A o \in Threads : Polling(o) /\ ProcessOf[o] = p => num[o] # n
    BY <1>1, <1>4, <1>5 DEF UserInv, ThreadsInv
  <1>11. ThreadsInv'
    <2>1. \A o \in Threads : pc'[o] # "idle" => ProcessOf[o] \in alive'
      BY <1>1, <1>2, <1>8 DEF UserInv, ThreadsInv
    <2>2. \A o \in Threads : pc'[o] \in {"close", "open"} => mtx'[ProcessOf[o]] = o
      BY <1>2, <1>8 DEF UserInv, ThreadsInv
    <2>3. \A o \in Threads : Polling(o)' =>
             /\ num'[o] \in Fds
             /\ fdtab'[ProcessOf[o]][num'[o]] # NULL
             /\ mode'[fdtab'[ProcessOf[o]][num'[o]]] = "poll"
      BY <1>1, <1>4, <1>5, <1>8, <1>9, <1>10, OthersKeep DEF UserInv, ThreadsInv
    <2>4. \A x, o \in Threads :
             Polling(x)' /\ Polling(o)' /\ ProcessOf[x] = ProcessOf[o] /\ num'[x] = num'[o] => x = o
      BY <1>1, <1>8, <1>9, <1>10 DEF UserInv, ThreadsInv
    <2> QED BY <2>1, <2>2, <2>3, <2>4 DEF ThreadsInv
  <1>12. \A q \in Pids, m \in Fds : Connects(q, m)' <=> Connects(q, m)
    <2>1. ~Connects(p, n) /\ ~Connects(p, n)'
      BY <1>4, <1>5 DEF Connects
    <2> QED BY <1>4, <1>5, <2>1, OthersKeep
  <1>13. \A q \in Pids : Settled(q)' <=> Settled(q)
    BY <1>2, <1>8 DEF Settled
  <1>14. alive \subseteq Pids /\ \A o \in Threads : ProcessOf[o] \in Pids
    BY UserspaceAssumption DEF UserInv, ThreadTypes
  <1>15. ConnectionInv'
    BY <1>2, <1>8, <1>12, <1>13, <1>14 DEF UserInv, ConnectionInv
  <1> QED BY <1>4, <1>7, <1>11, <1>15 DEF UserInv

\* The steps of a call that leave mutex, descriptors and files alone.
LEMMA CallUser ==
    ASSUME UserInv, NEW th \in Threads,
           (\E c \in Cmd : Call(th, c)) \/ ReadFd(th) \/ IoctlCall(th) \/ PollRegister(th)
    PROVE  UserInv'
  <1>0. BaseInv /\ ThreadTypes /\ ThreadsInv
    BY DEF UserInv
  <1>1. UNCHANGED <<alive, used, fdtab, fd, mtx, mode, private, opening, process_entries,
                    entryRefs, pid>>
    BY DEF Call, ReadFd, IoctlCall, PollRegister, CreateChannel, ChannelCreate, AddPollFd,
           procVars, regVars, fileVars, entryVars
  <1>2. PICK l : /\ pc' = [pc EXCEPT ![th] = l]
                 /\ l \in {"idle", "read", "ioctl", "lock"} \/ (l = "poll_close" /\ Polling(th))
                 /\ l # "idle" => ProcessOf[th] \in alive
                 /\ l = "poll_close" => UNCHANGED num
    <2>1. ASSUME NEW c \in Cmd, Call(th, c)
          PROVE  ProcessOf[th] \in alive /\ \E l \in {"idle", "read"} : pc' = [pc EXCEPT ![th] = l]
      BY <2>1 DEF Call, Return, Goto
    <2>2. CASE ReadFd(th)
      <3>1. pc[th] = "read" /\ pc' = [pc EXCEPT ![th] = "ioctl"]
        BY <2>2 DEF ReadFd, Goto
      <3>2. ProcessOf[th] \in alive
        BY <1>0, <3>1 DEF ThreadsInv
      <3>3. \E l \in {"ioctl"} : pc' = [pc EXCEPT ![th] = l]
        BY <3>1
      <3> QED BY <3>2, <3>3
    <2>3. CASE IoctlCall(th)
      <3>1. pc[th] = "ioctl" /\ \E l \in {"idle", "lock"} : pc' = [pc EXCEPT ![th] = l]
        BY <2>3 DEF IoctlCall, CreateChannel, Continue, Return, Goto
      <3> QED BY <1>0, <3>1 DEF ThreadsInv
    <2>4. CASE PollRegister(th)
      <3>1. /\ pc[th] = "poll_register"
            /\ \/ pc' = [pc EXCEPT ![th] = "idle"]
               \/ pc' = [pc EXCEPT ![th] = "poll_close"] /\ UNCHANGED num
        BY <2>4 DEF PollRegister, Continue, Return, Goto
      <3> QED BY <1>0, <3>1 DEF ThreadsInv, Polling
    <2> QED BY <2>1, <2>2, <2>3, <2>4
  <1>3. /\ num' \in [Threads -> Fds \cup {NoFd}]
        /\ \A o \in Threads : o # th \/ l = "poll_close" => num'[o] = num[o]
    <2>1. \/ UNCHANGED num
          \/ \E x \in Fds \cup {NoFd} : num' = [num EXCEPT ![th] = x]
      <3>1. ProcessOf[th] \in Pids
        BY UserspaceAssumption
      <3>2. fd[ProcessOf[th]] \in Fds \cup {NoFd}
        BY <1>0, <3>1 DEF BaseInv, DescriptorTypes
      <3>3. ASSUME NEW c \in Cmd, Call(th, c)
            PROVE  UNCHANGED num \/ num' = [num EXCEPT ![th] = NoFd]
        BY <3>3 DEF Call, Return
      <3>4. CASE ReadFd(th)
        BY <3>2, <3>4 DEF ReadFd
      <3>5. CASE IoctlCall(th)
        BY <3>5 DEF IoctlCall, CreateChannel, Continue, Return
      <3>6. CASE PollRegister(th)
        BY <3>6 DEF PollRegister, Continue, Return
      <3> QED BY <3>3, <3>4, <3>5, <3>6
    <2> QED BY <1>0, <1>2, <2>1 DEF ThreadTypes
  <1>4. pc[th] \notin {"close", "open"}
    BY DEF Call, ReadFd, IoctlCall, PollRegister
  <1>5. (ThreadTypes /\ ThreadsInv /\ ConnectionInv)'
    BY <1>1, <1>2, <1>3, <1>4, ThreadMoves
  <1>6. BaseInv'
    BY <1>0, <1>1, BaseFrame
  <1> QED BY <1>5, <1>6 DEF UserInv

\* safe_ioctl locks the mutex.
LEMMA LockUser == ASSUME UserInv, NEW th \in Threads, Lock(th) PROVE UserInv'
  <1>1. PICK p \in Pids : p = ProcessOf[th]
    BY UserspaceAssumption
  <1>2. /\ pc[th] = "lock" /\ mtx[p] = NULL
        /\ mtx' = [mtx EXCEPT ![p] = th] /\ pc' = [pc EXCEPT ![th] = "close"]
        /\ UNCHANGED <<alive, used, fdtab, fd, num, mode, private, opening, process_entries,
                       entryRefs, pid>>
    BY <1>1 DEF Lock, Continue, Goto, regVars, fileVars, entryVars
  <1>3. BaseInv'
    BY <1>2, BaseFrame DEF UserInv
  <1>4. ThreadTypes'
    BY <1>2 DEF UserInv, ThreadTypes
  <1>5. /\ mtx'[p] = th /\ \A q \in Pids : q # p => mtx'[q] = mtx[q]
        /\ pc'[th] = "close" /\ \A o \in Threads : o # th => pc'[o] = pc[o]
    BY <1>2 DEF UserInv, ThreadTypes
  <1>6. \A o \in Threads : Polling(o)' <=> Polling(o)
    BY <1>2, <1>5 DEF Polling
  <1>7. alive \subseteq Pids /\ \A o \in Threads : ProcessOf[o] \in Pids /\ o # NULL
    BY UserspaceAssumption DEF UserInv, ThreadTypes
  <1>8. ThreadsInv'
    <2>1. \A o \in Threads : pc'[o] # "idle" => ProcessOf[o] \in alive'
      BY <1>2, <1>5 DEF UserInv, ThreadsInv
    <2>2. \A o \in Threads : pc'[o] \in {"close", "open"} => mtx'[ProcessOf[o]] = o
      BY <1>1, <1>2, <1>5, <1>7 DEF UserInv, ThreadsInv
    <2>3. \A o \in Threads : Polling(o)' =>
             /\ num'[o] \in Fds
             /\ fdtab'[ProcessOf[o]][num'[o]] # NULL
             /\ mode'[fdtab'[ProcessOf[o]][num'[o]]] = "poll"
      BY <1>2, <1>6 DEF UserInv, ThreadsInv
    <2>4. \A x, o \in Threads :
             Polling(x)' /\ Polling(o)' /\ ProcessOf[x] = ProcessOf[o] /\ num'[x] = num'[o] => x = o
      BY <1>2, <1>6 DEF UserInv, ThreadsInv
    <2> QED BY <2>1, <2>2, <2>3, <2>4 DEF ThreadsInv
  <1>9. \A q \in Pids, m \in Fds : Connects(q, m)' <=> Connects(q, m)
    BY <1>2 DEF Connects
  <1>10. \A q \in Pids : Settled(q)' => Settled(q)
    BY <1>1, <1>2, <1>5 DEF Settled
  <1>11. ConnectionInv'
    BY <1>2, <1>5, <1>7, <1>9, <1>10 DEF UserInv, ConnectionInv
  <1> QED BY <1>3, <1>4, <1>8, <1>11 DEF UserInv

\* safe_ioctl closes fd, with the mutex: it is the process's connection, or none.
LEMMA CloseOldUser == ASSUME UserInv, NEW th \in Threads, CloseOld(th) PROVE UserInv'
  <1>1. PICK p \in Pids : p = ProcessOf[th]
    BY UserspaceAssumption
  <1>2. /\ pc[th] = "close" /\ pc' = [pc EXCEPT ![th] = "open"]
        /\ UNCHANGED <<alive, used, fd, mtx, num>>
    BY DEF CloseOld, Continue, Goto
  <1>3. p \in alive /\ mtx[p] = th /\ Settled(p)
    BY <1>1, <1>2 DEF UserInv, ThreadsInv, Settled
  <1>4. \A n \in Fds : Connects(p, n) <=> fd[p] = n
    BY <1>3 DEF UserInv, ConnectionInv
  <1>5. BaseInv' /\ (fd[p] = NoFd \/ (fd[p] \in Fds /\ Keeps(p, fd[p]) /\ fdtab'[p][fd[p]] = NULL))
               /\ (fd[p] = NoFd => UNCHANGED <<fdtab, mode>>)
    <2>1. CASE fd[p] = NoFd
      <3>1. UNCHANGED <<fdtab, mode, private, opening, process_entries, entryRefs, pid>>
        BY <1>1, <2>1 DEF CloseOld, regVars, fileVars, entryVars
      <3> QED BY <1>2, <2>1, <3>1, BaseFrame DEF UserInv
    <2>2. CASE fd[p] # NoFd
      <3>1. PICK n \in Fds : n = fd[p]
        BY <2>2 DEF UserInv, BaseInv, DescriptorTypes
      <3>2. fdtab[p][n] # NULL
        BY <1>4, <3>1 DEF Connects
      <3>3. CloseFd(p, n)
        BY <1>1, <2>2, <3>1, <3>2 DEF CloseOld, Free
      <3> QED BY <1>2, <2>2, <3>1, <3>2, <3>3, CloseFdBase DEF UserInv
    <2> QED BY <2>1, <2>2
  <1>6. ThreadTypes'
    BY <1>2 DEF UserInv, ThreadTypes
  <1>7. pc'[th] = "open" /\ \A o \in Threads : o # th => pc'[o] = pc[o]
    BY <1>2 DEF UserInv, ThreadTypes
  <1>8. \A o \in Threads : Polling(o)' <=> Polling(o)
    BY <1>2, <1>7 DEF Polling
  <1>9. alive \subseteq Pids /\ \A o \in Threads : ProcessOf[o] \in Pids /\ o # NULL
    BY UserspaceAssumption DEF UserInv, ThreadTypes
  <1>10. \A o \in Threads : Polling(o) =>
            /\ fdtab'[ProcessOf[o]][num[o]] # NULL
            /\ mode'[fdtab'[ProcessOf[o]][num[o]]] = "poll"
    <2> SUFFICES ASSUME NEW o \in Threads, Polling(o)
                 PROVE  /\ fdtab'[ProcessOf[o]][num[o]] # NULL
                        /\ mode'[fdtab'[ProcessOf[o]][num[o]]] = "poll"
      OBVIOUS
    <2>1. /\ num[o] \in Fds /\ fdtab[ProcessOf[o]][num[o]] # NULL
          /\ mode[fdtab[ProcessOf[o]][num[o]]] = "poll"
      BY DEF UserInv, ThreadsInv
    <2>2. CASE fd[p] = NoFd
      BY <1>5, <2>1, <2>2
    <2>3. CASE fd[p] # NoFd
      <3>1. ProcessOf[o] = p => num[o] # fd[p]
        BY <1>4, <2>1 DEF Connects
      <3> QED BY <1>5, <2>3, <3>1, OthersKeep
    <2> QED BY <2>2, <2>3
  <1>11. ThreadsInv'
    <2>1. \A o \in Threads : pc'[o] # "idle" => ProcessOf[o] \in alive'
      BY <1>2, <1>7 DEF UserInv, ThreadsInv
    <2>2. \A o \in Threads : pc'[o] \in {"close", "open"} => mtx'[ProcessOf[o]] = o
      BY <1>1, <1>2, <1>7 DEF UserInv, ThreadsInv
    <2>3. \A o \in Threads : Polling(o)' =>
             /\ num'[o] \in Fds
             /\ fdtab'[ProcessOf[o]][num'[o]] # NULL
             /\ mode'[fdtab'[ProcessOf[o]][num'[o]]] = "poll"
      BY <1>2, <1>8, <1>10 DEF UserInv, ThreadsInv
    <2>4. \A x, o \in Threads :
             Polling(x)' /\ Polling(o)' /\ ProcessOf[x] = ProcessOf[o] /\ num'[x] = num'[o] => x = o
      BY <1>2, <1>8 DEF UserInv, ThreadsInv
    <2> QED BY <2>1, <2>2, <2>3, <2>4 DEF ThreadsInv
  <1>12. /\ \A n \in Fds : ~Connects(p, n)'
         /\ \A q \in Pids, m \in Fds : q # p => (Connects(q, m)' <=> Connects(q, m))
    <2>1. CASE fd[p] = NoFd
      BY <1>4, <1>5, <2>1, UserspaceAssumption DEF Connects, NoFd
    <2>2. CASE fd[p] # NoFd
      <3>1. \A q \in Pids, m \in Fds : q # p \/ m # fd[p] => (Connects(q, m)' <=> Connects(q, m))
        BY <1>5, <2>2, OthersKeep
      <3>2. ASSUME NEW n \in Fds, Connects(p, n)' PROVE FALSE
        <4>1. CASE n = fd[p]
          BY <1>2, <1>5, <2>2, <3>2, <4>1 DEF Connects
        <4>2. CASE n # fd[p]
          BY <1>4, <3>1, <3>2, <4>2
        <4> QED BY <4>1, <4>2
      <3> QED BY <3>1, <3>2
    <2> QED BY <2>1, <2>2
  <1>13. ~Settled(p)' /\ \A q \in Pids : Settled(q)' => Settled(q)
    BY <1>2, <1>3, <1>7, <1>9 DEF Settled
  <1>14. \A o \in Threads : pc[o] = "open" => ProcessOf[o] # p
    BY <1>2, <1>3 DEF UserInv, ThreadsInv
  <1>15. ConnectionInv'
    <2>1. \A q \in Pids : \A k, m \in Fds : Connects(q, k)' /\ Connects(q, m)' => k = m
      BY <1>12 DEF UserInv, ConnectionInv
    <2>2. \A q \in alive' : Settled(q)' => \A m \in Fds : Connects(q, m)' <=> fd'[q] = m
      BY <1>2, <1>9, <1>12, <1>13 DEF UserInv, ConnectionInv
    <2>3. \A o \in Threads : pc'[o] = "open" => \A m \in Fds : ~Connects(ProcessOf[o], m)'
      BY <1>1, <1>7, <1>9, <1>12, <1>14 DEF UserInv, ConnectionInv
    <2> QED BY <2>1, <2>2, <2>3 DEF ConnectionInv
  <1> QED BY <1>5, <1>6, <1>11, <1>15 DEF UserInv

\* safe_ioctl opens the driver again and unlocks the mutex.
LEMMA OpenNewUser == ASSUME UserInv, NEW th \in Threads, OpenNew(th) PROVE UserInv'
  <1>1. PICK p \in Pids : p = ProcessOf[th]
    BY UserspaceAssumption
  <1>2. /\ pc[th] = "open" /\ Initialize(p) /\ mtx' = [mtx EXCEPT ![p] = NULL]
        /\ UNCHANGED <<alive, used>>
    BY <1>1 DEF OpenNew
  <1>3. PICK l \in {"idle", "read"} : pc' = [pc EXCEPT ![th] = l]
    BY DEF OpenNew, Return, Goto
  <1>4. num' = num \/ num' = [num EXCEPT ![th] = NoFd]
    BY DEF OpenNew, Return
  <1>5. /\ BaseInv'
        /\ \A q \in Pids : q # p => fd'[q] = fd[q]
        /\ \/ /\ fd'[p] \in Fds /\ fdtab[p][fd'[p]] = NULL
              /\ fdtab'[p][fd'[p]] # NULL /\ mode'[fdtab'[p][fd'[p]]] = "rdwr"
              /\ Keeps(p, fd'[p])
           \/ fd'[p] = NoFd /\ UNCHANGED <<fdtab, regVars>>
    BY <1>2, InitializeBase DEF UserInv
  <1>6. ThreadTypes'
    BY <1>2, <1>3, <1>4 DEF UserInv, ThreadTypes
  <1>7. /\ pc'[th] = l /\ \A o \in Threads : o # th => pc'[o] = pc[o] /\ num'[o] = num[o]
        /\ mtx'[p] = NULL /\ \A q \in Pids : q # p => mtx'[q] = mtx[q]
    BY <1>2, <1>3, <1>4 DEF UserInv, ThreadTypes
  <1>8. p \in alive /\ mtx[p] = th /\ \A n \in Fds : ~Connects(p, n)
    BY <1>1, <1>2 DEF UserInv, ThreadsInv, ConnectionInv
  <1>9. alive \subseteq Pids /\ \A o \in Threads : ProcessOf[o] \in Pids
    BY UserspaceAssumption DEF UserInv, ThreadTypes
  <1>10. \A o \in Threads : Polling(o)' => Polling(o) /\ num'[o] = num[o]
    BY <1>7 DEF Polling
  <1>11. \A o \in Threads : Polling(o) =>
            /\ fdtab'[ProcessOf[o]][num[o]] # NULL
            /\ mode'[fdtab'[ProcessOf[o]][num[o]]] = "poll"
    <2> SUFFICES ASSUME NEW o \in Threads, Polling(o)
                 PROVE  /\ fdtab'[ProcessOf[o]][num[o]] # NULL
                        /\ mode'[fdtab'[ProcessOf[o]][num[o]]] = "poll"
      OBVIOUS
    <2>1. /\ num[o] \in Fds /\ fdtab[ProcessOf[o]][num[o]] # NULL
          /\ mode[fdtab[ProcessOf[o]][num[o]]] = "poll"
      BY DEF UserInv, ThreadsInv
    <2>2. CASE UNCHANGED <<fdtab, regVars>>
      BY <2>1, <2>2 DEF regVars, fileVars
    <2>3. CASE fd'[p] \in Fds /\ fdtab[p][fd'[p]] = NULL /\ Keeps(p, fd'[p])
      <3>1. ProcessOf[o] = p => num[o] # fd'[p]
        BY <2>1, <2>3
      <3> QED BY <2>3, <3>1, OthersKeep
    <2> QED BY <1>5, <2>2, <2>3
  <1>12. ThreadsInv'
    <2>1. \A o \in Threads : pc'[o] # "idle" => ProcessOf[o] \in alive'
      BY <1>1, <1>2, <1>7, <1>8 DEF UserInv, ThreadsInv
    <2>2. \A o \in Threads : pc'[o] \in {"close", "open"} => mtx'[ProcessOf[o]] = o
      BY <1>7, <1>8, <1>9 DEF UserInv, ThreadsInv
    <2>3. \A o \in Threads : Polling(o)' =>
             /\ num'[o] \in Fds
             /\ fdtab'[ProcessOf[o]][num'[o]] # NULL
             /\ mode'[fdtab'[ProcessOf[o]][num'[o]]] = "poll"
      BY <1>10, <1>11 DEF UserInv, ThreadsInv
    <2>4. \A x, o \in Threads :
             Polling(x)' /\ Polling(o)' /\ ProcessOf[x] = ProcessOf[o] /\ num'[x] = num'[o] => x = o
      BY <1>10 DEF UserInv, ThreadsInv
    <2> QED BY <2>1, <2>2, <2>3, <2>4 DEF ThreadsInv
  <1>13. /\ \A n \in Fds : Connects(p, n)' <=> fd'[p] = n
         /\ \A q \in Pids, m \in Fds : q # p => (Connects(q, m)' <=> Connects(q, m))
    <2>1. CASE fd'[p] = NoFd /\ UNCHANGED <<fdtab, regVars>>
      <3>1. UNCHANGED <<fdtab, mode>>
        BY <2>1 DEF regVars, fileVars
      <3>2. \A q \in Pids, m \in Fds : Connects(q, m)' <=> Connects(q, m)
        BY <3>1 DEF Connects
      <3>3. \A m \in Fds : ~Connects(p, m) /\ m # NoFd
        BY <1>8, NoFdFree
      <3> QED BY <2>1, <3>2, <3>3
    <2>2. CASE /\ fd'[p] \in Fds /\ Keeps(p, fd'[p])
               /\ fdtab'[p][fd'[p]] # NULL /\ mode'[fdtab'[p][fd'[p]]] = "rdwr"
      <3>1. \A q \in Pids, m \in Fds : q # p \/ m # fd'[p] => (Connects(q, m)' <=> Connects(q, m))
        BY <2>2, OthersKeep
      <3>2. ASSUME NEW n \in Fds PROVE Connects(p, n)' <=> fd'[p] = n
        <4>1. CASE n = fd'[p]
          BY <2>2, <4>1 DEF Connects
        <4>2. CASE n # fd'[p]
          BY <1>8, <3>1, <4>2
        <4> QED BY <4>1, <4>2
      <3> QED BY <3>1, <3>2
    <2> QED BY <1>5, <2>1, <2>2
  <1>14. \A q \in Pids : q # p /\ Settled(q)' => Settled(q)
    BY <1>3, <1>7 DEF Settled
  <1>15. \A o \in Threads : pc'[o] = "open" => pc[o] = "open" /\ ProcessOf[o] # p
    BY <1>3, <1>7, <1>8 DEF UserInv, ThreadsInv
  <1>16. ConnectionInv'
    <2>1. \A q \in Pids : \A k, m \in Fds : Connects(q, k)' /\ Connects(q, m)' => k = m
      BY <1>13 DEF UserInv, ConnectionInv
    <2>2. \A q \in alive' : Settled(q)' => \A m \in Fds : Connects(q, m)' <=> fd'[q] = m
      BY <1>2, <1>5, <1>9, <1>13, <1>14 DEF UserInv, ConnectionInv
    <2>3. \A o \in Threads : pc'[o] = "open" => \A m \in Fds : ~Connects(ProcessOf[o], m)'
      BY <1>9, <1>13, <1>15 DEF UserInv, ConnectionInv
    <2> QED BY <2>1, <2>2, <2>3 DEF ConnectionInv
  <1> QED BY <1>5, <1>6, <1>12, <1>16 DEF UserInv

\* A process that is about to start does not run, and neither do its threads.
LEMMA NewProcessIsNew ==
    ASSUME UserInv, NEW p \in Pids, NewProcess(p)
    PROVE  /\ p \notin alive /\ alive' = alive \cup {p} /\ used' = used \cup {p}
           /\ \A n \in Fds : fdtab[p][n] = NULL
           /\ \A th \in Threads : ProcessOf[th] = p => pc[th] = "idle"
  BY DEF NewProcess, UserInv, ThreadTypes, ThreadsInv

\* A program starts.
LEMMA StartUser == ASSUME UserInv, NEW p \in Pids, Start(p) PROVE UserInv'
  <1>1. /\ p \notin alive /\ alive' = alive \cup {p} /\ used' = used \cup {p}
        /\ \A n \in Fds : fdtab[p][n] = NULL
        /\ \A th \in Threads : ProcessOf[th] = p => pc[th] = "idle"
    BY NewProcessIsNew DEF Start
  <1>2. Initialize(p) /\ mtx' = [mtx EXCEPT ![p] = NULL] /\ UNCHANGED <<pc, num>>
    BY DEF Start, threadVars
  <1>3. /\ BaseInv'
        /\ \A q \in Pids : q # p => fd'[q] = fd[q]
        /\ \/ /\ fd'[p] \in Fds /\ fdtab[p][fd'[p]] = NULL
              /\ fdtab'[p][fd'[p]] # NULL /\ mode'[fdtab'[p][fd'[p]]] = "rdwr"
              /\ Keeps(p, fd'[p])
           \/ fd'[p] = NoFd /\ UNCHANGED <<fdtab, regVars>>
    BY <1>2, InitializeBase DEF UserInv
  <1>4. ThreadTypes'
    BY <1>1, <1>2 DEF UserInv, ThreadTypes
  <1>5. mtx'[p] = NULL /\ \A q \in Pids : q # p => mtx'[q] = mtx[q]
    BY <1>2 DEF UserInv, ThreadTypes
  <1>6. alive \subseteq Pids /\ \A o \in Threads : ProcessOf[o] \in Pids
    BY UserspaceAssumption DEF UserInv, ThreadTypes
  <1>7. \A o \in Threads : Polling(o)' <=> Polling(o)
    BY <1>2 DEF Polling
  <1>8. \A o \in Threads : Polling(o) =>
           /\ fdtab'[ProcessOf[o]][num[o]] # NULL
           /\ mode'[fdtab'[ProcessOf[o]][num[o]]] = "poll"
    <2> SUFFICES ASSUME NEW o \in Threads, Polling(o)
                 PROVE  /\ fdtab'[ProcessOf[o]][num[o]] # NULL
                        /\ mode'[fdtab'[ProcessOf[o]][num[o]]] = "poll"
      OBVIOUS
    <2>1. ProcessOf[o] # p
      BY <1>1 DEF Polling
    <2>2. CASE UNCHANGED <<fdtab, regVars>>
      BY <2>2 DEF regVars, fileVars, UserInv, ThreadsInv
    <2>3. CASE fd'[p] \in Fds /\ Keeps(p, fd'[p])
      BY <2>1, <2>3, OthersKeep
    <2> QED BY <1>3, <2>2, <2>3
  <1>9. ThreadsInv'
    <2>1. \A o \in Threads : pc'[o] # "idle" => ProcessOf[o] \in alive'
      BY <1>1, <1>2 DEF UserInv, ThreadsInv
    <2>2. \A o \in Threads : pc'[o] \in {"close", "open"} => mtx'[ProcessOf[o]] = o
      BY <1>1, <1>2, <1>5, <1>6 DEF UserInv, ThreadsInv
    <2>3. \A o \in Threads : Polling(o)' =>
             /\ num'[o] \in Fds
             /\ fdtab'[ProcessOf[o]][num'[o]] # NULL
             /\ mode'[fdtab'[ProcessOf[o]][num'[o]]] = "poll"
      BY <1>2, <1>7, <1>8 DEF UserInv, ThreadsInv
    <2>4. \A x, o \in Threads :
             Polling(x)' /\ Polling(o)' /\ ProcessOf[x] = ProcessOf[o] /\ num'[x] = num'[o] => x = o
      BY <1>2, <1>7 DEF UserInv, ThreadsInv
    <2> QED BY <2>1, <2>2, <2>3, <2>4 DEF ThreadsInv
  <1>10. /\ \A n \in Fds : Connects(p, n)' <=> fd'[p] = n
         /\ \A q \in Pids, m \in Fds : q # p => (Connects(q, m)' <=> Connects(q, m))
    <2>1. CASE fd'[p] = NoFd /\ UNCHANGED <<fdtab, regVars>>
      <3>1. UNCHANGED <<fdtab, mode>>
        BY <2>1 DEF regVars, fileVars
      <3>2. \A q \in Pids, m \in Fds : Connects(q, m)' <=> Connects(q, m)
        BY <3>1 DEF Connects
      <3>3. \A m \in Fds : ~Connects(p, m) /\ m # NoFd
        BY <1>1, NoFdFree DEF Connects
      <3> QED BY <2>1, <3>2, <3>3
    <2>2. CASE /\ fd'[p] \in Fds /\ Keeps(p, fd'[p])
               /\ fdtab'[p][fd'[p]] # NULL /\ mode'[fdtab'[p][fd'[p]]] = "rdwr"
      <3>1. \A q \in Pids, m \in Fds : q # p \/ m # fd'[p] => (Connects(q, m)' <=> Connects(q, m))
        BY <2>2, OthersKeep
      <3>2. ASSUME NEW n \in Fds PROVE Connects(p, n)' <=> fd'[p] = n
        <4>1. CASE n = fd'[p]
          BY <2>2, <4>1 DEF Connects
        <4>2. CASE n # fd'[p]
          BY <1>1, <3>1, <4>2 DEF Connects
        <4> QED BY <4>1, <4>2
      <3> QED BY <3>1, <3>2
    <2> QED BY <1>3, <2>1, <2>2
  <1>11. \A q \in Pids : q # p /\ Settled(q)' => Settled(q)
    BY <1>2, <1>5 DEF Settled
  <1>12. \A o \in Threads : pc'[o] = "open" => pc[o] = "open" /\ ProcessOf[o] # p
    BY <1>1, <1>2
  <1>13. ConnectionInv'
    <2>1. \A q \in Pids : \A k, m \in Fds : Connects(q, k)' /\ Connects(q, m)' => k = m
      BY <1>10 DEF UserInv, ConnectionInv
    <2>2. \A q \in alive' : Settled(q)' => \A m \in Fds : Connects(q, m)' <=> fd'[q] = m
      BY <1>1, <1>3, <1>6, <1>10, <1>11 DEF UserInv, ConnectionInv
    <2>3. \A o \in Threads : pc'[o] = "open" => \A m \in Fds : ~Connects(ProcessOf[o], m)'
      BY <1>6, <1>10, <1>12 DEF UserInv, ConnectionInv
    <2> QED BY <2>1, <2>2, <2>3 DEF ConnectionInv
  <1> QED BY <1>3, <1>4, <1>9, <1>13 DEF UserInv

\* A process ends: its threads are gone, its descriptors are still there.
LEMMA ExitUser == ASSUME UserInv, NEW p \in Pids, Exit(p) PROVE UserInv'
  <1>1. /\ alive' = alive \ {p}
        /\ pc' = [th \in Threads |-> IF ProcessOf[th] = p THEN "idle" ELSE pc[th]]
        /\ num' = [th \in Threads |-> IF ProcessOf[th] = p THEN NoFd ELSE num[th]]
        /\ UNCHANGED <<used, fdtab, fd, mtx, mode, private, opening, process_entries,
                       entryRefs, pid>>
    BY DEF Exit, regVars, fileVars, entryVars
  <1>2. BaseInv'
    BY <1>1, BaseFrame DEF UserInv
  <1>3. ThreadTypes'
    BY <1>1 DEF UserInv, ThreadTypes
  <1>4. \A o \in Threads : /\ ProcessOf[o] = p => pc'[o] = "idle"
                           /\ ProcessOf[o] # p => pc'[o] = pc[o] /\ num'[o] = num[o]
    BY <1>1
  <1>5. \A o \in Threads : Polling(o)' => Polling(o) /\ ProcessOf[o] # p
    BY <1>4 DEF Polling
  <1>6. ThreadsInv'
    <2>1. \A o \in Threads : pc'[o] # "idle" => ProcessOf[o] \in alive'
      BY <1>1, <1>4 DEF UserInv, ThreadsInv
    <2>2. \A o \in Threads : pc'[o] \in {"close", "open"} => mtx'[ProcessOf[o]] = o
      BY <1>1, <1>4 DEF UserInv, ThreadsInv
    <2>3. \A o \in Threads : Polling(o)' =>
             /\ num'[o] \in Fds
             /\ fdtab'[ProcessOf[o]][num'[o]] # NULL
             /\ mode'[fdtab'[ProcessOf[o]][num'[o]]] = "poll"
      BY <1>1, <1>4, <1>5 DEF UserInv, ThreadsInv
    <2>4. \A x, o \in Threads :
             Polling(x)' /\ Polling(o)' /\ ProcessOf[x] = ProcessOf[o] /\ num'[x] = num'[o] => x = o
      BY <1>4, <1>5 DEF UserInv, ThreadsInv
    <2> QED BY <2>1, <2>2, <2>3, <2>4 DEF ThreadsInv
  <1>7. alive \subseteq Pids /\ \A o \in Threads : ProcessOf[o] \in Pids
    BY UserspaceAssumption DEF UserInv, ThreadTypes
  <1>8. \A q \in Pids, m \in Fds : Connects(q, m)' <=> Connects(q, m)
    BY <1>1 DEF Connects
  <1>9. \A q \in Pids : Settled(q)' => Settled(q)
    BY <1>1, <1>4 DEF Settled
  <1>10. ConnectionInv'
    BY <1>1, <1>4, <1>7, <1>8, <1>9 DEF UserInv, ConnectionInv
  <1> QED BY <1>2, <1>3, <1>6, <1>10 DEF UserInv

\* A process forks; the copy of a locked mutex has no owner in the child.
LEMMA ForkUser ==
    ASSUME UserInv, NEW th \in Threads, NEW q \in Pids, Fork(th, q) PROVE UserInv'
  <1>1. PICK p \in Pids : p = ProcessOf[th]
    BY UserspaceAssumption
  <1>2. /\ q \notin alive /\ alive' = alive \cup {q} /\ used' = used \cup {q}
        /\ \A n \in Fds : fdtab[q][n] = NULL
        /\ \A o \in Threads : ProcessOf[o] = q => pc[o] = "idle"
    BY NewProcessIsNew DEF Fork
  <1>3. /\ p \in alive
        /\ fdtab' = [fdtab EXCEPT ![q] = fdtab[p]] /\ fd' = [fd EXCEPT ![q] = fd[p]]
        /\ mtx' = [mtx EXCEPT ![q] = IF mtx[p] = NULL THEN NULL ELSE "orphan"]
        /\ UNCHANGED <<regVars, pc, num>>
    BY <1>1 DEF Fork, threadVars
  <1>4. /\ BaseInv'
        /\ \A n \in Fds : fdtab'[q][n] = fdtab[p][n]
        /\ \A r \in Pids, n \in Fds : r # q => fdtab'[r][n] = fdtab[r][n]
    BY <1>2, <1>3, ForkBase DEF UserInv
  <1>5. ThreadTypes'
    BY <1>2, <1>3 DEF UserInv, ThreadTypes
  <1>6. /\ mtx'[q] = (IF mtx[p] = NULL THEN NULL ELSE "orphan")
        /\ \A r \in Pids : r # q => mtx'[r] = mtx[r] /\ fd'[r] = fd[r]
        /\ fd'[q] = fd[p] /\ UNCHANGED mode
    BY <1>3 DEF UserInv, ThreadTypes, BaseInv, DescriptorTypes, regVars, fileVars
  <1>7. alive \subseteq Pids /\ NULL # "orphan"
        /\ \A o \in Threads : ProcessOf[o] \in Pids /\ o # "orphan"
    BY UserspaceAssumption DEF UserInv, ThreadTypes
  <1>8. \A o \in Threads : Polling(o)' => Polling(o) /\ ProcessOf[o] # q
    BY <1>2, <1>3 DEF Polling
  <1>9. ThreadsInv'
    <2>1. \A o \in Threads : pc'[o] # "idle" => ProcessOf[o] \in alive'
      BY <1>2, <1>3 DEF UserInv, ThreadsInv
    <2>2. \A o \in Threads : pc'[o] \in {"close", "open"} => mtx'[ProcessOf[o]] = o
      BY <1>2, <1>3, <1>6, <1>7 DEF UserInv, ThreadsInv
    <2>3. \A o \in Threads : Polling(o)' =>
             /\ num'[o] \in Fds
             /\ fdtab'[ProcessOf[o]][num'[o]] # NULL
             /\ mode'[fdtab'[ProcessOf[o]][num'[o]]] = "poll"
      BY <1>3, <1>4, <1>6, <1>7, <1>8 DEF UserInv, ThreadsInv
    <2>4. \A x, o \in Threads :
             Polling(x)' /\ Polling(o)' /\ ProcessOf[x] = ProcessOf[o] /\ num'[x] = num'[o] => x = o
      BY <1>3, <1>8 DEF UserInv, ThreadsInv
    <2> QED BY <2>1, <2>2, <2>3, <2>4 DEF ThreadsInv
  <1>10. /\ \A n \in Fds : Connects(q, n)' <=> Connects(p, n)
         /\ \A r \in Pids, n \in Fds : r # q => (Connects(r, n)' <=> Connects(r, n))
    BY <1>4, <1>6 DEF Connects
  <1>11. /\ \A r \in Pids : r # q /\ Settled(r)' => Settled(r)
         /\ Settled(q)' => Settled(p)
    <2>1. ASSUME NEW r \in Pids, r # q, Settled(r)' PROVE Settled(r)
      BY <1>3, <1>6, <2>1 DEF Settled
    <2>2. ASSUME Settled(q)' PROVE mtx[p] = NULL
      BY <1>2, <1>3, <1>6, <1>7, <2>2 DEF Settled
    <2> QED BY <2>1, <2>2 DEF Settled
  <1>12. ConnectionInv'
    <2>1. \A r \in Pids : \A k, m \in Fds : Connects(r, k)' /\ Connects(r, m)' => k = m
      BY <1>10 DEF UserInv, ConnectionInv
    <2>2. \A r \in alive' : Settled(r)' => \A m \in Fds : Connects(r, m)' <=> fd'[r] = m
      BY <1>2, <1>3, <1>6, <1>7, <1>10, <1>11 DEF UserInv, ConnectionInv
    <2>3. \A o \in Threads : pc'[o] = "open" => \A m \in Fds : ~Connects(ProcessOf[o], m)'
      BY <1>2, <1>3, <1>7, <1>10 DEF UserInv, ConnectionInv
    <2> QED BY <2>1, <2>2, <2>3 DEF ConnectionInv
  <1> QED BY <1>4, <1>5, <1>9, <1>12 DEF UserInv

\* Nothing runs at the start.
LEMMA InitUser == Init => UserInv
  <1> SUFFICES ASSUME Init PROVE UserInv
    OBVIOUS
  <1>1. EntryInv /\ RegisterInv
    BY InitEntryInv, InitRegister DEF Init
  <1>2. mode = [f \in Files |-> "none"] /\ opening = [f \in Files |-> NULL]
    BY DEF Init, RegInit
  <1>3. fdtab = [p \in Pids |-> [n \in Fds |-> NULL]]
    BY DEF Init
  <1>4. DescriptorTypes /\ DescriptorsInv
    BY <1>2, <1>3, RegistryAssumption DEF Init, DescriptorTypes, DescriptorsInv
  <1>5. ThreadTypes /\ ThreadsInv
    BY DEF Init, ThreadTypes, ThreadsInv, Polling
  <1>6. ConnectionInv
    <2>1. \A p \in Pids, n \in Fds : ~Connects(p, n)
      BY <1>3 DEF Connects
    <2>2. alive = {} /\ \A th \in Threads : pc[th] # "open" /\ ProcessOf[th] \in Pids
      BY UserspaceAssumption DEF Init
    <2> QED BY <2>1, <2>2 DEF ConnectionInv
  <1> QED BY <1>1, <1>4, <1>5, <1>6 DEF UserInv, BaseInv

\* Every step keeps the connections in order.
LEMMA NextUser == UserInv /\ [Next]_vars => UserInv'
  <1> SUFFICES ASSUME UserInv, [Next]_vars PROVE UserInv'
    OBVIOUS
  <1>1. CASE UNCHANGED vars
    <2>1. UNCHANGED <<alive, used, fdtab, fd, mtx, pc, num, mode, private, opening,
                      process_entries, entryRefs, pid>>
      BY <1>1 DEF vars, procVars, threadVars, regVars, fileVars, entryVars
    <2>2. BaseInv'
      BY <2>1, BaseFrame DEF UserInv
    <2>3. ThreadTypes' /\ ThreadsInv'
      BY <2>1 DEF UserInv, ThreadTypes, ThreadsInv, Polling
    <2>4. ConnectionInv'
      BY <2>1 DEF UserInv, ConnectionInv, Connects, Settled
    <2> QED BY <2>2, <2>3, <2>4 DEF UserInv
  <1>2. ASSUME NEW th \in Threads, Step(th) PROVE UserInv'
    BY <1>2, CallUser, LockUser, CloseOldUser, OpenNewUser, PollCloseUser DEF Step
  <1>3. ASSUME NEW p \in Pids, Start(p) \/ Exit(p) PROVE UserInv'
    BY <1>3, StartUser, ExitUser
  <1>4. ASSUME NEW th \in Threads,
               \/ \E q \in Pids : Fork(th, q)
               \/ \E c \in Cmd : Call(th, c)
               \/ MsgReceivePollFd(th)
               \/ \E n \in Fds : UserClose(th, n)
        PROVE  UserInv'
    BY <1>4, ForkUser, CallUser, PollFdUser, UserCloseUser
  <1> QED BY <1>1, <1>2, <1>3, <1>4, ExitCloseUser DEF Next

\* The user space library keeps fd, descriptors, files and mutex in order, however
\* many threads reconnect, fork or end.
THEOREM UserspaceInvariant == Spec => []UserInv
  BY InitUser, NextUser, PTL DEF Spec

\* A process never holds two connections to the driver, however many of its threads
\* run through safe_ioctl at the same time.
THEOREM UserspaceOneConnection == Spec => []OneConnection
  <1>1. UserInv => OneConnection
    <2> SUFFICES ASSUME UserInv, NEW p \in Pids
                 PROVE  Cardinality({n \in Fds \ Free(p) : mode[fdtab[p][n]] = "rdwr"}) <= 1
      BY DEF OneConnection
    <2> DEFINE S == {n \in Fds \ Free(p) : mode[fdtab[p][n]] = "rdwr"}
    <2>1. \A m, n \in S : m = n
      BY DEF UserInv, ConnectionInv, Connects, Free
    <2> HIDE DEF S
    <2>2. CASE S = {}
      BY <2>2, FS_EmptySet DEF S
    <2>3. CASE S # {}
      <3>1. PICK x : S = {x}
        BY <2>1, <2>3
      <3>2. Cardinality({x}) = 1
        BY FS_Singleton
      <3> QED BY <3>1, <3>2 DEF S
    <2> QED BY <2>2, <2>3
  <1> QED BY <1>1, UserspaceInvariant, PTL

\* A process that has ended is in the driver's list only while another process has the
\* descriptor it inherited.
THEOREM UserspaceForgotten == Spec => []ForgottenUnlessShared
  <1>1. UserInv => ForgottenUnlessShared
    <2> SUFFICES ASSUME UserInv, NEW p \in Pids \ alive, ProcessAvailable(p)
                 PROVE  \E q \in Pids, n \in Fds :
                           /\ fdtab[q][n] # NULL
                           /\ mode[fdtab[q][n]] = "rdwr"
                           /\ private[fdtab[q][n]] = FindProcess(p)
      BY DEF ForgottenUnlessShared
    <2>0. FileTypes /\ OwnersInv
      BY DEF UserInv, BaseInv, EntryInv, RegisterInv
    <2>1. FindProcess(p) \in ToSet(process_entries)
      <3>1. Min(PlacesOf(p)) \in DOMAIN process_entries
        BY <2>0, FirstPlace, LenProperties DEF FileTypes
      <3> QED BY <3>1 DEF FindProcess, ToSet
    <2>2. PICK f \in Files : mode[f] = "rdwr" /\ private[f] = FindProcess(p)
      BY <2>0, <2>1 DEF OwnersInv
    <2>3. PICK q \in Pids, n \in Fds : fdtab[q][n] = f
      BY <2>2 DEF UserInv, BaseInv, DescriptorsInv
    <2> QED BY <2>2, <2>3, RegistryAssumption
  <1> QED BY <1>1, UserspaceInvariant, PTL

-------------------------------------------------------------------------------
(* One thread in each process, memory for every entry, pids that are not   *)
(* used again, and servers that do not answer ENOSPC themselves: what the  *)
(* transparency of the reconnect rests on.                                 *)

Alone ==
    /\ \A th, o \in Threads : ProcessOf[th] = ProcessOf[o] => th = o
    /\ ~OpenMayFail /\ ~ReusePids /\ ~ServersSayENOSPC

\* The library's connection is to the process's own entry.
Own(p) == \E n \in Fds : fd[p] = n /\ Connects(p, n) /\ pid[private[fdtab[p][n]]] = p

CallTypes ==
    /\ tries \in [Threads -> 0..1]
    /\ ret \in [Threads -> {"OK", "EMFILE", "ENOMEM", "EBADF", "ENOTTY", "ENOSPC", "ESRCH",
                            "coid_EBADF"}]

\* An entry belongs to a process that was started or forked, and while that runs its
\* fd is the connection to this entry.
OwnersRun ==
    /\ \A e \in Entries : pid[e] # NULL => pid[e] \in used
    /\ \A p \in alive : \A e \in Entries : pid[e] = p => Own(p)

\* A mutex that is locked has its owner in the process.
MutexOwned ==
    \A p \in alive : mtx[p] # NULL =>
        \E th \in Threads : ProcessOf[th] = p /\ mtx[p] = th /\ pc[th] \in {"close", "open"}

\* A thread in safe_ioctl: fd is open except between close and open, the descriptor it
\* has read is still fd, it reconnects only while the connection is not its own, and
\* once it has, the connection is its own.
CallOK(th) ==
    /\ pc[th] \in {"read", "ioctl", "lock", "close"} => fd[ProcessOf[th]] # NoFd
    /\ pc[th] = "ioctl" => num[th] = fd[ProcessOf[th]]
    /\ pc[th] = "open" =>
          \E n \in Fds : fd[ProcessOf[th]] = n /\ fdtab[ProcessOf[th]][n] = NULL
    /\ pc[th] \in {"lock", "close", "open"} => ~Own(ProcessOf[th])
    /\ tries[th] = 1 => pc[th] # "idle" /\ Own(ProcessOf[th])

AloneInv ==
    /\ CallTypes /\ OwnersRun /\ MutexOwned
    /\ \A th \in Threads : CallOK(th)
    /\ ReconnectTransparent

\* Channel k of process p, in the entry its connection refers to.
Made(p, k) ==
    \E n \in Fds : /\ fd[p] = n /\ Connects(p, n) /\ pid[private[fdtab[p][n]]] = p
                   /\ \E c \in channels[private[fdtab[p][n]]] : chid[c] = k

SurviveInv ==
    /\ made \in [Pids -> SUBSET Nat]
    /\ \A p \in alive : \A k \in made[p] : Made(p, k)

\* All descriptors but n of process p keep their entry, and it its process and its
\* channels.
KeepsEntry(p, n) ==
    \A q \in Pids, m \in Fds : (q # p \/ m # n) /\ fdtab[q][m] # NULL =>
        /\ private'[fdtab[q][m]] = private[fdtab[q][m]]
        /\ private[fdtab[q][m]] # NULL =>
              /\ pid'[private[fdtab[q][m]]] = pid[private[fdtab[q][m]]]
              /\ channels'[private[fdtab[q][m]]] = channels[private[fdtab[q][m]]]

\* initialize(): a new connection is to an entry of the process itself; and when there
\* is none, the process was in the list, or had no descriptor left, or no memory.
LEMMA InitializeOwn ==
    ASSUME UserInv, NEW p \in Pids, Initialize(p)
    PROVE  \/ /\ fd'[p] \in Fds /\ KeepsEntry(p, fd'[p])
              /\ pid'[private'[fdtab'[p][fd'[p]]]] = p
              /\ \A e \in Entries : pid'[e] = pid[e] \/ pid'[e] = p
           \/ /\ fd'[p] = NoFd /\ UNCHANGED <<fdtab, regVars>>
              /\ ProcessAvailable(p) \/ Free(p) = {} \/ OpenMayFail
  <1>0. DescriptorTypes /\ DescriptorsInv /\ EntryInv /\ RegisterInv
    BY DEF UserInv, BaseInv
  <1>1. ASSUME Free(p) # {}, fd' = [fd EXCEPT ![p] = Min(Free(p))],
               NEW f \in Files, mode[f] = "none", AddProcess(p, f),
               fdtab' = [fdtab EXCEPT ![p][Min(Free(p))] = f]
        PROVE  /\ fd'[p] \in Fds /\ KeepsEntry(p, fd'[p])
               /\ pid'[private'[fdtab'[p][fd'[p]]]] = p
               /\ \A e \in Entries : pid'[e] = pid[e] \/ pid'[e] = p
    <2>1. PICK n \in Fds : n = Min(Free(p)) /\ fdtab[p][n] = NULL
      BY <1>1, LowestFree
    <2>2. fd'[p] = n /\ fdtab'[p][n] = f
      BY <1>0, <1>1, <2>1 DEF DescriptorTypes
    <2>3. PICK e \in Entries : /\ entryRefs[e] = 0
                               /\ pid' = [pid EXCEPT ![e] = p]
                               /\ private' = [private EXCEPT ![f] = e]
                               /\ UNCHANGED channels
      BY <1>1 DEF AddProcess
    <2>4. private'[f] = e /\ \A g \in Files : g # f => private'[g] = private[g]
      BY <1>0, <2>3 DEF EntryInv, FileTypes
    <2>5. pid'[e] = p /\ \A x \in Entries : x # e => pid'[x] = pid[x]
      BY <1>0, <2>3 DEF RegisterInv, ListInv
    <2>6. \A g \in Files : private[g] # e
      <3>1. Cardinality(FilesOf(e)) = 0
        BY <1>0, <2>3 DEF EntryInv, EntryRefsExact
      <3>2. FilesOf(e) = {}
        BY <3>1, FilesOfFinite, FS_EmptySet
      <3> QED BY <3>2 DEF FilesOf
    <2>7. KeepsEntry(p, n)
      <3> SUFFICES ASSUME NEW q \in Pids, NEW m \in Fds, fdtab[q][m] # NULL
                   PROVE  /\ private'[fdtab[q][m]] = private[fdtab[q][m]]
                          /\ private[fdtab[q][m]] # NULL =>
                                /\ pid'[private[fdtab[q][m]]] = pid[private[fdtab[q][m]]]
                                /\ channels'[private[fdtab[q][m]]] = channels[private[fdtab[q][m]]]
        BY DEF KeepsEntry
      <3>1. PICK g \in Files : g = fdtab[q][m] /\ g # f
        BY <1>0, <1>1, OpenFile DEF UserInv
      <3>2. private[g] \in Entries \cup {NULL}
        BY <1>0 DEF EntryInv, FileTypes
      <3> QED BY <2>3, <2>4, <2>5, <2>6, <3>1, <3>2
    <2> QED BY <2>2, <2>4, <2>5, <2>7
  <1>2. fd' = [fd EXCEPT ![p] = NoFd] => fd'[p] = NoFd
    BY <1>0 DEF DescriptorTypes
  <1> QED BY <1>1, <1>2 DEF Initialize

\* qnxcomm_close frees no entry that another file refers to.
LEMMA ReleaseKeepsEntry ==
    ASSUME EntryInv, RegisterInv, ChannelTypes, NEW f \in Files, Release(f)
    PROVE  /\ \A e \in Entries : pid'[e] = pid[e] \/ pid'[e] = NULL
           /\ \A g \in Files : g # f =>
                 /\ private'[g] = private[g]
                 /\ private[g] # NULL =>
                       /\ pid'[private[g]] = pid[private[g]]
                       /\ channels'[private[g]] = channels[private[g]]
  <1>1. \A g \in Files : g # f => private'[g] = private[g]
    BY DEF Release, EntryInv, FileTypes
  <1>2. CASE private[f] = NULL
    <2>1. UNCHANGED <<pid, channels>>
      BY <1>2 DEF Release, entryVars
    <2> QED BY <1>1, <2>1
  <1>3. CASE private[f] # NULL
    <2>1. PICK e \in Entries : e = private[f] /\ EntryPut(e)
      BY <1>3 DEF Release, EntryInv, FileTypes
    <2>2. /\ \A x \in Entries : x # e => pid'[x] = pid[x] /\ channels'[x] = channels[x]
          /\ \/ pid'[e] = pid[e] /\ channels'[e] = channels[e]
             \/ pid'[e] = NULL /\ entryRefs[e] = 1
      BY <2>1 DEF EntryPut, RegisterInv, ListInv, ChannelTypes
    <2>3. ASSUME NEW g \in Files, g # f, private[g] = e PROVE entryRefs[e] # 1
      <3> SUFFICES ASSUME entryRefs[e] = 1 PROVE FALSE
        OBVIOUS
      <3>1. f \in FilesOf(e) /\ g \in FilesOf(e)
        BY <2>1, <2>3 DEF FilesOf
      <3>2. Cardinality(FilesOf(e)) = 1
        BY DEF EntryInv, EntryRefsExact
      <3> QED BY <2>3, <3>1, <3>2, FilesOfFinite, FS_Singleton
    <2>4. \A g \in Files : private[g] # NULL => private[g] \in Entries
      BY DEF EntryInv, FileTypes
    <2> QED BY <1>1, <2>2, <2>3, <2>4
  <1> QED BY <1>2, <1>3

\* close
LEMMA CloseFdOwn ==
    ASSUME UserInv, ChannelTypes, NEW p \in Pids, NEW n \in Fds, fdtab[p][n] # NULL, CloseFd(p, n)
    PROVE  /\ KeepsEntry(p, n)
           /\ \A e \in Entries : pid'[e] = pid[e] \/ pid'[e] = NULL
  <1>0. EntryInv /\ RegisterInv
    BY DEF UserInv, BaseInv
  <1>1. PICK f \in Files : f = fdtab[p][n]
    BY OpenFile DEF UserInv
  <1>2. CASE Refs(f) = {<<p, n>>}
    <2>1. Release(f)
      BY <1>1, <1>2 DEF CloseFd
    <2>2. \A q \in Pids, m \in Fds : q # p \/ m # n => fdtab[q][m] # f
      <3> SUFFICES ASSUME NEW q \in Pids, NEW m \in Fds, fdtab[q][m] = f PROVE q = p /\ m = n
        OBVIOUS
      <3>1. <<q, m>> \in Refs(f)
        BY DEF Refs
      <3> QED BY <1>2, <3>1
    <2>3. \A q \in Pids, m \in Fds : fdtab[q][m] # NULL => fdtab[q][m] \in Files
      BY OpenFile DEF UserInv
    <2> QED BY <1>0, <2>1, <2>2, <2>3, ReleaseKeepsEntry DEF KeepsEntry
  <1>3. CASE Refs(f) # {<<p, n>>}
    <2>1. UNCHANGED <<private, pid, channels>>
      BY <1>1, <1>3 DEF CloseFd, regVars, fileVars, entryVars
    <2> QED BY <2>1 DEF KeepsEntry
  <1> QED BY <1>2, <1>3

\* Connections other than the descriptor that changes stay what they are.
LEMMA OwnKept ==
    ASSUME UserInv, NEW p \in Pids, NEW n \in Fds, Keeps(p, n), KeepsEntry(p, n),
           NEW q \in Pids, fd'[q] = fd[q], q # p \/ fd[q] # n
    PROVE  Own(q)' <=> Own(q)
  <1>1. ASSUME NEW m \in Fds, fd[q] = m
        PROVE  /\ Connects(q, m)' <=> Connects(q, m)
               /\ Connects(q, m) => (pid'[private'[fdtab'[q][m]]] = q <=> pid[private[fdtab[q][m]]] = q)
    <2>1. Connects(q, m)' <=> Connects(q, m)
      BY <1>1, OthersKeep
    <2>2. ASSUME Connects(q, m)
          PROVE  pid'[private'[fdtab'[q][m]]] = pid[private[fdtab[q][m]]]
      <3>1. PICK f \in Files : f = fdtab[q][m] /\ f = fdtab'[q][m] /\ mode[f] = "rdwr" /\ f # NULL
        BY <1>1, <2>2, OpenFile DEF Keeps, Connects, UserInv
      <3>2. private[f] # NULL
        BY <3>1 DEF UserInv, BaseInv, RegisterInv, OwnersInv
      <3>3. q # p \/ m # n
        BY <1>1
      <3>4. private'[f] = private[f] /\ pid'[private[f]] = pid[private[f]]
        BY <3>1, <3>2, <3>3 DEF KeepsEntry
      <3> QED BY <3>1, <3>4
    <2> QED BY <2>1, <2>2
  <1> QED BY <1>1 DEF Own

\* The steps that change no descriptor, file or entry.
LEMMA OwnFrame ==
    ASSUME UNCHANGED <<fdtab, fd, mode, private, pid>> PROVE \A p : Own(p)' <=> Own(p)
  BY DEF Own, Connects

\* A call that is not touched goes on as it was.
LEMMA CallKept ==
    ASSUME NEW th \in Threads, CallOK(th),
           pc'[th] = pc[th], num'[th] = num[th], tries'[th] = tries[th],
           fd'[ProcessOf[th]] = fd[ProcessOf[th]],
           Own(ProcessOf[th])' <=> Own(ProcessOf[th]),
           pc[th] = "open" =>
              \A n \in Fds : fdtab'[ProcessOf[th]][n] = fdtab[ProcessOf[th]][n]
    PROVE  CallOK(th)'
  BY DEF CallOK

\* While fd is settled and the process has a connection, it is fd.
LEMMA FdConnects ==
    ASSUME UserInv, AloneInv, NEW th \in Threads, NEW p \in Pids, p = ProcessOf[th],
           pc[th] \in {"read", "ioctl", "lock", "close"}, Alone
    PROVE  /\ p \in alive
           /\ \E n \in Fds : /\ fd[p] = n /\ Connects(p, n)
                             /\ \E f \in Files : f = fdtab[p][n] /\ private[f] \in Entries
  <1>1. p \in alive /\ fd[p] # NoFd
    BY DEF UserInv, ThreadsInv, AloneInv, CallOK
  <1>2. Settled(p)
    <2>1. CASE mtx[p] = NULL
      BY <2>1 DEF Settled
    <2>2. CASE mtx[p] # NULL
      <3>1. PICK o \in Threads : ProcessOf[o] = p /\ mtx[p] = o /\ pc[o] \in {"close", "open"}
        BY <1>1, <2>2 DEF AloneInv, MutexOwned
      <3>2. o = th
        BY <3>1 DEF Alone
      <3> QED BY <3>1, <3>2 DEF Settled
    <2> QED BY <2>1, <2>2
  <1>3. PICK n \in Fds : n = fd[p]
    BY <1>1 DEF UserInv, BaseInv, DescriptorTypes
  <1>4. Connects(p, n)
    BY <1>1, <1>2, <1>3 DEF UserInv, ConnectionInv
  <1>5. PICK f \in Files : f = fdtab[p][n] /\ mode[f] = "rdwr"
    BY <1>4, OpenFile DEF Connects, UserInv
  <1>6. private[f] \in Entries
    BY <1>5 DEF UserInv, BaseInv, RegisterInv, OwnersInv, EntryInv, FileTypes
  <1> QED BY <1>1, <1>3, <1>4, <1>5, <1>6

\* All threads but th stay where they are.
OthersStay(th) ==
    \A o \in Threads : o # th =>
        pc'[o] = pc[o] /\ num'[o] = num[o] /\ tries'[o] = tries[o] /\ ret'[o] = ret[o]

\* A call returns.
LEMMA ReturnOK ==
    ASSUME ThreadTypes, CallTypes, NEW th \in Threads, NEW r, Return(th, r),
           r \in {"OK", "EMFILE", "ENOMEM", "ENOTTY", "ESRCH", "coid_EBADF"}
    PROVE  /\ CallTypes' /\ OthersStay(th) /\ CallOK(th)' /\ pc'[th] = "idle"
           /\ ret'[th] \notin {"ENOSPC", "EBADF"}
  <1>1. /\ pc' = [pc EXCEPT ![th] = "idle"] /\ ret' = [ret EXCEPT ![th] = r]
        /\ num' = [num EXCEPT ![th] = NoFd] /\ tries' = [tries EXCEPT ![th] = 0]
    BY DEF Return, Goto
  <1>2. CallTypes' /\ OthersStay(th) /\ pc'[th] = "idle" /\ ret'[th] = r /\ tries'[th] = 0
    BY <1>1 DEF ThreadTypes, CallTypes, OthersStay
  <1>3. CallOK(th)'
    BY <1>2 DEF CallOK
  <1> QED BY <1>2, <1>3

\* A call goes on.
LEMMA ContinueOK ==
    ASSUME ThreadTypes, CallTypes, NEW th \in Threads, NEW l, Continue(th, l)
    PROVE  /\ CallTypes' /\ OthersStay(th) /\ pc'[th] = l
           /\ UNCHANGED <<num, tries, ret>>
  BY DEF Continue, Goto, ThreadTypes, CallTypes, OthersStay

\* An idle thread is in no call.
LEMMA IdleOK ==
    ASSUME NEW th \in Threads, CallOK(th), pc[th] = "idle", pc'[th] = "idle",
           tries'[th] = tries[th]
    PROVE  CallOK(th)'
  BY DEF CallOK

\* A step of one process, p, that leaves the connections of all others alone.
LEMMA AloneStep ==
    ASSUME UserInv, AloneInv, Alone, NEW p \in Pids, CallTypes',
           \A o \in Threads : ProcessOf[o] # p =>
              pc'[o] = pc[o] /\ num'[o] = num[o] /\ tries'[o] = tries[o] /\ ret'[o] = ret[o],
           \A o \in Threads : ProcessOf[o] = p =>
              CallOK(o)' /\ ret'[o] \notin {"ENOSPC", "EBADF"},
           \A q \in alive' : q # p => q \in alive,
           used \subseteq used', alive' \subseteq Pids,
           \A q \in Pids : q # p =>
              /\ mtx'[q] = mtx[q] /\ fd'[q] = fd[q] /\ (Own(q)' <=> Own(q))
              /\ \A n \in Fds : fdtab'[q][n] = fdtab[q][n],
           p \in alive' /\ mtx'[p] # NULL =>
              \E th \in Threads :
                 ProcessOf[th] = p /\ mtx'[p] = th /\ pc'[th] \in {"close", "open"},
           \A e \in Entries : \/ pid'[e] = pid[e] \/ pid'[e] = NULL
                              \/ pid'[e] = p /\ p \in used',
           p \in alive' /\ (\E e \in Entries : pid'[e] = p) => Own(p)'
    PROVE  AloneInv'
  <1>1. \A o \in Threads : ProcessOf[o] \in Pids
    BY UserspaceAssumption
  <1>2. \A o \in Threads : CallOK(o)'
    <2> SUFFICES ASSUME NEW o \in Threads, ProcessOf[o] # p PROVE CallOK(o)'
      OBVIOUS
    <2>1. CallOK(o)
      BY DEF AloneInv
    <2> QED BY <1>1, <2>1, CallKept
  <1>3. ReconnectTransparent'
    BY DEF AloneInv, ReconnectTransparent
  <1>4. MutexOwned'
    <2> SUFFICES ASSUME NEW q \in alive', mtx'[q] # NULL, q # p
                 PROVE  \E th \in Threads :
                           ProcessOf[th] = q /\ mtx'[q] = th /\ pc'[th] \in {"close", "open"}
      BY DEF MutexOwned
    <2>1. q \in alive /\ mtx'[q] = mtx[q]
      OBVIOUS
    <2>2. PICK th \in Threads : ProcessOf[th] = q /\ mtx[q] = th /\ pc[th] \in {"close", "open"}
      BY <2>1 DEF AloneInv, MutexOwned
    <2> QED BY <2>1, <2>2
  <1>5. OwnersRun'
    <2>1. ASSUME NEW e \in Entries, pid'[e] # NULL PROVE pid'[e] \in used'
      BY <2>1 DEF AloneInv, OwnersRun
    <2>2. ASSUME NEW q \in alive', NEW e \in Entries, pid'[e] = q PROVE Own(q)'
      <3>1. CASE q = p
        BY <2>2, <3>1
      <3>2. CASE q # p
        <4>1. q \in alive /\ q \in Pids
          BY <3>2
        <4>2. pid[e] = q
          BY <2>2, <3>2, <4>1, RegistryAssumption
        <4> QED BY <3>2, <4>1, <4>2 DEF AloneInv, OwnersRun
      <3> QED BY <3>1, <3>2
    <2> QED BY <2>1, <2>2 DEF OwnersRun
  <1> QED BY <1>2, <1>3, <1>4, <1>5 DEF AloneInv

\* A step of a thread, which is the only one of its process.
LEMMA AloneThread ==
    ASSUME UserInv, AloneInv, Alone, NEW th \in Threads, NEW p \in Pids, p = ProcessOf[th],
           p \in alive, CallTypes', OthersStay(th), CallOK(th)',
           ret'[th] \notin {"ENOSPC", "EBADF"}, UNCHANGED <<alive, used>>,
           \A q \in Pids : q # p =>
              /\ mtx'[q] = mtx[q] /\ fd'[q] = fd[q] /\ (Own(q)' <=> Own(q))
              /\ \A n \in Fds : fdtab'[q][n] = fdtab[q][n],
           mtx'[p] # NULL => mtx'[p] = th /\ pc'[th] \in {"close", "open"},
           \A e \in Entries : pid'[e] = pid[e] \/ pid'[e] = NULL \/ pid'[e] = p,
           (\E e \in Entries : pid'[e] = p) => Own(p)'
    PROVE  AloneInv'
  <1>1. alive \subseteq used /\ used \subseteq Pids
    BY DEF UserInv, ThreadTypes
  <1>2. \A o \in Threads : ProcessOf[o] = p => o = th
    BY DEF Alone
  <1>3. \A o \in Threads : ProcessOf[o] # p =>
           pc'[o] = pc[o] /\ num'[o] = num[o] /\ tries'[o] = tries[o] /\ ret'[o] = ret[o]
    BY DEF OthersStay
  <1> QED BY <1>1, <1>2, <1>3, AloneStep

\* The mutex of a process is free unless its thread reconnects.
LEMMA MutexFree ==
    ASSUME AloneInv, Alone, NEW th \in Threads, ProcessOf[th] \in alive,
           pc[th] \notin {"close", "open"}
    PROVE  mtx[ProcessOf[th]] = NULL
  <1> SUFFICES ASSUME mtx[ProcessOf[th]] # NULL PROVE FALSE
    OBVIOUS
  <1>1. PICK o \in Threads : ProcessOf[o] = ProcessOf[th] /\ pc[o] \in {"close", "open"}
    BY DEF AloneInv, MutexOwned
  <1> QED BY <1>1 DEF Alone

\* A step of a thread that changes no descriptor and no file.
LEMMA AloneFrame ==
    ASSUME UserInv, AloneInv, Alone, NEW th \in Threads, ProcessOf[th] \in alive,
           CallTypes', OthersStay(th), CallOK(th)', ret'[th] \notin {"ENOSPC", "EBADF"},
           UNCHANGED <<alive, used, fdtab, fd, mode, private, pid>>,
           \/ UNCHANGED mtx /\ pc[th] \notin {"close", "open"}
           \/ mtx' = [mtx EXCEPT ![ProcessOf[th]] = th] /\ pc'[th] = "close"
    PROVE  AloneInv'
  <1>1. PICK p \in Pids : p = ProcessOf[th]
    BY UserspaceAssumption
  <1>2. \A q : Own(q)' <=> Own(q)
    BY OwnFrame
  <1>3. (\E e \in Entries : pid'[e] = p) => Own(p)'
    BY <1>1, <1>2 DEF AloneInv, OwnersRun
  <1>4. /\ \A q \in Pids : q # p => mtx'[q] = mtx[q]
        /\ mtx'[p] # NULL => mtx'[p] = th /\ pc'[th] \in {"close", "open"}
    BY <1>1, MutexFree DEF UserInv, ThreadTypes
  <1> QED BY <1>1, <1>2, <1>3, <1>4, AloneThread

\* A call starts: with "if (fd >= 0)".
LEMMA CallAlone ==
    ASSUME UserInv, AloneInv, Alone, NEW th \in Threads, NEW c \in Cmd, Call(th, c)
    PROVE  AloneInv'
  <1>1. /\ ProcessOf[th] \in alive /\ pc[th] = "idle"
        /\ UNCHANGED <<alive, used, fdtab, fd, mtx, mode, private, pid>>
    BY DEF Call, procVars, regVars, fileVars, entryVars
  <1>2. ThreadTypes /\ CallTypes /\ CallOK(th) /\ ret[th] \notin {"ENOSPC", "EBADF"}
    BY DEF UserInv, AloneInv, ReconnectTransparent
  <1>3. /\ CallTypes' /\ OthersStay(th) /\ CallOK(th)' /\ ret'[th] \notin {"ENOSPC", "EBADF"}
    <2>1. CASE fd[ProcessOf[th]] = NoFd
      <3>1. Return(th, "ESRCH")
        BY <2>1 DEF Call
      <3> QED BY <1>2, <3>1, ReturnOK
    <2>2. CASE fd[ProcessOf[th]] # NoFd
      <3>1. pc' = [pc EXCEPT ![th] = "read"] /\ UNCHANGED <<num, tries, ret>>
        BY <2>2 DEF Call, Goto
      <3>2. pc'[th] = "read" /\ CallTypes' /\ OthersStay(th) /\ ret'[th] = ret[th]
        BY <1>2, <3>1 DEF ThreadTypes, CallTypes, OthersStay
      <3>3. CallOK(th)'
        BY <1>1, <1>2, <2>2, <3>1, <3>2 DEF CallOK
      <3> QED BY <1>2, <3>2, <3>3
    <2> QED BY <2>1, <2>2
  <1> QED BY <1>1, <1>3, AloneFrame

\* safe_ioctl reads fd.
LEMMA ReadFdAlone ==
    ASSUME UserInv, AloneInv, Alone, NEW th \in Threads, ReadFd(th) PROVE AloneInv'
  <1>1. /\ pc[th] = "read" /\ UNCHANGED <<alive, used, fdtab, fd, mtx, mode, private, pid>>
        /\ pc' = [pc EXCEPT ![th] = "ioctl"] /\ num' = [num EXCEPT ![th] = fd[ProcessOf[th]]]
        /\ UNCHANGED <<tries, ret>>
    BY DEF ReadFd, Goto, procVars, regVars, fileVars, entryVars
  <1>2. ThreadTypes /\ CallTypes /\ CallOK(th) /\ ret[th] \notin {"ENOSPC", "EBADF"}
    BY DEF UserInv, AloneInv, ReconnectTransparent
  <1>3. ProcessOf[th] \in alive
    BY <1>1 DEF UserInv, ThreadsInv
  <1>4. /\ pc'[th] = "ioctl" /\ num'[th] = fd[ProcessOf[th]] /\ CallTypes' /\ OthersStay(th)
    BY <1>1, <1>2 DEF ThreadTypes, CallTypes, OthersStay
  <1>5. Own(ProcessOf[th])' <=> Own(ProcessOf[th])
    BY <1>1, OwnFrame
  <1>6. CallOK(th)'
    BY <1>1, <1>2, <1>4, <1>5 DEF CallOK
  <1> QED BY <1>1, <1>2, <1>3, <1>4, <1>6, AloneFrame

\* The ioctl: ENOSPC at most once in a call, since a reconnect makes the connection
\* the process's own.
LEMMA IoctlAlone ==
    ASSUME UserInv, AloneInv, Alone, NEW th \in Threads, IoctlCall(th) PROVE AloneInv'
  <1>1. PICK p \in Pids : p = ProcessOf[th]
    BY UserspaceAssumption
  <1>2. /\ pc[th] = "ioctl"
        /\ UNCHANGED <<alive, used, fdtab, fd, mtx, mode, private, pid>>
    BY DEF IoctlCall, CreateChannel, ChannelCreate, procVars, regVars, fileVars, entryVars
  <1>3. ThreadTypes /\ CallTypes /\ CallOK(th) /\ ret[th] \notin {"ENOSPC", "EBADF"}
    BY DEF UserInv, AloneInv, ReconnectTransparent
  <1>4. /\ p \in alive
        /\ \E n \in Fds : /\ fd[p] = n /\ Connects(p, n)
                          /\ \E f \in Files : f = fdtab[p][n] /\ private[f] \in Entries
    BY <1>1, <1>2, FdConnects
  <1>5. PICK n \in Fds, f \in Files : /\ fd[p] = n /\ Connects(p, n)
                                      /\ f = fdtab[p][n] /\ private[f] \in Entries
    BY <1>4
  <1>6. num[th] = n
    BY <1>1, <1>2, <1>3, <1>5 DEF CallOK
  <1>7. Answer(p, num[th]) = IF pid[private[f]] # p THEN "ENOSPC" ELSE "OK"
    <2>1. n # NoFd /\ n \notin Free(p)
      BY <1>5, NoFdFree DEF Free, Connects
    <2> QED BY <1>5, <1>6, <2>1, RegistryAssumption DEF Answer, IoctlResult
  <1>8. CASE pid[private[f]] # p
    <2>1. Continue(th, "lock")
      BY <1>1, <1>7, <1>8 DEF IoctlCall
    <2>2. CallTypes' /\ OthersStay(th) /\ pc'[th] = "lock" /\ UNCHANGED <<num, tries, ret>>
      BY <1>3, <2>1, ContinueOK
    <2>3. ~Own(p) /\ ~Own(p)'
      <3>1. ~Own(p)
        BY <1>5, <1>8 DEF Own
      <3> QED BY <1>2, <3>1, OwnFrame
    <2>4. CallOK(th)'
      BY <1>1, <1>2, <1>3, <2>2, <2>3 DEF CallOK
    <2> QED BY <1>1, <1>2, <1>3, <1>4, <2>2, <2>4, AloneFrame
  <1>9. CASE pid[private[f]] = p
    <2>1. \E r \in {"OK", "EMFILE", "ENOMEM", "coid_EBADF"} : Return(th, r)
      BY <1>1, <1>7, <1>9 DEF IoctlCall, CreateChannel, HandlerResults, Alone
    <2>2. PICK r \in {"OK", "EMFILE", "ENOMEM", "coid_EBADF"} : Return(th, r)
      BY <2>1
    <2> QED BY <1>1, <1>2, <1>3, <1>4, <2>2, ReturnOK, AloneFrame
  <1> QED BY <1>8, <1>9

\* safe_ioctl locks the mutex.
LEMMA LockAlone ==
    ASSUME UserInv, AloneInv, Alone, NEW th \in Threads, Lock(th) PROVE AloneInv'
  <1>1. /\ pc[th] = "lock" /\ UNCHANGED <<alive, used, fdtab, fd, mode, private, pid>>
        /\ mtx' = [mtx EXCEPT ![ProcessOf[th]] = th] /\ Continue(th, "close")
    BY DEF Lock, regVars, fileVars, entryVars
  <1>2. ThreadTypes /\ CallTypes /\ CallOK(th) /\ ret[th] \notin {"ENOSPC", "EBADF"}
    BY DEF UserInv, AloneInv, ReconnectTransparent
  <1>3. ProcessOf[th] \in alive
    BY <1>1 DEF UserInv, ThreadsInv
  <1>4. CallTypes' /\ OthersStay(th) /\ pc'[th] = "close" /\ UNCHANGED <<num, tries, ret>>
    BY <1>1, <1>2, ContinueOK
  <1>5. Own(ProcessOf[th])' <=> Own(ProcessOf[th])
    BY <1>1, OwnFrame
  <1>6. CallOK(th)'
    BY <1>1, <1>2, <1>4, <1>5 DEF CallOK
  <1> QED BY <1>1, <1>2, <1>3, <1>4, <1>6, AloneFrame

\* The ioctl that registers a poll descriptor.
LEMMA PollRegisterAlone ==
    ASSUME UserInv, AloneInv, Alone, NEW th \in Threads, PollRegister(th) PROVE AloneInv'
  <1>1. /\ pc[th] = "poll_register"
        /\ UNCHANGED <<alive, used, fdtab, fd, mtx, mode, private, pid>>
        /\ Return(th, "OK") \/ Continue(th, "poll_close")
    BY DEF PollRegister, AddPollFd, procVars, regVars, fileVars, entryVars
  <1>2. ThreadTypes /\ CallTypes /\ CallOK(th) /\ ret[th] \notin {"ENOSPC", "EBADF"}
    BY DEF UserInv, AloneInv, ReconnectTransparent
  <1>3. ProcessOf[th] \in alive
    BY <1>1 DEF UserInv, ThreadsInv
  <1>4. CASE Return(th, "OK")
    BY <1>1, <1>2, <1>3, <1>4, ReturnOK, AloneFrame
  <1>5. CASE Continue(th, "poll_close")
    <2>1. CallTypes' /\ OthersStay(th) /\ pc'[th] = "poll_close" /\ UNCHANGED <<num, tries, ret>>
      BY <1>2, <1>5, ContinueOK
    <2>2. Own(ProcessOf[th])' <=> Own(ProcessOf[th])
      BY <1>1, OwnFrame
    <2>3. CallOK(th)'
      BY <1>2, <2>1, <2>2 DEF CallOK
    <2> QED BY <1>1, <1>2, <1>3, <2>1, <2>3, AloneFrame
  <1> QED BY <1>1, <1>4, <1>5

\* A poll descriptor is closed: the connections stay.
LEMMA ClosePollAlone ==
    ASSUME UserInv, ChannelTypes, AloneInv, NEW p \in Pids, NEW n \in Fds, fdtab[p][n] # NULL,
           mode[fdtab[p][n]] = "poll", CloseFd(p, n), UNCHANGED fd
    PROVE  /\ \A q \in Pids : Own(q)' <=> Own(q)
           /\ \A q \in Pids : q # p => \A m \in Fds : fdtab'[q][m] = fdtab[q][m]
           /\ \A e \in Entries : pid'[e] = pid[e] \/ pid'[e] = NULL
           /\ p \in alive /\ (\E e \in Entries : pid'[e] = p) => Own(p)'
  <1>1. Keeps(p, n) /\ fdtab'[p][n] = NULL
    BY CloseFdBase DEF UserInv
  <1>2. KeepsEntry(p, n) /\ \A e \in Entries : pid'[e] = pid[e] \/ pid'[e] = NULL
    BY CloseFdOwn
  <1>3. ASSUME NEW q \in Pids PROVE Own(q)' <=> Own(q)
    <2>1. CASE q # p \/ fd[q] # n
      BY <1>1, <1>2, <2>1, OwnKept
    <2>2. CASE q = p /\ fd[q] = n
      BY <1>1, <2>2 DEF Own, Connects
    <2> QED BY <2>1, <2>2
  <1>4. p \in alive /\ (\E e \in Entries : pid'[e] = p) => Own(p)'
    BY <1>2, <1>3, RegistryAssumption DEF AloneInv, OwnersRun
  <1> QED BY <1>1, <1>2, <1>3, <1>4 DEF Keeps

\* MsgReceivePollFd gives up.
LEMMA PollCloseAlone ==
    ASSUME UserInv, ChannelTypes, AloneInv, Alone, NEW th \in Threads, PollClose(th) PROVE AloneInv'
  <1>1. PICK p \in Pids : p = ProcessOf[th]
    BY UserspaceAssumption
  <1>2. /\ pc[th] = "poll_close" /\ CloseFd(p, num[th]) /\ UNCHANGED <<alive, used, fd, mtx>>
        /\ \E r \in {"ESRCH", "ENOTTY"} : Return(th, r)
    BY <1>1 DEF PollClose
  <1>3. /\ p \in alive /\ num[th] \in Fds /\ fdtab[p][num[th]] # NULL
        /\ mode[fdtab[p][num[th]]] = "poll"
    BY <1>1, <1>2 DEF UserInv, ThreadsInv, Polling
  <1>4. PICK r \in {"ESRCH", "ENOTTY"} : Return(th, r)
    BY <1>2
  <1>5. CallTypes' /\ OthersStay(th) /\ CallOK(th)' /\ ret'[th] \notin {"ENOSPC", "EBADF"}
    BY <1>4, ReturnOK DEF UserInv, AloneInv
  <1>6. mtx[p] = NULL
    BY <1>1, <1>2, <1>3, MutexFree
  <1> QED BY <1>1, <1>2, <1>3, <1>5, <1>6, ClosePollAlone, AloneThread

\* The program closes a poll descriptor.
LEMMA UserCloseAlone ==
    ASSUME UserInv, ChannelTypes, AloneInv, Alone, NEW th \in Threads, NEW n \in Fds, UserClose(th, n)
    PROVE  AloneInv'
  <1>1. PICK p \in Pids : p = ProcessOf[th]
    BY UserspaceAssumption
  <1>2. /\ p \in alive /\ pc[th] = "idle" /\ CloseFd(p, n) /\ fdtab[p][n] # NULL
        /\ mode[fdtab[p][n]] = "poll"
        /\ UNCHANGED <<alive, used, fd, mtx, pc, num, tries, ret>>
    BY <1>1 DEF UserClose, Free, threadVars
  <1>3. CallTypes' /\ OthersStay(th) /\ CallOK(th)' /\ ret'[th] \notin {"ENOSPC", "EBADF"}
    <2>1. CallOK(th)'
      BY <1>2, IdleOK DEF AloneInv
    <2> QED BY <1>2, <2>1 DEF AloneInv, CallTypes, OthersStay, ReconnectTransparent
  <1>4. mtx[p] = NULL
    BY <1>1, <1>2, MutexFree
  <1> QED BY <1>1, <1>2, <1>3, <1>4, ClosePollAlone, AloneThread

\* A poll descriptor changes no other file, and no entry but its reference count.
LEMMA PollFdOwn ==
    ASSUME UserInv, NEW th \in Threads, MsgReceivePollFd(th), NEW p, NEW n
    PROVE  KeepsEntry(p, n) /\ UNCHANGED <<pid, channels, chid>>
  <1>1. PICK f \in Files : OpenPoll(ProcessOf[th], f)
    BY DEF MsgReceivePollFd
  <1>2. /\ mode[f] = "none" /\ UNCHANGED <<pid, channels, chid>>
        /\ \A g \in Files : g # f => private'[g] = private[g]
    BY <1>1 DEF OpenPoll, UserInv, BaseInv, EntryInv, FileTypes, chanVars
  <1>3. \A q \in Pids, m \in Fds : fdtab[q][m] # NULL => fdtab[q][m] \in Files /\ fdtab[q][m] # f
    BY <1>2, OpenFile DEF UserInv
  <1> QED BY <1>2, <1>3 DEF KeepsEntry

\* MsgReceivePollFd opens a poll descriptor.
LEMMA PollFdAlone ==
    ASSUME UserInv, AloneInv, Alone, NEW th \in Threads, MsgReceivePollFd(th) PROVE AloneInv'
  <1>1. PICK p \in Pids : p = ProcessOf[th]
    BY UserspaceAssumption
  <1>2. /\ p \in alive /\ pc[th] = "idle" /\ pc' = [pc EXCEPT ![th] = "poll_register"]
        /\ num' = [num EXCEPT ![th] = Min(Free(p))]
        /\ UNCHANGED <<alive, used, fd, mtx, tries, ret>>
    BY <1>1 DEF MsgReceivePollFd, Goto
  <1>3. ThreadTypes /\ CallTypes /\ CallOK(th) /\ ret[th] \notin {"ENOSPC", "EBADF"}
    BY DEF UserInv, AloneInv, ReconnectTransparent
  <1>4. /\ num'[th] \in Fds /\ fdtab[p][num'[th]] = NULL /\ Keeps(p, num'[th])
        /\ mode'[fdtab'[p][num'[th]]] = "poll"
    BY <1>1, <1>3, PollFdBase DEF UserInv, ThreadTypes
  <1>5. PICK n \in Fds : n = num'[th]
    BY <1>4
  <1>6. KeepsEntry(p, n) /\ UNCHANGED pid
    BY <1>1, <1>5, PollFdOwn
  <1>7. ASSUME NEW q \in Pids PROVE Own(q)' <=> Own(q)
    <2>1. CASE q # p \/ fd[q] # n
      BY <1>2, <1>4, <1>5, <1>6, <2>1, OwnKept
    <2>2. CASE q = p /\ fd[q] = n
      BY <1>2, <1>4, <1>5, <2>2 DEF Own, Connects
    <2> QED BY <2>1, <2>2
  <1>8. CallTypes' /\ OthersStay(th) /\ pc'[th] = "poll_register" /\ tries'[th] = tries[th]
    BY <1>2, <1>3 DEF ThreadTypes, CallTypes, OthersStay
  <1>9. CallOK(th)' /\ ret'[th] \notin {"ENOSPC", "EBADF"}
    BY <1>2, <1>3, <1>8 DEF CallOK
  <1>10. mtx[p] = NULL
    BY <1>1, <1>2, MutexFree
  <1>11. (\E e \in Entries : pid'[e] = p) => Own(p)'
    BY <1>2, <1>6, <1>7 DEF AloneInv, OwnersRun
  <1>12. \A q \in Pids : q # p => \A m \in Fds : fdtab'[q][m] = fdtab[q][m]
    BY <1>4 DEF Keeps
  <1> QED BY <1>1, <1>2, <1>6, <1>7, <1>8, <1>9, <1>10, <1>11, <1>12, AloneThread

\* close(fd): the connection that goes was to another process's entry, so this process
\* has none in the list.
LEMMA CloseOldAlone ==
    ASSUME UserInv, ChannelTypes, AloneInv, Alone, NEW th \in Threads, CloseOld(th) PROVE AloneInv'
  <1>1. PICK p \in Pids : p = ProcessOf[th]
    BY UserspaceAssumption
  <1>2. /\ pc[th] = "close" /\ Continue(th, "open") /\ UNCHANGED <<alive, used, fd, mtx>>
    BY DEF CloseOld
  <1>3. ThreadTypes /\ CallTypes /\ CallOK(th) /\ ret[th] \notin {"ENOSPC", "EBADF"}
    BY DEF UserInv, AloneInv, ReconnectTransparent
  <1>4. p \in alive /\ \E n \in Fds : fd[p] = n /\ Connects(p, n)
    BY <1>1, <1>2, FdConnects
  <1>5. PICK n \in Fds : fd[p] = n /\ Connects(p, n)
    BY <1>4
  <1>6. CloseFd(p, n)
    <2>1. n # NoFd /\ n \notin Free(p)
      BY <1>5, NoFdFree DEF Free, Connects
    <2> QED BY <1>1, <1>5, <2>1 DEF CloseOld
  <1>7. Keeps(p, n) /\ fdtab'[p][n] = NULL
    BY <1>2, <1>5, <1>6, CloseFdBase DEF UserInv, Connects
  <1>8. KeepsEntry(p, n) /\ \A e \in Entries : pid'[e] = pid[e] \/ pid'[e] = NULL
    BY <1>5, <1>6, CloseFdOwn DEF Connects
  <1>9. \A q \in Pids : q # p => (Own(q)' <=> Own(q))
    BY <1>2, <1>7, <1>8, OwnKept
  <1>10. ~Own(p) /\ ~Own(p)'
    BY <1>1, <1>2, <1>3, <1>5, <1>7 DEF CallOK, Own, Connects
  <1>11. \A e \in Entries : pid'[e] # p
    BY <1>4, <1>8, <1>10, RegistryAssumption DEF AloneInv, OwnersRun
  <1>12. CallTypes' /\ OthersStay(th) /\ pc'[th] = "open" /\ UNCHANGED <<num, tries, ret>>
    BY <1>2, <1>3, ContinueOK
  <1>13. CallOK(th)'
    BY <1>1, <1>2, <1>3, <1>5, <1>7, <1>10, <1>12 DEF CallOK
  <1>14. mtx'[p] = th
    BY <1>1, <1>2 DEF UserInv, ThreadsInv
  <1>15. \A q \in Pids : q # p => \A m \in Fds : fdtab'[q][m] = fdtab[q][m]
    BY <1>7 DEF Keeps
  <1> QED BY <1>1, <1>2, <1>3, <1>4, <1>8, <1>9, <1>11, <1>12, <1>13, <1>14, <1>15, AloneThread

\* A process without an entry is not in the list.
LEMMA NotListed ==
    ASSUME UserInv, NEW p, \A e \in Entries : pid[e] # p PROVE ~ProcessAvailable(p)
  <1>1. \A a \in ToSet(process_entries) : a \in Entries
    BY ListedEntries DEF UserInv, BaseInv, EntryInv
  <1>2. \A i \in DOMAIN process_entries : process_entries[i] \in ToSet(process_entries)
    BY DEF ToSet
  <1> QED BY <1>1, <1>2 DEF ProcessAvailable, PlacesOf

\* fd = initialize(): it succeeds, since the process is not in the list and the
\* descriptor it has just closed is free; from then on the connection is its own.
LEMMA OpenNewAlone ==
    ASSUME UserInv, AloneInv, Alone, NEW th \in Threads, OpenNew(th) PROVE AloneInv'
  <1>1. PICK p \in Pids : p = ProcessOf[th]
    BY UserspaceAssumption
  <1>2. /\ pc[th] = "open" /\ Initialize(p) /\ mtx' = [mtx EXCEPT ![p] = NULL]
        /\ UNCHANGED <<alive, used>>
    BY <1>1 DEF OpenNew
  <1>3. ThreadTypes /\ CallTypes /\ CallOK(th) /\ ret[th] \notin {"ENOSPC", "EBADF"}
    BY DEF UserInv, AloneInv, ReconnectTransparent
  <1>4. p \in alive
    BY <1>1, <1>2 DEF UserInv, ThreadsInv
  <1>5. ~Own(p) /\ Free(p) # {}
    BY <1>1, <1>2, <1>3 DEF CallOK, Free
  <1>6. ~ProcessAvailable(p)
    BY <1>4, <1>5, NotListed DEF AloneInv, OwnersRun
  <1>7. /\ fd'[p] \in Fds /\ KeepsEntry(p, fd'[p])
        /\ pid'[private'[fdtab'[p][fd'[p]]]] = p
        /\ \A e \in Entries : pid'[e] = pid[e] \/ pid'[e] = p
    BY <1>2, <1>5, <1>6, InitializeOwn DEF Alone
  <1>8. PICK n \in Fds : n = fd'[p] /\ n # NoFd
    BY <1>7, NoFdFree
  <1>9. /\ fdtab'[p][n] # NULL /\ mode'[fdtab'[p][n]] = "rdwr" /\ Keeps(p, n)
        /\ \A q \in Pids : q # p => fd'[q] = fd[q]
    BY <1>2, <1>8, InitializeBase DEF UserInv
  <1>10. Own(p)'
    BY <1>7, <1>8, <1>9 DEF Own, Connects
  <1>11. \A q \in Pids : q # p => (Own(q)' <=> Own(q))
    BY <1>7, <1>8, <1>9, OwnKept
  <1>12. tries[th] # 1
    BY <1>1, <1>3, <1>5 DEF CallOK
  <1>13. /\ pc' = [pc EXCEPT ![th] = "read"] /\ tries' = [tries EXCEPT ![th] = 1]
         /\ UNCHANGED <<num, ret>>
    BY <1>12 DEF OpenNew, Goto
  <1>14. /\ CallTypes' /\ OthersStay(th) /\ pc'[th] = "read" /\ ret'[th] = ret[th]
    BY <1>3, <1>13 DEF ThreadTypes, CallTypes, OthersStay
  <1>15. CallOK(th)'
    BY <1>1, <1>8, <1>10, <1>14 DEF CallOK
  <1>16. mtx'[p] = NULL /\ \A q \in Pids : q # p => mtx'[q] = mtx[q]
    BY <1>2, <1>3 DEF ThreadTypes
  <1>17. \A q \in Pids : q # p => \A m \in Fds : fdtab'[q][m] = fdtab[q][m]
    BY <1>9 DEF Keeps
  <1> QED BY <1>1, <1>2, <1>3, <1>4, <1>7, <1>9, <1>10, <1>11, <1>14, <1>15, <1>16, <1>17,
             AloneThread

\* A process that does not run has no thread in a call.
LEMMA DeadIdle ==
    ASSUME UserInv, AloneInv, NEW p \in Pids, p \notin alive, UNCHANGED <<pc, tries, ret>>
    PROVE  \A o \in Threads : ProcessOf[o] = p => CallOK(o)' /\ ret'[o] \notin {"ENOSPC", "EBADF"}
  <1> SUFFICES ASSUME NEW o \in Threads, ProcessOf[o] = p
               PROVE  CallOK(o)' /\ ret'[o] \notin {"ENOSPC", "EBADF"}
    OBVIOUS
  <1>1. pc[o] = "idle"
    BY DEF UserInv, ThreadsInv
  <1> QED BY <1>1, IdleOK DEF AloneInv, ReconnectTransparent

\* The kernel closes a descriptor of a process that has ended.
LEMMA ExitCloseAlone ==
    ASSUME UserInv, ChannelTypes, AloneInv, Alone, NEW p \in Pids, NEW n \in Fds, ExitClose(p, n)
    PROVE  AloneInv'
  <1>1. /\ p \notin alive /\ fdtab[p][n] # NULL /\ CloseFd(p, n)
        /\ UNCHANGED <<alive, used, fd, mtx, pc, num, tries, ret>>
    BY DEF ExitClose, threadVars
  <1>2. Keeps(p, n)
    BY <1>1, CloseFdBase DEF UserInv
  <1>3. KeepsEntry(p, n) /\ \A e \in Entries : pid'[e] = pid[e] \/ pid'[e] = NULL
    BY <1>1, CloseFdOwn
  <1>4. \A q \in Pids : q # p => (Own(q)' <=> Own(q))
    BY <1>1, <1>2, <1>3, OwnKept
  <1>5. \A q \in Pids : q # p => \A m \in Fds : fdtab'[q][m] = fdtab[q][m]
    BY <1>2 DEF Keeps
  <1>6. CallTypes' /\ alive \subseteq Pids
    BY <1>1 DEF UserInv, ThreadTypes, AloneInv, CallTypes
  <1> QED BY <1>1, <1>3, <1>4, <1>5, <1>6, DeadIdle, AloneStep

\* A process ends.
LEMMA ExitAlone ==
    ASSUME UserInv, AloneInv, Alone, NEW p \in Pids, Exit(p) PROVE AloneInv'
  <1>1. /\ alive' = alive \ {p} /\ UNCHANGED <<used, fdtab, fd, mtx, mode, private, pid>>
        /\ pc' = [th \in Threads |-> IF ProcessOf[th] = p THEN "idle" ELSE pc[th]]
        /\ num' = [th \in Threads |-> IF ProcessOf[th] = p THEN NoFd ELSE num[th]]
        /\ tries' = [th \in Threads |-> IF ProcessOf[th] = p THEN 0 ELSE tries[th]]
        /\ ret' = [th \in Threads |-> IF ProcessOf[th] = p THEN "OK" ELSE ret[th]]
    BY DEF Exit, regVars, fileVars, entryVars
  <1>2. CallTypes' /\ alive' \subseteq Pids
    BY <1>1 DEF UserInv, ThreadTypes, AloneInv, CallTypes
  <1>3. \A o \in Threads : ProcessOf[o] = p =>
           pc'[o] = "idle" /\ tries'[o] = 0 /\ ret'[o] = "OK"
    BY <1>1
  <1>4. \A o \in Threads : ProcessOf[o] = p => CallOK(o)' /\ ret'[o] \notin {"ENOSPC", "EBADF"}
    BY <1>3 DEF CallOK
  <1>5. \A o \in Threads : ProcessOf[o] # p =>
           pc'[o] = pc[o] /\ num'[o] = num[o] /\ tries'[o] = tries[o] /\ ret'[o] = ret[o]
    BY <1>1
  <1>6. \A q : Own(q)' <=> Own(q)
    BY <1>1, OwnFrame
  <1> QED BY <1>1, <1>2, <1>4, <1>5, <1>6, AloneStep

\* A pid that has never been used has no entry.
LEMMA NewAlone ==
    ASSUME UserInv, AloneInv, Alone, NEW p \in Pids, NewProcess(p)
    PROVE  /\ p \notin alive /\ alive' = alive \cup {p} /\ used' = used \cup {p}
           /\ alive' \subseteq Pids /\ \A e \in Entries : pid[e] # p
  <1>1. p \notin used /\ alive' = alive \cup {p} /\ used' = used \cup {p}
    BY DEF NewProcess, Alone
  <1>2. alive \subseteq used /\ used \subseteq Pids
    BY DEF UserInv, ThreadTypes
  <1> QED BY <1>1, <1>2, RegistryAssumption DEF AloneInv, OwnersRun

\* A program starts.
LEMMA StartAlone ==
    ASSUME UserInv, AloneInv, Alone, NEW p \in Pids, Start(p) PROVE AloneInv'
  <1>1. /\ NewProcess(p) /\ Initialize(p) /\ mtx' = [mtx EXCEPT ![p] = NULL]
        /\ UNCHANGED <<pc, num, tries, ret>>
    BY DEF Start, threadVars
  <1>2. /\ p \notin alive /\ alive' = alive \cup {p} /\ used' = used \cup {p}
        /\ alive' \subseteq Pids /\ \A e \in Entries : pid[e] # p
    BY <1>1, NewAlone
  <1>3. CallTypes'
    BY <1>1 DEF AloneInv, CallTypes
  <1>4. mtx'[p] = NULL /\ \A q \in Pids : q # p => mtx'[q] = mtx[q]
    BY <1>1 DEF UserInv, ThreadTypes
  <1>5. /\ \A q \in Pids : q # p =>
              /\ fd'[q] = fd[q] /\ (Own(q)' <=> Own(q))
              /\ \A m \in Fds : fdtab'[q][m] = fdtab[q][m]
        /\ \A e \in Entries : pid'[e] = pid[e] \/ pid'[e] = p
        /\ (\E e \in Entries : pid'[e] = p) => Own(p)'
    <2>1. \A q \in Pids : q # p => fd'[q] = fd[q]
      BY <1>1, InitializeBase DEF UserInv
    <2>2. CASE fd'[p] \in Fds
      <3>1. PICK n \in Fds : n = fd'[p] /\ n # NoFd
        BY <2>2, NoFdFree
      <3>2. fdtab'[p][n] # NULL /\ mode'[fdtab'[p][n]] = "rdwr" /\ Keeps(p, n)
        BY <1>1, <3>1, InitializeBase DEF UserInv
      <3>3. /\ KeepsEntry(p, n) /\ pid'[private'[fdtab'[p][n]]] = p
            /\ \A e \in Entries : pid'[e] = pid[e] \/ pid'[e] = p
        BY <1>1, <3>1, InitializeOwn
      <3>4. Own(p)'
        BY <3>1, <3>2, <3>3 DEF Own, Connects
      <3>5. \A q \in Pids : q # p => (Own(q)' <=> Own(q))
        BY <2>1, <3>2, <3>3, OwnKept
      <3> QED BY <2>1, <3>2, <3>3, <3>4, <3>5 DEF Keeps
    <2>3. CASE fd'[p] \notin Fds
      <3>1. UNCHANGED <<fdtab, mode, private, pid>>
        BY <1>1, <2>3, InitializeBase DEF UserInv, regVars, fileVars, entryVars
      <3>2. \A q \in Pids : q # p => (Own(q)' <=> Own(q))
        BY <2>1, <3>1 DEF Own, Connects
      <3> QED BY <1>2, <2>1, <3>1, <3>2
    <2> QED BY <2>2, <2>3
  <1> QED BY <1>1, <1>2, <1>3, <1>4, <1>5, DeadIdle, AloneStep

\* fork: the mutex the child gets is free, since the only thread of the parent is the
\* one that forks; and the connection it gets is not its own.
LEMMA ForkAlone ==
    ASSUME UserInv, AloneInv, Alone, NEW th \in Threads, NEW q \in Pids, Fork(th, q)
    PROVE  AloneInv'
  <1>1. PICK p \in Pids : p = ProcessOf[th]
    BY UserspaceAssumption
  <1>2. /\ p \in alive /\ pc[th] = "idle" /\ NewProcess(q)
        /\ fdtab' = [fdtab EXCEPT ![q] = fdtab[p]] /\ fd' = [fd EXCEPT ![q] = fd[p]]
        /\ mtx' = [mtx EXCEPT ![q] = IF mtx[p] = NULL THEN NULL ELSE "orphan"]
        /\ UNCHANGED <<mode, private, pid, pc, num, tries, ret>>
    BY <1>1 DEF Fork, threadVars, regVars, fileVars, entryVars
  <1>3. /\ q \notin alive /\ alive' = alive \cup {q} /\ used' = used \cup {q}
        /\ alive' \subseteq Pids /\ \A e \in Entries : pid[e] # q
    BY <1>2, NewAlone
  <1>4. mtx[p] = NULL
    BY <1>1, <1>2, MutexFree
  <1>5. /\ mtx'[q] = NULL
        /\ \A r \in Pids : r # q => mtx'[r] = mtx[r] /\ fd'[r] = fd[r] /\ fdtab'[r] = fdtab[r]
    BY <1>2, <1>4 DEF UserInv, ThreadTypes, BaseInv, DescriptorTypes
  <1>6. \A r \in Pids : r # q => (Own(r)' <=> Own(r))
    BY <1>2, <1>5 DEF Own, Connects
  <1>7. CallTypes'
    BY <1>2 DEF AloneInv, CallTypes
  <1> QED BY <1>2, <1>3, <1>5, <1>6, <1>7, DeadIdle, AloneStep

\* At the start no process runs.
LEMMA InitAlone == Init => AloneInv
  <1> SUFFICES ASSUME Init PROVE AloneInv
    OBVIOUS
  <1>1. /\ alive = {} /\ \A e \in Entries : pid[e] = NULL
        /\ tries = [th \in Threads |-> 0] /\ ret = [th \in Threads |-> "OK"]
        /\ \A th \in Threads : pc[th] = "idle" /\ tries[th] = 0 /\ ret[th] = "OK"
    BY DEF Init, RegInit
  <1>2. CallTypes /\ OwnersRun /\ MutexOwned /\ ReconnectTransparent
    BY <1>1 DEF CallTypes, OwnersRun, MutexOwned, ReconnectTransparent
  <1>3. \A th \in Threads : CallOK(th)
    BY <1>1 DEF CallOK
  <1> QED BY <1>2, <1>3 DEF AloneInv

\* Every step keeps the invariant.
LEMMA NextAlone == Alone /\ UserInv /\ ChannelInv /\ AloneInv /\ [Next]_vars => AloneInv'
  <1> SUFFICES ASSUME Alone, UserInv, ChannelTypes, AloneInv, [Next]_vars PROVE AloneInv'
    BY DEF ChannelInv
  <1>1. ASSUME NEW p \in Pids, Start(p) \/ Exit(p) PROVE AloneInv'
    BY <1>1, StartAlone, ExitAlone
  <1>2. ASSUME NEW p \in Pids, NEW n \in Fds, ExitClose(p, n) PROVE AloneInv'
    BY <1>2, ExitCloseAlone
  <1>3. ASSUME NEW th \in Threads, NEW q \in Pids, Fork(th, q) PROVE AloneInv'
    BY <1>3, ForkAlone
  <1>4. ASSUME NEW th \in Threads, NEW c \in Cmd, Call(th, c) PROVE AloneInv'
    BY <1>4, CallAlone
  <1>5. ASSUME NEW th \in Threads, MsgReceivePollFd(th) PROVE AloneInv'
    BY <1>5, PollFdAlone
  <1>6. ASSUME NEW th \in Threads, NEW n \in Fds, UserClose(th, n) PROVE AloneInv'
    BY <1>6, UserCloseAlone
  <1>7. ASSUME NEW th \in Threads, Step(th) PROVE AloneInv'
    BY <1>7, ReadFdAlone, IoctlAlone, LockAlone, CloseOldAlone, OpenNewAlone,
       PollRegisterAlone, PollCloseAlone DEF Step
  <1>8. CASE UNCHANGED vars
    <2>1. UNCHANGED <<alive, used, fdtab, fd, mtx, mode, private, pid, pc, num, tries, ret>>
      BY <1>8 DEF vars, procVars, threadVars, regVars, fileVars, entryVars
    <2>2. \A p : Own(p)' <=> Own(p)
      BY <2>1, OwnFrame
    <2>3. \A th \in Threads : CallOK(th)'
      BY <2>1, <2>2, CallKept DEF AloneInv
    <2>4. OwnersRun' /\ MutexOwned'
      BY <2>1, <2>2 DEF AloneInv, OwnersRun, MutexOwned
    <2> QED BY <2>1, <2>3, <2>4 DEF AloneInv, CallTypes, ReconnectTransparent
  <1> QED BY <1>1, <1>2, <1>3, <1>4, <1>5, <1>6, <1>7, <1>8 DEF Next

\* close keeps the channels' counts right.
LEMMA CloseFdChannels ==
    ASSUME UserInv, ChannelInv, NEW p \in Pids, NEW n \in Fds, fdtab[p][n] # NULL, CloseFd(p, n)
    PROVE  ChannelInv'
  <1>1. PICK f \in Files : f = fdtab[p][n]
    BY OpenFile DEF UserInv
  <1>2. CASE Release(f)
    BY <1>2, ReleaseChannelInv DEF UserInv, BaseInv
  <1>3. CASE UNCHANGED regVars
    BY <1>3, ChannelFrame DEF regVars, entryVars, chanVars
  <1> QED BY <1>1, <1>2, <1>3 DEF CloseFd

\* initialize() makes and loses no channel.
LEMMA InitializeChannels ==
    ASSUME NEW p \in Pids, Initialize(p)
    PROVE  UNCHANGED <<channels, connections, chid, serial, chanRefs, polls, gbl_next_channel_id>>
  BY DEF Initialize, AddProcess, regVars, entryVars, chanVars

\* ChannelCreate, on the entry of the process that calls.
LEMMA IoctlChannels ==
    ASSUME UserInv, NEW th \in Threads, IoctlCall(th)
    PROVE  \/ UNCHANGED <<regVars, made>>
           \/ \E f \in Files :
                 /\ num[th] \in Fds /\ f = fdtab[ProcessOf[th]][num[th]]
                 /\ private[f] \in Entries /\ pid[private[f]] = ProcessOf[th]
                 /\ ChannelCreate(private[f])
                 /\ \/ UNCHANGED made
                    \/ /\ Cardinality(channels[private[f]]) < max_channels
                       /\ made' = [made EXCEPT ![ProcessOf[th]] =
                                     made[ProcessOf[th]] \cup {gbl_next_channel_id'}]
  <1>1. PICK p \in Pids : p = ProcessOf[th]
    BY UserspaceAssumption
  <1>2. CASE Answer(p, num[th]) = "OK"
    <2>1. num[th] \in Fds /\ fdtab[p][num[th]] # NULL
      <3>1. num[th] # NoFd /\ num[th] \notin Free(p)
        BY <1>2 DEF Answer
      <3> QED BY <3>1 DEF UserInv, ThreadTypes, Free
    <2>2. PICK f \in Files : f = fdtab[p][num[th]]
      BY <1>1, <2>1, OpenFile DEF UserInv
    <2>3. IoctlResult(p, f) = "OK"
      <3>1. num[th] # NoFd /\ num[th] \notin Free(p)
        BY <1>2 DEF Answer
      <3> QED BY <1>2, <2>2, <3>1 DEF Answer
    <2>4. private[f] # NULL /\ pid[private[f]] = p
      BY <2>3 DEF IoctlResult
    <2>5. private[f] \in Entries
      BY <2>4 DEF UserInv, BaseInv, EntryInv, FileTypes
    <2>6. CreateChannel(th, private[f]) \/ UNCHANGED <<regVars, made>>
      BY <1>1, <1>2, <2>2 DEF IoctlCall
    <2> QED BY <1>1, <2>1, <2>2, <2>4, <2>5, <2>6 DEF CreateChannel
  <1>3. CASE Answer(p, num[th]) # "OK"
    BY <1>1, <1>3 DEF IoctlCall
  <1> QED BY <1>2, <1>3

\* Every step keeps the invariant of the channels.
LEMMA NextChannels == UserInv /\ ChannelInv /\ [Next]_vars => ChannelInv'
  <1> SUFFICES ASSUME UserInv, ChannelInv, [Next]_vars PROVE ChannelInv'
    OBVIOUS
  <1>1. ASSUME NEW p \in Pids, Initialize(p) PROVE ChannelInv'
    BY <1>1, InitializeChannels, ChannelFrame
  <1>2. CASE UNCHANGED regVars
    BY <1>2, ChannelFrame DEF regVars, entryVars, chanVars
  <1>3. \A th \in Threads : ProcessOf[th] \in Pids
    BY UserspaceAssumption
  <1>4. ASSUME NEW p \in Pids, Start(p) \/ Exit(p) PROVE ChannelInv'
    BY <1>1, <1>2, <1>4 DEF Start, Exit
  <1>5. ASSUME NEW p \in Pids, NEW n \in Fds, ExitClose(p, n) PROVE ChannelInv'
    BY <1>5, CloseFdChannels DEF ExitClose
  <1>6. ASSUME NEW th \in Threads, NEW q \in Pids, Fork(th, q) PROVE ChannelInv'
    BY <1>2, <1>6 DEF Fork
  <1>7. ASSUME NEW th \in Threads, NEW c \in Cmd, Call(th, c) PROVE ChannelInv'
    BY <1>2, <1>7 DEF Call
  <1>8. ASSUME NEW th \in Threads, MsgReceivePollFd(th) PROVE ChannelInv'
    BY <1>8, ChannelFrame DEF MsgReceivePollFd, OpenPoll, chanVars
  <1>9. ASSUME NEW th \in Threads, NEW n \in Fds, UserClose(th, n) PROVE ChannelInv'
    BY <1>3, <1>9, CloseFdChannels DEF UserClose, Free
  <1>10. ASSUME NEW th \in Threads, Step(th) PROVE ChannelInv'
    <2>1. CASE ReadFd(th) \/ Lock(th)
      BY <1>2, <2>1 DEF ReadFd, Lock
    <2>2. CASE IoctlCall(th)
      BY <1>2, <2>2, IoctlChannels, ChannelCreateInv
    <2>3. CASE CloseOld(th)
      <3>1. CASE UNCHANGED regVars
        BY <1>2, <3>1
      <3>2. CASE ~UNCHANGED regVars
        <4>1. /\ CloseFd(ProcessOf[th], fd[ProcessOf[th]])
              /\ fd[ProcessOf[th]] # NoFd /\ fd[ProcessOf[th]] \notin Free(ProcessOf[th])
          BY <2>3, <3>2 DEF CloseOld
        <4>2. fd[ProcessOf[th]] \in Fds /\ fdtab[ProcessOf[th]][fd[ProcessOf[th]]] # NULL
          BY <1>3, <4>1 DEF Free, UserInv, BaseInv, DescriptorTypes
        <4> QED BY <1>3, <4>1, <4>2, CloseFdChannels
      <3> QED BY <3>1, <3>2
    <2>4. CASE OpenNew(th)
      BY <1>1, <1>3, <2>4 DEF OpenNew
    <2>5. CASE PollRegister(th)
      <3>1. UNCHANGED <<channels, connections, chid, serial, chanRefs, polls, gbl_next_channel_id>>
        BY <2>5 DEF PollRegister, AddPollFd, regVars, entryVars, chanVars
      <3> QED BY <3>1, ChannelFrame
    <2>6. CASE PollClose(th)
      <3>1. num[th] \in Fds /\ fdtab[ProcessOf[th]][num[th]] # NULL
        BY <2>6 DEF PollClose, UserInv, ThreadsInv, Polling
      <3> QED BY <1>3, <2>6, <3>1, CloseFdChannels DEF PollClose
    <2> QED BY <1>10, <2>1, <2>2, <2>3, <2>4, <2>5, <2>6 DEF Step
  <1>11. CASE UNCHANGED vars
    BY <1>2, <1>11 DEF vars
  <1> QED BY <1>4, <1>5, <1>6, <1>7, <1>8, <1>9, <1>10, <1>11 DEF Next

\* With one thread in each process, memory for every entry, pids that are not used
\* again and servers that do not answer ENOSPC, fork is transparent: safe_ioctl never
\* gets ENOSPC a second time and never uses a descriptor that is not open, however many
\* processes fork, end and reconnect.
THEOREM UserspaceTransparent == Alone => (Spec => []ReconnectTransparent)
  <1> SUFFICES ASSUME Alone PROVE Spec => []ReconnectTransparent
    OBVIOUS
  <1>1. AloneInv => ReconnectTransparent
    BY DEF AloneInv
  <1>2. UserInv /\ ChannelInv /\ AloneInv /\ [Next]_vars => AloneInv'
    BY NextAlone
  <1>3. Init => ChannelInv
    BY InitChannelInv DEF Init
  <1> QED BY <1>1, <1>2, <1>3, InitAlone, NextChannels, UserspaceInvariant, PTL DEF Spec

-------------------------------------------------------------------------------
(* The channels of a process, under the same conditions.                   *)

\* A channel that was made is in the entry of a connection that is the process's own.
LEMMA MadeOwn == ASSUME NEW p, NEW k, Made(p, k) PROVE Own(p)
  BY DEF Made, Own

\* The steps that change no descriptor, file, entry or channel.
LEMMA MadeFrame ==
    ASSUME UNCHANGED <<fdtab, fd, mode, private, pid, channels, chid>>
    PROVE  \A p, k : Made(p, k)' <=> Made(p, k)
  BY DEF Made, Connects

\* Channels of connections other than the descriptor that changes stay.
LEMMA MadeKept ==
    ASSUME UserInv, NEW p \in Pids, NEW n \in Fds, Keeps(p, n), KeepsEntry(p, n), UNCHANGED chid,
           NEW q \in Pids, fd'[q] = fd[q], q # p \/ fd[q] # n, NEW k, Made(q, k)
    PROVE  Made(q, k)'
  <1>1. PICK m \in Fds : /\ fd[q] = m /\ Connects(q, m) /\ pid[private[fdtab[q][m]]] = q
                         /\ \E c \in channels[private[fdtab[q][m]]] : chid[c] = k
    BY DEF Made
  <1>2. q # p \/ m # n
    BY <1>1
  <1>3. PICK f \in Files : f = fdtab[q][m] /\ f = fdtab'[q][m] /\ mode[f] = "rdwr" /\ f # NULL
    BY <1>1, <1>2, OpenFile DEF Keeps, Connects, UserInv
  <1>4. private[f] # NULL
    BY <1>3 DEF UserInv, BaseInv, RegisterInv, OwnersInv
  <1>5. /\ private'[f] = private[f] /\ pid'[private[f]] = pid[private[f]]
        /\ channels'[private[f]] = channels[private[f]]
    <2>1. /\ private'[fdtab[q][m]] = private[fdtab[q][m]]
          /\ private[fdtab[q][m]] # NULL =>
                /\ pid'[private[fdtab[q][m]]] = pid[private[fdtab[q][m]]]
                /\ channels'[private[fdtab[q][m]]] = channels[private[fdtab[q][m]]]
      <3>1. fdtab[q][m] # NULL
        BY <1>3
      <3> QED BY <1>2, <3>1, Zenon DEF KeepsEntry
    <2>2. fdtab[q][m] = f
      BY <1>3
    <2> QED BY <1>4, <2>1, <2>2, Zenon
  <1>6. Connects(q, m)'
    BY <1>1, <1>2, OthersKeep
  <1>7. /\ pid'[private'[fdtab'[q][m]]] = q
        /\ \E c \in channels'[private'[fdtab'[q][m]]] : chid'[c] = k
    BY <1>1, <1>3, <1>5
  <1> QED BY <1>1, <1>6, <1>7 DEF Made

\* close of anything but the connection.
LEMMA CloseMade ==
    ASSUME UserInv, ChannelTypes, NEW p \in Pids, NEW n \in Fds, fdtab[p][n] # NULL,
           CloseFd(p, n), UNCHANGED fd, NEW q \in Pids, NEW k, Made(q, k),
           q # p \/ mode[fdtab[p][n]] = "poll"
    PROVE  Made(q, k)'
  <1>1. Keeps(p, n)
    BY CloseFdBase DEF UserInv
  <1>2. KeepsEntry(p, n)
    BY CloseFdOwn
  <1>3. q # p \/ fd[q] # n
    BY DEF Made, Connects
  <1>4. UNCHANGED chid
    BY DEF CloseFd, Release, regVars, chanVars
  <1> QED BY <1>1, <1>2, <1>3, <1>4, MadeKept

\* initialize() by another process.
LEMMA InitializeMade ==
    ASSUME UserInv, NEW p \in Pids, Initialize(p), NEW q \in Pids, q # p, NEW k, Made(q, k)
    PROVE  Made(q, k)'
  <1>1. fd'[q] = fd[q]
    BY InitializeBase DEF UserInv
  <1>2. UNCHANGED <<channels, chid>>
    BY InitializeChannels
  <1>3. CASE fd'[p] \in Fds
    <2>1. PICK n \in Fds : n = fd'[p] /\ n # NoFd
      BY <1>3, NoFdFree
    <2>2. Keeps(p, n)
      BY <2>1, InitializeBase DEF UserInv
    <2>3. KeepsEntry(p, n)
      BY <2>1, InitializeOwn
    <2> QED BY <1>1, <1>2, <2>2, <2>3, MadeKept
  <1>4. CASE fd'[p] \notin Fds
    <2>1. UNCHANGED <<fdtab, mode, private, pid>>
      BY <1>4, InitializeBase DEF UserInv, regVars, fileVars, entryVars
    <2> QED BY <1>1, <1>2, <2>1 DEF Made, Connects
  <1> QED BY <1>3, <1>4

\* ChannelCreate on the entry of the process's connection: the new channel is there, and
\* the memory it gets was no channel of anyone.
LEMMA IoctlMade ==
    ASSUME UserInv, AloneInv, Alone, ChannelInv, SurviveInv, NEW th \in Threads, IoctlCall(th)
    PROVE  SurviveInv'
  <1>1. PICK p \in Pids : p = ProcessOf[th]
    BY UserspaceAssumption
  <1>2. pc[th] = "ioctl" /\ UNCHANGED <<alive, fdtab, fd, mode, private, pid>>
    BY DEF IoctlCall, CreateChannel, ChannelCreate, regVars, fileVars, entryVars
  <1>3. alive \subseteq Pids
    BY DEF UserInv, ThreadTypes
  <1>4. CASE UNCHANGED <<regVars, made>>
    <2>1. UNCHANGED <<channels, chid>>
      BY <1>4 DEF regVars, entryVars, chanVars
    <2>2. \A q, k : Made(q, k)' <=> Made(q, k)
      BY <1>2, <2>1, MadeFrame
    <2> QED BY <1>2, <1>4, <2>2 DEF SurviveInv
  <1>5. CASE ~UNCHANGED <<regVars, made>>
    <2>1. PICK f \in Files :
             /\ num[th] \in Fds /\ f = fdtab[p][num[th]]
             /\ private[f] \in Entries /\ pid[private[f]] = p
             /\ ChannelCreate(private[f])
             /\ \/ UNCHANGED made
                \/ /\ Cardinality(channels[private[f]]) < max_channels
                   /\ made' = [made EXCEPT ![p] = made[p] \cup {gbl_next_channel_id'}]
      BY <1>1, <1>5, IoctlChannels
    <2>2. PICK e \in Entries : e = private[f] /\ ChannelCreate(e)
      BY <2>1
    <2>3. PICK j \in Nat : gbl_next_channel_id' = j /\ j = gbl_next_channel_id + 1
      BY <2>2 DEF ChannelCreate, ChannelInv, ChannelTypes
    <2>4. \A x \in Entries : \A c \in channels[x] : c \in channels'[x] /\ chid'[c] = chid[c]
      <3>1. CASE Cardinality(channels[e]) < max_channels
        <4>1. PICK d \in Chans : /\ chanRefs[d] = 0
                                 /\ chid' = [chid EXCEPT ![d] = gbl_next_channel_id + 1]
                                 /\ channels' = [channels EXCEPT ![e] = channels[e] \cup {d}]
          BY <2>2, <3>1 DEF ChannelCreate, NewChannelId
        <4>2. ~Owned(d)
          BY <4>1 DEF ChannelInv, RefsOfOwner, ChannelTypes
        <4> QED BY <4>1, <4>2 DEF Owned, ChannelInv, ChannelTypes
      <3>2. CASE ~(Cardinality(channels[e]) < max_channels)
        BY <2>2, <3>2 DEF ChannelCreate
      <3> QED BY <3>1, <3>2
    <2>5. ASSUME NEW q \in Pids, NEW k, Made(q, k) PROVE Made(q, k)'
      <3>1. PICK m \in Fds : /\ fd[q] = m /\ Connects(q, m) /\ pid[private[fdtab[q][m]]] = q
                             /\ \E c \in channels[private[fdtab[q][m]]] : chid[c] = k
        BY <2>5 DEF Made
      <3>2. PICK g \in Files : g = fdtab[q][m] /\ mode[g] = "rdwr"
        BY <3>1, OpenFile DEF Connects, UserInv
      <3>3. private[g] \in Entries
        BY <3>2 DEF UserInv, BaseInv, RegisterInv, OwnersInv, EntryInv, FileTypes
      <3>4. \E c \in channels'[private[g]] : chid'[c] = k
        BY <2>4, <3>1, <3>2, <3>3
      <3> QED BY <1>2, <3>1, <3>2, <3>4 DEF Made, Connects
    <2>6. ASSUME Cardinality(channels[e]) < max_channels
          PROVE  Made(p, j)'
      <3>1. PICK d \in Chans : /\ chid' = [chid EXCEPT ![d] = gbl_next_channel_id + 1]
                               /\ channels' = [channels EXCEPT ![e] = channels[e] \cup {d}]
        BY <2>2, <2>6 DEF ChannelCreate, NewChannelId
      <3>2. d \in channels'[e] /\ chid'[d] = j
        BY <2>3, <3>1 DEF ChannelInv, ChannelTypes
      <3>3. PICK n \in Fds : fd[p] = n /\ Connects(p, n)
        BY <1>1, <1>2, FdConnects
      <3>4. num[th] = n
        BY <1>1, <1>2, <3>3 DEF AloneInv, CallOK
      <3>5. private'[fdtab'[p][n]] = e /\ pid'[e] = p /\ fd'[p] = n /\ Connects(p, n)'
        BY <1>2, <2>1, <2>2, <3>3, <3>4 DEF Connects
      <3> QED BY <3>2, <3>5 DEF Made
    <2>7. made' \in [Pids -> SUBSET Nat]
      BY <2>1, <2>3 DEF SurviveInv
    <2>8. ASSUME NEW q \in alive', NEW k \in made'[q] PROVE Made(q, k)'
      <3>1. q \in alive /\ q \in Pids
        BY <1>2, <1>3
      <3>2. CASE k \in made[q]
        BY <2>5, <3>1, <3>2 DEF SurviveInv
      <3>3. CASE k \notin made[q]
        <4>1. q = p /\ k = j /\ Cardinality(channels[e]) < max_channels
          BY <2>1, <2>2, <2>3, <2>8, <3>1, <3>3 DEF SurviveInv
        <4> QED BY <2>6, <4>1
      <3> QED BY <3>2, <3>3
    <2> QED BY <2>7, <2>8 DEF SurviveInv
  <1> QED BY <1>4, <1>5

\* A step that adds to no process's channels, and loses none of a process that runs.
LEMMA SurviveStep ==
    ASSUME SurviveInv, made' \in [Pids -> SUBSET Nat], alive' \subseteq Pids,
           \A q \in alive', k \in Nat : k \in made'[q] =>
              q \in alive /\ k \in made[q] /\ (Made(q, k) => Made(q, k)')
    PROVE  SurviveInv'
  BY DEF SurviveInv

\* Every step keeps the channels of all processes that run.
LEMMA NextSurvive ==
    Alone /\ UserInv /\ ChannelInv /\ AloneInv /\ SurviveInv /\ [Next]_vars => SurviveInv'
  <1> SUFFICES ASSUME Alone, UserInv, ChannelInv, ChannelTypes, AloneInv, SurviveInv, [Next]_vars
               PROVE  SurviveInv'
    BY DEF ChannelInv
  <1>0. /\ alive \subseteq Pids /\ \A th \in Threads : ProcessOf[th] \in Pids
        /\ made \in [Pids -> SUBSET Nat]
    BY UserspaceAssumption DEF UserInv, ThreadTypes, SurviveInv
  <1>1. ASSUME UNCHANGED <<alive, made, fdtab, fd, mode, private, pid, channels, chid>>
        PROVE  SurviveInv'
    BY <1>0, <1>1, MadeFrame, SurviveStep
  <1>2. ASSUME NEW p \in alive, ~Own(p), NEW k PROVE k \notin made[p]
    BY <1>2, MadeOwn DEF SurviveInv
  <1>3. ASSUME NEW p \in Pids, NEW n \in Fds, fdtab[p][n] # NULL, CloseFd(p, n),
               UNCHANGED <<alive, fd, made>>, p \in alive => ~Own(p) \/ mode[fdtab[p][n]] = "poll"
        PROVE  SurviveInv'
    <2>1. ASSUME NEW q \in alive, NEW k \in Nat, k \in made[q] PROVE Made(q, k) => Made(q, k)'
      <3>1. q # p \/ mode[fdtab[p][n]] = "poll"
        BY <1>2, <1>3, <2>1
      <3> QED BY <1>0, <1>3, <3>1, CloseMade
    <2> QED BY <1>0, <1>3, <2>1, SurviveStep
  <1>4. ASSUME NEW p \in Pids, Start(p) PROVE SurviveInv'
    <2>1. /\ alive' = alive \cup {p} /\ made' = [made EXCEPT ![p] = {}] /\ Initialize(p)
      BY <1>4 DEF Start, NewProcess
    <2>2. made' \in [Pids -> SUBSET Nat] /\ made'[p] = {} /\ \A q \in Pids : q # p => made'[q] = made[q]
      BY <1>0, <2>1
    <2>3. ASSUME NEW q \in alive', NEW k \in Nat, k \in made'[q]
          PROVE  q \in alive /\ k \in made[q] /\ (Made(q, k) => Made(q, k)')
      <3>1. q # p /\ q \in alive /\ q \in Pids /\ k \in made[q]
        BY <1>0, <2>1, <2>2, <2>3
      <3> QED BY <2>1, <3>1, InitializeMade
    <2> QED BY <1>0, <2>1, <2>2, <2>3, SurviveStep
  <1>5. ASSUME NEW p \in Pids, Exit(p) PROVE SurviveInv'
    <2>1. /\ alive' \subseteq alive /\ UNCHANGED made
          /\ UNCHANGED <<fdtab, fd, mode, private, pid, channels, chid>>
      BY <1>5 DEF Exit, regVars, fileVars, entryVars, chanVars
    <2> QED BY <1>0, <2>1, MadeFrame, SurviveStep
  <1>6. ASSUME NEW p \in Pids, NEW n \in Fds, ExitClose(p, n) PROVE SurviveInv'
    BY <1>3, <1>6 DEF ExitClose
  <1>7. ASSUME NEW th \in Threads, NEW q \in Pids, Fork(th, q) PROVE SurviveInv'
    <2>1. /\ alive' = alive \cup {q} /\ made' = [made EXCEPT ![q] = {}]
          /\ fdtab' = [fdtab EXCEPT ![q] = fdtab[ProcessOf[th]]]
          /\ fd' = [fd EXCEPT ![q] = fd[ProcessOf[th]]]
          /\ UNCHANGED <<mode, private, pid, channels, chid>>
      BY <1>7 DEF Fork, NewProcess, regVars, fileVars, entryVars, chanVars
    <2>2. /\ made' \in [Pids -> SUBSET Nat] /\ made'[q] = {}
          /\ \A r \in Pids : r # q => made'[r] = made[r] /\ fd'[r] = fd[r] /\ fdtab'[r] = fdtab[r]
      BY <1>0, <2>1 DEF UserInv, BaseInv, DescriptorTypes
    <2>3. ASSUME NEW r \in alive', NEW k \in Nat, k \in made'[r]
          PROVE  r \in alive /\ k \in made[r] /\ (Made(r, k) => Made(r, k)')
      <3>1. r # q /\ r \in alive /\ r \in Pids /\ k \in made[r]
        BY <1>0, <2>1, <2>2, <2>3
      <3>2. Made(r, k) => Made(r, k)'
        BY <2>1, <2>2, <3>1 DEF Made, Connects
      <3> QED BY <3>1, <3>2
    <2> QED BY <1>0, <2>1, <2>2, <2>3, SurviveStep
  <1>8. ASSUME NEW th \in Threads, NEW c \in Cmd, Call(th, c) PROVE SurviveInv'
    BY <1>1, <1>8 DEF Call, procVars, regVars, fileVars, entryVars, chanVars
  <1>9. ASSUME NEW th \in Threads, MsgReceivePollFd(th) PROVE SurviveInv'
    <2>1. UNCHANGED <<alive, fd, made>>
      BY <1>9 DEF MsgReceivePollFd
    <2>2. PICK p \in Pids : p = ProcessOf[th]
      BY <1>0
    <2>3. PICK n \in Fds : n = num'[th] /\ fdtab[p][n] = NULL /\ Keeps(p, n)
      BY <1>9, <2>2, PollFdBase DEF UserInv, ThreadTypes
    <2>4. KeepsEntry(p, n) /\ UNCHANGED chid
      BY <1>9, PollFdOwn
    <2>5. ASSUME NEW q \in alive, NEW k, Made(q, k) PROVE Made(q, k)'
      <3>1. q # p \/ fd[q] # n
        BY <2>3, <2>5 DEF Made, Connects
      <3> QED BY <1>0, <2>1, <2>3, <2>4, <2>5, <3>1, MadeKept
    <2> QED BY <1>0, <2>1, <2>5, SurviveStep
  <1>10. ASSUME NEW th \in Threads, NEW n \in Fds, UserClose(th, n) PROVE SurviveInv'
    BY <1>0, <1>3, <1>10 DEF UserClose, Free
  <1>11. ASSUME NEW th \in Threads, Step(th) PROVE SurviveInv'
    <2>1. CASE ReadFd(th) \/ Lock(th)
      BY <1>1, <2>1 DEF ReadFd, Lock, procVars, regVars, fileVars, entryVars, chanVars
    <2>2. CASE IoctlCall(th)
      BY <2>2, IoctlMade
    <2>3. CASE CloseOld(th)
      <3>1. PICK p \in Pids : p = ProcessOf[th]
        BY <1>0
      <3>2. pc[th] = "close" /\ UNCHANGED <<alive, fd, made>>
        BY <2>3 DEF CloseOld
      <3>3. PICK n \in Fds : fd[p] = n /\ Connects(p, n)
        BY <3>1, <3>2, FdConnects
      <3>4. CloseFd(p, n) /\ fdtab[p][n] # NULL
        BY <2>3, <3>1, <3>3, NoFdFree DEF CloseOld, Free, Connects
      <3>5. ~Own(p)
        BY <3>1, <3>2 DEF AloneInv, CallOK
      <3> QED BY <1>3, <3>2, <3>4, <3>5
    <2>4. CASE OpenNew(th)
      <3>1. PICK p \in Pids : p = ProcessOf[th]
        BY <1>0
      <3>2. pc[th] = "open" /\ Initialize(p) /\ UNCHANGED <<alive, made>>
        BY <2>4, <3>1 DEF OpenNew
      <3>3. ~Own(p)
        BY <3>1, <3>2 DEF AloneInv, CallOK
      <3>4. ASSUME NEW q \in alive, NEW k \in Nat, k \in made[q] PROVE Made(q, k) => Made(q, k)'
        BY <1>0, <1>2, <3>2, <3>3, <3>4, InitializeMade
      <3> QED BY <1>0, <3>2, <3>4, SurviveStep
    <2>5. CASE PollRegister(th)
      <3>1. UNCHANGED <<alive, made, fdtab, fd, mode, private, pid, channels, chid>>
        BY <2>5 DEF PollRegister, AddPollFd, procVars, regVars, fileVars, entryVars, chanVars
      <3> QED BY <1>1, <3>1
    <2>6. CASE PollClose(th)
      <3>1. /\ num[th] \in Fds /\ fdtab[ProcessOf[th]][num[th]] # NULL
            /\ mode[fdtab[ProcessOf[th]][num[th]]] = "poll"
        BY <2>6 DEF PollClose, UserInv, ThreadsInv, Polling
      <3> QED BY <1>0, <1>3, <2>6, <3>1 DEF PollClose
    <2> QED BY <1>11, <2>1, <2>2, <2>3, <2>4, <2>5, <2>6 DEF Step
  <1>12. CASE UNCHANGED vars
    BY <1>1, <1>12 DEF vars, procVars, regVars, fileVars, entryVars, chanVars
  <1> QED BY <1>4, <1>5, <1>6, <1>7, <1>8, <1>9, <1>10, <1>11, <1>12 DEF Next

\* A process whose connection is its own is found by its pid, and so are its channels.
LEMMA MadeReached ==
    ASSUME UserInv, NEW p \in Pids, NEW k, Made(p, k) PROVE Reached(p, k) # {}
  <1>1. PICK n \in Fds : /\ fd[p] = n /\ Connects(p, n) /\ pid[private[fdtab[p][n]]] = p
                         /\ \E c \in channels[private[fdtab[p][n]]] : chid[c] = k
    BY DEF Made
  <1>2. PICK f \in Files : f = fdtab[p][n] /\ mode[f] = "rdwr"
    BY <1>1, OpenFile DEF Connects, UserInv
  <1>3. private[f] \in ToSet(process_entries)
    BY <1>2 DEF UserInv, BaseInv, RegisterInv, OwnersInv
  <1>4. FileTypes
    BY DEF UserInv, BaseInv, EntryInv
  <1>5. ProcessAvailable(p)
    BY <1>1, <1>2, <1>3 DEF ProcessAvailable, PlacesOf, ToSet
  <1>6. FindProcess(p) \in ToSet(process_entries) /\ pid[FindProcess(p)] = p
    <2>1. DOMAIN process_entries = 1..Len(process_entries) /\ Len(process_entries) \in Nat
      BY <1>4, LenProperties DEF FileTypes
    <2>2. PlacesOf(p) \in SUBSET Nat /\ PlacesOf(p) # {}
      BY <1>5, <2>1 DEF PlacesOf, ProcessAvailable
    <2>3. Min(PlacesOf(p)) \in PlacesOf(p)
      BY <2>2, MinIn
    <2> QED BY <2>3 DEF PlacesOf, FindProcess, ToSet
  <1>7. FindProcess(p) = private[f]
    BY <1>1, <1>2, <1>3, <1>6 DEF UserInv, BaseInv, RegisterInv, ListInv
  <1> QED BY <1>1, <1>2, <1>5, <1>7 DEF Reached, ChannelsWith

\* Under these conditions the channels of a process are reached through its pid as long
\* as it runs: neither the reconnect of a child, nor the end of its parent, nor
\* descriptors the two share take them away.
THEOREM UserspaceChannelsSurvive == Alone => (Spec => []ChannelsSurvive)
  <1> SUFFICES ASSUME Alone PROVE Spec => []ChannelsSurvive
    OBVIOUS
  <1>1. UserInv /\ SurviveInv => ChannelsSurvive
    BY MadeReached DEF SurviveInv, ChannelsSurvive, UserInv, ThreadTypes
  <1>2. UserInv /\ ChannelInv /\ AloneInv /\ [Next]_vars => AloneInv'
    BY NextAlone
  <1>3. UserInv /\ ChannelInv /\ AloneInv /\ SurviveInv /\ [Next]_vars => SurviveInv'
    BY NextSurvive
  <1>4. Init => ChannelInv /\ SurviveInv
    BY InitChannelInv DEF Init, SurviveInv
  <1> QED BY <1>1, <1>2, <1>3, <1>4, InitAlone, NextChannels, UserspaceInvariant, PTL DEF Spec
===============================================================================
