-------------------------------- MODULE Userspace -----------------------------
(***************************************************************************)
(* Processes that use the driver through userspace/userspace.cpp: its      *)
(* descriptor fd, opened when the program starts, and safe_ioctl, which    *)
(* reconnects when an ioctl answers ENOSPC: the driver says so after a     *)
(* fork, and a server may say so with MsgError or MsgReply.                *)
(*                                                                         *)
(* A process has a table of descriptors; a file lives as long as some      *)
(* process has a descriptor for it.  fork copies table, fd and mutex;      *)
(* a process may end at any time, and its pid may be used again.  A step   *)
(* of a thread is a system call or an access to a variable that the other  *)
(* threads of its process change.                                          *)
(***************************************************************************)
EXTENDS Registry

CONSTANTS
    Threads,      \* threads of all processes
    ProcessOf,    \* the process of each thread
    Fds,          \* descriptor numbers, 1..n
    Cmd,          \* calls made: ChannelCreate, and all calls that change nothing here
    ReusePids,    \* FALSE: the pids do not wrap around
    OpenMayFail,  \* TRUE: the driver may have no memory for a process entry
    ServersSayENOSPC,  \* TRUE: a server may answer a message with ENOSPC
    MaxForks,     \* bound on the forks
    MaxStarts     \* bound on the program starts

ASSUME UserspaceAssumption ==
    /\ NULL \notin Threads /\ "orphan" \notin Threads \cup {NULL}
    /\ ProcessOf \in [Threads -> Pids]
    /\ Fds \subseteq Nat
    /\ Cmd \subseteq {"ChannelCreate", "Other"}
    /\ ReusePids \in BOOLEAN /\ OpenMayFail \in BOOLEAN /\ ServersSayENOSPC \in BOOLEAN
    /\ MaxForks \in Nat /\ MaxStarts \in Nat

VARIABLES
    alive,     \* processes that run
    used,      \* pids that have been given to a process
    fdtab,     \* descriptor table of each process
    fd,        \* the library's fd; -1: open failed
    mtx,       \* owner of the library's mutex; "orphan": a thread the fork left behind
    pc,        \* where each thread is
    cmd,       \* the call a thread is in
    num,       \* the descriptor a thread has read from fd or got from open
    tries,     \* i of safe_ioctl
    ret,       \* rc and errno of the last call of each thread
    made,      \* history: channel ids ChannelCreate has returned, per process
    forks, starts

procVars == <<alive, used, fdtab, fd, mtx, made, forks, starts>>
threadVars == <<pc, cmd, num, tries, ret>>
vars == <<regVars, procVars, threadVars>>

\* A number no descriptor has.
NoFd == -1

TypeOK ==
    /\ RegTypeOK
    /\ alive \subseteq used /\ used \subseteq Pids
    /\ fdtab \in [Pids -> [Fds -> Files \cup {NULL}]]
    /\ fd \in [Pids -> Fds \cup {NoFd}]
    /\ mtx \in [Pids -> Threads \cup {NULL, "orphan"}]
    /\ pc \in [Threads -> {"idle", "read", "ioctl", "lock", "close", "open",
                           "poll_register", "poll_close"}]
    /\ cmd \in [Threads -> Cmd \cup {"none"}]
    /\ num \in [Threads -> Fds \cup {NoFd}]
    /\ tries \in [Threads -> 0..1]
    /\ ret \in [Threads -> {"OK", "EMFILE", "ENOMEM", "EBADF", "ENOTTY", "ENOSPC",
                            "ESRCH", "coid_EBADF"}]
    /\ made \in [Pids -> SUBSET (1..MaxChid)]
    /\ forks \in 0..MaxForks
    /\ starts \in 0..MaxStarts

Init ==
    /\ RegInit
    /\ alive = {}
    /\ used = {}
    /\ fdtab = [p \in Pids |-> [n \in Fds |-> NULL]]
    /\ fd = [p \in Pids |-> NoFd]
    /\ mtx = [p \in Pids |-> NULL]
    /\ pc = [th \in Threads |-> "idle"]
    /\ cmd = [th \in Threads |-> "none"]
    /\ num = [th \in Threads |-> NoFd]
    /\ tries = [th \in Threads |-> 0]
    /\ ret = [th \in Threads |-> "OK"]
    /\ made = [p \in Pids |-> {}]
    /\ forks = 0
    /\ starts = 0

-------------------------------------------------------------------------------
(* Descriptors: open and close of the kernel.                              *)

Free(p) == {n \in Fds : fdtab[p][n] = NULL}

\* The descriptors that refer to file f.
Refs(f) == {r \in Pids \X Fds : fdtab[r[1]][r[2]] = f}

\* close(n) by p; the last descriptor of a file releases it.  n is open.
CloseFd(p, n) ==
    /\ fdtab' = [fdtab EXCEPT ![p][n] = NULL]
    /\ IF Refs(fdtab[p][n]) = {<<p, n>>} THEN Release(fdtab[p][n])
                                         ELSE UNCHANGED regVars

\* initialize(): the lowest free descriptor for a new file, or failure (EMFILE, or
\* ENOSPC or ENOMEM from qnxcomm_open).  The mutex, at the start the lack of other
\* threads, keeps the two halves of qnxcomm_open together.
Initialize(p) ==
    \/ /\ ~ProcessAvailable(p) /\ Free(p) # {}
       /\ \E f \in Files :
             /\ mode[f] = "none"
             /\ AddProcess(p, f)
             /\ fdtab' = [fdtab EXCEPT ![p][Min(Free(p))] = f]
       /\ fd' = [fd EXCEPT ![p] = Min(Free(p))]
       /\ UNCHANGED opening
    \/ /\ ProcessAvailable(p) \/ Free(p) = {} \/ OpenMayFail
       /\ fd' = [fd EXCEPT ![p] = NoFd]
       /\ UNCHANGED <<fdtab, regVars>>

-------------------------------------------------------------------------------
(* Processes.                                                              *)

\* A new process: its pid has never been used, or is not used any more.
NewProcess(p) ==
    /\ p \notin (IF ReusePids THEN alive ELSE used)
    /\ \A n \in Fds : fdtab[p][n] = NULL
    /\ alive' = alive \cup {p}
    /\ used' = used \cup {p}

\* A program starts; fd is a static variable.
Start(p) ==
    /\ NewProcess(p)
    /\ starts < MaxStarts
    /\ starts' = starts + 1
    /\ Initialize(p)
    /\ mtx' = [mtx EXCEPT ![p] = NULL]
    /\ made' = [made EXCEPT ![p] = {}]
    /\ UNCHANGED <<threadVars, forks>>

\* The child has copies of the descriptors and of the library's variables, and only
\* the thread that called fork.
Fork(th, q) ==
    LET p == ProcessOf[th] IN
    /\ p \in alive
    /\ pc[th] = "idle"
    /\ NewProcess(q)
    /\ forks < MaxForks
    /\ forks' = forks + 1
    /\ fdtab' = [fdtab EXCEPT ![q] = fdtab[p]]
    /\ fd' = [fd EXCEPT ![q] = fd[p]]
    /\ mtx' = [mtx EXCEPT ![q] = IF mtx[p] = NULL THEN NULL ELSE "orphan"]
    /\ made' = [made EXCEPT ![q] = {}]
    /\ UNCHANGED <<regVars, threadVars, starts>>

\* exit, abort or a fatal signal: the threads are gone ...
Exit(p) ==
    /\ p \in alive
    /\ alive' = alive \ {p}
    /\ LET Reset(v, x) == [th \in Threads |-> IF ProcessOf[th] = p THEN x ELSE v[th]] IN
          /\ pc' = Reset(pc, "idle")
          /\ cmd' = Reset(cmd, "none")
          /\ num' = Reset(num, NoFd)
          /\ tries' = Reset(tries, 0)
          /\ ret' = Reset(ret, "OK")
    /\ UNCHANGED <<regVars, used, fdtab, fd, mtx, made, forks, starts>>

\* ... and the kernel closes the descriptors, one after the other.
ExitClose(p, n) ==
    /\ p \notin alive
    /\ fdtab[p][n] # NULL
    /\ CloseFd(p, n)
    /\ UNCHANGED <<alive, used, fd, mtx, made, forks, starts, threadVars>>

-------------------------------------------------------------------------------
(* The calls of the library.                                               *)

Goto(th, l) == pc' = [pc EXCEPT ![th] = l]

\* The call of th returns r, and its locals are gone.
Return(th, r) ==
    /\ Goto(th, "idle")
    /\ ret' = [ret EXCEPT ![th] = r]
    /\ cmd' = [cmd EXCEPT ![th] = "none"]
    /\ num' = [num EXCEPT ![th] = NoFd]
    /\ tries' = [tries EXCEPT ![th] = 0]

\* The call of th goes on at l.
Continue(th, l) == Goto(th, l) /\ UNCHANGED <<cmd, num, tries, ret>>

\* ChannelCreate, or a call that changes nothing here: "if (fd >= 0)".
Call(th, c) ==
    LET p == ProcessOf[th] IN
    /\ p \in alive
    /\ pc[th] = "idle"
    /\ IF fd[p] = NoFd THEN Return(th, "ESRCH")
       ELSE /\ Goto(th, "read")
            /\ cmd' = [cmd EXCEPT ![th] = c]
            /\ UNCHANGED <<num, tries, ret>>
    /\ UNCHANGED <<regVars, procVars>>

\* safe_ioctl reads fd ...
ReadFd(th) ==
    /\ pc[th] = "read"
    /\ num' = [num EXCEPT ![th] = fd[ProcessOf[th]]]
    /\ Goto(th, "ioctl")
    /\ UNCHANGED <<regVars, procVars, cmd, tries, ret>>

\* What ioctl(n) by process p says before it comes to the handler of the call.
Answer(p, n) ==
    IF n = NoFd \/ n \in Free(p) THEN "EBADF" ELSE IoctlResult(p, fdtab[p][n])

\* ChannelCreate on entry e; the kernel may have no memory.
CreateChannel(th, e) ==
    \/ /\ ChannelCreate(e)
       /\ IF Cardinality(channels[e]) < max_channels
             THEN /\ Return(th, "OK")
                  /\ made' = [made EXCEPT ![ProcessOf[th]] = @ \cup {gbl_next_channel_id'}]
             ELSE Return(th, "EMFILE") /\ UNCHANGED made
    \/ Return(th, "ENOMEM") /\ UNCHANGED <<regVars, made>>

\* What the handler of another call says: success, EBADF for a coid that is unknown
\* (named apart from the EBADF of a bad descriptor; the other errors reach the caller
\* in the same way), or the status of the server's MsgError or MsgReply.
HandlerResults ==
    {"OK", "coid_EBADF"} \cup (IF ServersSayENOSPC THEN {"server_ENOSPC"} ELSE {})

\* ... and calls ioctl: ENOSPC, whoever it is from, leads to a reconnect, all else to
\* the caller.
IoctlCall(th) ==
    LET p == ProcessOf[th]
        r == Answer(p, num[th])
    IN
    /\ pc[th] = "ioctl"
    /\ \/ /\ r = "OK" /\ cmd[th] = "ChannelCreate"
          /\ CreateChannel(th, private[fdtab[p][num[th]]])
       \/ /\ r = "ENOSPC" \/ (r = "OK" /\ cmd[th] = "Other" /\ "server_ENOSPC" \in HandlerResults)
          /\ Continue(th, "lock")
          /\ UNCHANGED <<regVars, made>>
       \/ /\ \/ r \notin {"OK", "ENOSPC"} /\ Return(th, r)
             \/ /\ r = "OK" /\ cmd[th] = "Other"
                /\ \E h \in HandlerResults \ {"server_ENOSPC"} : Return(th, h)
          /\ UNCHANGED <<regVars, made>>
    /\ UNCHANGED <<alive, used, fdtab, fd, mtx, forks, starts>>

Lock(th) ==
    /\ pc[th] = "lock"
    /\ mtx[ProcessOf[th]] = NULL
    /\ mtx' = [mtx EXCEPT ![ProcessOf[th]] = th]
    /\ Continue(th, "close")
    /\ UNCHANGED <<regVars, alive, used, fdtab, fd, made, forks, starts>>

\* The old descriptor stays open.
CloseOldNot(th) ==
    /\ pc[th] = "close"
    /\ Continue(th, "open")
    /\ UNCHANGED <<regVars, procVars>>

\* close(fd): whatever fd is by now; EBADF when it is not open.
CloseOld(th) ==
    LET p == ProcessOf[th] IN
    /\ pc[th] = "close"
    /\ IF fd[p] = NoFd \/ fd[p] \in Free(p) THEN UNCHANGED <<regVars, fdtab>>
                                            ELSE CloseFd(p, fd[p])
    /\ Continue(th, "open")
    /\ UNCHANGED <<alive, used, fd, mtx, made, forks, starts>>

\* The ioctl is not tried again.
OpenNewNoRetry(th) ==
    /\ pc[th] = "open"
    /\ Initialize(ProcessOf[th])
    /\ mtx' = [mtx EXCEPT ![ProcessOf[th]] = NULL]
    /\ Return(th, "ENOSPC")
    /\ UNCHANGED <<alive, used, made, forks, starts>>

\* The mutex stays locked.
OpenNewKeepsLock(th) ==
    /\ pc[th] = "open"
    /\ Initialize(ProcessOf[th])
    /\ Goto(th, "read")
    /\ tries' = [tries EXCEPT ![th] = 1]
    /\ UNCHANGED <<alive, used, mtx, made, forks, starts, cmd, num, ret>>

\* fd = initialize(), unlock; the second ENOSPC is the caller's.
OpenNew(th) ==
    LET p == ProcessOf[th] IN
    /\ pc[th] = "open"
    /\ Initialize(p)
    /\ mtx' = [mtx EXCEPT ![p] = NULL]
    /\ IF tries[th] = 1 THEN Return(th, "ENOSPC")
       ELSE /\ Goto(th, "read")
            /\ tries' = [tries EXCEPT ![th] = 1]
            /\ UNCHANGED <<cmd, num, ret>>
    /\ UNCHANGED <<alive, used, made, forks, starts>>

-------------------------------------------------------------------------------
(* MsgReceivePollFd and poll.                                              *)

MsgReceivePollFd(th) ==
    LET p == ProcessOf[th] IN
    /\ p \in alive
    /\ pc[th] = "idle"
    /\ Free(p) # {}
    /\ \E f \in Files :
          /\ OpenPoll(p, f)
          /\ fdtab' = [fdtab EXCEPT ![p][Min(Free(p))] = f]
    /\ num' = [num EXCEPT ![th] = Min(Free(p))]
    /\ Goto(th, "poll_register")
    /\ UNCHANGED <<alive, used, fd, mtx, made, forks, starts, cmd, tries, ret>>

\* ioctl of QNX_IO_REGISTER_POLLFD
PollRegister(th) ==
    LET p == ProcessOf[th]
        f == fdtab[p][num[th]]
    IN
    /\ pc[th] = "poll_register"
    /\ \/ /\ IoctlResult(p, f) = "OK"
          /\ \E k \in 1..MaxChid : AddPollFd(private[f], f, k)
          /\ Return(th, "OK")
       \/ Continue(th, "poll_close") /\ UNCHANGED regVars
    /\ UNCHANGED procVars

PollClose(th) ==
    /\ pc[th] = "poll_close"
    /\ CloseFd(ProcessOf[th], num[th])
    /\ Return(th, IF IoctlResult(ProcessOf[th], fdtab[ProcessOf[th]][num[th]]) = "OK"
                     THEN "ESRCH" ELSE "ENOTTY")
    /\ UNCHANGED <<alive, used, fd, mtx, made, forks, starts>>

\* The program closes a poll descriptor.
UserClose(th, n) ==
    LET p == ProcessOf[th] IN
    /\ p \in alive
    /\ pc[th] = "idle"
    /\ n \notin Free(p) /\ mode[fdtab[p][n]] = "poll"
    /\ \A o \in Threads : ProcessOf[o] = p /\ pc[o] \in {"poll_register", "poll_close"} => num[o] # n
    /\ CloseFd(p, n)
    /\ UNCHANGED <<alive, used, fd, mtx, made, forks, starts, threadVars>>

-------------------------------------------------------------------------------

\* What a thread does once it has made its call.
Step(th) ==
    \/ ReadFd(th) \/ IoctlCall(th) \/ Lock(th) \/ CloseOld(th) \/ OpenNew(th)
    \/ PollRegister(th) \/ PollClose(th)

Next ==
    \/ \E p \in Pids : Start(p) \/ Exit(p)
    \/ \E p \in Pids, n \in Fds : ExitClose(p, n)
    \/ \E th \in Threads :
          \/ \E q \in Pids : Fork(th, q)
          \/ \E c \in Cmd : Call(th, c)
          \/ MsgReceivePollFd(th)
          \/ \E n \in Fds : UserClose(th, n)
          \/ Step(th)

Spec == Init /\ [][Next]_vars

\* The scheduler runs every thread that can run, and the end of a process does not
\* stop half way.
FairSpec ==
    /\ Spec
    /\ \A th \in Threads : WF_vars(Step(th))
    /\ \A p \in Pids : WF_vars(\E n \in Fds : ExitClose(p, n))

-------------------------------------------------------------------------------
(* Properties.                                                             *)

\* A process that has ended is forgotten with its channels, unless a process it has
\* forked still has the library's descriptor it inherited (a poll descriptor keeps
\* the entry's memory, not its place in the list).
ForgottenUnlessShared ==
    \A p \in Pids \ alive :
        (\A n \in Fds : fdtab[p][n] = NULL) /\ ProcessAvailable(p) =>
            \E q \in Pids, n \in Fds :
                /\ fdtab[q][n] # NULL
                /\ mode[fdtab[q][n]] = "rdwr"
                /\ private[fdtab[q][n]] = FindProcess(p)

\* safe_ioctl closes before it opens: a process never holds two connections to the
\* driver, however many of its threads reconnect.
OneConnection ==
    \A p \in Pids : Cardinality({n \in Fds \ Free(p) : mode[fdtab[p][n]] = "rdwr"}) <= 1

\* The reconnect after a fork is transparent: in processes with one thread each, with
\* memory, and with servers that do not themselves answer ENOSPC, no call fails because
\* of the descriptor: safe_ioctl never gets ENOSPC twice, and fd is never lost.  (The
\* driver's EBADF for an unknown coid is another error: the coids of the parent are
\* unknown to the child.)
ReconnectTransparent == \A th \in Threads : ret[th] \notin {"ENOSPC", "EBADF"}

\* The channels a process has made, and not destroyed, are there as long as it lives,
\* under the same conditions: a server's ENOSPC makes its client's safe_ioctl close the
\* client's own connection, and all channels go with it.
ChannelsSurvive ==
    \A p \in alive : \A k \in made[p] : Reached(p, k) # {}

\* Every call returns (or its process ends), with two exceptions.  The process was forked
\* while another thread had the mutex, which nobody will unlock.  Or other threads of the
\* process go on taking the mutex to reconnect for ever, which only a server that keeps
\* answering ENOSPC makes them do: a mutex promises no order.
CallsReturn ==
    \A th \in Threads :
        \/ pc[th] # "idle" ~> pc[th] = "idle" \/ mtx[ProcessOf[th]] = "orphan"
        \/ []<><<\E o \in Threads \ {th} : ProcessOf[o] = ProcessOf[th] /\ Lock(o)>>_vars

\* The same without the exceptions.
AllCallsReturn == \A th \in Threads : pc[th] # "idle" ~> pc[th] = "idle"

\* A process that has ended has no channels any more.
DeadHaveNoChannels ==
    \A p \in Pids \ alive :
        (\A n \in Fds : fdtab[p][n] = NULL) => \A k \in 1..MaxChid : Reached(p, k) = {}
===============================================================================
