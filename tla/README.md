# Verification of qnxcomm

qnxcomm is a Linux kernel driver (`src/kernel`) with a user space library
(`src/userspace`) that offers QNX message passing: a server creates a channel and
receives, a client attaches a connection to it and sends, and a blocking send lasts
until the server replies. This directory holds TLA+ models of driver and library,
TLC configurations that check them on small instances, and TLAPS proofs of theorems
that hold for instances of any size.

    tlc -workers 2 -config Answers.cfg MCMsgPassing     # one run of the table below
    tlapm MsgPassingProofs.tla                          # the proofs

## 1. The system

| part | state | operations | interacts with |
|---|---|---|---|
| message objects, `internal_msgsend.c` | receive id, status, state, task, buffers; the global `gbl_next_rcvid` | five constructors, three destructors | live on the sender's kernel stack (blocking) or the heap (pulse, no-reply); every other part holds pointers to them |
| channel, `channel.c` | queue `waiting`, `num_waiting`, `num_waiting_noreply`, reference count | init, add, remove by receive id, release/free | senders add, receivers take, poll reads `num_waiting` |
| process entry, `process_entry.c` | channels, `pending` messages, poll descriptors, connection table, reference count | add/remove channel, add/release pending, pollfd and connection calls, free | one per process that opened the driver |
| driver data, `driver_data.c` | list of process entries (RCU) | add, find, remove | every lookup starts here |
| connection table, `connection_table.c` | array of connections, replaced when it grows (RCU) | attach, detach, retrieve, walk, destroy | every send looks its coid up, `/proc` walks over it |
| handlers, `qnxcomm_driver.c` | locals of each call | the ioctls, open, close, poll, module start and end, parameters | all of the above |
| `/proc` views, `proc.c` | none | show connections, channels, blocked tasks | read the lists |
| user space library, `userspace.cpp` | the descriptor `fd` and its mutex, a timeout per thread | the QNX API, reconnect after fork, `TimerTimeout` | ioctls; `fork` copies its state |

What is hard here:

* *Concurrency.* A blocking sender's message is a local variable. Its owner may leave
  because of a signal or timeout at any time while server threads have pointers to it
  in the queue, on the pending list or in a register. The protocol between
  `handle_msgsend_internal_block`, `handle_msgreceive` and `handle_msgreply` uses two
  spin locks, a state field read in busy loops, and wake ups.
* *Failure.* A server may die or destroy its channel with messages queued or pending;
  copies from and to user space fail; constructors fail after a reference was taken.
* *Lifetime.* Entries and channels are reference counted and found under RCU; the
  connection table's array and its connections are freed after a grace period.
* *Processes.* Files are shared after a fork and live until the last descriptor is
  gone; pids, files and memory are reused; the library reconnects when the driver finds
  a descriptor of another process, in several threads at once.
* *Limits.* Queued no-reply messages per channel, their size, table size, channels per
  process, ids that wrap, timeouts that are cut to milliseconds.

What makes each part correct: a sender gets the answer given to its message, once,
and nobody uses its frame after it has returned; counters agree with the queue;
reference counts agree with the users; heap messages are freed exactly once; blocked
threads are released; a coid means one connection from attach to detach; lock-free
readers never see freed memory; the driver knows a process as long as it has a
descriptor, and no longer; a fork is invisible to the program; the bytes sent are the
bytes received. `PROJECT.json` lists the hazards at their lines with
the properties aimed at them.

## 2. The modules

    Messages  <-  Channel  <-  ProcessEntry  <-  MsgPassing  <-  MsgPassingRefinement
                          MsgPassingRefinement  <-  MCMsgPassing,  MsgPassingProofs
                          (MsgPassingRefinement instantiates SendReceiveReply)
    ConnectionTable  <-  MCConnectionTable,  ConnectionTableProofs
    Registry  <-  Driver  <-  MCDriver,     Registry  <-  Userspace  <-  MCUserspace
    Registry  <-  RegistryProofs;  Driver, RegistryProofs  <-  DriverProofs
                                   Userspace, RegistryProofs  <-  UserspaceProofs
    MsgData  <-  MsgDataProofs     TimerTimeout  <-  TimerTimeoutProofs
    ListLemmas: facts on lists, for MsgPassingProofs and RegistryProofs

(`<-`: is extended by.) `Messages`, `Channel` and `ProcessEntry` declare the state of
their part and its operations; `MsgPassing` composes them into the handlers. `Registry`
is the state and the operations of the driver for several processes; `Driver` lets any
process make any call on it, `Userspace` composes it with the library and the kernel's
processes and descriptors. `MsgData` and `TimerTimeout` stand by themselves: each
looks at something that the others abstract from.

**Messages.** A pointer is a model value: for a blocking send the calling thread
itself (its frame), for pulses and no-reply messages a member of `Heap`, free for
reuse after `kfree`. So a write through an outdated pointer lands in the thread's next
call, as on the real stack. `rcvid`, `status`, `state` are the members of the struct;
`woken` is the effect of `wake_up_process`. Payload and pids are left out.

**Channel.** `AddNewMessage`/`AddNewMessageFull` are the two results of
`qnx_channel_add_new_message` (the second raises `num_waiting` as well, as the code
does), `RemoveMessage`, `Dequeue` the locked part of `handle_msgreceive`,
`ChannelRelease` the `kref_put`. `FreeFirst` and `UnlinkFirst` are the two halves of a
turn in `qnx_channel_free`, which frees a message before it takes it out of the queue.
The limit of no-reply messages, `MaxNoReply`, is a constant; `noreply_per_channel` may be
lowered while messages are queued (`qnxcomm_driver.c:75`), and then more of them than the
limit stay queued until they are received.

**ProcessEntry.** The server's entry, its one channel and its pending list.

**MsgPassing.** One action per step of a handler; `pc[th]` is the place in it. A step
ends wherever another thread can run and see or change something.

| code | actions |
|---|---|
| `handle_msgsend`, `handle_msgsendv` | `MsgSend`, `MsgSendBadf`, `MsgSendvInitFails` |
| `handle_msgsend_internal_block` | `SetInterruptible`, `Enqueue`, `WakeUp`, `Expire`, `Interrupted`, `RemoveWaiting`, `SpinReceiving` (1), `FindProcess`, `Grab` (2)/(3), `SpinFinished`, `EntryPut`, `Put` |
| `handle_msgsendpulse` | `MsgSendPulse`, `PulseAdd`, `Put` |
| `handle_msgsend_no_reply(v)`, `busy_loop_add_new_message` | `MsgSendNoReply`, `NoReplyAdd`, `NoReplyRetry`, `NoReplyInterrupted`, `Put` |
| `handle_msgreceive` | `MsgReceive`, `WaitEvent`, `WaitInterrupted`, `Take`, `CopyPulse`, `CopyNoReply`, `CopyMsg`, `ReceiveAddPending`, `Finish`, `Wake`, `Put` |
| `handle_msgreply`, `handle_msgerror` | `MsgReply`, `MsgError`, `Finish`, `Wake` |
| ChannelDestroy | `ChannelDestroy` |
| `qnxcomm_close`, `qnx_process_entry_free` | `Close`, `EntryPut`, `FreeChannels`, `FreePending`, `FreeDel`, `FreeDone` |
| `qnx_channel_free` | `ChannelFreeMsg`, `ChannelFreeDel`, `ChannelFreed` |

`qnx_process_entry_free` and `qnx_channel_free` run in whichever thread drops the last
reference, which may be an interrupted sender. `SetInterruptible` and `Enqueue` are two
steps, in the order of the code: the other way round a wake up in between would be lost.

Abstractions, and why they are sound:

* The lookup of a channel (find the process, find the channel, release the process) is
  one step. If the server closes in between, the lookup still succeeds and the sender
  frees the entry, which ends in the state that "lookup, then close" reaches too.
* `list_del_rcu`, `synchronize_rcu` and the `kref_put` of a channel or an entry are one
  step (what the last `kref_put` calls is not): an object that is unlinked is not found, and the locks are held throughout.
* A signal arrives and is seen in one step; a signal that arrives after a wake up but
  before `signal_pending` is included, because `Interrupted` is possible when `woken`.
* `msleep_interruptible` goes back to sleep after a wake up: a sender with a timeout
  leaves its sleep by `Expire` or `Interrupted` only.
* An unknown coid has the effect of a missing channel (EBADF). ENOMEM in `MsgReply` is
  covered by EFAULT. Failing constructors that leave nothing behind are no steps.
* `WaitEvent` does not look at the number of jiffies left, which `handle_msgreceive`
  puts into an int; `TimerTimeout` does (run `long_wait`). `MsgPassing` has what happens
  where the number fits.
* `FindProcess` asks whether the server's entry is listed; the code looks for the
  server's pid (`qnxcomm_driver.c:138`). A server that closes and opens the driver again
  while its old entry is being freed would be found with its new entry, in which the
  message is not pending: one more window of the kind of `raced`, outside this model.
  `NoDangling` and the properties about answers are for one life of the server's entry.
* Copying the reply to user space after `handle_msgsend_internal_block` changes only
  the value returned.
* `outcome`, `leakedRefs` and `raced` are history: no action's guard reads them, apart
  from the bound on leaks.

`raced` is set when a sender leaves by one of three windows in which a server still
has a pointer to its message: `Grab` exit (2) while a server is answering,
`FindProcess` without an entry while the message is pending, and a wake up from
`qnx_process_entry_free` that comes before the `list_del`. From there on threads use a
dead frame and the code's behaviour is undefined. The safety runs stop at such a state
(`UpToTheRace`) and the properties about answers say nothing about it; the run
`dangling` shows that the state is reachable, and `NoDangling` that these three
windows are the only ones.

**ConnectionTable.** The array versions are named by their capacity (growing doubles
it). Writers hold `table->lock` during their critical sections, which are steps,
except that a growing attach keeps it (`lock`) while it waits for readers. `gp[w]` are
the readers `w`'s `synchronize_rcu` still waits for; `InSection`, `GracePeriod` and
`ReadUnlock` model RCU, which is external. A reader is a lookup (`Retrieve...`) or the
walk of `/proc/qnxcomm/connections` (`Walk...`), each load a step of its own.
`attached` and `spilled` are history. The first array is there from the beginning;
that its allocation fails, which `qnx_process_entry_init` ignores
(`process_entry.c:33`), is left out. The search for a lower maximum may end at -1:
`conn[-1]` overlaps the member `max`, which is not 0 then. `Destroy` runs when nobody
uses the table any more, as the entry's reference count guarantees; it stops before
`max`, so the connection with the highest coid is never freed (`connection_table.c:85`), a
leak no property is about.

**SendReceiveReply** is the abstract specification of blocking calls: `Send`, `Receive`
(the oldest call), `Reply` once, `Complete` with that answer, or `Withdraw` before there
is one, `ServerEnds`. It has no queue of messages of other kinds, no locks, no states of
messages, no wake ups. **MsgPassingRefinement** maps `MsgPassing` to it: a call's phase
is where its message is (of two calls "sent" the one in front in `waiting` is the earlier
one: `before` is a relation, so that messages without a sender need no place in it; a call is
"received" from `Take` on, "answered" once an answer has been stored, "done" as soon as
the sender is on its way out of `handle_msgsend_internal_block`), its answer is the
ghost `outcome`. The claim is for behaviours without the three windows
(`UnracedSpec`, and `UnracedFairSpec` for the abstract fairness: an answered call
returns). One concession is in the abstract `Complete`: an interrupted sender
that finds no process entry does not look for the answer it may have got already.

**Registry.** Files, entries and channels are addresses, free for reuse when their
reference count is 0 (or, for a file, its mode "none").

| code | operators |
|---|---|
| `qnxcomm_open` | `OpenCheck`, `OpenAdd` (O_RDWR, search and insertion), `OpenPoll` |
| `qnxcomm_close`, `qnx_driver_data_remove`, `qnx_process_entry_free` | `Release`, `RemoveProcess`, `RemovePollFd`, `EntryPut` |
| `qnxcomm_ioctl` | `IoctlResult` (ENOTTY, ENOSPC), `ChannelCreate`, `ChannelDestroy`, `ConnectAttach`, `ConnectDetach`, `AddPollFd` |
| `qnxcomm_poll` | `Poll`, which keeps a channel reference |
| `set_max_connetions` | `SetMaxChannels` |

Every list is changed under its lock, `synchronize_rcu` included, so an operation is a
step. `polls` and `serial` are history: the references taken by poll, and which channel
a connection was attached to. Calls that fail without a trace (EMFILE apart, which uses
up an id) are no steps. `ConnectAttach` and `ConnectDetach` work on a set; the array
behind it is `ConnectionTable`'s. **Driver** adds `SerialOpen`: with FALSE two threads
of a process may be in `qnxcomm_open` at once, and then both are listed. The library
opens under its mutex, so the runs have TRUE. (Without it a freed entry could stay in the
list; `EntryPut` clears the pid of a freed entry, and a listed entry is not given out
again, so what a lookup of such an entry would do is not modelled.) `RegisterPollFd` takes
any file, of any mode and as often as it comes, as the ioctl does; `MaxRecords` bounds the
records of a process, and the history `odd` has the files that were registered otherwise
than by `MsgReceivePollFd`, which registers a file it has just opened O_RDONLY, once (by
address, and for good).
References that message handlers take of channels are `MsgPassing`'s, not `Registry`'s.

**Userspace.** A process has a descriptor table, the library's `fd` and `mtx`; `pc[th]`
is the place in `safe_ioctl` (`ReadFd`, `IoctlCall`, `Lock`, `CloseOld`, `OpenNew`) or in
`MsgReceivePollFd`. Of the calls, ChannelCreate is modelled with its effect; the others
are "Other", as only their way through `safe_ioctl` and the error they come back with
matters here (`HandlerResults`): success, EBADF for an unknown coid ("coid_EBADF", told
apart from the EBADF of a bad descriptor; other errors take the same way), and, with
`ServersSayENOSPC`, the ENOSPC that a server gave with `MsgError` or `MsgReply`, which
`safe_ioctl` cannot tell from the driver's. `Fork` copies the
table, `fd` and the mutex (locked, it becomes "orphan": its owner does not exist in the
child). `Exit` may come at any point; the kernel then closes the descriptors one by
one. `CloseFd`, `Fork`, `Exit` and the pids are the kernel's and marked external.
`exec` is not modelled: O_CLOEXEC closes the descriptors, which `ExitClose` and `Start`
do as well.

**MsgData.** The bytes of one message and of its answer, in parts of up to `MaxPart`
bytes (a part is a `struct iovec`; addresses count the bytes of the parts, which do not
overlap, in their order, so that the length of an iovec is where its last part ends; the
sender's buffers for the answer are `obuf`), and the six kinds of kmalloc'ed buffers with the number of allocations minus the
number of kfrees (`heap`). A server may send bytes together with any status, a negative
one included. Every allocation and every copy may fail; `pc` names follow
the labels of the handlers. One turn of `memcpy_fromiovec` or `memcpy_toiovec` is a
step. `iov_length`, `kmalloc` and `kfree` are external. After the failed copy of
`qnx_internal_msgsend_init_noreplyv` (`uninit`) the handler goes on or fails, as the
uninitialised `rc` has it.

**TimerTimeout.** `sTimerTimeout` of one thread, `GetTimeoutMs`, and `DriverLimit`, what
the handlers make of `timeout_ms`: a number of jiffies, through `msecs_to_jiffies`, which
rounds up, and for `MsgSend` through `msleep_interruptible`, which adds one. Nanoseconds
are counted; a sleep begins at any `phase` between two ticks, and its timer goes off at a
tick (`Deadline`). Millisecond, jiffy, INT_MAX, MAX_JIFFY_OFFSET and UINT64_MAX are
scaled down (`NsPerMs`, `MsPerJiffy`, `IntMax`, `MaxJiffyOffset`, `U64Max`). A message
ends the sleep of `MsgReceive` with the jiffies left, converted to an int (`Woken`,
`ToInt`); what a `MsgSend` does after its sleep is `MsgPassing`'s, here it is on its way
out ("leaving"). `asked` and `fresh` are history.

## 3. The runs

| run | instance | states | checks |
|---|---|---|---|
| answers | 2 senders (1 timed), 2 servers, 3 receive ids, 1 signal | 4.2 M | `TypeOK`, `NoDangling`, `OnePlace`, `AnswerMatches`, `AnswerNotLost`, `EntryRefs`, `AnsweredOnce` |
| queue | 2 senders (1 iovec), 1 timed server, 2 heap addresses, 1 no-reply slot, 1 signal, 1 leak | 1.3 M | `ChannelRefs`, `NoReplyAccounting`, `CounterCoversQueue`, `HeapOwnership`, `RcvidUnique` |
| returns | 2 senders (1 timed), 1 server, 2 ids, 1 signal, fair | 82 k | `ImplementsCalls`, `ImplementsFairness`, `InterruptedReturns`, `DeadServerReleases` |
| table | 2 writers, 2 readers, 3 connections, capacity 2 to 4, fair | 217 k | `TypeOK`, `ReadersSafe`, `SlotsDisjoint`, `CoidStable`, `MaxCovers`, `WritersFinish` |
| driver | 2 processes, 3 files, 2 entries, 2 channels, 2 channel ids, 1 poll, 2 poll records for each process | 2.3 M | `EntryRefsExact`, `ListExact`, `PollRecordsLive`, `ChannelRefsExact`, `ConnectionsNotRedirected` |
| reconnect | 2 processes, one with 2 threads, 1 fork, 2 descriptors, failing opens, servers that answer ENOSPC, fair | 188 k | `OneConnection`, `ForgottenUnlessShared`, `CallsReturn` |
| transparent | 3 processes with one thread each, 2 forks, 2 descriptors | 404 k | `ReconnectTransparent`, `ChannelsSurvive` |
| msg_data | messages and answers of up to 2 parts of up to 2 bytes, 1 part on the stack | 197 k | `ServerSeesMessage`, `AnswerScattered`, `CopyWithinParts`, `FreedOnce` |
| timeouts | every timeout from 0 to UINT64_MAX (scaled), every phase of a jiffy of 2 ms | 16 k | `NoStrayTimeout`, `WaitAsAsked` |

All of these pass. (`TypeOK` of `Userspace`, `MsgData` and `TimerTimeout` and `RegTypeOK`
hold on the same instances; they say what the variables are and are not part of the
runs.) Three more runs check what a comment or a test says and the code does not keep;
each ends with a counterexample:

| run | property | what happens |
|---|---|---|
| dangling | `NoDanglingAtAll` | the timeout strikes between `release_pending` and the stores of `MsgReply`: the server writes to a frame that is gone |
| queued_sender | `QueuedSenderReleased` | the server ends before it has received: the sender itself keeps the channel alive and is never woken |
| table_coid | `CoidUsable` | the attach that grows the table returns a coid that lookup and detach reject |

Further configurations, kept beside the regular runs, reproduce smaller disagreements of
the same kind, and show what a condition of a property is for; each ends with a counterexample to its one property:

| configuration, module | property | what the text says | what happens |
|---|---|---|---|
| Poll.cfg, MCMsgPassing | `PollinMeansMessage` | `qnxcomm.h:131`: a descriptor "for polling for new messages"; `tests/poll.cpp:60` expects a time out on an empty channel | a rejected no-reply message leaves `num_waiting` too high for good (`channel.c:92`) |
| Pulse.cfg, MCMsgPassing | `PulseReturnsZero` | `internal_msgsend.h:21`: "0 for pulse, else > 0" | a short receive buffer: `MsgReceive` returns jiffies for a pulse (`qnxcomm_driver.c:299`) |
| Drop.cfg, MCMsgPassing | `DropReported` | `qnxcomm_driver.c:554`: "loop until data can be sent or signal stops us" | a signal: the message is freed and `MsgSendNoReply` returns 0 (`qnxcomm_driver.c:610`) |
| Receivers.cfg, MCMsgPassing | `UntimedReceiveWaits` | `tests/multithreaded.cpp:53` expects a receive id of a `MsgReceive` without timeout | two receivers are woken for one message; the loser returns ETIMEDOUT (`qnxcomm_driver.c:257`) |
| ChannelFree.cfg, MCMsgPassing | `NoUseAfterKfree` | nothing; the rule of `kfree` | `qnx_channel_free` frees a queued message and then takes it out of the queue (`channel.c:52-53`) |
| LongWait.cfg, TimerTimeout | `MessageIsNoSignal` | `tests/msgsend.cpp:14-15` expects a receive id of a `MsgReceive` without timeout | the jiffies left, a long, are put into an int; for the longest wait there is, they are negative in it on 64 bit, and the receiver that finds a message leaves with ERESTARTSYS (`qnxcomm_driver.c:241`) |
| StaleRecord.cfg, MCDriver | `NoStaleRecord` | nothing; `qnxcomm_close` drops a file's record (`qnxcomm_driver.c:844`) | a file opened O_RDWR, or a second time, is registered too; the close leaves a record behind (`qnxcomm_driver.c:985`) |
| ServerError.cfg, MCUserspace | `ChannelsSurvive` | `tests/fork.cpp:8`: the library reconnects "for the newly created process" | a server answers ENOSPC; its client, without any fork, closes its own connection and loses its channels |
| ForkRace.cfg, MCUserspace | `ChannelsSurvive` | `tests/fork.cpp:8`: the library reconnects "for the newly created process" | two threads of a forked child get ENOSPC; the second closes the connection the first has just made and used (`userspace.cpp:44`) |
| DeadServer.cfg, MCUserspace | `DeadHaveNoChannels` | `tests/abort.cpp:7`: "The channel will be closed." | a child keeps the inherited descriptor: the dead server's channels stay (`qnxcomm_driver.c:832`) |
| OrphanMutex.cfg, MCUserspace | `AllCallsReturn` | `tests/fork.cpp:8` | a fork during another thread's reconnect: the child's mutex is locked for ever (`userspace.cpp:42`) |
| PidReuse.cfg, MCUserspace | `ReconnectTransparent` | `tests/fork.cpp:8` | the child's pid is still listed by way of an inherited descriptor: open fails, the call returns EBADF (`userspace.cpp:45`) |
| NoReplySize.cfg, MsgData | `NoReplySizeLimited` | `qnxcomm.h:106`: the maximum size is `noreply_max_size` | `MsgSendNoReply` does not look at it, only the iovec flavour does (`internal_msgsend.c:170`) |
| SendLimit.cfg, TimerTimeout | `SendHasLimit` | `userspace.cpp:79`: timeout "for next" call | a timeout below a millisecond, or in the past, means no timeout for `MsgSend` (`userspace.cpp:94`) |
| NextCall.cfg, TimerTimeout | `NextCallOnly` | `userspace.cpp:79`: "for next" call | calls without `TimerStackSafe` leave the timeout for a later one (`userspace.cpp:244`) |

**Bounds.** Two senders and two servers are enough for every pair of threads to meet
at one message while a third thread holds another one; three receive ids let a thread
send again after its first call, which is what an outdated pointer needs to do harm.
One signal and one timed sender give both ways out of the sleep, together in one
behaviour. One no-reply slot and two heap addresses make rejection, reuse of an
address after `kfree` and a second message behind the rejected one happen. `MaxExcess`
bounds how far the retries of a rejected message push `num_waiting` beyond the queue,
`MaxLeaks` the failing iovec calls. The table grows once, with two readers; what happens
in further growths is covered by the proofs, which are for all sizes. `driver`,
`transparent` and Connections.cfg use symmetry over files, entries and channels, which are
addresses (`driver` over the pids as well); no
liveness is checked with it.

Two larger instances are kept as well, and pass: TwoChannels.cfg (`MCDriver`, two channels
for one process, one record) and Connections.cfg (`MCUserspace`, the safety properties of
`reconnect` with another fork and reused pids).

In `driver` three files on two processes give one process its own file and a poll
descriptor while the other one opens and attaches, and two entries and channels are
both reused; two channel ids let a second channel take the place of one that a
connection or poll record still names; two records let a file be registered twice, or an
O_RDWR file beside a poll file. `reconnect` has both threads of the child, and
the parent, use the descriptors that the fork has shared, and servers answer ENOSPC, so
that a process reconnects at any time; there are no channels in it, because what a call
does once it has the right descriptor makes no difference to its properties, and it has
a VIEW without what no step and none of its properties depends on: the results of calls and
values that are written again before they are read. `transparent` has a grandchild that inherits a descriptor of a process that
has itself reconnected. `msg_data` has empty parts before, between and after full
ones, buffers shorter, as long and longer than the data, and iovecs on the stack and on
the heap. `timeouts` has three nanoseconds to the millisecond and two milliseconds to the
jiffy, so that every remainder occurs in both conversions, and timeouts on both sides of
the largest int.

**Conditions.** `ReconnectTransparent` and `ChannelsSurvive` are claimed for processes
with one thread, pids that are not reused, memory for the entry
(`OpenMayFail = FALSE`) and servers that do not answer ENOSPC (`ServersSayENOSPC =
FALSE`); `ForkRace.cfg`, `PidReuse.cfg` and `ServerError.cfg` show why. `CallsReturn`
has two exceptions: a process forked while another thread had the mutex
(`OrphanMutex.cfg`, `AllCallsReturn`), and other threads that reconnect for ever, which
only a server that keeps answering ENOSPC makes them do. `PollRecordsLive` is claimed for the files that are registered as the
library does it, `StaleRecord.cfg` shows the others. The run
`returns` is about behaviours without the three windows (`UnracedFairSpec`); as servers
are fair, no thread of such a behaviour is left with nothing but a racing step to do.
`msg_data` stops at the uninitialised `rc` (`UpToUninit`).

**Deadlock** is not checked: nobody has to call the driver, and once receive ids or
signals are used up the instance is quiescent. Threads that should get on are the
subject of the liveness properties.

**Fairness.** `FairSpec` assumes weak fairness of each thread's own steps: the
scheduler runs a runnable thread and a timer expires. Calls, signals and the failures
of copies are up to the environment and not fair. For the table, readers leave
their sections and a grace period ends once its readers have. In `Userspace` a thread
that can run runs; it gets the mutex if nobody else goes on taking it, as `CallsReturn`
says, since a mutex promises no order. The kernel
finishes the closing of a dead process's descriptors. Forks, ends of processes and calls
are not fair. `TimerTimeout` has no fairness: its properties are about when a timer is
due.

**Mutants.** For every property `PROJECT.json` names a mutated definition (it stands
before the original in its module) under which the property fails.

## 4. The proofs

`ConnectionTableProofs` proves, for any sets of readers, writers and connections and
any sizes with `InitialSize <= MaxConnections`: `TypeOK`, `ReadersSafe`,
`SlotsDisjoint`, `CoidStable` and `MaxCovers`. The inductive invariant has five parts:
types; which array versions exist (the current one and, during a growth, its
predecessor) and how far their `max` goes; connections in slots are allocated,
different, and none of them is in the hands of a detaching writer; what each writer
holds and who has the lock; and, per reader, that what it has loaded is either still
linked or awaited by the writer that will free it (the reader is in that writer's
`gp`). The last part is what RCU is about: without it "the reader's connection is
allocated" is not preserved by `Detached`.

`MsgPassingProofs` proves, for any number of clients, servers and heap addresses and
any bounds, with races included: `TypeOK`, `ChannelRefs`, `EntryRefs`, `RcvidUnique`,
`CounterCoversQueue`, `HeapOwnership`, `NoReplyAccounting`, and, up to the first race
(their premise), `NoDangling`, `OnePlace`, `AnswerMatches`, `AnswerNotLost` and
`AnsweredOnce`, the last one an action property.

* Type correctness needs to know what the handlers carry from one step to the next
  (`ThreadsOK`: a server that is going to store an answer has a sender's message and a
  proper status). The reference counts are inductive by themselves given the types: every
  step changes the set of holders by one thread at most, and the cardinality lemmas of the
  library do the rest. `RcvidUnique` is strengthened by "no id in use is larger than
  `gbl_next_rcvid`", `CounterCoversQueue` by dropping its premise.
* `ChannelEnd`: one thread at most is in `qnx_channel_free`, and then the channel has no
  reference left, so that nobody adds to the queue or takes from it.
* `HeapInv`: an allocated message is in the queue once or in the hands of one thread, a
  free one nowhere, except the first of the queue while a thread is between the kfree and
  the list_del of `qnx_channel_free`. `HeapOwnership` counts owners; the proof turns the count into this
  statement and back. `NoReplyInv` is `NoReplyAccounting` for as long as somebody refers
  to the channel: after that `qnx_channel_free` empties the queue without the counter.
  It needs `HeapInv`, so that a new message does not take the id of a queued one's object.
* `Base` (part of `Known`): at which places a thread has a message in its hands; that one
  thread frees the entry, when nobody has a reference to it; what a sender carries to its
  return; and that an id which has not been handed out has not been answered.
* `Lifecycle` says, for each blocking message, where it is and what that means. Queued: its
  sender is inside `handle_msgsend_internal_block`, nobody else has it (`QueuedOK`).
  Pending: received, not answered, in nobody's hands unless the entry is being freed
  (`PendingOK`). In the hands of a server thread: of one only, and while it is being
  received its `state` keeps an interrupted sender in the busy loop (`HeldOK`). A sender
  whose message has no status is in one of these places; one that has been woken has a
  status (`DoneOK`). The status is what the history has for this id, and what a sender
  returns is that status or an interruption that came before it (`ResultOK`). It is
  invariant as long as `raced` is FALSE (`LifeInv`): each of the three windows is a step at
  which it breaks. `NoDangling`, `OnePlace` and the properties about answers follow from
  it. The proof is by handler (`SendSteps`, `BlockSteps`, `ReceiveSteps`, `AnswerSteps`,
  `ReleaseAndFree`): one message changes its place, and the lemmas of `ListLemmas` about
  additions and removals show that the others keep theirs.

It also proves the refinement: `MsgPassingImplementsCalls` says that every behaviour of
`UnracedSpec` is one of `SendReceiveReply` under the mapping above. The initial state maps
to the abstract one; for each group of handler steps a lemma (`SendCall`, `BlockCall`,
`ReceiveCall`, `AnswerCall`, `FreeCall`) shows that a step is one abstract step of one call,
or `ServerEnds`, or changes nothing that is mapped (`Seen` is what a client's pc and message
say about its call, `Unseen` and `Invisible` the stutters). `Lifecycle` does the work: a
message that leaves `waiting` in front was sent first, as `AppendInFront` and `DropsInFront`
compute the order after an addition and a removal; an answer goes to a call that has been
received and has none; an interrupted sender that found its message in `waiting` or in
`pending` leaves a call that nobody has answered. One strengthening of the types came out of
it: a server thread never stores ESRCH itself (`Given`), so that answer means that the
server is gone.

`RegistryProofs` has the lemmas about the operations of `Registry` that driver and library
share: `EntryInv` ("a free file refers to no entry, a file inside `qnxcomm_open` is free,
and counts are exact"), `ChannelInv` (a channel has one owner at most, because a new one
has a reference count of 0 and so no owner; ids are numbers in the order of creation) and
`RegisterInv` (an entry is in the list once, and exactly while a file opened O_RDWR refers
to it; no two listed entries have the same pid; a process inside `qnxcomm_open` is not
listed yet).

`DriverProofs` proves, for any number of processes, files, entries, channels and ids, and
for serialised opens or not: `EntryRefsExact`, `ChannelRefsExact`,
`ConnectionsNotRedirected` and `PollRecordsLive`, the last one whatever registrations the
driver accepts for other files (`odd`): a file registered once and opened for poll has one
record, in its own entry, and `qnx_process_entry_remove_pollfd`, which takes out the first
record of a file only, takes out that one. `ListExact` is proved for `SerialOpen`: with two opens of one process at the
same time it is false, and the library's mutex excludes them.

`UserspaceProofs` proves, for any number of processes, threads, descriptors and forks, with
failing opens, reused pids and servers that answer ENOSPC: `OneConnection` and
`ForgottenUnlessShared`. The inductive invariant `UserInv` joins the registry's invariants
with the library's: a thread between lock and unlock owns the mutex; while no reconnect is
between its close and its open, `fd` is the process's one connection or there is none; in
between there is none. A fork in that interval copies a stale `fd` along with a locked
mutex, so the claim about `fd` is restricted to settled processes; the last conjunct, no
connection at "open", carries over what is needed.

Under `Alone` (one thread in each process, memory for every entry, pids not used again, no
ENOSPC from servers; `ForkRace.cfg`, `PidReuse.cfg` and `ServerError.cfg` refute the claims
without it) it proves
`ReconnectTransparent` and `ChannelsSurvive` for every tree of forks. `AloneInv`: a process
that runs and has an entry in the list is connected to that entry; a thread reconnects only
while its process is not, so that the search in `qnxcomm_open` finds nothing, the
descriptor just closed is free, and `initialize` succeeds; after that the connection is the
process's own and the second `ioctl` cannot answer ENOSPC. `SurviveInv`: the channels a
process has made are in the entry of its connection. That a descriptor which another
process closes does not take them away is the reference count again (`KeepsEntry`).

`MsgDataProofs` proves, for messages of any number of parts and bytes and any failing step:

* `FreedOnce`, up to the uninitialised `rc` (its premise `~uninit`: the failed copy of
  `qnx_internal_msgsend_init_noreplyv` may queue a freed message). `ControlInv` says, for every place in the
  handlers, which buffers a call of each kind may have allocated; `HeapIsLive` until when
  each is live.
* `ServerSeesMessage`, `AnswerScattered` and `CopyWithinParts`. `GatherInv`: the parts before
  the one a copy has reached are in the kernel's buffer, and `len` is what the rest of the
  parts holds; hence a turn of `memcpy_fromiovec` always takes a whole part and `len` is 0
  behind the last one. `ScatterInv`: what has been moved is the part of the answer that fits
  into the parts passed (`Moved`), the rest of the buffers is untouched; it needs to know
  that nothing is written before the answer is there and that nobody touches the result of
  a call on its way out; a server's bytes with a negative status stay in the kernel. `SeenInv`: from the end of the constructor on the buffer is the message, and
  the server's copies are cut out of it. Lemma `Parts` (where a part ends the next begins,
  and all are within the length) is what these arguments need of an iovec.

`TimerTimeoutProofs` proves `NoStrayTimeout` and `WaitAsAsked` for all sizes of
millisecond, jiffy, int, long and uint64_t (the run scales them down), from "`ntime` is the
time asked for until the call that uses it is over, the driver's limit is computed from it,
and no sleep goes on after its timer". `WaitAsAsked` adds up what the three roundings
leave: the cut to milliseconds (`DivBounds`), the rounding to jiffies (`JiffiesRoundUp`)
and the place between two ticks where the sleep begins.
`ListLemmas` holds facts on searches, removals and counts in lists.

Each of these inductive invariants was checked by TLC on the instances of section 3 before
it was proved.

Assumptions: the named `ASSUME`s of the modules (finite sets of threads and addresses,
disjoint kinds of pointers, bounds that are natural numbers), which TLC evaluates on
every run. `Alone` and `SerialOpen` are hypotheses of the theorems that name them.

Only model-checked:

* all liveness properties, the abstract fairness `ImplementsFairness` among them (TLAPS
  proves no liveness under fairness);
* that the length of an iovec, where its last part ends, is the sum of the lengths of the
  parts: an induction over the parts. It follows from the parts being adjacent.

## 5. Not modelled

* The `/proc` views of channels and blocked tasks: they read under the locks that
  protect the lists and change nothing.
* Module start and end: `qnxcomm_init` and `qnxcomm_cleanup` are sequences of calls of
  the kernel's registration functions, and what could go wrong between them (references
  to the module, removal of open `/proc` files) is decided by the kernel. Two things a
  reader of that code should know: the device and the `/proc` files exist before
  `qnx_driver_data_init` has run, and the exit `del_inst` drops the reference to
  `instance` twice.
* Sleeping with a spin lock held (`synchronize_rcu` and copies to user space in
  critical sections): a matter of the kernel's scheduling rules.
* Several channels with messages in them: channels share nothing but the process entry
  with its pending list, whose receive ids are global (`RcvidUnique`). The composition of
  `Registry` and `MsgPassing` in one state space is out of TLC's reach.
* The wrap of receive ids and channel ids after 2^31 - 1 uses: `MsgPassing` and `Registry`
  bound them. (`internal_msgsend.h:21` says of a receive id "0 for pulse, else > 0";
  `get_new_rcvid` increments an int, so after that many messages ids are negative, which
  `MsgReceive` returns like an error.)
* Calls of the library that return ENOSYS, and the flag bit `_NTO_SIDE_CHANNEL`.
* poll on a descriptor without an entry: only a program that opens the device itself
  can have one, as `MsgReceivePollFd` closes it.

## 6. Plan

Done: message passing on one channel, the connection table and their first theorems;
the abstract specification and its refinement; the registry of processes, files,
channels and poll descriptors; the library with forks, threads and timeouts; buffers
and iovec copies.

Also done: the proofs of every invariant and action property that a run checks, and of the
safety part of the refinement.

Left to TLC: liveness. Beyond the reach of one model: the composition of `Registry` and
`MsgPassing` (section 5).
