------------------------------ MODULE MsgPassing ------------------------------
(***************************************************************************)
(* The ioctl handlers of kernel/qnxcomm_driver.c that move messages:       *)
(* client threads send on one channel of one server process, whose threads *)
(* receive, answer, destroy the channel and finally close the driver.      *)
(*                                                                         *)
(* A thread runs the handler of one ioctl at a time.  pc[th] is the place  *)
(* in it; two steps are separated wherever another thread can run between  *)
(* them and see or change something: between two critical sections, while  *)
(* sleeping or spinning, between two plain stores that others read.        *)
(***************************************************************************)
EXTENDS ProcessEntry

CONSTANTS
    Servers,        \* threads of the server process
    TimedClients,   \* clients whose MsgSend has timeout_ms > 0
    TimedServers,   \* servers whose MsgReceive has a finite timeout
    VClients,       \* clients that use the iovec flavours of the calls
    MaxSignals,     \* bound on the signals that hit a sleeping thread
    MaxLeaks,       \* bound on the failing MsgSendv/MsgSendNoReplyv calls
    MaxExcess,      \* bound on the retries of a no-reply message
    NULL

ASSUME MsgPassingAssumption ==
    /\ IsFiniteSet(Servers)
    /\ Servers \cap Ptr = {}
    /\ TimedClients \subseteq Clients
    /\ VClients \subseteq Clients
    /\ TimedServers \subseteq Servers
    /\ MaxSignals \in Nat
    /\ MaxLeaks \in Nat
    /\ MaxExcess \in Nat
    /\ NULL \notin Ptr

VARIABLES
    pc,          \* where each thread is in its handler
    cur,         \* the message the handler holds a pointer to (send_data, snddata)
    rc,          \* the handler's rc
    signals,     \* signals delivered so far
    leakedRefs,  \* history: channel references no thread will ever drop
    outcome,     \* history: what the server side made of each receive id
    raced        \* history: a sender has left one of the windows named below

threadVars == <<pc, cur, rc>>
ghostVars == <<leakedRefs, outcome, raced>>
vars == <<msgVars, chanVars, entryVars, threadVars, signals, ghostVars>>

Threads == Clients \cup Servers

ClientPC == {"idle", "set_state", "enqueue", "blocked", "remove", "spin_receiving", "find_process",
             "grab", "spin_finished", "entry_put", "free_channels", "free_chan",
             "free_chan_del", "free_pending", "free_del", "out", "pulse_add",
             "noreply_add", "noreply_sleep", "put", "put_free", "put_del"}

ServerPC == {"idle", "wait", "take", "copy", "add_pending", "fail", "fail_wake",
             "put", "put_free", "put_del", "finish", "wake", "entry_put",
             "free_channels", "free_chan", "free_chan_del", "free_pending", "free_del"}

Rc == Status \cup {"none", "0", "rcvid", "jiffies", "ETIMEDOUT", "ERESTARTSYS"}

TypeOK ==
    /\ MsgTypeOK
    /\ ChanTypeOK
    /\ EntryTypeOK
    /\ pc \in [Threads -> ClientPC \cup ServerPC]
    /\ \A t \in Clients : pc[t] \in ClientPC
    /\ \A s \in Servers : pc[s] \in ServerPC
    /\ cur \in [Threads -> Ptr \cup {NULL}]
    /\ rc \in [Threads -> Rc]
    /\ signals \in 0..MaxSignals
    /\ leakedRefs \in 0..MaxLeaks
    /\ outcome \in [1..MaxRcvid -> Status]
    /\ raced \in BOOLEAN

Init ==
    /\ MsgInit
    /\ ChanInit
    /\ EntryInit
    /\ pc = [th \in Threads |-> "idle"]
    /\ cur = [th \in Threads |-> NULL]
    /\ rc = [th \in Threads |-> "none"]
    /\ signals = 0
    /\ leakedRefs = 0
    /\ outcome = [k \in 1..MaxRcvid |-> "initial"]
    /\ raced = FALSE

-------------------------------------------------------------------------------
(* Steps within a handler.                                                 *)

\* th goes on at p.
Goto(th, p) == pc' = [pc EXCEPT ![th] = p]

\* th goes on at p with rc = r.
GotoRc(th, p, r) ==
    /\ Goto(th, p)
    /\ rc' = [rc EXCEPT ![th] = r]
    /\ UNCHANGED cur

\* th goes on at p with rc = r and a pointer to m.
GotoCur(th, p, m, r) ==
    /\ Goto(th, p)
    /\ rc' = [rc EXCEPT ![th] = r]
    /\ cur' = [cur EXCEPT ![th] = m]

\* Where a thread that freed a process entry goes on.
AfterFree(th) == IF th \in Clients THEN "out" ELSE "idle"

-------------------------------------------------------------------------------
(* handle_msgsend, handle_msgsendv and handle_msgsend_internal_block.      *)

\* Construct the message and look up the connection and the channel.
MsgSend(t) ==
    /\ pc[t] = "idle"
    /\ ChannelFound
    /\ InitMsg(t)
    /\ ChannelGet
    /\ GotoRc(t, "set_state", "none")
    /\ UNCHANGED <<entryVars, signals, ghostVars>>

\* The channel is gone (or the coid unknown): EBADF.  handle_msgsend and
\* handle_msgsend_no_reply have used up a receive id by then; the iovec flavours
\* look first and construct the message later.
MsgSendBadf(t) ==
    /\ pc[t] = "idle"
    /\ t \notin VClients
    /\ ~ChannelFound
    /\ gbl_next_rcvid < MaxRcvid
    /\ gbl_next_rcvid' = gbl_next_rcvid + 1
    /\ UNCHANGED <<rcvid, status, state, woken, heap, chanVars, entryVars, threadVars, signals,
                   ghostVars>>

\* handle_msgsendv and handle_msgsend_noreplyv: the constructor fails after the
\* lookup, and the error path does not release the channel.
MsgSendvInitFails(t) ==
    /\ pc[t] = "idle"
    /\ t \in VClients
    /\ leakedRefs < MaxLeaks
    /\ ChannelFound
    /\ ChannelGet
    /\ leakedRefs' = leakedRefs + 1
    /\ UNCHANGED <<msgVars, entryVars, threadVars, signals, outcome, raced>>

\* set_current_state(TASK_INTERRUPTIBLE) ...
SetInterruptible(t) ==
    /\ pc[t] = "set_state"
    /\ woken' = [woken EXCEPT ![t] = FALSE]
    /\ GotoRc(t, "enqueue", rc[t])
    /\ UNCHANGED <<rcvid, status, state, heap, gbl_next_rcvid, chanVars, entryVars, signals,
                   ghostVars>>

\* ... then qnx_channel_add_new_message.
Enqueue(t) ==
    /\ pc[t] = "enqueue"
    /\ AddNewMessage(t)
    /\ GotoRc(t, "blocked", rc[t])
    /\ UNCHANGED <<msgVars, entryVars, signals, ghostVars>>

\* qnx_process_entry_free has woken t and has its list_del of t still to do.
UnlinkOutstanding(t) == \E th \in Threads : pc[th] = "free_del" /\ cur[th] = t

\* schedule() returns because of a wake up, and no signal is pending.  With a
\* timeout the thread sleeps in msleep_interruptible instead, which goes back
\* to sleep after a wake up.
WakeUp(t) ==
    /\ pc[t] = "blocked"
    /\ t \notin TimedClients
    /\ woken[t]
    /\ GotoRc(t, "out", status[t])
    /\ raced' = (raced \/ UnlinkOutstanding(t))
    /\ UNCHANGED <<msgVars, chanVars, entryVars, signals, leakedRefs, outcome>>

\* The timeout of msleep_interruptible expires.
Expire(t) ==
    /\ pc[t] = "blocked"
    /\ t \in TimedClients
    /\ GotoRc(t, "remove", "ETIMEDOUT")
    /\ UNCHANGED <<msgVars, chanVars, entryVars, signals, ghostVars>>

\* A signal arrives, ends the sleep and is seen by signal_pending.
Interrupted(t) ==
    /\ pc[t] = "blocked"
    /\ signals < MaxSignals
    /\ signals' = signals + 1
    /\ GotoRc(t, "remove", "ERESTARTSYS")
    /\ UNCHANGED <<msgVars, chanVars, entryVars, ghostVars>>

\* atomic_dec of num_waiting also when the message is not in the queue.
RemoveWaitingAlwaysDec(t) ==
    /\ pc[t] = "remove"
    /\ \/ /\ RemoveMessage(rcvid[t])
          /\ GotoRc(t, "out", rc[t])
       \/ /\ PositionsOf(rcvid[t]) = {}
          /\ GotoRc(t, "spin_receiving", rc[t])
          /\ num_waiting' = num_waiting - 1
          /\ UNCHANGED <<waiting, num_waiting_noreply, chanRefs>>
    /\ UNCHANGED <<msgVars, entryVars, signals, ghostVars>>

\* qnx_channel_remove_message of the interrupted sender.
RemoveWaiting(t) ==
    /\ pc[t] = "remove"
    /\ \/ /\ RemoveMessage(rcvid[t])
          /\ GotoRc(t, "out", rc[t])
       \/ /\ PositionsOf(rcvid[t]) = {}
          /\ GotoRc(t, "spin_receiving", rc[t])
          /\ UNCHANGED chanVars
    /\ UNCHANGED <<msgVars, entryVars, signals, ghostVars>>

\* Busy loop (1) is missing.
SpinReceivingNot(t) ==
    /\ pc[t] = "spin_receiving"
    /\ GotoRc(t, "find_process", rc[t])
    /\ UNCHANGED <<msgVars, chanVars, entryVars, signals, ghostVars>>

\* Busy loop (1) ends.
SpinReceiving(t) ==
    /\ pc[t] = "spin_receiving"
    /\ state[t] # "RECEIVING"
    /\ GotoRc(t, "find_process", rc[t])
    /\ UNCHANGED <<msgVars, chanVars, entryVars, signals, ghostVars>>

\* qnx_driver_data_find_process; without an entry the sender just returns.
FindProcess(t) ==
    /\ pc[t] = "find_process"
    /\ \/ /\ entryListed
          /\ EntryGet
          /\ GotoRc(t, "grab", rc[t])
          /\ UNCHANGED raced
       \/ /\ ~entryListed
          /\ GotoRc(t, "out", rc[t])
          /\ raced' = (raced \/ t \in pending)
          /\ UNCHANGED entryVars
    /\ UNCHANGED <<msgVars, chanVars, signals, leakedRefs, outcome>>

\* A server thread has taken t's message out of pending (or failed to receive it)
\* and has its stores or its wake_up_process still to do.
BeingAnswered(t) ==
    \E s \in Servers : cur[s] = t /\ pc[s] \in {"finish", "wake", "fail_wake"}

\* Returns ETIMEDOUT or ERESTARTSYS although the message is done.
GrabForgetsStatus(t) ==
    /\ pc[t] = "grab"
    /\ \/ /\ PendingWith(rcvid[t]) = {}
          /\ GotoRc(t, "entry_put", rc[t])
          /\ raced' = (raced \/ BeingAnswered(t))
          /\ UNCHANGED entryVars
       \/ /\ \E m \in PendingWith(rcvid[t]) : ReleasePending(m)
          /\ GotoRc(t, "spin_finished", rc[t])
          /\ UNCHANGED raced
    /\ UNCHANGED <<msgVars, chanVars, signals, leakedRefs, outcome>>

\* (2): nothing to grab, so the message is taken to be done; (3) grabbed.
Grab(t) ==
    /\ pc[t] = "grab"
    /\ \/ /\ PendingWith(rcvid[t]) = {}
          /\ GotoRc(t, "entry_put", status[t])
          /\ raced' = (raced \/ BeingAnswered(t))
          /\ UNCHANGED entryVars
       \/ /\ \E m \in PendingWith(rcvid[t]) : ReleasePending(m)
          /\ GotoRc(t, "spin_finished", rc[t])
          /\ UNCHANGED raced
    /\ UNCHANGED <<msgVars, chanVars, signals, leakedRefs, outcome>>

\* Busy loop (3) waits until the message is FINISHED.
SpinUntilFinished(t) ==
    /\ pc[t] = "spin_finished"
    /\ state[t] = "FINISHED"
    /\ GotoRc(t, "entry_put", rc[t])
    /\ UNCHANGED <<msgVars, chanVars, entryVars, signals, ghostVars>>

\* Busy loop (3) ends.
SpinFinished(t) ==
    /\ pc[t] = "spin_finished"
    /\ state[t] # "FINISHED"
    /\ GotoRc(t, "entry_put", rc[t])
    /\ UNCHANGED <<msgVars, chanVars, entryVars, signals, ghostVars>>

\* qnx_channel_release and the return to user space.
Put(th) ==
    /\ pc[th] \in {"out", "put"}
    /\ ChannelRelease
    /\ GotoCur(th, IF LastReference THEN "put_free" ELSE "idle", NULL, "none")
    /\ UNCHANGED <<entryVars, signals, ghostVars>>

\* th is in the loop of qnx_channel_free, between two messages or between kfree and
\* list_del of one, called at the end of a handler or from qnx_process_entry_free.
FreesChannel(th) == pc[th] \in {"put_free", "free_chan"}

UnlinksMessage(th) == pc[th] \in {"put_del", "free_chan_del"}

\* kfree (or the wake up) ...
ChannelFreeMsg(th) ==
    /\ FreesChannel(th)
    /\ FreeFirst
    /\ GotoRc(th, IF pc[th] = "put_free" THEN "put_del" ELSE "free_chan_del", rc[th])
    /\ UNCHANGED <<entryVars, signals, ghostVars>>

\* ... list_del ...
ChannelFreeDel(th) ==
    /\ UnlinksMessage(th)
    /\ UnlinkFirst
    /\ GotoRc(th, IF pc[th] = "put_del" THEN "put_free" ELSE "free_chan", rc[th])
    /\ UNCHANGED <<entryVars, signals, ghostVars>>

\* ... and, when the queue is empty, kfree of the channel.
ChannelFreed(th) ==
    /\ FreesChannel(th)
    /\ waiting = <<>>
    /\ GotoRc(th, IF pc[th] = "put_free" THEN "idle" ELSE "free_pending", rc[th])
    /\ UNCHANGED <<msgVars, chanVars, entryVars, signals, ghostVars>>

-------------------------------------------------------------------------------
(* qnx_process_entry_release and qnx_process_entry_free, in whichever      *)
(* thread drops the last reference.                                        *)

EntryPut(th) ==
    /\ pc[th] = "entry_put"
    /\ EntryRelease
    /\ GotoRc(th, IF entryRefs = 1 THEN "free_channels" ELSE AfterFree(th), rc[th])
    /\ UNCHANGED <<msgVars, chanVars, signals, ghostVars>>

FreeChannels(th) ==
    /\ pc[th] = "free_channels"
    /\ \/ /\ UnlinkChannel
          /\ GotoRc(th, IF LastReference THEN "free_chan" ELSE "free_pending", rc[th])
       \/ /\ ~chanListed
          /\ GotoRc(th, "free_pending", rc[th])
          /\ UNCHANGED <<msgVars, chanVars, entryVars>>
    /\ UNCHANGED <<signals, ghostVars>>

\* qnx_internal_msgsend_cleanup_and_free of a pending message ...
FreePending(th) ==
    /\ pc[th] = "free_pending"
    /\ \E m \in pending :
          /\ CleanupAndFree({m})
          /\ outcome' = [outcome EXCEPT ![rcvid[m]] = "ESRCH"]
          /\ GotoCur(th, "free_del", m, rc[th])
    /\ UNCHANGED <<chanVars, entryVars, signals, leakedRefs, raced>>

\* ... and then its list_del.
FreeDel(th) ==
    /\ pc[th] = "free_del"
    /\ ReleasePending(cur[th])
    /\ GotoCur(th, "free_pending", NULL, rc[th])
    /\ UNCHANGED <<msgVars, chanVars, signals, ghostVars>>

FreeDone(th) ==
    /\ pc[th] = "free_pending"
    /\ pending = {}
    /\ GotoRc(th, AfterFree(th), rc[th])
    /\ UNCHANGED <<msgVars, chanVars, entryVars, signals, ghostVars>>

-------------------------------------------------------------------------------
(* handle_msgsendpulse, handle_msgsend_no_reply and _noreplyv.  A pulse    *)
(* without a channel is freed again and leaves nothing behind.             *)

MsgSendPulse(t) ==
    /\ pc[t] = "idle"
    /\ ChannelFound
    /\ ChannelGet
    /\ \E m \in Heap : InitPulse(m) /\ GotoCur(t, "pulse_add", m, "0")
    /\ UNCHANGED <<entryVars, signals, ghostVars>>

PulseAdd(t) ==
    /\ pc[t] = "pulse_add"
    /\ AddNewMessage(cur[t])
    /\ GotoCur(t, "put", NULL, "0")
    /\ UNCHANGED <<msgVars, entryVars, signals, ghostVars>>

MsgSendNoReply(t) ==
    /\ pc[t] = "idle"
    /\ ChannelFound
    /\ ChannelGet
    /\ \E m \in Heap : InitNoReply(m) /\ GotoCur(t, "noreply_add", m, "0")
    /\ UNCHANGED <<entryVars, signals, ghostVars>>

\* One round of busy_loop_add_new_message.
NoReplyAdd(t) ==
    /\ pc[t] = "noreply_add"
    /\ \/ /\ AddNewMessage(cur[t])
          /\ GotoCur(t, "put", NULL, "0")
       \/ /\ num_waiting < Len(waiting) + MaxExcess
          /\ AddNewMessageFull(cur[t])
          /\ GotoRc(t, "noreply_sleep", "0")
    /\ UNCHANGED <<msgVars, entryVars, signals, ghostVars>>

\* msleep_interruptible(50) runs out.
NoReplyRetry(t) ==
    /\ pc[t] = "noreply_sleep"
    /\ GotoRc(t, "noreply_add", "0")
    /\ UNCHANGED <<msgVars, chanVars, entryVars, signals, ghostVars>>

\* A signal: the message is freed.  Only the iovec flavour reports it.
NoReplyInterrupted(t) ==
    /\ pc[t] = "noreply_sleep"
    /\ signals < MaxSignals
    /\ signals' = signals + 1
    /\ heap' = heap \ {cur[t]}
    /\ GotoCur(t, "put", NULL, IF t \in VClients THEN "ERESTARTSYS" ELSE "0")
    /\ UNCHANGED <<rcvid, status, state, woken, gbl_next_rcvid, chanVars, entryVars, ghostVars>>

-------------------------------------------------------------------------------
(* handle_msgreceive.  The server's file is open as long as its entry is   *)
(* listed.                                                                 *)

MsgReceive(s) ==
    /\ pc[s] = "idle"
    /\ ChannelFound
    /\ ChannelGet
    /\ GotoRc(s, "wait", "none")
    /\ UNCHANGED <<msgVars, entryVars, signals, ghostVars>>

\* wait_event_interruptible_timeout: the condition holds (rc = jiffies left),
\* or the timeout has passed (rc = 0).
WaitEvent(s) ==
    /\ pc[s] = "wait"
    /\ \/ /\ num_waiting > 0
          /\ GotoRc(s, "take", "jiffies")
       \/ /\ num_waiting <= 0
          /\ s \in TimedServers
          /\ GotoRc(s, "take", "0")
    /\ UNCHANGED <<msgVars, chanVars, entryVars, signals, ghostVars>>

\* A signal ends the wait (rc < 0).
WaitInterrupted(s) ==
    /\ pc[s] = "wait"
    /\ num_waiting <= 0
    /\ signals < MaxSignals
    /\ signals' = signals + 1
    /\ GotoRc(s, "put", "ERESTARTSYS")
    /\ UNCHANGED <<msgVars, chanVars, entryVars, ghostVars>>

\* The section under waiting_lock.
Take(s) ==
    /\ pc[s] = "take"
    /\ \/ /\ waiting = <<>>
          /\ GotoRc(s, "put", "ETIMEDOUT")
          /\ UNCHANGED <<chanVars, msgVars>>
       \/ /\ Dequeue
          /\ state' = [t \in Clients |-> IF t = Head(waiting) THEN "RECEIVING" ELSE state[t]]
          /\ GotoCur(s, "copy", Head(waiting), rc[s])
          /\ UNCHANGED <<rcvid, status, woken, heap, gbl_next_rcvid>>
    /\ UNCHANGED <<entryVars, signals, ghostVars>>

\* A pulse: with a buffer too small for it rc keeps its value, else it becomes
\* 0 or EFAULT; the copy of the info to user space may fail as well.
CopyPulse(s) ==
    /\ pc[s] = "copy"
    /\ ~HasTask(cur[s]) /\ ~IsNoReply(cur[s])
    /\ heap' = heap \ {cur[s]}
    /\ \E r \in {rc[s], "0", "EFAULT"} : GotoCur(s, "put", NULL, r)
    /\ UNCHANGED <<rcvid, status, state, woken, gbl_next_rcvid, chanVars, entryVars,
                   signals, ghostVars>>

\* The kfree of a received no-reply message is missing.
CopyNoReplyLeaks(s) ==
    /\ pc[s] = "copy"
    /\ IsNoReply(cur[s])
    /\ \E r \in {"rcvid", "EFAULT"} : GotoCur(s, "put", NULL, r)
    /\ UNCHANGED <<msgVars, chanVars, entryVars, signals, ghostVars>>

CopyNoReply(s) ==
    /\ pc[s] = "copy"
    /\ IsNoReply(cur[s])
    /\ heap' = heap \ {cur[s]}
    /\ \E r \in {"rcvid", "EFAULT"} : GotoCur(s, "put", NULL, r)
    /\ UNCHANGED <<rcvid, status, state, woken, gbl_next_rcvid, chanVars, entryVars,
                   signals, ghostVars>>

\* rc = -EFAULT is missing.
CopyMsgKeepsRc(s) ==
    /\ pc[s] = "copy"
    /\ HasTask(cur[s])
    /\ \/ GotoRc(s, "add_pending", "rcvid")
       \/ GotoRc(s, "fail", rc[s])
    /\ UNCHANGED <<msgVars, chanVars, entryVars, signals, ghostVars>>

CopyMsg(s) ==
    /\ pc[s] = "copy"
    /\ HasTask(cur[s])
    /\ \/ GotoRc(s, "add_pending", "rcvid")
       \/ GotoRc(s, "fail", "EFAULT")
    /\ UNCHANGED <<msgVars, chanVars, entryVars, signals, ghostVars>>

ReceiveAddPending(s) ==
    /\ pc[s] = "add_pending"
    /\ AddPending(cur[s])
    /\ GotoCur(s, "put", NULL, rc[s])
    /\ UNCHANGED <<chanVars, signals, ghostVars>>

-------------------------------------------------------------------------------
(* handle_msgreply, handle_msgerror and the error exit of                  *)
(* handle_msgreceive.                                                      *)

\* qnx_process_entry_release_pending finds receive id k; with an unknown k the
\* call returns ESRCH and changes nothing.  The status stored later is the
\* server's, or EFAULT when MsgReply cannot copy the data.
MsgAnswer(s, k, a) ==
    /\ pc[s] = "idle"
    /\ entryListed
    /\ \E m \in PendingWith(k) : ReleasePending(m) /\ GotoCur(s, "finish", m, a)
    /\ UNCHANGED <<msgVars, chanVars, signals, ghostVars>>

MsgReply(s, k) == MsgAnswer(s, k, "reply") \/ MsgAnswer(s, k, "EFAULT")

MsgError(s, k) == MsgAnswer(s, k, "error")

\* status = rc; state = FINISHED
Finish(s) ==
    /\ pc[s] \in {"finish", "fail"}
    /\ StoreAnswer(cur[s], rc[s])
    /\ outcome' = [outcome EXCEPT ![rcvid[cur[s]]] = rc[s]]
    /\ GotoRc(s, IF pc[s] = "finish" THEN "wake" ELSE "fail_wake", rc[s])
    /\ UNCHANGED <<chanVars, entryVars, signals, leakedRefs, raced>>

Wake(s) ==
    /\ pc[s] \in {"wake", "fail_wake"}
    /\ WakeUpProcess(cur[s])
    /\ GotoCur(s, IF pc[s] = "wake" THEN "idle" ELSE "put", NULL,
                  IF pc[s] = "wake" THEN "none" ELSE rc[s])
    /\ UNCHANGED <<chanVars, entryVars, signals, ghostVars>>

-------------------------------------------------------------------------------
(* The end of the channel and of the server.                               *)

\* qnx_process_entry_remove_channel
ChannelDestroy(s) ==
    /\ pc[s] = "idle"
    /\ entryListed
    /\ UnlinkChannel
    /\ GotoRc(s, IF LastReference THEN "put_free" ELSE "idle", rc[s])
    /\ UNCHANGED <<signals, ghostVars>>

\* qnxcomm_close: the last reference to the file is gone, so no thread of the
\* process is inside an ioctl.
Close(s) ==
    /\ \A r \in Servers : pc[r] = "idle"
    /\ entryListed
    /\ UnlinkEntry
    /\ GotoRc(s, "entry_put", "none")
    /\ UNCHANGED <<msgVars, chanVars, signals, ghostVars>>

-------------------------------------------------------------------------------

\* The calls a thread may or may not make.
ClientCall(t) ==
    \/ MsgSend(t) \/ MsgSendBadf(t) \/ MsgSendvInitFails(t)
    \/ MsgSendPulse(t) \/ MsgSendNoReply(t)

ServerCall(s) ==
    \/ MsgReceive(s)
    \/ \E k \in 1..MaxRcvid : MsgReply(s, k) \/ MsgError(s, k)
    \/ ChannelDestroy(s)
    \/ Close(s)

\* What happens by itself once a call has been made.
FreeStep(th) ==
    \/ EntryPut(th) \/ FreeChannels(th) \/ FreePending(th) \/ FreeDel(th) \/ FreeDone(th)
    \/ ChannelFreeMsg(th) \/ ChannelFreeDel(th) \/ ChannelFreed(th)

ClientStep(t) ==
    \/ SetInterruptible(t) \/ Enqueue(t) \/ WakeUp(t) \/ Expire(t)
    \/ RemoveWaiting(t) \/ SpinReceiving(t) \/ FindProcess(t) \/ Grab(t) \/ SpinFinished(t)
    \/ PulseAdd(t) \/ NoReplyAdd(t) \/ NoReplyRetry(t)
    \/ FreeStep(t) \/ Put(t)

ServerStep(s) ==
    \/ WaitEvent(s) \/ Take(s) \/ CopyPulse(s) \/ CopyNoReply(s) \/ CopyMsg(s)
    \/ ReceiveAddPending(s) \/ Finish(s) \/ Wake(s)
    \/ FreeStep(s) \/ Put(s)

SignalStep(t) == Interrupted(t) \/ NoReplyInterrupted(t)

Next ==
    \/ \E t \in Clients : ClientCall(t) \/ ClientStep(t) \/ SignalStep(t)
    \/ \E s \in Servers : ServerCall(s) \/ ServerStep(s) \/ WaitInterrupted(s)

Spec == Init /\ [][Next]_vars

\* The scheduler runs every thread that can run, and timers expire.  Calls and
\* signals are up to the environment.
FairSpec ==
    /\ Spec
    /\ \A t \in Clients : WF_vars(ClientStep(t))
    /\ \A s \in Servers : WF_vars(ServerStep(s))

-------------------------------------------------------------------------------
(* Safety.                                                                 *)

\* In handle_msgsend_internal_block, message queued and its frame alive.
InBlock(t) == pc[t] \in {"blocked", "remove", "spin_receiving", "find_process", "grab"}

\* Some server thread is about to read or write t's message.
PointedTo(t) == \E th \in Threads : cur[th] = t

\* Every pointer to a sender's message - in the channel's queue, on the pending
\* list, in the hands of a receiver or replier - leads to a frame whose owner is
\* still inside handle_msgsend_internal_block, unless a sender has slipped
\* through one of the three windows that set raced: the exit "(2) it's obviously
\* done" (line 142) while a server thread is answering the message, the exit
\* without a process entry (line 140) with the message still pending, and the wake
\* up that qnx_process_entry_free sends before its list_del.
NoDangling ==
    ~raced => \A t \in Clients :
        (t \in ToSet(waiting) \cup pending \/ PointedTo(t)) => InBlock(t)

\* The number of places a sender's message is in.
Places(t) ==
    Cardinality({i \in DOMAIN waiting : waiting[i] = t})
      + Cardinality({m \in pending : m = t})
      + Cardinality({s \in Servers : cur[s] = t})

\* A message is in one place only: queued, being received, pending or being
\* answered, and no thread finds it in two (process_entry_free's list_del apart).
OnePlace ==
    ~raced => \A t \in Clients :
        Places(t) <= IF UnlinkOutstanding(t) THEN 2 ELSE 1

\* A sender leaves handle_msgsend_internal_block with a status as result only if
\* a server (or the end of the server) stored it for this very message.
AnswerMatches ==
    ~raced => \A t \in Clients :
        pc[t] = "out" /\ rc[t] \in Status =>
            rc[t] # "initial" /\ outcome[rcvid[t]] = rc[t]

\* As long as the server lives no answer is lost: a sender that returns because
\* of its timeout or a signal has not been answered (and never will be: its
\* message is out of reach of MsgReply).
AnswerNotLost ==
    ~raced => \A t \in Clients :
        pc[t] = "out" /\ rc[t] \in {"ETIMEDOUT", "ERESTARTSYS"} /\ entryListed =>
            outcome[rcvid[t]] = "initial"

\* A message is answered once: what the server side made of a receive id stands.
AnsweredOnce ==
    [][\A k \in 1..MaxRcvid :
          outcome[k] # "initial" /\ ~raced' => outcome'[k] = outcome[k]]_vars

\* Threads with a reference to the channel.
HoldsChannel(th) ==
    IF th \in Clients
       THEN pc[th] \notin {"idle", "put_free", "put_del"}
       ELSE pc[th] \in {"wait", "take", "copy", "add_pending", "fail", "fail_wake", "put"}

\* The reference count of the channel is the number of threads using it, plus
\* the list's own reference, plus the references the vector calls leaked: it is
\* not freed under anybody, and is freed when the last of them is gone.
ChannelRefs ==
    chanRefs = Cardinality({th \in Threads : HoldsChannel(th)})
                 + (IF chanListed THEN 1 ELSE 0) + leakedRefs

\* Threads with a reference to the process entry beside the file's own.
HoldsEntry(th) ==
    IF th \in Clients THEN pc[th] \in {"grab", "spin_finished", "entry_put"}
                      ELSE pc[th] = "entry_put"

\* The same for the process entry: its file and the interrupted senders.
EntryRefs ==
    entryRefs = Cardinality({th \in Threads : HoldsEntry(th)}) + (IF entryListed THEN 1 ELSE 0)

\* num_waiting_noreply counts the no-reply messages in the queue and respects
\* noreply_per_channel, whatever is received, removed or rejected meanwhile.
NoReplyAccounting ==
    chanRefs > 0 =>
        /\ num_waiting_noreply = Cardinality({i \in DOMAIN waiting : IsNoReply(waiting[i])})
        /\ num_waiting_noreply <= MaxNoReply

\* num_waiting is never too small: with a message in the queue receivers do not
\* sleep and poll reports POLLIN.
CounterCoversQueue == chanRefs > 0 => num_waiting >= Len(waiting)

\* The owners of a kmalloc'ed message: queue positions and threads.
Owners(m) ==
    Cardinality({i \in DOMAIN waiting : waiting[i] = m})
      + Cardinality({th \in Threads : cur[th] = m})

\* qnx_channel_free has freed m and has its list_del still to do.
FreedInQueue(m) ==
    waiting # <<>> /\ m = Head(waiting) /\ \E th \in Threads : UnlinksMessage(th)

\* A pulse or no-reply message has one owner from kmalloc to kfree and none after it,
\* whether it is received, dropped by a signal or disposed of with its channel: it is
\* neither leaked nor freed again, nor used after kfree, except by the list_del of
\* qnx_channel_free, which comes after the kfree of the same message.
HeapOwnership ==
    \A m \in Heap : Owners(m) = IF m \in heap \/ FreedInQueue(m) THEN 1 ELSE 0

\* Two message objects never carry the same receive id (0, the pulses', apart),
\* so a lookup by receive id finds the message that was meant.
RcvidUnique == \A m, n \in Ptr : m # n /\ rcvid[m] = rcvid[n] => rcvid[m] = 0

-------------------------------------------------------------------------------
(* Liveness, under FairSpec.                                               *)

\* A sender whose sleep was ended by its timeout or a signal returns: its two busy
\* loops end (unless a race has corrupted the state they wait for).
InterruptedReturns == \A t \in Clients : pc[t] = "remove" ~> (pc[t] = "idle" \/ raced)

\* When the server is gone, a sender waiting for its reply is released with ESRCH
\* (or by its timeout or a signal).
DeadServerReleases ==
    \A t \in Clients :
        pc[t] = "blocked" /\ t \in pending /\ ~entryListed /\ ~raced ~>
            pc[t] = "out" /\ rc[t] \in {"ESRCH", "ETIMEDOUT", "ERESTARTSYS"}

-------------------------------------------------------------------------------
(* What comments, tests and docs say and the code does not keep.           *)

\* "object is out of the queue. it could be in the following states ..." (lines
\* 124-133): no sender returns while a server thread still uses its message.
NoDanglingAtAll ==
    \A t \in Clients : (t \in ToSet(waiting) \cup pending \/ PointedTo(t)) => InBlock(t)

\* No message is in a queue or in a thread's hands after kfree.
NoUseAfterKfree == \A m \in Heap \ heap : Owners(m) = 0

\* POLLIN (num_waiting > 0) means that there is a message to receive.
PollinMeansMessage == chanRefs > 0 /\ num_waiting > 0 => waiting # <<>>

\* MsgReceive returns 0 for a pulse, never the jiffies left of its wait.
PulseReturnsZero == \A s \in Servers : pc[s] = "put" => rc[s] # "jiffies"

\* A MsgReceive without a timeout does not end with ETIMEDOUT.
UntimedReceiveWaits ==
    \A s \in Servers \ TimedServers : pc[s] = "put" => rc[s] # "ETIMEDOUT"

\* A no-reply message that was freed unsent is not reported as sent.
DropReported ==
    [][\A t \in Clients : pc[t] = "noreply_sleep" /\ pc'[t] = "put" => rc'[t] # "0"]_vars

\* A sender whose message is still queued when the server is gone is released.
QueuedSenderReleased ==
    \A t \in Clients : pc[t] = "blocked" /\ ~entryListed ~> pc[t] # "blocked"
===============================================================================
