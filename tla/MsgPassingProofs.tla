--------------------------- MODULE MsgPassingProofs ---------------------------
(***************************************************************************)
(* Proofs about message passing, for any number of clients, servers and    *)
(* messages: the safety invariants, and that the handlers implement        *)
(* SendReceiveReply.                                                       *)
(***************************************************************************)
EXTENDS MsgPassingRefinement, ListLemmas, FiniteSetTheorems, SequenceTheorems, TLAPS

-------------------------------------------------------------------------------
(* Types.  What a handler is going to store must fit as well: the message  *)
(* it holds, and the status it answers with.                               *)

\* What a server thread answers: ESRCH is left to the end of the server.
Given == Answer \ {"ESRCH"}

\* The threads, with the pointers and results their handlers carry from one step
\* to the next.
ThreadsOK ==
    /\ pc \in [Threads -> ClientPC \cup ServerPC]
    /\ \A t \in Clients : pc[t] \in ClientPC
    /\ \A s \in Servers : pc[s] \in ServerPC
    /\ cur \in [Threads -> Ptr \cup {NULL}]
    /\ rc \in [Threads -> Rc]
    /\ \A t \in Clients :
          pc[t] \in {"pulse_add", "noreply_add", "noreply_sleep"} => cur[t] \in Heap
    /\ \A s \in Servers :
          /\ pc[s] = "copy" => cur[s] \in Ptr
          /\ pc[s] \in {"add_pending", "fail", "fail_wake", "finish", "wake"} => cur[s] \in Clients
          /\ pc[s] \in {"finish", "fail"} => rc[s] \in Given

\* What the threads share, and the history variables.
SharedOK ==
    /\ MsgTypeOK /\ ChanTypeOK
    /\ EntryTypeOK /\ pending \subseteq Clients
    /\ signals \in 0..MaxSignals
    /\ leakedRefs \in 0..MaxLeaks
    /\ outcome \in [1..MaxRcvid -> Status]
    /\ raced \in BOOLEAN

Types == ThreadsOK /\ SharedOK

\* The threads are pairwise different.
LEMMA ThreadSets ==
    /\ Clients \subseteq Threads /\ Servers \subseteq Threads
    /\ \A t \in Clients : t \notin Servers /\ t \in Ptr
    /\ \A s \in Servers : s \notin Clients
    /\ IsFiniteSet(Threads)
  BY MessagesAssumption, MsgPassingAssumption, FS_Union DEF Threads, Ptr

\* The state after qnxcomm_open and ChannelCreate is well typed.
LEMMA InitTypes == Init => Types
  <1> SUFFICES ASSUME Init PROVE Types
    OBVIOUS
  <1> USE MessagesAssumption, MsgPassingAssumption
  <1>1. MsgTypeOK
    BY DEF Init, MsgInit, MsgTypeOK, Status, MsgState
  <1>2. ChanTypeOK
    BY EmptySeq DEF Init, ChanInit, ChanTypeOK
  <1>3. EntryTypeOK /\ pending = {}
    BY DEF Init, EntryInit, EntryTypeOK
  <1>4. /\ pc \in [Threads -> ClientPC \cup ServerPC]
        /\ \A t \in Clients : pc[t] = "idle" /\ pc[t] \in ClientPC
        /\ \A s \in Servers : pc[s] = "idle" /\ pc[s] \in ServerPC
    BY ThreadSets DEF Init, ClientPC, ServerPC
  <1>5. cur \in [Threads -> Ptr \cup {NULL}] /\ rc \in [Threads -> Rc]
    BY DEF Init, Rc
  <1>6. /\ signals \in 0..MaxSignals
        /\ leakedRefs \in 0..MaxLeaks
        /\ outcome \in [1..MaxRcvid -> Status]
    BY DEF Init, Status
  <1>7. raced \in BOOLEAN
    BY DEF Init
  <1> QED BY <1>1, <1>2, <1>3, <1>4, <1>5, <1>6, <1>7 DEF Types, ThreadsOK, SharedOK

\* Disposing of messages keeps their types.
LEMMA CleanupTypes ==
    ASSUME MsgTypeOK, NEW ms, CleanupAndFree(ms) PROVE MsgTypeOK'
  BY DEF MsgTypeOK, CleanupAndFree, Status, Answer

\* So does releasing the channel.
LEMMA ReleaseTypes ==
    ASSUME MsgTypeOK, ChanTypeOK, ChannelRelease PROVE MsgTypeOK' /\ ChanTypeOK'
  BY DEF ChannelRelease, MsgTypeOK, ChanTypeOK, msgVars

\* And unlinking the first message of the queue.
LEMMA UnlinkTypes ==
    ASSUME MsgTypeOK, ChanTypeOK, UnlinkFirst
    PROVE  MsgTypeOK' /\ ChanTypeOK' /\ Len(waiting') = Len(waiting) - 1
  BY HeadTailProperties DEF UnlinkFirst, MsgTypeOK, ChanTypeOK, msgVars

\* Queueing and removing messages keeps the queue's type, and num_waiting never
\* falls below the queue's length.
LEMMA QueueTypes ==
    ASSUME ChanTypeOK
    PROVE  /\ \A m \in Ptr : AddNewMessage(m) =>
                 ChanTypeOK' /\ Len(waiting') = Len(waiting) + 1 /\ num_waiting' = num_waiting + 1
           /\ \A k : RemoveMessage(k) =>
                 ChanTypeOK' /\ Len(waiting') = Len(waiting) - 1 /\ num_waiting' = num_waiting - 1
           /\ Dequeue =>
                 /\ ChanTypeOK' /\ Len(waiting') = Len(waiting) - 1
                 /\ num_waiting' = num_waiting - 1 /\ Head(waiting) \in Ptr
  <1>1. ASSUME NEW m \in Ptr, AddNewMessage(m)
        PROVE  ChanTypeOK' /\ Len(waiting') = Len(waiting) + 1 /\ num_waiting' = num_waiting + 1
    BY <1>1, AppendProperties DEF AddNewMessage, ChanTypeOK
  <1>2. ASSUME NEW k, RemoveMessage(k)
        PROVE  ChanTypeOK' /\ Len(waiting') = Len(waiting) - 1 /\ num_waiting' = num_waiting - 1
    <2>1. PICK i \in DOMAIN waiting : waiting' = RemoveAt(waiting, i)
      BY <1>2 DEF RemoveMessage, PositionsOf
    <2>2. i \in 1..Len(waiting)
      BY <2>1, LenProperties DEF ChanTypeOK
    <2>3. waiting' \in Seq(Ptr) /\ Len(waiting') = Len(waiting) - 1
      BY <2>1, <2>2, RemoveAtSeq DEF ChanTypeOK
    <2> QED BY <1>2, <2>3 DEF RemoveMessage, ChanTypeOK
  <1>3. ASSUME Dequeue
        PROVE  /\ ChanTypeOK' /\ Len(waiting') = Len(waiting) - 1
               /\ num_waiting' = num_waiting - 1 /\ Head(waiting) \in Ptr
    BY <1>3, HeadTailProperties DEF Dequeue, ChanTypeOK
  <1> QED BY <1>1, <1>2, <1>3

\* A thread that goes on at p, with the pointer m and the result r, keeps the types.
LEMMA ThreadStep ==
    ASSUME ThreadsOK, NEW th \in Threads,
           NEW p, th \in Clients => p \in ClientPC, th \in Servers => p \in ServerPC,
           NEW m \in Ptr \cup {NULL}, NEW r \in Rc,
           pc' = [pc EXCEPT ![th] = p],
           cur' = [cur EXCEPT ![th] = m],
           rc' = [rc EXCEPT ![th] = r],
           p \in {"pulse_add", "noreply_add", "noreply_sleep"} => m \in Heap,
           p = "copy" => m \in Ptr,
           p \in {"add_pending", "fail", "fail_wake", "finish", "wake"} => m \in Clients,
           p \in {"finish", "fail"} => r \in Given
    PROVE  ThreadsOK'
  <1>1. th \in Clients \/ th \in Servers
    BY DEF Threads
  <1>2. p \in ClientPC \cup ServerPC
    BY <1>1
  <1>3. pc' \in [Threads -> ClientPC \cup ServerPC]
    BY <1>2 DEF ThreadsOK
  <1>4. cur' \in [Threads -> Ptr \cup {NULL}] /\ rc' \in [Threads -> Rc]
    BY DEF ThreadsOK
  <1>5. \A u \in Threads : /\ pc'[u] = IF u = th THEN p ELSE pc[u]
                           /\ cur'[u] = IF u = th THEN m ELSE cur[u]
                           /\ rc'[u] = IF u = th THEN r ELSE rc[u]
    BY DEF ThreadsOK
  <1>6. \A t \in Clients :
          /\ pc'[t] \in ClientPC
          /\ pc'[t] \in {"pulse_add", "noreply_add", "noreply_sleep"} => cur'[t] \in Heap
    BY <1>5, ThreadSets DEF ThreadsOK
  <1>7. \A s \in Servers :
          /\ pc'[s] \in ServerPC
          /\ pc'[s] = "copy" => cur'[s] \in Ptr
          /\ pc'[s] \in {"add_pending", "fail", "fail_wake", "finish", "wake"} => cur'[s] \in Clients
          /\ pc'[s] \in {"finish", "fail"} => rc'[s] \in Given
    BY <1>5, ThreadSets DEF ThreadsOK
  <1> QED BY <1>3, <1>4, <1>6, <1>7 DEF ThreadsOK

\* The same for a step that keeps the pointer.
LEMMA ThreadStepRc ==
    ASSUME ThreadsOK, NEW th \in Threads,
           NEW p, th \in Clients => p \in ClientPC, th \in Servers => p \in ServerPC,
           NEW r \in Rc,
           GotoRc(th, p, r),
           p \in {"pulse_add", "noreply_add", "noreply_sleep"} => cur[th] \in Heap,
           p = "copy" => cur[th] \in Ptr,
           p \in {"add_pending", "fail", "fail_wake", "finish", "wake"} => cur[th] \in Clients,
           p \in {"finish", "fail"} => r \in Given
    PROVE  ThreadsOK'
  <1>1. cur' = [cur EXCEPT ![th] = cur[th]] /\ cur[th] \in Ptr \cup {NULL}
    BY DEF ThreadsOK, GotoRc
  <1>2. pc' = [pc EXCEPT ![th] = p] /\ rc' = [rc EXCEPT ![th] = r]
    BY DEF GotoRc, Goto
  <1> QED BY <1>1, <1>2, ThreadStep

\* The steps of handle_msgsend_internal_block keep the types.
LEMMA BlockTypes ==
    ASSUME Types, NEW t \in Clients,
           \/ SetInterruptible(t)
           \/ Enqueue(t)
           \/ WakeUp(t)
           \/ Expire(t)
           \/ Interrupted(t)
           \/ RemoveWaiting(t)
           \/ SpinReceiving(t)
           \/ FindProcess(t)
           \/ Grab(t)
           \/ SpinFinished(t)
    PROVE  Types'
  <1> USE ThreadSets, MessagesAssumption, MsgPassingAssumption DEF Types, SharedOK
  <1>1. CASE Enqueue(t)
    <2>1. ThreadsOK'
      BY <1>1, ThreadStepRc DEF Enqueue, ClientPC, ServerPC, Rc, ThreadsOK
    <2>2. SharedOK'
      BY <1>1, QueueTypes DEF Enqueue, MsgTypeOK, EntryTypeOK, msgVars, chanVars, entryVars,
         ghostVars
    <2> QED BY <2>1, <2>2
  <1>2. CASE WakeUp(t)
    <2>1. ThreadsOK'
      BY <1>2, ThreadStepRc DEF WakeUp, ClientPC, ServerPC, Rc, MsgTypeOK
    <2>2. SharedOK'
      BY <1>2 DEF WakeUp, MsgTypeOK, ChanTypeOK, EntryTypeOK, msgVars, chanVars, entryVars,
         ghostVars
    <2> QED BY <2>1, <2>2
  <1>3. CASE Expire(t)
    <2>1. ThreadsOK'
      BY <1>3, ThreadStepRc DEF Expire, ClientPC, ServerPC, Rc
    <2>2. SharedOK'
      BY <1>3 DEF Expire, MsgTypeOK, ChanTypeOK, EntryTypeOK, msgVars, chanVars, entryVars,
         ghostVars
    <2> QED BY <2>1, <2>2
  <1>4. CASE Interrupted(t)
    <2>1. ThreadsOK'
      BY <1>4, ThreadStepRc DEF Interrupted, ClientPC, ServerPC, Rc
    <2>2. SharedOK'
      BY <1>4 DEF Interrupted, MsgTypeOK, ChanTypeOK, EntryTypeOK, msgVars, chanVars,
         entryVars, ghostVars
    <2> QED BY <2>1, <2>2
  <1>5. CASE RemoveWaiting(t)
    <2>1. ThreadsOK'
      BY <1>5, ThreadStepRc DEF RemoveWaiting, ClientPC, ServerPC, Rc, ThreadsOK
    <2>2. SharedOK'
      BY <1>5, QueueTypes DEF RemoveWaiting, MsgTypeOK, ChanTypeOK, EntryTypeOK, msgVars,
         chanVars, entryVars, ghostVars
    <2> QED BY <2>1, <2>2
  <1>6. CASE SpinReceiving(t)
    <2>1. ThreadsOK'
      BY <1>6, ThreadStepRc DEF SpinReceiving, ClientPC, ServerPC, Rc, ThreadsOK
    <2>2. SharedOK'
      BY <1>6 DEF SpinReceiving, MsgTypeOK, ChanTypeOK, EntryTypeOK, msgVars, chanVars,
         entryVars, ghostVars
    <2> QED BY <2>1, <2>2
  <1>7. CASE FindProcess(t)
    <2>1. ThreadsOK'
      BY <1>7, ThreadStepRc DEF FindProcess, ClientPC, ServerPC, Rc, ThreadsOK
    <2>2. SharedOK'
      <3>1. CASE entryListed
        BY <1>7, <3>1 DEF FindProcess, MsgTypeOK, ChanTypeOK, EntryTypeOK, msgVars, chanVars,
           entryVars, ghostVars, EntryGet
      <3>2. CASE ~entryListed
        BY <1>7, <3>2 DEF FindProcess, MsgTypeOK, ChanTypeOK, EntryTypeOK, msgVars, chanVars,
           entryVars, ghostVars
      <3> QED BY <3>1, <3>2
    <2> QED BY <2>1, <2>2
  <1>8. CASE Grab(t)
    <2>1. ThreadsOK'
      BY <1>8, ThreadStepRc DEF Grab, ClientPC, ServerPC, Rc, ThreadsOK, MsgTypeOK
    <2>2. SharedOK'
      BY <1>8 DEF Grab, MsgTypeOK, ChanTypeOK, EntryTypeOK, msgVars, chanVars, entryVars,
         ghostVars, ReleasePending
    <2> QED BY <2>1, <2>2
  <1>9. CASE SpinFinished(t)
    <2>1. ThreadsOK'
      BY <1>9, ThreadStepRc DEF SpinFinished, ClientPC, ServerPC, Rc, ThreadsOK
    <2>2. SharedOK'
      BY <1>9 DEF SpinFinished, MsgTypeOK, ChanTypeOK, EntryTypeOK, msgVars, chanVars,
         entryVars, ghostVars
    <2> QED BY <2>1, <2>2
  <1>10. CASE SetInterruptible(t)
    <2>1. ThreadsOK'
      BY <1>10, ThreadStepRc DEF SetInterruptible, ClientPC, ServerPC, Rc, ThreadsOK
    <2>2. SharedOK'
      BY <1>10 DEF SetInterruptible, MsgTypeOK, ChanTypeOK, EntryTypeOK, msgVars, chanVars,
         entryVars, ghostVars
    <2> QED BY <2>1, <2>2
  <1> QED BY <1>1, <1>2, <1>3, <1>4, <1>5, <1>6, <1>7, <1>8, <1>9, <1>10

\* The calls of the clients keep the types.
LEMMA SendTypes ==
    ASSUME Types, NEW t \in Clients,
           \/ MsgSend(t)
           \/ MsgSendBadf(t)
           \/ MsgSendvInitFails(t)
           \/ MsgSendPulse(t)
           \/ PulseAdd(t)
           \/ MsgSendNoReply(t)
           \/ NoReplyAdd(t)
           \/ NoReplyRetry(t)
           \/ NoReplyInterrupted(t)
    PROVE  Types'
  <1> USE ThreadSets, MessagesAssumption, MsgPassingAssumption DEF Types, SharedOK
  <1>1. CASE MsgSend(t)
    <2>1. ThreadsOK'
      BY <1>1, ThreadStepRc DEF MsgSend, ClientPC, ServerPC, Rc, threadVars, ThreadsOK
    <2>2. SharedOK'
      BY <1>1 DEF MsgSend, MsgTypeOK, ChanTypeOK, EntryTypeOK, msgVars, chanVars, entryVars,
         ghostVars, InitMsg, GetNewRcvid, ChannelGet, Ptr, Status, MsgState
    <2> QED BY <2>1, <2>2
  <1>2. CASE MsgSendBadf(t)
    <2>1. ThreadsOK'
      BY <1>2 DEF MsgSendBadf, threadVars, ThreadsOK
    <2>2. SharedOK'
      BY <1>2 DEF MsgSendBadf, MsgTypeOK, ChanTypeOK, EntryTypeOK, chanVars, entryVars, ghostVars
    <2> QED BY <2>1, <2>2
  <1>3. CASE MsgSendvInitFails(t)
    <2>1. ThreadsOK'
      BY <1>3 DEF MsgSendvInitFails, threadVars, ThreadsOK
    <2>2. SharedOK'
      BY <1>3 DEF MsgSendvInitFails, MsgTypeOK, ChanTypeOK, EntryTypeOK, msgVars, chanVars,
         entryVars, ghostVars, ChannelGet
    <2> QED BY <2>1, <2>2
  <1>4. CASE MsgSendPulse(t)
    <2>1. ThreadsOK'
      BY <1>4, ThreadStep DEF MsgSendPulse, ClientPC, ServerPC, Rc, GotoCur, Goto, Ptr
    <2>2. SharedOK'
      BY <1>4 DEF MsgSendPulse, MsgTypeOK, ChanTypeOK, EntryTypeOK, msgVars, chanVars,
         entryVars, ghostVars, InitPulse, ChannelGet, Ptr
    <2> QED BY <2>1, <2>2
  <1>5. CASE PulseAdd(t)
    <2>1. ThreadsOK'
      BY <1>5, ThreadStep DEF PulseAdd, ClientPC, ServerPC, Rc, GotoCur, Goto
    <2>2. SharedOK'
      BY <1>5, QueueTypes DEF PulseAdd, MsgTypeOK, EntryTypeOK, msgVars, chanVars, entryVars,
         ghostVars, ThreadsOK, Ptr
    <2> QED BY <2>1, <2>2
  <1>6. CASE MsgSendNoReply(t)
    <2>1. ThreadsOK'
      BY <1>6, ThreadStep DEF MsgSendNoReply, ClientPC, ServerPC, Rc, GotoCur, Goto, Ptr
    <2>2. SharedOK'
      BY <1>6 DEF MsgSendNoReply, MsgTypeOK, ChanTypeOK, EntryTypeOK, msgVars, chanVars,
         entryVars, ghostVars, InitNoReply, GetNewRcvid, ChannelGet, Ptr
    <2> QED BY <2>1, <2>2
  <1>7. CASE NoReplyAdd(t)
    <2>1. ThreadsOK'
      <3>1. CASE GotoCur(t, "put", NULL, "0")
        BY <3>1, ThreadStep DEF ClientPC, Rc, GotoCur, Goto
      <3>2. CASE GotoRc(t, "noreply_sleep", "0")
        BY <1>7, <3>2, ThreadStepRc DEF NoReplyAdd, ClientPC, Rc, ThreadsOK
      <3> QED BY <1>7, <3>1, <3>2 DEF NoReplyAdd
    <2>2. SharedOK'
      BY <1>7, QueueTypes DEF NoReplyAdd, MsgTypeOK, ChanTypeOK, EntryTypeOK, msgVars,
         chanVars, entryVars, ghostVars, ThreadsOK, Ptr, AddNewMessageFull
    <2> QED BY <2>1, <2>2
  <1>8. CASE NoReplyRetry(t)
    <2>1. ThreadsOK'
      BY <1>8, ThreadStepRc DEF NoReplyRetry, ClientPC, ServerPC, Rc, ThreadsOK
    <2>2. SharedOK'
      BY <1>8 DEF NoReplyRetry, MsgTypeOK, ChanTypeOK, EntryTypeOK, msgVars, chanVars,
         entryVars, ghostVars
    <2> QED BY <2>1, <2>2
  <1>9. CASE NoReplyInterrupted(t)
    <2>1. ThreadsOK'
      BY <1>9, ThreadStep DEF NoReplyInterrupted, ClientPC, ServerPC, Rc, GotoCur, Goto
    <2>2. SharedOK'
      BY <1>9 DEF NoReplyInterrupted, MsgTypeOK, ChanTypeOK, EntryTypeOK, msgVars, chanVars,
         entryVars, ghostVars
    <2> QED BY <2>1, <2>2
  <1> QED BY <1>1, <1>2, <1>3, <1>4, <1>5, <1>6, <1>7, <1>8, <1>9

\* The steps of handle_msgreceive keep the types.
LEMMA ReceiveTypes ==
    ASSUME Types, NEW s \in Servers,
           \/ MsgReceive(s)
           \/ WaitEvent(s)
           \/ WaitInterrupted(s)
           \/ Take(s)
           \/ CopyPulse(s)
           \/ CopyNoReply(s)
           \/ CopyMsg(s)
           \/ ReceiveAddPending(s)
    PROVE  Types'
  <1> USE ThreadSets, MessagesAssumption, MsgPassingAssumption DEF Types, SharedOK
  <1>1. CASE MsgReceive(s)
    <2>1. ThreadsOK'
      BY <1>1, ThreadStepRc DEF MsgReceive, ClientPC, ServerPC, Rc
    <2>2. SharedOK'
      BY <1>1 DEF MsgReceive, MsgTypeOK, ChanTypeOK, EntryTypeOK, msgVars, chanVars, entryVars,
         ghostVars, ChannelGet
    <2> QED BY <2>1, <2>2
  <1>2. CASE WaitEvent(s)
    <2>1. ThreadsOK'
      BY <1>2, ThreadStepRc DEF WaitEvent, ClientPC, ServerPC, Rc
    <2>2. SharedOK'
      BY <1>2 DEF WaitEvent, MsgTypeOK, ChanTypeOK, EntryTypeOK, msgVars, chanVars, entryVars,
         ghostVars
    <2> QED BY <2>1, <2>2
  <1>3. CASE WaitInterrupted(s)
    <2>1. ThreadsOK'
      BY <1>3, ThreadStepRc DEF WaitInterrupted, ClientPC, ServerPC, Rc
    <2>2. SharedOK'
      BY <1>3 DEF WaitInterrupted, MsgTypeOK, ChanTypeOK, EntryTypeOK, msgVars, chanVars,
         entryVars, ghostVars
    <2> QED BY <2>1, <2>2
  <1>4. CASE Take(s)
    <2>1. ThreadsOK'
      <3>1. CASE GotoRc(s, "put", "ETIMEDOUT")
        BY <3>1, ThreadStepRc DEF ServerPC, Rc
      <3>2. CASE Dequeue /\ GotoCur(s, "copy", Head(waiting), rc[s])
        <4>1. Head(waiting) \in Ptr /\ rc[s] \in Rc
          BY <3>2, QueueTypes DEF ThreadsOK
        <4> QED BY <3>2, <4>1, ThreadStep DEF ServerPC, GotoCur, Goto
      <3> QED BY <1>4, <3>1, <3>2 DEF Take
    <2>2. SharedOK'
      <3>1. CASE UNCHANGED <<chanVars, msgVars>>
        BY <1>4, <3>1 DEF Take, MsgTypeOK, ChanTypeOK, EntryTypeOK, msgVars, chanVars,
           entryVars, ghostVars
      <3>2. CASE Dequeue /\ ~UNCHANGED <<chanVars, msgVars>>
        <4>1. ChanTypeOK'
          BY <3>2, QueueTypes
        <4>2. MsgTypeOK'
          BY <1>4, <3>2 DEF Take, MsgTypeOK, MsgState
        <4> QED BY <1>4, <4>1, <4>2 DEF Take, EntryTypeOK, entryVars, ghostVars
      <3> QED BY <1>4, <3>1, <3>2 DEF Take
    <2> QED BY <2>1, <2>2
  <1>5. CASE CopyPulse(s)
    <2>1. ThreadsOK'
      <3>1. PICK r \in {rc[s], "0", "EFAULT"} : GotoCur(s, "put", NULL, r)
        BY <1>5 DEF CopyPulse
      <3>2. r \in Rc
        BY <3>1 DEF ThreadsOK, Rc, Status, Answer
      <3> QED BY <3>1, <3>2, ThreadStep DEF ServerPC, GotoCur, Goto
    <2>2. SharedOK'
      BY <1>5 DEF CopyPulse, MsgTypeOK, ChanTypeOK, EntryTypeOK, msgVars, chanVars, entryVars,
         ghostVars
    <2> QED BY <2>1, <2>2
  <1>6. CASE CopyNoReply(s)
    <2>1. ThreadsOK'
      BY <1>6, ThreadStep DEF CopyNoReply, ClientPC, ServerPC, Rc, GotoCur, Goto, Status, Answer
    <2>2. SharedOK'
      BY <1>6 DEF CopyNoReply, MsgTypeOK, ChanTypeOK, EntryTypeOK, msgVars, chanVars,
         entryVars, ghostVars
    <2> QED BY <2>1, <2>2
  <1>7. CASE CopyMsg(s)
    <2>1. ThreadsOK'
      BY <1>7, ThreadStepRc DEF CopyMsg, ClientPC, ServerPC, Rc, HasTask, Status, Answer, Given
    <2>2. SharedOK'
      BY <1>7 DEF CopyMsg, MsgTypeOK, ChanTypeOK, EntryTypeOK, msgVars, chanVars, entryVars,
         ghostVars
    <2> QED BY <2>1, <2>2
  <1>8. CASE ReceiveAddPending(s)
    <2>1. ThreadsOK'
      BY <1>8, ThreadStep DEF ReceiveAddPending, ClientPC, ServerPC, Rc, GotoCur, Goto, ThreadsOK
    <2>2. SharedOK'
      BY <1>8 DEF ReceiveAddPending, MsgTypeOK, ChanTypeOK, EntryTypeOK, msgVars, chanVars,
         entryVars, ghostVars, AddPending, ThreadsOK, MsgState, Ptr
    <2> QED BY <2>1, <2>2
  <1> QED BY <1>1, <1>2, <1>3, <1>4, <1>5, <1>6, <1>7, <1>8

\* Answers, and the end of the channel and the server, keep the types.
LEMMA AnswerTypes ==
    ASSUME Types, NEW s \in Servers,
           \/ \E k, a : MsgAnswer(s, k, a) /\ a \in Given
           \/ Finish(s)
           \/ Wake(s)
           \/ ChannelDestroy(s)
           \/ Close(s)
    PROVE  Types'
  <1> USE ThreadSets, MessagesAssumption, MsgPassingAssumption DEF Types, SharedOK
  <1>1. ASSUME NEW k, NEW a \in Given, MsgAnswer(s, k, a) PROVE Types'
    <2>1. ThreadsOK'
      BY <1>1, ThreadStep DEF MsgAnswer, ClientPC, ServerPC, Rc, GotoCur, Goto, PendingWith,
         Status, Given
    <2>2. SharedOK'
      BY <1>1 DEF MsgAnswer, MsgTypeOK, ChanTypeOK, EntryTypeOK, msgVars, chanVars, entryVars,
         ghostVars, ReleasePending
    <2> QED BY <2>1, <2>2
  <1>2. CASE Finish(s)
    <2>1. ThreadsOK'
      BY <1>2, ThreadStepRc DEF Finish, ClientPC, ServerPC, Rc, ThreadsOK
    <2>2. SharedOK'
      BY <1>2 DEF Finish, MsgTypeOK, ChanTypeOK, EntryTypeOK, msgVars, chanVars, entryVars,
         ghostVars, StoreAnswer, ThreadsOK, Status, Given, MsgState
    <2> QED BY <2>1, <2>2
  <1>3. CASE Wake(s)
    <2>1. ThreadsOK'
      BY <1>3, ThreadStep DEF Wake, ClientPC, ServerPC, Rc, GotoCur, Goto, ThreadsOK
    <2>2. SharedOK'
      BY <1>3 DEF Wake, MsgTypeOK, ChanTypeOK, EntryTypeOK, msgVars, chanVars, entryVars,
         ghostVars, WakeUpProcess
    <2> QED BY <2>1, <2>2
  <1>4. CASE ChannelDestroy(s)
    <2>1. ThreadsOK'
      BY <1>4, ThreadStepRc DEF ChannelDestroy, ClientPC, ServerPC, ThreadsOK
    <2>2. SharedOK'
      BY <1>4, ReleaseTypes DEF ChannelDestroy, UnlinkChannel, EntryTypeOK, ghostVars
    <2> QED BY <2>1, <2>2
  <1>5. CASE Close(s)
    <2>1. ThreadsOK'
      BY <1>5, ThreadStepRc DEF Close, ClientPC, ServerPC, Rc
    <2>2. SharedOK'
      BY <1>5 DEF Close, MsgTypeOK, ChanTypeOK, EntryTypeOK, msgVars, chanVars, entryVars,
         ghostVars, UnlinkEntry
    <2> QED BY <2>1, <2>2
  <1> QED BY <1>1, <1>2, <1>3, <1>4, <1>5

\* Dropping references, and disposing of the entry, keeps the types.
LEMMA FreeTypes ==
    ASSUME Types, NEW th \in Threads,
           \/ Put(th)
           \/ EntryPut(th)
           \/ FreeChannels(th)
           \/ FreePending(th)
           \/ FreeDel(th)
           \/ FreeDone(th)
           \/ ChannelFreeMsg(th)
           \/ ChannelFreeDel(th)
           \/ ChannelFreed(th)
    PROVE  Types'
  <1> USE ThreadSets, MessagesAssumption, MsgPassingAssumption DEF Types, SharedOK
  <1>1. CASE Put(th)
    <2>1. ThreadsOK'
      BY <1>1, ThreadStep DEF Put, ClientPC, ServerPC, Rc, GotoCur, Goto
    <2>2. SharedOK'
      BY <1>1, ReleaseTypes DEF Put, EntryTypeOK, entryVars, ghostVars
    <2> QED BY <2>1, <2>2
  <1>2. CASE EntryPut(th)
    <2>1. ThreadsOK'
      BY <1>2, ThreadStepRc DEF EntryPut, ClientPC, ServerPC, Rc, AfterFree, ThreadsOK
    <2>2. SharedOK'
      BY <1>2 DEF EntryPut, MsgTypeOK, ChanTypeOK, EntryTypeOK, msgVars, chanVars, entryVars,
         ghostVars, EntryRelease
    <2> QED BY <2>1, <2>2
  <1>3. CASE FreeChannels(th)
    <2>1. ThreadsOK'
      BY <1>3, ThreadStepRc DEF FreeChannels, ClientPC, ServerPC, Rc, ThreadsOK
    <2>2. SharedOK'
      BY <1>3, ReleaseTypes DEF FreeChannels, MsgTypeOK, ChanTypeOK, EntryTypeOK, msgVars,
         chanVars, entryVars, ghostVars, UnlinkChannel
    <2> QED BY <2>1, <2>2
  <1>4. CASE FreePending(th)
    <2>1. ThreadsOK'
      BY <1>4, ThreadStep DEF FreePending, ClientPC, ServerPC, Rc, GotoCur, Goto, ThreadsOK, Ptr
    <2>2. SharedOK'
      BY <1>4, CleanupTypes DEF FreePending, ChanTypeOK, EntryTypeOK, msgVars, chanVars,
         entryVars, ghostVars, Status, Answer
    <2> QED BY <2>1, <2>2
  <1>5. CASE FreeDel(th)
    <2>1. ThreadsOK'
      BY <1>5, ThreadStep DEF FreeDel, ClientPC, ServerPC, Rc, GotoCur, Goto, ThreadsOK
    <2>2. SharedOK'
      BY <1>5 DEF FreeDel, MsgTypeOK, ChanTypeOK, EntryTypeOK, msgVars, chanVars, entryVars,
         ghostVars, ReleasePending
    <2> QED BY <2>1, <2>2
  <1>6. CASE FreeDone(th)
    <2>1. ThreadsOK'
      BY <1>6, ThreadStepRc DEF FreeDone, ClientPC, ServerPC, Rc, AfterFree, ThreadsOK
    <2>2. SharedOK'
      BY <1>6 DEF FreeDone, MsgTypeOK, ChanTypeOK, EntryTypeOK, msgVars, chanVars, entryVars,
         ghostVars
    <2> QED BY <2>1, <2>2
  <1>7. CASE ChannelFreeMsg(th)
    <2>1. ThreadsOK'
      BY <1>7, ThreadStepRc DEF ChannelFreeMsg, ClientPC, ServerPC, ThreadsOK
    <2>2. SharedOK'
      BY <1>7, CleanupTypes DEF ChannelFreeMsg, FreeFirst, ChanTypeOK, EntryTypeOK, chanVars,
         entryVars, ghostVars
    <2> QED BY <2>1, <2>2
  <1>8. CASE ChannelFreeDel(th)
    <2>1. ThreadsOK'
      BY <1>8, ThreadStepRc DEF ChannelFreeDel, ClientPC, ServerPC, ThreadsOK
    <2>2. SharedOK'
      BY <1>8, UnlinkTypes DEF ChannelFreeDel, EntryTypeOK, entryVars, ghostVars
    <2> QED BY <2>1, <2>2
  <1>9. CASE ChannelFreed(th)
    <2>1. ThreadsOK'
      BY <1>9, ThreadStepRc DEF ChannelFreed, ClientPC, ServerPC, ThreadsOK
    <2>2. SharedOK'
      BY <1>9 DEF ChannelFreed, MsgTypeOK, ChanTypeOK, EntryTypeOK, msgVars, chanVars, entryVars,
         ghostVars
    <2> QED BY <2>1, <2>2
  <1> QED BY <1>1, <1>2, <1>3, <1>4, <1>5, <1>6, <1>7, <1>8, <1>9

\* Every step keeps the types.
LEMMA NextTypes == Types /\ [Next]_vars => Types'
  <1> SUFFICES ASSUME Types, [Next]_vars PROVE Types'
    OBVIOUS
  <1>1. ASSUME NEW t \in Clients, ClientCall(t) \/ ClientStep(t) \/ SignalStep(t) PROVE Types'
    <2>1. t \in Threads
      BY ThreadSets
    <2>2. CASE FreeStep(t) \/ Put(t)
      BY <2>1, <2>2, FreeTypes DEF FreeStep
    <2> QED BY <1>1, <2>2, BlockTypes, SendTypes DEF ClientCall, ClientStep, SignalStep
  <1>2. ASSUME NEW s \in Servers, ServerCall(s) \/ ServerStep(s) \/ WaitInterrupted(s) PROVE Types'
    <2>1. s \in Threads
      BY ThreadSets
    <2>2. CASE FreeStep(s) \/ Put(s)
      BY <2>1, <2>2, FreeTypes DEF FreeStep
    <2>3. ASSUME NEW k, MsgReply(s, k) \/ MsgError(s, k) PROVE Types'
      BY <2>3, AnswerTypes DEF MsgReply, MsgError, Answer, Given
    <2> QED BY <1>2, <2>2, <2>3, ReceiveTypes, AnswerTypes DEF ServerCall, ServerStep
  <1>3. CASE UNCHANGED vars
    BY <1>3 DEF vars, msgVars, chanVars, entryVars, threadVars, ghostVars,
                Types, ThreadsOK, SharedOK, MsgTypeOK, ChanTypeOK, EntryTypeOK
  <1> QED BY <1>1, <1>2, <1>3 DEF Next

\* Every reachable state is well typed.
LEMMA TypesInvariant == Spec => []Types
  BY InitTypes, NextTypes, PTL DEF Spec

\* The state of the driver is well formed; in particular nothing but the answers of
\* handle_msgreply, handle_msgerror and the disposal of a dead server ends up in a
\* sender's status.
THEOREM MsgPassingTypeOK == Spec => []TypeOK
  <1>1. Types => TypeOK
    BY DEF Types, ThreadsOK, SharedOK, TypeOK
  <1> QED BY <1>1, TypesInvariant, PTL

-------------------------------------------------------------------------------
(* Reference counts.  A handler holds a reference exactly while it is in   *)
(* certain places, so a count is a sum over the threads that one step      *)
(* changes by what its thread gains or loses.                              *)

One(b) == IF b THEN 1 ELSE 0

\* Two sets of threads that differ at most in x.
LEMMA CountStep ==
    ASSUME NEW A, NEW B, NEW x, IsFiniteSet(A), \A y : y # x => (y \in A <=> y \in B)
    PROVE  /\ Cardinality(A) \in Nat /\ Cardinality(B) \in Nat
           /\ Cardinality(B) = Cardinality(A) + One(x \in B) - One(x \in A)
  <1>1. Cardinality(A) \in Nat
    BY FS_CardinalityType
  <1>2. CASE x \in A /\ x \in B
    <2>1. B = A
      BY <1>2
    <2> QED BY <1>1, <1>2, <2>1 DEF One
  <1>3. CASE x \notin A /\ x \notin B
    <2>1. B = A
      BY <1>3
    <2> QED BY <1>1, <1>3, <2>1 DEF One
  <1>4. CASE x \notin A /\ x \in B
    <2>1. B = A \cup {x}
      BY <1>4
    <2>2. Cardinality(B) = Cardinality(A) + 1
      BY <1>4, <2>1, FS_AddElement
    <2> QED BY <1>1, <1>4, <2>2 DEF One
  <1>5. CASE x \in A /\ x \notin B
    <2>1. B = A \ {x}
      BY <1>5
    <2>2. Cardinality(B) = Cardinality(A) - 1 /\ IsFiniteSet(B)
      BY <1>5, <2>1, FS_RemoveElement
    <2>3. Cardinality(B) \in Nat
      BY <2>2, FS_CardinalityType
    <2> QED BY <1>1, <1>5, <2>2, <2>3 DEF One
  <1> QED BY <1>2, <1>3, <1>4, <1>5

\* Whether a thread at p holds a reference to the channel, and to the entry.
ChannelAt(th, p) ==
    IF th \in Clients
       THEN p \notin {"idle", "put_free", "put_del"}
       ELSE p \in {"wait", "take", "copy", "add_pending", "fail", "fail_wake", "put"}

EntryAt(th, p) ==
    IF th \in Clients THEN p \in {"grab", "spin_finished", "entry_put"}
                      ELSE p = "entry_put"

\* The channel's count is right after a step that changes it by what the thread
\* gains or loses.
LEMMA ChannelStep ==
    ASSUME Types, Types', ChannelRefs,
           NEW th \in Threads, NEW p, pc' = [pc EXCEPT ![th] = p],
           chanRefs' - One(chanListed') - leakedRefs' =
              chanRefs - One(chanListed) - leakedRefs
                + One(ChannelAt(th, p)) - One(ChannelAt(th, pc[th]))
    PROVE  ChannelRefs'
  <1> DEFINE A == {u \in Threads : HoldsChannel(u)}
             B == {u \in Threads : HoldsChannel(u)'}
  <1>1. IsFiniteSet(A)
    BY ThreadSets, FS_Subset
  <1>2. \A u \in Threads : pc'[u] = IF u = th THEN p ELSE pc[u]
    BY DEF Types, ThreadsOK
  <1>3. \A y : y # th => (y \in A <=> y \in B)
    BY <1>2 DEF HoldsChannel
  <1>4. (th \in A <=> ChannelAt(th, pc[th])) /\ (th \in B <=> ChannelAt(th, p))
    BY <1>2 DEF HoldsChannel, ChannelAt
  <1>5. /\ Cardinality(A) \in Nat /\ Cardinality(B) \in Nat
        /\ Cardinality(B) = Cardinality(A) + One(th \in B) - One(th \in A)
    <2> HIDE DEF A, B
    <2> QED BY <1>1, <1>3, CountStep
  <1>6. chanRefs = Cardinality(A) + One(chanListed) + leakedRefs
    BY DEF ChannelRefs, One
  <1>7. chanRefs' = Cardinality(B) + One(chanListed') + leakedRefs'
    <2> HIDE DEF A, B
    <2>1. /\ One(th \in A) = One(ChannelAt(th, pc[th]))
          /\ One(th \in B) = One(ChannelAt(th, p))
      BY <1>4 DEF One
    <2>2. One(chanListed) \in Int /\ One(chanListed') \in Int
      BY DEF One
    <2>3. One(th \in A) \in Int /\ One(th \in B) \in Int
      BY DEF One
    <2>4. leakedRefs \in Int /\ leakedRefs' \in Int /\ chanRefs \in Int /\ chanRefs' \in Int
      BY DEF Types, SharedOK, ChanTypeOK
    <2> QED BY <1>5, <1>6, <2>1, <2>2, <2>3, <2>4
  <1> QED BY <1>7 DEF ChannelRefs, One

\* And the entry's.
LEMMA EntryStep ==
    ASSUME Types, Types', EntryRefs,
           NEW th \in Threads, NEW p, pc' = [pc EXCEPT ![th] = p],
           entryRefs' - One(entryListed') =
              entryRefs - One(entryListed) + One(EntryAt(th, p)) - One(EntryAt(th, pc[th]))
    PROVE  EntryRefs'
  <1> DEFINE A == {u \in Threads : HoldsEntry(u)}
             B == {u \in Threads : HoldsEntry(u)'}
  <1>1. IsFiniteSet(A)
    BY ThreadSets, FS_Subset
  <1>2. \A u \in Threads : pc'[u] = IF u = th THEN p ELSE pc[u]
    BY DEF Types, ThreadsOK
  <1>3. \A y : y # th => (y \in A <=> y \in B)
    BY <1>2 DEF HoldsEntry
  <1>4. (th \in A <=> EntryAt(th, pc[th])) /\ (th \in B <=> EntryAt(th, p))
    BY <1>2 DEF HoldsEntry, EntryAt
  <1>5. /\ Cardinality(A) \in Nat /\ Cardinality(B) \in Nat
        /\ Cardinality(B) = Cardinality(A) + One(th \in B) - One(th \in A)
    <2> HIDE DEF A, B
    <2> QED BY <1>1, <1>3, CountStep
  <1>6. entryRefs = Cardinality(A) + One(entryListed)
    BY DEF EntryRefs, One
  <1>7. entryRefs' = Cardinality(B) + One(entryListed')
    <2> HIDE DEF A, B
    <2>1. /\ One(th \in A) = One(EntryAt(th, pc[th]))
          /\ One(th \in B) = One(EntryAt(th, p))
      BY <1>4 DEF One
    <2>2. One(entryListed) \in Int /\ One(entryListed') \in Int
      BY DEF One
    <2>3. One(th \in A) \in Int /\ One(th \in B) \in Int
      BY DEF One
    <2>4. entryRefs \in Int /\ entryRefs' \in Int
      BY DEF Types, SharedOK, EntryTypeOK
    <2> QED BY <1>5, <1>6, <2>1, <2>2, <2>3, <2>4
  <1> QED BY <1>7 DEF EntryRefs, One

\* A step that neither takes nor drops a reference.
LEMMA QuietStep ==
    ASSUME Types, Types', ChannelRefs, EntryRefs,
           NEW th \in Threads, NEW p, pc' = [pc EXCEPT ![th] = p],
           UNCHANGED <<chanRefs, chanListed, leakedRefs, entryRefs, entryListed>>,
           ChannelAt(th, p) <=> ChannelAt(th, pc[th]),
           EntryAt(th, p) <=> EntryAt(th, pc[th])
    PROVE  ChannelRefs' /\ EntryRefs'
  <1>1. /\ One(ChannelAt(th, p)) = One(ChannelAt(th, pc[th]))
        /\ One(EntryAt(th, p)) = One(EntryAt(th, pc[th]))
    BY DEF One
  <1>2. One(ChannelAt(th, p)) \in Int /\ One(EntryAt(th, p)) \in Int
    BY DEF One
  <1>3. One(chanListed) \in Int /\ One(entryListed) \in Int
    BY DEF One
  <1>4. chanRefs \in Int /\ leakedRefs \in Int /\ entryRefs \in Int
    BY DEF Types, SharedOK, ChanTypeOK, EntryTypeOK
  <1>5. chanRefs' - One(chanListed') - leakedRefs' =
           chanRefs - One(chanListed) - leakedRefs
             + One(ChannelAt(th, p)) - One(ChannelAt(th, pc[th]))
    BY <1>1, <1>2, <1>3, <1>4
  <1>6. entryRefs' - One(entryListed') =
           entryRefs - One(entryListed) + One(EntryAt(th, p)) - One(EntryAt(th, pc[th]))
    BY <1>1, <1>2, <1>3, <1>4
  <1> QED BY <1>5, <1>6, ChannelStep, EntryStep

\* Client steps that keep their references.
LEMMA ClientQuiet ==
    ASSUME Types, Types', ChannelRefs, EntryRefs, NEW t \in Clients,
           \/ SetInterruptible(t)
           \/ Enqueue(t)
           \/ WakeUp(t)
           \/ Expire(t)
           \/ Interrupted(t)
           \/ RemoveWaiting(t)
           \/ SpinReceiving(t)
           \/ Grab(t)
           \/ SpinFinished(t)
           \/ PulseAdd(t)
           \/ NoReplyAdd(t)
           \/ NoReplyRetry(t)
           \/ NoReplyInterrupted(t)
    PROVE  ChannelRefs' /\ EntryRefs'
  <1> USE ThreadSets, QuietStep DEF Goto, GotoRc, GotoCur, ChannelAt, EntryAt,
                 chanVars, entryVars, ghostVars
  <1>1. CASE Enqueue(t)
    BY <1>1 DEF Enqueue, AddNewMessage
  <1>2. CASE WakeUp(t)
    BY <1>2 DEF WakeUp
  <1>3. CASE Expire(t)
    BY <1>3 DEF Expire
  <1>4. CASE Interrupted(t)
    BY <1>4 DEF Interrupted
  <1>5. CASE RemoveWaiting(t)
    BY <1>5 DEF RemoveWaiting, RemoveMessage
  <1>6. CASE SpinReceiving(t)
    BY <1>6 DEF SpinReceiving
  <1>7. CASE Grab(t)
    BY <1>7 DEF Grab, ReleasePending
  <1>8. CASE SpinFinished(t)
    BY <1>8 DEF SpinFinished
  <1>9. CASE PulseAdd(t)
    BY <1>9 DEF PulseAdd, AddNewMessage
  <1>10. CASE NoReplyAdd(t)
    BY <1>10 DEF NoReplyAdd, AddNewMessage, AddNewMessageFull
  <1>11. CASE NoReplyRetry(t)
    BY <1>11 DEF NoReplyRetry
  <1>12. CASE NoReplyInterrupted(t)
    BY <1>12 DEF NoReplyInterrupted
  <1>13. CASE SetInterruptible(t)
    BY <1>13 DEF SetInterruptible
  <1> QED BY <1>1, <1>2, <1>3, <1>4, <1>5, <1>6, <1>7, <1>8, <1>9, <1>10, <1>11, <1>12, <1>13

\* Server steps that keep their references.
LEMMA ServerQuiet ==
    ASSUME Types, Types', ChannelRefs, EntryRefs, NEW s \in Servers,
           \/ WaitEvent(s)
           \/ WaitInterrupted(s)
           \/ Take(s)
           \/ CopyPulse(s)
           \/ CopyNoReply(s)
           \/ CopyMsg(s)
           \/ ReceiveAddPending(s)
           \/ \E k, a : MsgAnswer(s, k, a)
           \/ Finish(s)
           \/ Wake(s)
    PROVE  ChannelRefs' /\ EntryRefs'
  <1> USE ThreadSets, QuietStep DEF Goto, GotoRc, GotoCur, ChannelAt, EntryAt,
                 chanVars, entryVars, ghostVars
  <1>1. CASE WaitEvent(s)
    BY <1>1 DEF WaitEvent
  <1>2. CASE WaitInterrupted(s)
    BY <1>2 DEF WaitInterrupted
  <1>3. CASE Take(s)
    BY <1>3 DEF Take, Dequeue
  <1>4. CASE CopyPulse(s)
    BY <1>4 DEF CopyPulse
  <1>5. CASE CopyNoReply(s)
    BY <1>5 DEF CopyNoReply
  <1>6. CASE CopyMsg(s)
    BY <1>6 DEF CopyMsg
  <1>7. CASE ReceiveAddPending(s)
    BY <1>7 DEF ReceiveAddPending, AddPending
  <1>8. CASE \E k, a : MsgAnswer(s, k, a)
    BY <1>8 DEF MsgAnswer, ReleasePending
  <1>9. CASE Finish(s)
    BY <1>9 DEF Finish
  <1>10. CASE Wake(s)
    BY <1>10 DEF Wake
  <1> QED BY <1>1, <1>2, <1>3, <1>4, <1>5, <1>6, <1>7, <1>8, <1>9, <1>10

\* Disposing of pending and of queued messages keeps the references.
LEMMA FreeQuiet ==
    ASSUME Types, Types', ChannelRefs, EntryRefs, NEW th \in Threads,
           \/ FreePending(th)
           \/ FreeDel(th)
           \/ FreeDone(th)
           \/ ChannelFreeMsg(th)
           \/ ChannelFreeDel(th)
           \/ ChannelFreed(th)
    PROVE  ChannelRefs' /\ EntryRefs'
  <1> USE ThreadSets, QuietStep DEF Goto, GotoRc, GotoCur, ChannelAt, EntryAt,
                 chanVars, entryVars, ghostVars
  <1>1. CASE FreePending(th)
    BY <1>1 DEF FreePending
  <1>2. CASE FreeDel(th)
    BY <1>2 DEF FreeDel, ReleasePending
  <1>3. CASE FreeDone(th)
    BY <1>3 DEF FreeDone, AfterFree
  <1>4. CASE ChannelFreeMsg(th)
    BY <1>4 DEF ChannelFreeMsg, FreesChannel, FreeFirst
  <1>5. CASE ChannelFreeDel(th)
    BY <1>5 DEF ChannelFreeDel, UnlinksMessage, UnlinkFirst
  <1>6. CASE ChannelFreed(th)
    BY <1>6 DEF ChannelFreed, FreesChannel
  <1> QED BY <1>1, <1>2, <1>3, <1>4, <1>5, <1>6

\* ChannelRelease drops one reference, whether or not it is the last.
LEMMA ReleaseOne == ChannelRelease => chanRefs' = chanRefs - 1
  BY DEF ChannelRelease

\* A step that gets, leaks, puts or unlinks the channel.
LEMMA ChannelChange ==
    ASSUME Types, Types', ChannelRefs, EntryRefs,
           NEW th \in Threads, NEW p, pc' = [pc EXCEPT ![th] = p],
           UNCHANGED <<entryRefs, entryListed>>,
           EntryAt(th, p) <=> EntryAt(th, pc[th]),
           \/ /\ ~ChannelAt(th, pc[th]) /\ ChannelAt(th, p)
              /\ chanRefs' = chanRefs + 1 /\ UNCHANGED <<chanListed, leakedRefs>>
           \/ /\ ChannelAt(th, p) <=> ChannelAt(th, pc[th])
              /\ chanRefs' = chanRefs + 1 /\ leakedRefs' = leakedRefs + 1 /\ UNCHANGED chanListed
           \/ /\ ChannelAt(th, pc[th]) /\ ~ChannelAt(th, p)
              /\ chanRefs' = chanRefs - 1 /\ UNCHANGED <<chanListed, leakedRefs>>
           \/ /\ ChannelAt(th, p) <=> ChannelAt(th, pc[th])
              /\ chanListed = TRUE /\ chanListed' = FALSE
              /\ chanRefs' = chanRefs - 1 /\ UNCHANGED leakedRefs
    PROVE  ChannelRefs' /\ EntryRefs'
  <1>1. chanRefs \in Int /\ leakedRefs \in Int /\ entryRefs \in Int
    BY DEF Types, SharedOK, ChanTypeOK, EntryTypeOK
  <1>2. chanRefs' - One(chanListed') - leakedRefs' =
           chanRefs - One(chanListed) - leakedRefs
             + One(ChannelAt(th, p)) - One(ChannelAt(th, pc[th]))
    BY <1>1 DEF One
  <1>3. entryRefs' - One(entryListed') =
           entryRefs - One(entryListed) + One(EntryAt(th, p)) - One(EntryAt(th, pc[th]))
    BY <1>1 DEF One
  <1> QED BY <1>2, <1>3, ChannelStep, EntryStep

\* A step that gets or puts the entry, or hands the file's reference over.
LEMMA EntryChange ==
    ASSUME Types, Types', ChannelRefs, EntryRefs,
           NEW th \in Threads, NEW p, pc' = [pc EXCEPT ![th] = p],
           UNCHANGED <<chanRefs, chanListed, leakedRefs>>,
           ChannelAt(th, p) <=> ChannelAt(th, pc[th]),
           \/ /\ ~EntryAt(th, pc[th]) /\ EntryAt(th, p)
              /\ entryRefs' = entryRefs + 1 /\ UNCHANGED entryListed
           \/ /\ EntryAt(th, pc[th]) /\ ~EntryAt(th, p)
              /\ entryRefs' = entryRefs - 1 /\ UNCHANGED entryListed
           \/ /\ ~EntryAt(th, pc[th]) /\ EntryAt(th, p)
              /\ entryListed = TRUE /\ entryListed' = FALSE /\ UNCHANGED entryRefs
    PROVE  ChannelRefs' /\ EntryRefs'
  <1>1. chanRefs \in Int /\ leakedRefs \in Int /\ entryRefs \in Int
    BY DEF Types, SharedOK, ChanTypeOK, EntryTypeOK
  <1>2. chanRefs' - One(chanListed') - leakedRefs' =
           chanRefs - One(chanListed) - leakedRefs
             + One(ChannelAt(th, p)) - One(ChannelAt(th, pc[th]))
    BY <1>1 DEF One
  <1>3. entryRefs' - One(entryListed') =
           entryRefs - One(entryListed) + One(EntryAt(th, p)) - One(EntryAt(th, pc[th]))
    BY <1>1 DEF One
  <1> QED BY <1>2, <1>3, ChannelStep, EntryStep

\* A thread that stays where it is.
LEMMA Stays ==
    ASSUME Types, NEW th \in Threads, UNCHANGED pc
    PROVE  pc' = [pc EXCEPT ![th] = pc[th]]
  BY DEF Types, ThreadsOK

\* A call that finds the channel takes a reference to it, or leaks it.
LEMMA CallRefs ==
    ASSUME Types, Types', ChannelRefs, EntryRefs, NEW t \in Clients,
           \/ MsgSend(t) \/ MsgSendBadf(t) \/ MsgSendvInitFails(t)
           \/ MsgSendPulse(t) \/ MsgSendNoReply(t)
    PROVE  ChannelRefs' /\ EntryRefs'
  <1> USE ThreadSets DEF Goto, GotoRc, GotoCur, ChannelGet, ChannelAt, EntryAt,
                         chanVars, entryVars, threadVars, ghostVars
  <1>1. CASE MsgSend(t)
    BY <1>1, ChannelChange DEF MsgSend
  <1>2. CASE MsgSendBadf(t)
    BY <1>2, QuietStep, Stays DEF MsgSendBadf
  <1>3. CASE MsgSendvInitFails(t)
    <2>1. pc' = [pc EXCEPT ![t] = pc[t]]
      BY <1>3, Stays DEF MsgSendvInitFails
    <2>2. /\ chanRefs' = chanRefs + 1 /\ leakedRefs' = leakedRefs + 1
          /\ UNCHANGED <<chanListed, entryRefs, entryListed>>
      BY <1>3 DEF MsgSendvInitFails
    <2> HIDE DEF ChannelAt, EntryAt
    <2> QED BY <2>1, <2>2, ChannelChange
  <1>4. CASE MsgSendPulse(t)
    BY <1>4, ChannelChange DEF MsgSendPulse
  <1>5. CASE MsgSendNoReply(t)
    BY <1>5, ChannelChange DEF MsgSendNoReply
  <1> QED BY <1>1, <1>2, <1>3, <1>4, <1>5

\* A receiver takes a reference to the channel; Close hands the file's to the entry.
LEMMA ServerRefs ==
    ASSUME Types, Types', ChannelRefs, EntryRefs, NEW s \in Servers,
           MsgReceive(s) \/ ChannelDestroy(s) \/ Close(s)
    PROVE  ChannelRefs' /\ EntryRefs'
  <1> USE ThreadSets DEF Goto, GotoRc, ChannelGet, ChannelAt, EntryAt,
                         chanVars, entryVars, threadVars, ghostVars
  <1>1. CASE MsgReceive(s)
    BY <1>1, ChannelChange DEF MsgReceive
  <1>2. CASE ChannelDestroy(s)
    <2> DEFINE p == IF LastReference THEN "put_free" ELSE "idle"
    <2>1. /\ pc' = [pc EXCEPT ![s] = p]
          /\ ~ChannelAt(s, p) /\ ~ChannelAt(s, pc[s]) /\ ~EntryAt(s, p) /\ ~EntryAt(s, pc[s])
      BY <1>2 DEF ChannelDestroy
    <2>2. /\ chanListed = TRUE /\ chanListed' = FALSE /\ chanRefs' = chanRefs - 1
          /\ UNCHANGED <<leakedRefs, entryRefs, entryListed>>
      BY <1>2, ReleaseOne DEF ChannelDestroy, UnlinkChannel, Types, SharedOK, EntryTypeOK
    <2> HIDE DEF p, ChannelAt, EntryAt
    <2> QED BY <2>1, <2>2, ChannelChange
  <1>3. CASE Close(s)
    BY <1>3, EntryChange DEF Close, UnlinkEntry, Types, SharedOK, EntryTypeOK
  <1> QED BY <1>1, <1>2, <1>3

\* The steps at the end of a handler that drop a reference.
LEMMA ReleaseRefs ==
    ASSUME Types, Types', ChannelRefs, EntryRefs, NEW th \in Threads,
           Put(th) \/ EntryPut(th) \/ FreeChannels(th)
    PROVE  ChannelRefs' /\ EntryRefs'
  <1> USE ThreadSets DEF Goto, GotoRc, GotoCur, ChannelAt, EntryAt,
                         chanVars, entryVars, threadVars, ghostVars
  <1>1. CASE Put(th)
    <2> DEFINE p == IF LastReference THEN "put_free" ELSE "idle"
    <2>1. ChannelAt(th, pc[th]) /\ ~ChannelAt(th, p) /\ ~EntryAt(th, pc[th]) /\ ~EntryAt(th, p)
      BY <1>1 DEF Put, Types, ThreadsOK, ServerPC, Threads
    <2>2. chanRefs' = chanRefs - 1
      BY <1>1, ReleaseOne DEF Put
    <2>3. /\ pc' = [pc EXCEPT ![th] = p]
          /\ UNCHANGED <<chanListed, leakedRefs, entryRefs, entryListed>>
      BY <1>1 DEF Put
    <2> HIDE DEF p, ChannelAt, EntryAt
    <2> QED BY <2>1, <2>2, <2>3, ChannelChange
  <1>2. CASE EntryPut(th)
    <2> DEFINE p == IF entryRefs = 1 THEN "free_channels" ELSE AfterFree(th)
    <2>1. /\ pc[th] = "entry_put" /\ pc' = [pc EXCEPT ![th] = p]
          /\ entryRefs' = entryRefs - 1
          /\ UNCHANGED <<entryListed, chanRefs, chanListed, leakedRefs>>
      BY <1>2 DEF EntryPut, EntryRelease
    <2>2. EntryAt(th, pc[th]) /\ ~EntryAt(th, p) /\ (ChannelAt(th, p) <=> ChannelAt(th, pc[th]))
      BY <2>1 DEF AfterFree
    <2> HIDE DEF p, EntryAt, ChannelAt
    <2> QED BY <2>1, <2>2, EntryChange
  <1>3. CASE FreeChannels(th) /\ chanListed
    <2>1. /\ chanListed = TRUE /\ chanListed' = FALSE /\ chanRefs' = chanRefs - 1
          /\ UNCHANGED <<leakedRefs, entryRefs, entryListed>>
      BY <1>3, ReleaseOne DEF FreeChannels, UnlinkChannel, Types, SharedOK, EntryTypeOK
    <2> DEFINE p == IF LastReference THEN "free_chan" ELSE "free_pending"
    <2>2. /\ pc' = [pc EXCEPT ![th] = p]
          /\ ChannelAt(th, p) <=> ChannelAt(th, pc[th])
          /\ ~EntryAt(th, p) /\ ~EntryAt(th, pc[th])
      BY <1>3 DEF FreeChannels
    <2> HIDE DEF p, ChannelAt, EntryAt
    <2> QED BY <2>1, <2>2, ChannelChange
  <1>4. CASE FreeChannels(th) /\ ~chanListed
    BY <1>4, QuietStep DEF FreeChannels, UnlinkChannel
  <1> QED BY <1>1, <1>2, <1>3, <1>4

\* An interrupted sender takes a reference to the entry if it finds it.
LEMMA FindRefs ==
    ASSUME Types, Types', ChannelRefs, EntryRefs, NEW t \in Clients, FindProcess(t)
    PROVE  ChannelRefs' /\ EntryRefs'
  <1> USE ThreadSets DEF FindProcess, Goto, GotoRc, ChannelAt, EntryAt, chanVars, entryVars
  <1>1. CASE entryListed
    BY <1>1, EntryChange DEF EntryGet
  <1>2. CASE ~entryListed
    BY <1>2, QuietStep
  <1> QED BY <1>1, <1>2

\* Both counts are right in every state.
LEMMA RefsInvariant == Spec => [](ChannelRefs /\ EntryRefs)
  <1>1. Init => ChannelRefs /\ EntryRefs
    <2> SUFFICES ASSUME Init PROVE ChannelRefs /\ EntryRefs
      OBVIOUS
    <2>1. {th \in Threads : HoldsChannel(th)} = {} /\ {th \in Threads : HoldsEntry(th)} = {}
      BY DEF Init, HoldsChannel, HoldsEntry
    <2>2. /\ chanRefs = 1 /\ chanListed = TRUE /\ leakedRefs = 0
          /\ entryRefs = 1 /\ entryListed = TRUE
      BY DEF Init, ChanInit, EntryInit
    <2>3. Cardinality({}) = 0
      BY FS_EmptySet
    <2> QED BY <2>1, <2>2, <2>3 DEF ChannelRefs, EntryRefs
  <1>2. Types /\ Types' /\ ChannelRefs /\ EntryRefs /\ [Next]_vars => ChannelRefs' /\ EntryRefs'
    <2> SUFFICES ASSUME Types, Types', ChannelRefs, EntryRefs, [Next]_vars
                 PROVE  ChannelRefs' /\ EntryRefs'
      OBVIOUS
    <2>1. ASSUME NEW th \in Threads, FreeStep(th) \/ Put(th) PROVE ChannelRefs' /\ EntryRefs'
      BY <2>1, FreeQuiet, ReleaseRefs DEF FreeStep
    <2>2. ASSUME NEW t \in Clients, ClientCall(t) \/ ClientStep(t) \/ SignalStep(t)
          PROVE  ChannelRefs' /\ EntryRefs'
      <3>1. t \in Threads
        BY ThreadSets
      <3> QED BY <2>1, <2>2, <3>1, ClientQuiet, CallRefs, FindRefs
              DEF ClientCall, ClientStep, SignalStep
    <2>3. ASSUME NEW s \in Servers, ServerCall(s) \/ ServerStep(s) \/ WaitInterrupted(s)
          PROVE  ChannelRefs' /\ EntryRefs'
      <3>1. s \in Threads
        BY ThreadSets
      <3>2. ASSUME NEW k, MsgReply(s, k) \/ MsgError(s, k) PROVE ChannelRefs' /\ EntryRefs'
        BY <3>2, ServerQuiet DEF MsgReply, MsgError
      <3> QED BY <2>1, <2>3, <3>1, <3>2, ServerQuiet, ServerRefs
              DEF ServerCall, ServerStep
    <2>4. CASE UNCHANGED vars
      BY <2>4 DEF vars, chanVars, entryVars, threadVars, ghostVars, ChannelRefs, EntryRefs,
                  HoldsChannel, HoldsEntry
    <2> QED BY <2>2, <2>3, <2>4 DEF Next
  <1> QED BY <1>1, <1>2, TypesInvariant, PTL DEF Spec

\* The kref of the channel: every path through every handler, the early returns
\* included, releases what it acquired, the paths that leak (qnxcomm_driver.c lines
\* 679 and 763) excepted, and nobody releases twice.
THEOREM MsgPassingChannelRefs == Spec => []ChannelRefs
  <1>1. ChannelRefs /\ EntryRefs => ChannelRefs
    OBVIOUS
  <1> QED BY <1>1, RefsInvariant, PTL

\* The kref of the process entry, held by the open file and by interrupted senders.
THEOREM MsgPassingEntryRefs == Spec => []EntryRefs
  <1>1. ChannelRefs /\ EntryRefs => EntryRefs
    OBVIOUS
  <1> QED BY <1>1, RefsInvariant, PTL

-------------------------------------------------------------------------------
(* Receive ids, and the counter beside the queue.                          *)

\* No object carries an id that is still to be handed out.
IdsInv == RcvidUnique /\ \A m \in Ptr : rcvid[m] <= gbl_next_rcvid

\* The queue is never longer than its counter says.
QueueInv == num_waiting >= Len(waiting)

\* The constructors keep the ids apart.
LEMMA ConstructIds ==
    ASSUME MsgTypeOK, IdsInv, NEW m \in Ptr,
           GetNewRcvid(m) \/ (rcvid' = [rcvid EXCEPT ![m] = 0] /\ UNCHANGED gbl_next_rcvid)
    PROVE  IdsInv'
  <1>1. /\ \A n \in Ptr : rcvid[n] \in Nat /\ rcvid[n] <= gbl_next_rcvid
        /\ gbl_next_rcvid \in Nat
    BY MessagesAssumption DEF MsgTypeOK, IdsInv
  <1>2. CASE GetNewRcvid(m)
    <2>1. /\ gbl_next_rcvid' = gbl_next_rcvid + 1
          /\ \A n \in Ptr : rcvid'[n] = IF n = m THEN gbl_next_rcvid + 1 ELSE rcvid[n]
      BY <1>2 DEF GetNewRcvid, MsgTypeOK
    <2> QED BY <1>1, <2>1 DEF IdsInv, RcvidUnique
  <1>3. CASE rcvid' = [rcvid EXCEPT ![m] = 0] /\ UNCHANGED gbl_next_rcvid
    <2>1. \A n \in Ptr : rcvid'[n] = IF n = m THEN 0 ELSE rcvid[n]
      BY <1>3 DEF MsgTypeOK
    <2> QED BY <1>1, <1>3, <2>1 DEF IdsInv, RcvidUnique
  <1> QED BY <1>2, <1>3

\* Steps that touch neither.
LEMMA KeepsIds == IdsInv /\ UNCHANGED <<rcvid, gbl_next_rcvid>> => IdsInv'
  BY DEF IdsInv, RcvidUnique

\* A step that leaves the queue and its counter alone keeps the counter large enough.
LEMMA KeepsQueue == QueueInv /\ UNCHANGED <<waiting, num_waiting>> => QueueInv'
  BY DEF QueueInv

\* The calls that construct a message.
LEMMA ConstructSteps ==
    ASSUME Types, IdsInv, QueueInv, NEW t \in Clients,
           MsgSend(t) \/ MsgSendBadf(t) \/ MsgSendPulse(t) \/ MsgSendNoReply(t)
    PROVE  IdsInv' /\ QueueInv'
  <1> USE DEF Types, SharedOK
  <1>1. UNCHANGED <<waiting, num_waiting>>
    BY DEF MsgSend, MsgSendBadf, MsgSendPulse, MsgSendNoReply, ChannelGet, chanVars
  <1>2. CASE MsgSend(t)
    BY <1>2, ThreadSets, <1>1, ConstructIds, KeepsQueue DEF MsgSend, InitMsg
  <1>3. CASE MsgSendPulse(t)
    BY <1>3, <1>1, ConstructIds, KeepsQueue DEF MsgSendPulse, InitPulse, Ptr
  <1>4. CASE MsgSendNoReply(t)
    BY <1>4, <1>1, ConstructIds, KeepsQueue DEF MsgSendNoReply, InitNoReply, Ptr
  <1>5. CASE MsgSendBadf(t)
    <2>1. \A m \in Ptr : rcvid[m] \in Nat
      BY MessagesAssumption DEF MsgTypeOK
    <2>2. gbl_next_rcvid \in Nat /\ gbl_next_rcvid' = gbl_next_rcvid + 1 /\ rcvid' = rcvid
      BY <1>5, MessagesAssumption DEF MsgSendBadf, MsgTypeOK
    <2>3. IdsInv'
      BY <2>1, <2>2 DEF IdsInv, RcvidUnique
    <2> QED BY <1>1, <2>3, KeepsQueue
  <1> QED BY <1>2, <1>3, <1>4, <1>5

\* The steps that queue, remove or take a message.
LEMMA QueueSteps ==
    ASSUME Types, IdsInv, QueueInv,
           \/ \E t \in Clients : Enqueue(t) \/ PulseAdd(t) \/ NoReplyAdd(t) \/ RemoveWaiting(t)
           \/ \E s \in Servers : Take(s)
    PROVE  IdsInv' /\ QueueInv'
  <1> USE QueueTypes, ThreadSets DEF Types, SharedOK, ThreadsOK, Ptr
  <1>1. UNCHANGED <<rcvid, gbl_next_rcvid>>
    BY DEF Enqueue, PulseAdd, NoReplyAdd, RemoveWaiting, Take, msgVars
  <1>2. num_waiting \in Int /\ Len(waiting) \in Nat
    BY LenProperties DEF ChanTypeOK
  <1>3. ASSUME NEW t \in Clients, Enqueue(t) PROVE QueueInv'
    BY <1>2, <1>3 DEF Enqueue, QueueInv
  <1>4. ASSUME NEW t \in Clients, PulseAdd(t) PROVE QueueInv'
    BY <1>2, <1>4 DEF PulseAdd, QueueInv
  <1>5. ASSUME NEW t \in Clients, NoReplyAdd(t) PROVE QueueInv'
    BY <1>2, <1>5 DEF NoReplyAdd, AddNewMessageFull, QueueInv
  <1>6. ASSUME NEW t \in Clients, RemoveWaiting(t) PROVE QueueInv'
    BY <1>2, <1>6 DEF RemoveWaiting, QueueInv, chanVars
  <1>7. ASSUME NEW s \in Servers, Take(s) PROVE QueueInv'
    BY <1>2, <1>7 DEF Take, QueueInv, chanVars
  <1> QED BY <1>1, <1>3, <1>4, <1>5, <1>6, <1>7, KeepsIds

\* The loop of qnx_channel_free.
LEMMA ChannelFreeSteps ==
    ASSUME Types, IdsInv, QueueInv, NEW th, ChannelFreeDel(th)
    PROVE  IdsInv' /\ QueueInv'
  <1>1. num_waiting \in Int /\ Len(waiting) \in Nat
    BY LenProperties DEF Types, SharedOK, ChanTypeOK
  <1>2. Len(waiting') = Len(waiting) - 1
    BY UnlinkTypes DEF ChannelFreeDel, Types, SharedOK
  <1>3. UNCHANGED <<rcvid, gbl_next_rcvid, num_waiting>>
    BY DEF ChannelFreeDel, UnlinkFirst, msgVars
  <1> QED BY <1>1, <1>2, <1>3, KeepsIds DEF QueueInv

\* All other steps.
LEMMA OtherClientSteps ==
    ASSUME NEW t,
           \/ MsgSendvInitFails(t) \/ SetInterruptible(t)
           \/ WakeUp(t) \/ Expire(t) \/ Interrupted(t) \/ SpinReceiving(t) \/ FindProcess(t)
           \/ Grab(t) \/ SpinFinished(t) \/ NoReplyRetry(t)
           \/ NoReplyInterrupted(t)
    PROVE  UNCHANGED <<rcvid, gbl_next_rcvid, waiting, num_waiting>>
  BY DEF MsgSendvInitFails, ChannelGet, SetInterruptible, WakeUp, Expire, Interrupted, SpinReceiving, FindProcess,
         Grab, SpinFinished, NoReplyRetry, NoReplyInterrupted, msgVars, chanVars

\* The steps of a server that do not touch the queue.
LEMMA OtherServerSteps ==
    ASSUME NEW s,
           \/ MsgReceive(s) \/ WaitEvent(s) \/ WaitInterrupted(s) \/ CopyPulse(s)
           \/ CopyNoReply(s) \/ CopyMsg(s) \/ ReceiveAddPending(s)
           \/ (\E k, a : MsgAnswer(s, k, a)) \/ Finish(s) \/ Wake(s) \/ Close(s)
    PROVE  UNCHANGED <<rcvid, gbl_next_rcvid, waiting, num_waiting>>
  BY DEF MsgReceive, ChannelGet, WaitEvent, WaitInterrupted, CopyPulse, CopyNoReply, CopyMsg,
         ReceiveAddPending, AddPending, MsgAnswer, Finish, StoreAnswer, Wake, WakeUpProcess,
         Close, msgVars, chanVars

\* The steps that drop references and dispose of messages, all but the list_del of
\* qnx_channel_free, do not touch the queue.
LEMMA OtherFreeSteps ==
    ASSUME NEW th,
           \/ Put(th) \/ FreeChannels(th) \/ ChannelDestroy(th)
           \/ ChannelFreeMsg(th) \/ ChannelFreed(th)
           \/ EntryPut(th) \/ FreePending(th) \/ FreeDel(th) \/ FreeDone(th)
    PROVE  UNCHANGED <<rcvid, gbl_next_rcvid, waiting, num_waiting>>
  BY DEF Put, FreeChannels, ChannelDestroy, UnlinkChannel, ChannelRelease, ChannelFreeMsg,
         FreeFirst, ChannelFreed, EntryPut, FreePending, CleanupAndFree, FreeDel, FreeDone,
         msgVars, chanVars

\* Both invariants hold in every state.
LEMMA IdsAndQueue == Spec => [](IdsInv /\ QueueInv)
  <1>1. Init => IdsInv /\ QueueInv
    <2> SUFFICES ASSUME Init PROVE IdsInv /\ QueueInv
      OBVIOUS
    <2>1. waiting = <<>> /\ num_waiting = 0 /\ Len(<<>>) = 0
      BY EmptySeq DEF Init, ChanInit
    <2>2. IdsInv
      BY DEF Init, MsgInit, IdsInv, RcvidUnique
    <2> QED BY <2>1, <2>2 DEF QueueInv
  <1>2. Types /\ IdsInv /\ QueueInv /\ [Next]_vars => IdsInv' /\ QueueInv'
    <2> SUFFICES ASSUME Types, IdsInv, QueueInv, [Next]_vars PROVE IdsInv' /\ QueueInv'
      OBVIOUS
    <2>1. ASSUME UNCHANGED <<rcvid, gbl_next_rcvid, waiting, num_waiting>>
          PROVE  IdsInv' /\ QueueInv'
      BY <2>1, KeepsIds, KeepsQueue
    <2>2. ASSUME NEW th, FreeStep(th) \/ Put(th) PROVE IdsInv' /\ QueueInv'
      BY <2>1, <2>2, ChannelFreeSteps, OtherFreeSteps DEF FreeStep
    <2>3. ASSUME NEW t \in Clients, ClientCall(t) \/ ClientStep(t) \/ SignalStep(t)
          PROVE  IdsInv' /\ QueueInv'
      BY <2>1, <2>2, <2>3, ConstructSteps, QueueSteps, OtherClientSteps
         DEF ClientCall, ClientStep, SignalStep
    <2>4. ASSUME NEW s \in Servers, ServerCall(s) \/ ServerStep(s) \/ WaitInterrupted(s)
          PROVE  IdsInv' /\ QueueInv'
      <3>1. ASSUME NEW k, MsgReply(s, k) \/ MsgError(s, k) PROVE IdsInv' /\ QueueInv'
        BY <2>1, <3>1, OtherServerSteps DEF MsgReply, MsgError
      <3> QED BY <2>1, <2>2, <2>4, <3>1, QueueSteps, OtherFreeSteps, OtherServerSteps
              DEF ServerCall, ServerStep
    <2>5. CASE UNCHANGED vars
      BY <2>1, <2>5 DEF vars, msgVars, chanVars
    <2> QED BY <2>3, <2>4, <2>5 DEF Next
  <1> QED BY <1>1, <1>2, TypesInvariant, PTL DEF Spec

\* Two message objects never carry the same receive id, so
\* qnx_process_entry_release_pending and qnx_channel_remove_message find the message
\* that was meant (until get_new_rcvid wraps around).
THEOREM MsgPassingRcvidUnique == Spec => []RcvidUnique
  <1>1. IdsInv => RcvidUnique
    BY DEF IdsInv
  <1> QED BY <1>1, IdsAndQueue, PTL

\* num_waiting is never too small for the queue: no receiver sleeps in
\* wait_event_interruptible_timeout while a message is queued.
THEOREM MsgPassingCounterCoversQueue == Spec => []CounterCoversQueue
  <1>1. QueueInv => CounterCoversQueue
    BY DEF QueueInv, CounterCoversQueue
  <1> QED BY <1>1, IdsAndQueue, PTL

-------------------------------------------------------------------------------
(* Where a message is.  A blocking message travels from its sender's stack *)
(* through the queue, the hands of a receiver, the pending list and the    *)
(* hands of a replier; a kmalloc'ed one from its sender through the queue  *)
(* to its receiver.  The proofs tie the place of a message to the places   *)
(* of its sender and of the threads that hold it, for any number of them.  *)

(* The steps by handler.                                                   *)

\* The calls of the clients, and pulses and no-reply messages.
SendSteps(t) ==
    \/ MsgSend(t) \/ MsgSendBadf(t) \/ MsgSendvInitFails(t)
    \/ MsgSendPulse(t) \/ PulseAdd(t)
    \/ MsgSendNoReply(t) \/ NoReplyAdd(t) \/ NoReplyRetry(t) \/ NoReplyInterrupted(t)

\* handle_msgsend_internal_block
BlockSteps(t) ==
    \/ SetInterruptible(t) \/ Enqueue(t) \/ WakeUp(t) \/ Expire(t) \/ Interrupted(t)
    \/ RemoveWaiting(t) \/ SpinReceiving(t) \/ FindProcess(t) \/ Grab(t) \/ SpinFinished(t)

\* handle_msgreceive
ReceiveSteps(s) ==
    \/ MsgReceive(s) \/ WaitEvent(s) \/ WaitInterrupted(s) \/ Take(s)
    \/ CopyPulse(s) \/ CopyNoReply(s) \/ CopyMsg(s) \/ ReceiveAddPending(s)

\* handle_msgreply, handle_msgerror, and the end of the channel and the server.
AnswerSteps(s) ==
    \/ \E k : \E a \in Given : MsgAnswer(s, k, a)
    \/ Finish(s) \/ Wake(s) \/ ChannelDestroy(s) \/ Close(s)

\* Returning, and disposing of the channel and of the entry.
ReleaseAndFree(th) ==
    \/ Put(th) \/ EntryPut(th)
    \/ ChannelFreeMsg(th) \/ ChannelFreeDel(th) \/ ChannelFreed(th)
    \/ FreeChannels(th) \/ FreePending(th) \/ FreeDel(th) \/ FreeDone(th)

\* There are no others.
LEMMA NextSteps ==
    Next => \/ \E t \in Clients : SendSteps(t) \/ BlockSteps(t)
            \/ \E s \in Servers : ReceiveSteps(s) \/ AnswerSteps(s)
            \/ \E th \in Threads : ReleaseAndFree(th)
  <1> SUFFICES ASSUME Next
               PROVE  \/ \E t \in Clients : SendSteps(t) \/ BlockSteps(t)
                      \/ \E s \in Servers : ReceiveSteps(s) \/ AnswerSteps(s)
                      \/ \E th \in Threads : ReleaseAndFree(th)
    OBVIOUS
  <1>1. ASSUME NEW t \in Clients, ClientCall(t) \/ ClientStep(t) \/ SignalStep(t)
        PROVE  SendSteps(t) \/ BlockSteps(t) \/ ReleaseAndFree(t)
    BY <1>1 DEF ClientCall, ClientStep, SignalStep, FreeStep, SendSteps, BlockSteps,
       ReleaseAndFree
  <1>2. ASSUME NEW s \in Servers, ServerCall(s) \/ ServerStep(s) \/ WaitInterrupted(s)
        PROVE  ReceiveSteps(s) \/ AnswerSteps(s) \/ ReleaseAndFree(s)
    BY <1>2 DEF ServerCall, MsgReply, MsgError, Answer, Given, ServerStep, FreeStep, ReceiveSteps,
       AnswerSteps, ReleaseAndFree
  <1> QED BY <1>1, <1>2, ThreadSets DEF Next

-------------------------------------------------------------------------------
(* Threads, whatever the races: which of them hold a pointer, who disposes *)
(* of the process entry, and what a sender carries to its return.          *)

FreeingPC == {"free_channels", "free_chan", "free_chan_del", "free_pending", "free_del"}

\* th runs qnx_process_entry_free.
Freeing(th) == pc[th] \in FreeingPC

\* The places of a blocking call, and those behind its last look at the message.
CallPC == {"set_state", "enqueue", "blocked", "remove", "spin_receiving", "find_process", "grab",
           "spin_finished", "entry_put", "out"} \cup FreeingPC

ReturnPC == {"entry_put", "out"} \cup FreeingPC

Interrupts == {"ETIMEDOUT", "ERESTARTSYS"}

\* The places at which a thread has a pointer to a message in its hands.
PointerPC(th) ==
    IF th \in Clients
       THEN {"pulse_add", "noreply_add", "noreply_sleep", "free_del"}
       ELSE {"copy", "add_pending", "fail", "fail_wake", "finish", "wake", "free_del"}

PointersOK ==
    \A th \in Threads :
       /\ cur[th] # NULL => pc[th] \in PointerPC(th)
       /\ pc[th] = "free_del" => cur[th] \in pending

\* One thread disposes of the entry, when nobody has a reference to it.  Once the
\* file is closed no thread of the server is in a handler.
EntryEnd ==
    /\ \A th \in Threads : Freeing(th) => entryRefs = 0
    /\ \A th, u \in Threads : Freeing(th) /\ Freeing(u) => th = u
    /\ ~entryListed => \A s \in Servers : pc[s] \in {"idle", "entry_put"} \cup FreeingPC

CallsOK ==
    /\ \A t \in Clients :
          /\ pc[t] \in CallPC => rcvid[t] > 0
          /\ pc[t] \in {"remove", "spin_receiving", "find_process", "grab", "spin_finished"} =>
                rc[t] \in Interrupts
          /\ pc[t] \in ReturnPC => rc[t] \in Interrupts \cup Status
    /\ \A k \in 1..MaxRcvid : k > gbl_next_rcvid => outcome[k] = "initial"

Base == PointersOK /\ EntryEnd /\ CallsOK

\* No thread but th is touched.
OnlyMoves(th) ==
    \A u \in Threads : u # th => pc'[u] = pc[u] /\ cur'[u] = cur[u] /\ rc'[u] = rc[u]

\* What the steps of a handler do to the threads.
LEMMA Moves ==
    ASSUME Types, NEW th \in Threads
    PROVE  /\ \A p, r : GotoRc(th, p, r) =>
                 OnlyMoves(th) /\ pc'[th] = p /\ cur'[th] = cur[th] /\ rc'[th] = r
           /\ \A p, m, r : GotoCur(th, p, m, r) =>
                 OnlyMoves(th) /\ pc'[th] = p /\ cur'[th] = m /\ rc'[th] = r
           /\ UNCHANGED threadVars =>
                 OnlyMoves(th) /\ pc'[th] = pc[th] /\ cur'[th] = cur[th] /\ rc'[th] = rc[th]
  BY DEF Types, ThreadsOK, GotoRc, GotoCur, Goto, threadVars, OnlyMoves

\* The entry is alive while it is listed or somebody holds it; the last reference
\* is not the list's if a thread is about to drop it.
LEMMA EntryUsed ==
    ASSUME Types, EntryRefs
    PROVE  /\ entryListed => entryRefs > 0
           /\ \A th \in Threads : HoldsEntry(th) =>
                 entryRefs > 0 /\ (entryRefs = 1 => ~entryListed)
  <1> DEFINE H == {th \in Threads : HoldsEntry(th)}
  <1>1. IsFiniteSet(H)
    BY ThreadSets, FS_Subset
  <1>2. Cardinality(H) \in Nat /\ (Cardinality(H) = 0 <=> H = {})
    BY <1>1, FS_CardinalityType, FS_EmptySet
  <1>3. entryRefs = Cardinality(H) + (IF entryListed THEN 1 ELSE 0)
    BY DEF EntryRefs
  <1>4. \A th \in Threads : HoldsEntry(th) => H # {}
    OBVIOUS
  <1> HIDE DEF H
  <1> QED BY <1>2, <1>3, <1>4

\* A step of thread th keeps what is known of the threads.
LEMMA BaseStep ==
    ASSUME Types, Types', Base, NEW th \in Threads, OnlyMoves(th),
           cur'[th] # NULL => pc'[th] \in PointerPC(th),
           pc'[th] = "free_del" => cur'[th] \in pending',
           pending \subseteq pending' \/ entryRefs > 0 \/ Freeing(th),
           pc'[th] \in FreeingPC => Freeing(th) \/ (entryRefs = 1 /\ entryRefs' = 0),
           entryRefs = 0 => entryRefs' = 0,
           entryListed => entryListed' \/ \A s \in Servers : pc[s] = "idle",
           ~entryListed => ~entryListed',
           th \in Servers /\ ~entryListed' => pc'[th] \in {"idle", "entry_put"} \cup FreeingPC,
           \A t \in Clients : rcvid'[t] = rcvid[t] \/ rcvid'[t] > 0,
           th \in Clients /\ pc'[th] \in CallPC => pc[th] \in CallPC \/ rcvid'[th] > 0,
           th \in Clients /\ pc'[th] \in {"remove", "spin_receiving", "find_process", "grab",
                                          "spin_finished"} => rc'[th] \in Interrupts,
           th \in Clients /\ pc'[th] \in ReturnPC => rc'[th] \in Interrupts \cup Status,
           \A k \in 1..MaxRcvid :
              k > gbl_next_rcvid' => k > gbl_next_rcvid /\ outcome'[k] = outcome[k]
    PROVE  Base'
  <1>1. \A u \in Threads : u # th => pc'[u] = pc[u] /\ cur'[u] = cur[u] /\ rc'[u] = rc[u]
    BY DEF OnlyMoves
  <1>2. entryRefs \in Int /\ entryRefs' \in Int
    BY DEF Types, SharedOK, EntryTypeOK
  <1>3. PointersOK'
    <2> SUFFICES ASSUME NEW u \in Threads
                 PROVE  /\ cur'[u] # NULL => pc'[u] \in PointerPC(u)
                        /\ pc'[u] = "free_del" => cur'[u] \in pending'
      BY DEF PointersOK, PointerPC
    <2>1. CASE u = th
      BY <2>1
    <2>2. CASE u # th
      BY <1>1, <1>2, <2>2 DEF Base, PointersOK, EntryEnd, Freeing, FreeingPC
    <2> QED BY <2>1, <2>2
  <1>4. EntryEnd'
    <2>1. ASSUME NEW u \in Threads, Freeing(u)' PROVE entryRefs' = 0
      BY <1>1, <2>1 DEF Base, EntryEnd, Freeing
    <2>2. ASSUME NEW u \in Threads, NEW v \in Threads, Freeing(u)', Freeing(v)' PROVE u = v
      BY <1>1, <1>2, <2>2 DEF Base, EntryEnd, Freeing
    <2>3. ASSUME ~entryListed', NEW s \in Servers
          PROVE  pc'[s] \in {"idle", "entry_put"} \cup FreeingPC
      BY <1>1, <2>3, ThreadSets DEF Base, EntryEnd
    <2> QED BY <2>1, <2>2, <2>3 DEF EntryEnd
  <1>5. CallsOK'
    <2>1. ASSUME NEW t \in Clients
          PROVE  /\ pc'[t] \in CallPC => rcvid'[t] > 0
                 /\ pc'[t] \in {"remove", "spin_receiving", "find_process", "grab",
                                "spin_finished"} => rc'[t] \in Interrupts
                 /\ pc'[t] \in ReturnPC => rc'[t] \in Interrupts \cup Status
      BY <1>1, ThreadSets DEF Base, CallsOK
    <2>2. ASSUME NEW k \in 1..MaxRcvid, k > gbl_next_rcvid' PROVE outcome'[k] = "initial"
      BY <2>2 DEF Base, CallsOK
    <2> QED BY <2>1, <2>2 DEF CallsOK
  <1> QED BY <1>3, <1>4, <1>5 DEF Base

\* The calls of the clients, and pulses and no-reply messages.
LEMMA SendBase ==
    ASSUME Types, Types', EntryRefs, Base, NEW t \in Clients, SendSteps(t)
    PROVE  Base'
  <1> USE ThreadSets, Moves, BaseStep DEF FreeingPC, CallPC, ReturnPC, PointerPC, SendSteps
  <1>1. /\ gbl_next_rcvid \in Nat /\ rcvid \in [Ptr -> 0..MaxRcvid]
        /\ cur[t] # NULL => pc[t] \in PointerPC(t)
    BY MessagesAssumption DEF Types, SharedOK, MsgTypeOK, Base, PointersOK
  <1>2. UNCHANGED <<entryVars, outcome>>
    BY DEF MsgSend, MsgSendBadf, MsgSendvInitFails, MsgSendPulse, PulseAdd, MsgSendNoReply,
           NoReplyAdd, NoReplyRetry, NoReplyInterrupted, ghostVars
  <1>3. UNCHANGED <<pending, entryListed, entryRefs>>
    BY <1>2 DEF entryVars
  <1>4. CASE MsgSend(t)
    <2>1. rcvid'[t] > 0 /\ gbl_next_rcvid' = gbl_next_rcvid + 1
      BY <1>1, <1>4 DEF MsgSend, InitMsg, GetNewRcvid
    <2>2. \A u \in Clients : rcvid'[u] = rcvid[u] \/ rcvid'[u] > 0
      BY <1>1, <1>4, <2>1 DEF MsgSend, InitMsg, GetNewRcvid
    <2>3. OnlyMoves(t) /\ pc[t] = "idle" /\ pc'[t] = "set_state" /\ cur'[t] = cur[t]
      BY <1>4 DEF MsgSend
    <2> QED BY <1>1, <1>2, <1>3, <2>1, <2>2, <2>3
  <1>5. CASE MsgSendBadf(t)
    <2>1. /\ OnlyMoves(t) /\ pc[t] = "idle" /\ pc'[t] = "idle" /\ cur'[t] = cur[t]
          /\ UNCHANGED rcvid /\ gbl_next_rcvid' = gbl_next_rcvid + 1
      BY <1>5 DEF MsgSendBadf
    <2> QED BY <1>1, <1>2, <1>3, <2>1
  <1>6. CASE MsgSendvInitFails(t)
    <2>1. /\ OnlyMoves(t) /\ pc[t] = "idle" /\ pc'[t] = "idle" /\ cur'[t] = cur[t]
          /\ UNCHANGED <<rcvid, gbl_next_rcvid>>
      BY <1>6 DEF MsgSendvInitFails, msgVars
    <2> QED BY <1>1, <1>2, <1>3, <2>1
  <1>7. CASE MsgSendPulse(t) \/ MsgSendNoReply(t)
    <2>1. OnlyMoves(t) /\ pc'[t] \in {"pulse_add", "noreply_add"}
      BY <1>7 DEF MsgSendPulse, MsgSendNoReply
    <2>2. \A u \in Clients : rcvid'[u] = rcvid[u]
      BY <1>1, <1>7, MessagesAssumption DEF MsgSendPulse, MsgSendNoReply, InitPulse, InitNoReply,
         GetNewRcvid
    <2>3. gbl_next_rcvid' = gbl_next_rcvid \/ gbl_next_rcvid' = gbl_next_rcvid + 1
      BY <1>7 DEF MsgSendPulse, MsgSendNoReply, InitPulse, InitNoReply, GetNewRcvid
    <2> QED BY <1>1, <1>2, <1>3, <2>1, <2>2, <2>3
  <1>8. CASE PulseAdd(t)
    <2>1. /\ OnlyMoves(t) /\ pc'[t] = "put" /\ cur'[t] = NULL
          /\ UNCHANGED <<rcvid, gbl_next_rcvid>>
      BY <1>8 DEF PulseAdd, msgVars
    <2> QED BY <1>1, <1>2, <1>3, <2>1
  <1>9. CASE NoReplyAdd(t)
    <2>1. /\ OnlyMoves(t)
          /\ (pc'[t] = "put" /\ cur'[t] = NULL) \/ pc'[t] = "noreply_sleep"
          /\ UNCHANGED <<rcvid, gbl_next_rcvid>>
      BY <1>9 DEF NoReplyAdd, msgVars
    <2> QED BY <1>1, <1>2, <1>3, <2>1
  <1>10. CASE NoReplyRetry(t)
    <2>1. OnlyMoves(t) /\ pc'[t] = "noreply_add" /\ UNCHANGED <<rcvid, gbl_next_rcvid>>
      BY <1>10 DEF NoReplyRetry, msgVars
    <2> QED BY <1>1, <1>2, <1>3, <2>1
  <1>11. CASE NoReplyInterrupted(t)
    <2>1. /\ OnlyMoves(t) /\ pc'[t] = "put" /\ cur'[t] = NULL
          /\ UNCHANGED <<rcvid, gbl_next_rcvid>>
      BY <1>11 DEF NoReplyInterrupted
    <2> QED BY <1>1, <1>2, <1>3, <2>1
  <1> QED BY <1>4, <1>5, <1>6, <1>7, <1>8, <1>9, <1>10, <1>11

\* The steps of handle_msgsend_internal_block.
LEMMA BlockBase ==
    ASSUME Types, Types', EntryRefs, Base, NEW t \in Clients, BlockSteps(t)
    PROVE  Base'
  <1> USE ThreadSets, Moves, BaseStep DEF FreeingPC, CallPC, ReturnPC, PointerPC, BlockSteps
  <1>1. /\ pc[t] \in CallPC \ ReturnPC
        /\ cur[t] = NULL
        /\ pc[t] \in {"remove", "spin_receiving", "find_process", "grab", "spin_finished"} =>
              rc[t] \in Interrupts
        /\ status[t] \in Status
        /\ entryRefs \in Int
    BY DEF Base, PointersOK, CallsOK, SetInterruptible, Enqueue, WakeUp, Expire, Interrupted,
           RemoveWaiting, SpinReceiving, FindProcess, Grab, SpinFinished, Types, SharedOK, MsgTypeOK,
           EntryTypeOK
  <1>2. UNCHANGED <<rcvid, gbl_next_rcvid, outcome, entryListed>>
    BY DEF SetInterruptible, Enqueue, WakeUp, Expire, Interrupted, RemoveWaiting, SpinReceiving,
           FindProcess, Grab, SpinFinished, msgVars, entryVars, ghostVars, EntryGet, ReleasePending
  <1>3. OnlyMoves(t) /\ cur'[t] = NULL
    BY <1>1 DEF SetInterruptible, Enqueue, WakeUp, Expire, Interrupted, RemoveWaiting,
           SpinReceiving, FindProcess, Grab, SpinFinished
  <1>4. CASE SetInterruptible(t) \/ Enqueue(t) \/ WakeUp(t) \/ Expire(t) \/ Interrupted(t)
    <2>1. /\ pc'[t] \in {"enqueue", "blocked", "out", "remove"} /\ UNCHANGED entryVars
          /\ pc'[t] = "out" => rc'[t] = status[t]
          /\ pc'[t] = "remove" => rc'[t] \in Interrupts
      BY <1>4 DEF SetInterruptible, Enqueue, WakeUp, Expire, Interrupted, Interrupts
    <2> QED BY <1>1, <1>2, <1>3, <2>1 DEF entryVars
  <1>5. CASE RemoveWaiting(t) \/ SpinReceiving(t) \/ SpinFinished(t)
    <2>1. /\ pc'[t] \in {"out", "spin_receiving", "find_process", "entry_put"}
          /\ UNCHANGED entryVars /\ rc'[t] = rc[t] /\ rc[t] \in Interrupts
      BY <1>1, <1>5 DEF RemoveWaiting, SpinReceiving, SpinFinished
    <2> QED BY <1>1, <1>2, <1>3, <2>1 DEF entryVars
  <1>6. CASE FindProcess(t)
    <2>1. /\ pc'[t] \in {"out", "grab"} /\ UNCHANGED pending
          /\ rc'[t] = rc[t] /\ rc[t] \in Interrupts
      BY <1>1, <1>6 DEF FindProcess, EntryGet, entryVars
    <2>2. entryRefs = 0 => entryRefs' = 0
      BY <1>6, EntryUsed DEF FindProcess, EntryGet, entryVars
    <2> QED BY <1>1, <1>2, <1>3, <2>1, <2>2
  <1>7. CASE Grab(t)
    <2>1. entryRefs > 0
      BY <1>7, EntryUsed DEF Grab, HoldsEntry
    <2>2. /\ pc'[t] \in {"entry_put", "spin_finished"} /\ UNCHANGED entryRefs
          /\ pc'[t] = "entry_put" => rc'[t] = status[t]
          /\ pc'[t] = "spin_finished" => rc'[t] = rc[t] /\ rc[t] \in Interrupts
      BY <1>1, <1>7 DEF Grab, ReleasePending, entryVars
    <2> QED BY <1>1, <1>2, <1>3, <2>1, <2>2
  <1> QED BY <1>4, <1>5, <1>6, <1>7

\* The steps of handle_msgreceive.
LEMMA ReceiveBase ==
    ASSUME Types, Types', EntryRefs, Base, NEW s \in Servers, ReceiveSteps(s)
    PROVE  Base'
  <1> USE ThreadSets, Moves, BaseStep DEF FreeingPC, CallPC, ReturnPC, PointerPC, ReceiveSteps
  <1>1. /\ entryListed
        /\ cur[s] # NULL => pc[s] \in {"copy", "add_pending"}
    BY DEF Base, PointersOK, EntryEnd, MsgReceive, ChannelFound, WaitEvent, WaitInterrupted, Take,
           CopyPulse, CopyNoReply, CopyMsg, ReceiveAddPending
  <1>2. UNCHANGED <<rcvid, gbl_next_rcvid, outcome, entryListed, entryRefs>> /\ pending \subseteq pending'
    BY DEF MsgReceive, WaitEvent, WaitInterrupted, Take, CopyPulse, CopyNoReply, CopyMsg,
           ReceiveAddPending, AddPending, msgVars, entryVars, ghostVars
  <1>3. /\ OnlyMoves(s)
        /\ pc'[s] \notin FreeingPC
        /\ cur'[s] # NULL => pc'[s] \in {"copy", "add_pending", "fail"}
    <2>1. CASE MsgReceive(s) \/ WaitEvent(s) \/ WaitInterrupted(s)
      BY <1>1, <2>1 DEF MsgReceive, WaitEvent, WaitInterrupted
    <2>2. CASE Take(s)
      BY <1>1, <2>2 DEF Take
    <2>3. CASE CopyPulse(s) \/ CopyNoReply(s) \/ ReceiveAddPending(s)
      BY <2>3 DEF CopyPulse, CopyNoReply, ReceiveAddPending
    <2>4. CASE CopyMsg(s)
      BY <2>4 DEF CopyMsg
    <2> QED BY <2>1, <2>2, <2>3, <2>4
  <1> QED BY <1>1, <1>2, <1>3

\* Answers, and the end of the channel and the server.
LEMMA AnswerBase ==
    ASSUME Types, Types', EntryRefs, IdsInv, Base, NEW s \in Servers, AnswerSteps(s)
    PROVE  Base'
  <1> USE ThreadSets, Moves, BaseStep DEF FreeingPC, CallPC, ReturnPC, PointerPC, AnswerSteps
  <1>1. /\ entryListed
        /\ cur[s] # NULL => pc[s] \in PointerPC(s)
    BY DEF Base, PointersOK, EntryEnd, MsgAnswer, Finish, Wake, ChannelDestroy, Close
  <1>2. entryRefs > 0
    BY <1>1, EntryUsed
  <1>3. UNCHANGED <<rcvid, gbl_next_rcvid, entryRefs>>
    BY DEF MsgAnswer, ReleasePending, Finish, StoreAnswer, Wake, WakeUpProcess,
       ChannelDestroy, UnlinkChannel, ChannelRelease, Close, UnlinkEntry, msgVars, entryVars
  <1>4. CASE \E k : \E a \in Given : MsgAnswer(s, k, a)
    <2>1. /\ OnlyMoves(s) /\ pc'[s] = "finish"
          /\ UNCHANGED <<outcome, entryListed>>
      BY <1>4 DEF MsgAnswer, ReleasePending, ghostVars
    <2> QED BY <1>1, <1>2, <1>3, <2>1
  <1>5. CASE Finish(s)
    <2>1. /\ OnlyMoves(s) /\ pc'[s] \in {"wake", "fail_wake"}
          /\ UNCHANGED entryVars
          /\ outcome' = [outcome EXCEPT ![rcvid[cur[s]]] = rc[s]]
          /\ cur[s] \in Clients
      BY <1>5 DEF Finish, Types, ThreadsOK
    <2>2. rcvid[cur[s]] <= gbl_next_rcvid /\ gbl_next_rcvid \in Nat /\ rcvid[cur[s]] \in Nat
      BY <2>1, MessagesAssumption DEF IdsInv, Types, SharedOK, MsgTypeOK
    <2>3. \A k \in 1..MaxRcvid : k > gbl_next_rcvid => outcome'[k] = outcome[k]
      BY <2>1, <2>2 DEF Types, SharedOK
    <2> QED BY <1>1, <1>2, <1>3, <2>1, <2>3 DEF entryVars
  <1>6. CASE Wake(s)
    <2>1. /\ OnlyMoves(s) /\ pc'[s] \in {"idle", "put"} /\ cur'[s] = NULL
          /\ UNCHANGED <<entryVars, outcome>>
      BY <1>6 DEF Wake, ghostVars
    <2> QED BY <1>1, <1>2, <1>3, <2>1 DEF entryVars
  <1>7. CASE ChannelDestroy(s)
    <2>1. /\ OnlyMoves(s) /\ pc'[s] \in {"idle", "put_free"} /\ cur'[s] = NULL
          /\ UNCHANGED <<pending, entryListed, outcome>>
      BY <1>1, <1>7 DEF ChannelDestroy, UnlinkChannel, ghostVars
    <2> QED BY <1>1, <1>2, <1>3, <2>1
  <1>8. CASE Close(s)
    <2>1. /\ OnlyMoves(s) /\ pc'[s] = "entry_put" /\ cur'[s] = NULL
          /\ UNCHANGED <<pending, outcome>> /\ entryListed' = FALSE
          /\ \A r \in Servers : pc[r] = "idle"
      BY <1>1, <1>8 DEF Close, UnlinkEntry, ghostVars
    <2> QED BY <1>1, <1>2, <1>3, <2>1
  <1> QED BY <1>4, <1>5, <1>6, <1>7, <1>8

\* Returning, and disposing of the entry.
LEMMA FreeBase ==
    ASSUME Types, Types', EntryRefs, IdsInv, Base, NEW th \in Threads, ReleaseAndFree(th)
    PROVE  Base'
  <1> USE ThreadSets, Moves, BaseStep DEF FreeingPC, CallPC, ReturnPC, PointerPC, ReleaseAndFree
  <1>1. UNCHANGED <<rcvid, gbl_next_rcvid, entryListed>> /\ OnlyMoves(th)
    <2>1. UNCHANGED <<rcvid, gbl_next_rcvid, entryListed>>
      BY DEF Put, EntryPut, EntryRelease, FreeChannels, UnlinkChannel, ChannelRelease, FreePending,
         CleanupAndFree, FreeDel, ReleasePending, FreeDone, ChannelFreeMsg, FreeFirst,
         ChannelFreeDel, UnlinkFirst, ChannelFreed, msgVars, entryVars
    <2>2. OnlyMoves(th)
      BY DEF Put, EntryPut, FreeChannels, FreePending, FreeDel, FreeDone, ChannelFreeMsg,
         ChannelFreeDel, ChannelFreed
    <2> QED BY <2>1, <2>2
  <1>2. /\ cur[th] # NULL => pc[th] \in PointerPC(th)
        /\ th \in Clients /\ pc[th] \in ReturnPC => rc[th] \in Interrupts \cup Status
        /\ Freeing(th) => entryRefs = 0
        /\ th \in Servers /\ ~entryListed => pc[th] \in {"idle", "entry_put"} \cup FreeingPC
        /\ entryRefs \in Int
        /\ th \in Clients \/ th \in Servers
    BY DEF Base, PointersOK, CallsOK, EntryEnd, Types, SharedOK, EntryTypeOK, Threads
  <1>3. CASE Put(th)
    <2>1. /\ pc[th] \in {"out", "put"} /\ pc'[th] \in {"idle", "put_free"} /\ cur'[th] = NULL
          /\ UNCHANGED <<entryVars, outcome>>
      BY <1>3 DEF Put, ghostVars
    <2> QED BY <1>1, <1>2, <2>1 DEF entryVars
  <1>4. CASE EntryPut(th)
    <2>1. /\ pc[th] = "entry_put" /\ cur'[th] = cur[th] /\ rc'[th] = rc[th]
          /\ UNCHANGED <<pending, outcome>> /\ entryRefs' = entryRefs - 1
          /\ pc'[th] = IF entryRefs = 1 THEN "free_channels" ELSE AfterFree(th)
      BY <1>4 DEF EntryPut, EntryRelease, ghostVars
    <2>2. entryRefs > 0
      BY <2>1, EntryUsed DEF HoldsEntry
    <2> QED BY <1>1, <1>2, <2>1, <2>2 DEF AfterFree
  <1>5. CASE FreeChannels(th)
    <2>1. /\ pc[th] = "free_channels" /\ cur'[th] = cur[th] /\ rc'[th] = rc[th]
          /\ UNCHANGED <<pending, entryRefs, outcome>>
          /\ pc'[th] \in {"free_chan", "free_pending"}
      BY <1>5 DEF FreeChannels, UnlinkChannel, entryVars, ghostVars
    <2> QED BY <1>1, <1>2, <2>1 DEF Freeing
  <1>6. CASE FreePending(th)
    <2>1. PICK m \in pending : /\ outcome' = [outcome EXCEPT ![rcvid[m]] = "ESRCH"]
                               /\ GotoCur(th, "free_del", m, rc[th])
      BY <1>6 DEF FreePending
    <2>2. /\ pc[th] = "free_pending" /\ cur'[th] \in pending /\ rc'[th] = rc[th]
          /\ UNCHANGED <<pending, entryRefs>> /\ pc'[th] = "free_del"
      BY <1>6, <2>1 DEF FreePending, entryVars
    <2>3. rcvid[m] <= gbl_next_rcvid /\ gbl_next_rcvid \in Nat /\ rcvid[m] \in Nat
      BY <2>1, MessagesAssumption DEF IdsInv, Types, SharedOK, MsgTypeOK, EntryTypeOK
    <2>4. \A k \in 1..MaxRcvid : k > gbl_next_rcvid => outcome'[k] = outcome[k]
      BY <2>1, <2>3 DEF Types, SharedOK
    <2> QED BY <1>1, <1>2, <2>2, <2>4 DEF Freeing
  <1>7. CASE FreeDel(th)
    <2>1. /\ pc[th] = "free_del" /\ cur'[th] = NULL /\ rc'[th] = rc[th]
          /\ UNCHANGED <<entryRefs, outcome>> /\ pc'[th] = "free_pending"
      BY <1>7 DEF FreeDel, ReleasePending, ghostVars
    <2> QED BY <1>1, <1>2, <2>1 DEF Freeing
  <1>8. CASE FreeDone(th)
    <2>1. /\ pc[th] = "free_pending" /\ cur'[th] = cur[th] /\ rc'[th] = rc[th]
          /\ UNCHANGED <<pending, entryRefs, outcome>> /\ pc'[th] = AfterFree(th)
      BY <1>8 DEF FreeDone, entryVars, ghostVars
    <2> QED BY <1>1, <1>2, <2>1 DEF AfterFree
  <1>9. CASE ChannelFreeMsg(th) \/ ChannelFreeDel(th) \/ ChannelFreed(th)
    <2>1. /\ pc[th] \in {"put_free", "put_del"} => pc'[th] \in {"put_free", "put_del", "idle"}
          /\ pc[th] \notin {"put_free", "put_del"} =>
                /\ pc[th] \in {"free_chan", "free_chan_del"}
                /\ pc'[th] \in {"free_chan", "free_chan_del", "free_pending"}
      BY <1>9 DEF ChannelFreeMsg, ChannelFreeDel, ChannelFreed, FreesChannel, UnlinksMessage
    <2>2. /\ cur'[th] = cur[th] /\ rc'[th] = rc[th]
          /\ UNCHANGED <<entryVars, outcome>>
      BY <1>9 DEF ChannelFreeMsg, ChannelFreeDel, ChannelFreed, ghostVars
    <2> QED BY <1>1, <1>2, <2>1, <2>2 DEF Freeing, entryVars
  <1> QED BY <1>3, <1>4, <1>5, <1>6, <1>7, <1>8, <1>9

-------------------------------------------------------------------------------
(* The end of the channel.                                                 *)

\* The channel is alive while it is listed or somebody uses it, and the last
\* reference belongs to one thread or to the list.
LEMMA ChannelUsed ==
    ASSUME Types, ChannelRefs
    PROVE  /\ chanListed => chanRefs > 0
           /\ \A th \in Threads : HoldsChannel(th) =>
                 chanRefs > 0 /\ (chanRefs = 1 => ~chanListed)
           /\ \A th, u \in Threads : HoldsChannel(th) /\ HoldsChannel(u) /\ chanRefs = 1 => th = u
  <1> DEFINE H == {th \in Threads : HoldsChannel(th)}
  <1>1. IsFiniteSet(H)
    BY ThreadSets, FS_Subset
  <1>2. Cardinality(H) \in Nat /\ (Cardinality(H) = 0 <=> H = {})
    BY <1>1, FS_CardinalityType, FS_EmptySet
  <1>3. Cardinality(H) = 1 => \E x : H = {x}
    BY <1>1, FS_Singleton
  <1>4. chanRefs = Cardinality(H) + (IF chanListed THEN 1 ELSE 0) + leakedRefs
    BY DEF ChannelRefs
  <1>5. leakedRefs \in Nat
    BY MsgPassingAssumption DEF Types, SharedOK
  <1>6. \A th \in Threads : HoldsChannel(th) => th \in H
    OBVIOUS
  <1> HIDE DEF H
  <1> QED BY <1>2, <1>3, <1>4, <1>5, <1>6

\* th runs qnx_channel_free.
FreeingChannel(th) == FreesChannel(th) \/ UnlinksMessage(th)

\* One thread disposes of the channel, when nobody has a reference to it.
ChannelEnd ==
    /\ \A th \in Threads : FreeingChannel(th) => chanRefs = 0
    /\ \A th, u \in Threads : FreeingChannel(th) /\ FreeingChannel(u) => th = u

\* A step of thread th keeps it.
LEMMA ChannelEndStep ==
    ASSUME Types, ChannelEnd, NEW th \in Threads, OnlyMoves(th),
           chanRefs = 0 => chanRefs' = 0,
           FreeingChannel(th)' => FreeingChannel(th) \/ (chanRefs = 1 /\ chanRefs' = 0)
    PROVE  ChannelEnd'
  <1>1. \A u \in Threads : u # th => (FreeingChannel(u)' <=> FreeingChannel(u))
    BY DEF OnlyMoves, FreeingChannel, FreesChannel, UnlinksMessage
  <1>2. ASSUME NEW u \in Threads, FreeingChannel(u)' PROVE chanRefs' = 0
    BY <1>1, <1>2 DEF ChannelEnd
  <1>3. ASSUME NEW u \in Threads, NEW v \in Threads, FreeingChannel(u)', FreeingChannel(v)'
        PROVE  u = v
    BY <1>1, <1>3 DEF ChannelEnd
  <1> QED BY <1>2, <1>3 DEF ChannelEnd

\* The handlers, up to their return: none frees the channel.
LEMMA HandlerPC ==
    ASSUME Types, NEW th \in Threads,
           \/ th \in Clients /\ (SendSteps(th) \/ BlockSteps(th))
           \/ th \in Servers /\ (ReceiveSteps(th) \/ (AnswerSteps(th) /\ ~ChannelDestroy(th)))
    PROVE  /\ OnlyMoves(th) /\ ~FreeingChannel(th) /\ ~FreeingChannel(th)'
           /\ \/ UNCHANGED chanRefs
              \/ ChannelFound /\ chanRefs' = chanRefs + 1
  <1> USE Moves DEF FreeingChannel, FreesChannel, UnlinksMessage, chanVars
  <1>1. CASE SendSteps(th)
    <2>1. \/ UNCHANGED chanRefs
          \/ ChannelFound /\ chanRefs' = chanRefs + 1
      BY <1>1 DEF SendSteps, MsgSend, MsgSendBadf, MsgSendvInitFails, MsgSendPulse, PulseAdd,
         MsgSendNoReply, NoReplyAdd, NoReplyRetry, NoReplyInterrupted, ChannelGet, AddNewMessage,
         AddNewMessageFull
    <2>2. OnlyMoves(th) /\ ~FreeingChannel(th) /\ ~FreeingChannel(th)'
      BY <1>1 DEF SendSteps, MsgSend, MsgSendBadf, MsgSendvInitFails, MsgSendPulse, PulseAdd,
         MsgSendNoReply, NoReplyAdd, NoReplyRetry, NoReplyInterrupted
    <2> QED BY <2>1, <2>2
  <1>2. CASE BlockSteps(th)
    <2>1. UNCHANGED chanRefs
      BY <1>2 DEF BlockSteps, SetInterruptible, Enqueue, WakeUp, Expire, Interrupted, RemoveWaiting,
         SpinReceiving, FindProcess, Grab, SpinFinished, AddNewMessage, RemoveMessage
    <2>2. OnlyMoves(th) /\ ~FreeingChannel(th) /\ ~FreeingChannel(th)'
      BY <1>2 DEF BlockSteps, SetInterruptible, Enqueue, WakeUp, Expire, Interrupted, RemoveWaiting,
         SpinReceiving, FindProcess, Grab, SpinFinished
    <2> QED BY <2>1, <2>2
  <1>3. CASE ReceiveSteps(th)
    <2>1. \/ UNCHANGED chanRefs
          \/ ChannelFound /\ chanRefs' = chanRefs + 1
      BY <1>3 DEF ReceiveSteps, MsgReceive, WaitEvent, WaitInterrupted, Take, CopyPulse,
         CopyNoReply, CopyMsg, ReceiveAddPending, ChannelGet, Dequeue
    <2>2. OnlyMoves(th) /\ ~FreeingChannel(th) /\ ~FreeingChannel(th)'
      BY <1>3 DEF ReceiveSteps, MsgReceive, WaitEvent, WaitInterrupted, Take, CopyPulse,
         CopyNoReply, CopyMsg, ReceiveAddPending
    <2> QED BY <2>1, <2>2
  <1>4. CASE th \in Servers /\ AnswerSteps(th) /\ ~ChannelDestroy(th)
    <2>1. UNCHANGED chanRefs
      BY <1>4 DEF AnswerSteps, MsgAnswer, Finish, Wake, Close
    <2>2. CASE Close(th)
      <3>1. pc[th] = "idle"
        BY <1>4, <2>2 DEF Close
      <3> QED BY <2>1, <2>2, <3>1 DEF Close
    <2>3. CASE ~Close(th)
      BY <1>4, <2>1, <2>3 DEF AnswerSteps, MsgAnswer, Finish, Wake
    <2> QED BY <2>2, <2>3
  <1> QED BY <1>1, <1>2, <1>3, <1>4

\* So it stays, whatever the handlers do.
LEMMA ChannelEndInvariant == Spec => []ChannelEnd
  <1>1. Init => ChannelEnd
    BY DEF Init, ChannelEnd, FreeingChannel, FreesChannel, UnlinksMessage
  <1>2. Types /\ ChannelRefs /\ ChannelEnd /\ [Next]_vars => ChannelEnd'
    <2> SUFFICES ASSUME Types, ChannelRefs, ChannelEnd, [Next]_vars PROVE ChannelEnd'
      OBVIOUS
    <2>1. chanRefs \in Int
      BY DEF Types, SharedOK, ChanTypeOK
    <2>2. ASSUME NEW th \in Threads,
                 \/ th \in Clients /\ (SendSteps(th) \/ BlockSteps(th))
                 \/ th \in Servers /\ (ReceiveSteps(th) \/ (AnswerSteps(th) /\ ~ChannelDestroy(th)))
          PROVE  ChannelEnd'
      <3>1. ChannelFound => chanRefs > 0
        BY ChannelUsed DEF ChannelFound
      <3> QED BY <2>1, <2>2, <3>1, HandlerPC, ChannelEndStep
    <2>3. ASSUME NEW th \in Threads, Put(th) \/ ChannelDestroy(th) \/ FreeChannels(th)
          PROVE  ChannelEnd'
      <3>1. OnlyMoves(th)
        BY <2>3, Moves DEF Put, ChannelDestroy, FreeChannels
      <3>2. CASE ChannelRelease
        <4>1. chanRefs > 0
          <5>1. CASE Put(th)
            BY <5>1, ChannelUsed DEF Put, HoldsChannel, Types, ThreadsOK, ServerPC, Threads
          <5>2. CASE chanListed
            BY <5>2, ChannelUsed
          <5>3. CASE FreeChannels(th) /\ ~chanListed
            BY <2>1, <3>2, <5>3 DEF FreeChannels, UnlinkChannel, chanVars, ChannelRelease
          <5> QED BY <2>3, <5>1, <5>2, <5>3 DEF ChannelDestroy, UnlinkChannel
        <4>2. chanRefs' = chanRefs - 1 /\ (FreeingChannel(th)' => chanRefs = 1)
          BY <2>3, <3>2, Moves DEF Put, ChannelDestroy, FreeChannels, UnlinkChannel, LastReference,
             FreeingChannel, FreesChannel, UnlinksMessage, ChannelRelease
        <4> QED BY <2>1, <3>1, <4>1, <4>2, ChannelEndStep
      <3>3. CASE ~ChannelRelease
        <4>1. UNCHANGED chanRefs /\ ~FreeingChannel(th)'
          BY <2>3, <3>3, Moves DEF Put, ChannelDestroy, FreeChannels, UnlinkChannel, chanVars,
             FreeingChannel, FreesChannel, UnlinksMessage
        <4> QED BY <3>1, <4>1, ChannelEndStep
      <3> QED BY <3>2, <3>3
    <2>4. ASSUME NEW th \in Threads, ReleaseAndFree(th), ~Put(th), ~FreeChannels(th)
          PROVE  ChannelEnd'
      <3>1. OnlyMoves(th) /\ UNCHANGED chanRefs
        BY <2>4, Moves DEF ReleaseAndFree, EntryPut, FreePending, FreeDel, FreeDone,
           ChannelFreeMsg, FreeFirst, ChannelFreeDel, UnlinkFirst, ChannelFreed, chanVars
      <3>2. FreeingChannel(th)' => FreeingChannel(th)
        <4>1. CASE EntryPut(th) \/ FreePending(th) \/ FreeDel(th) \/ FreeDone(th)
          <5>1. pc'[th] \in {"out", "idle", "free_channels", "free_pending", "free_del"}
            BY <4>1, Moves DEF EntryPut, AfterFree, FreePending, FreeDel, FreeDone
          <5> QED BY <5>1 DEF FreeingChannel, FreesChannel, UnlinksMessage
        <4>2. CASE ChannelFreeMsg(th) \/ ChannelFreeDel(th) \/ ChannelFreed(th)
          BY <4>2 DEF ChannelFreeMsg, ChannelFreeDel, ChannelFreed, FreeingChannel
        <4> QED BY <2>4, <4>1, <4>2 DEF ReleaseAndFree
      <3> QED BY <3>1, <3>2, ChannelEndStep
    <2>5. CASE UNCHANGED vars
      BY <2>5 DEF vars, chanVars, threadVars, ChannelEnd, FreeingChannel, FreesChannel,
                  UnlinksMessage
    <2> QED BY <2>2, <2>3, <2>4, <2>5, NextSteps, ThreadSets
  <1> QED BY <1>1, <1>2, TypesInvariant, RefsInvariant, PTL DEF Spec

\* What is known so far.
Known == Types /\ ChannelRefs /\ EntryRefs /\ IdsInv /\ Base /\ ChannelEnd

\* Every step keeps it.
LEMMA NextBase == Known /\ Types' /\ [Next]_vars => Base'
  <1> SUFFICES ASSUME Known, Types', [Next]_vars PROVE Base'
    OBVIOUS
  <1>1. CASE Next
    BY <1>1, NextSteps, SendBase, BlockBase, ReceiveBase, AnswerBase, FreeBase DEF Known
  <1>2. CASE UNCHANGED vars
    <2>1. UNCHANGED <<pc, cur, rc, pending, entryRefs, entryListed, rcvid, gbl_next_rcvid, outcome>>
      BY <1>2 DEF vars, msgVars, entryVars, threadVars, ghostVars
    <2>2. Base
      BY DEF Known
    <2> QED BY <2>1, <2>2 DEF Base, PointersOK, PointerPC, EntryEnd, Freeing, CallsOK
  <1> QED BY <1>1, <1>2

\* It is an invariant, with the types, the reference counts and the receive ids.
LEMMA KnownInvariant == Spec => []Known
  <1>1. Init => Base
    <2> SUFFICES ASSUME Init PROVE Base
      OBVIOUS
    <2>1. /\ \A th \in Threads : pc[th] = "idle" /\ cur[th] = NULL
          /\ entryListed
          /\ \A k \in 1..MaxRcvid : outcome[k] = "initial"
      BY DEF Init, EntryInit
    <2> QED BY <2>1, ThreadSets DEF Base, PointersOK, PointerPC, EntryEnd, Freeing, FreeingPC,
            CallsOK, CallPC, ReturnPC
  <1>2. Types /\ (ChannelRefs /\ EntryRefs) /\ (IdsInv /\ QueueInv) /\ Base /\ ChannelEnd => Known
    BY DEF Known
  <1> QED BY <1>1, <1>2, NextBase, TypesInvariant, RefsInvariant, IdsAndQueue, ChannelEndInvariant,
             PTL DEF Spec

-------------------------------------------------------------------------------
(* The queue, as the set of the messages in it.                            *)

\* What the operations on the queue do to its members.
LEMMA QueueSets ==
    ASSUME Types
    PROVE  /\ \A m \in Ptr : AddNewMessage(m) =>
                 /\ ToSet(waiting') = ToSet(waiting) \cup {m}
                 /\ \A x : Once(waiting, x) /\ (x = m => m \notin ToSet(waiting)) =>
                       Once(waiting', x)
           /\ Dequeue =>
                 /\ Head(waiting) \in ToSet(waiting) /\ Head(waiting) \in Ptr
                 /\ \A x \in ToSet(waiting) : x # Head(waiting) => x \in ToSet(waiting')
                 /\ ToSet(waiting') \subseteq ToSet(waiting)
                 /\ Once(waiting, Head(waiting)) => Head(waiting) \notin ToSet(waiting')
                 /\ \A x : Once(waiting, x) => Once(waiting', x)
  <1>1. waiting \in Seq(Ptr)
    BY DEF Types, SharedOK, ChanTypeOK
  <1>2. ASSUME NEW m \in Ptr, AddNewMessage(m)
        PROVE  /\ ToSet(waiting') = ToSet(waiting) \cup {m}
               /\ \A x : Once(waiting, x) /\ (x = m => m \notin ToSet(waiting)) =>
                     Once(waiting', x)
    BY <1>1, <1>2, AppendSet DEF AddNewMessage
  <1>3. ASSUME Dequeue
        PROVE  /\ Head(waiting) \in ToSet(waiting) /\ Head(waiting) \in Ptr
               /\ \A x \in ToSet(waiting) : x # Head(waiting) => x \in ToSet(waiting')
               /\ ToSet(waiting') \subseteq ToSet(waiting)
               /\ Once(waiting, Head(waiting)) => Head(waiting) \notin ToSet(waiting')
               /\ \A x : Once(waiting, x) => Once(waiting', x)
    <2>1. waiting # <<>> /\ waiting' = Tail(waiting)
      BY <1>3 DEF Dequeue
    <2>2. /\ waiting' \in Seq(Ptr) /\ Drops(waiting, waiting', 1)
          /\ 1 \in 1..Len(waiting) /\ waiting[1] = Head(waiting)
      BY <1>1, <2>1, TailDrops
    <2>3. /\ ToSet(waiting') \subseteq ToSet(waiting)
          /\ \A x \in ToSet(waiting) : x # waiting[1] => x \in ToSet(waiting')
          /\ waiting[1] \in ToSet(waiting)
          /\ Once(waiting, waiting[1]) => ToSet(waiting') = ToSet(waiting) \ {waiting[1]}
          /\ \A x : Once(waiting, x) => Once(waiting', x)
      BY <1>1, <2>2, DropsSet
    <2>4. Head(waiting) \in Ptr
      BY <1>1, <2>1, HeadTailProperties
    <2> QED BY <2>2, <2>3, <2>4
  <1> QED BY <1>2, <1>3

\* An interrupted sender removes its own message or finds that it is not queued.
LEMMA RemovesOwn ==
    ASSUME Known, NEW t \in Clients, pc[t] = "remove"
    PROVE  /\ PositionsOf(rcvid[t]) = {} => t \notin ToSet(waiting)
           /\ RemoveMessage(rcvid[t]) =>
                 /\ t \in ToSet(waiting)
                 /\ \E i \in 1..Len(waiting) : waiting[i] = t /\ Drops(waiting, waiting', i)
                 /\ \A x \in ToSet(waiting) : x # t => x \in ToSet(waiting')
                 /\ ToSet(waiting') \subseteq ToSet(waiting)
                 /\ Once(waiting, t) => t \notin ToSet(waiting')
                 /\ \A x : Once(waiting, x) => Once(waiting', x)
  <1>1. waiting \in Seq(Ptr) /\ DOMAIN waiting = 1..Len(waiting)
    BY LenProperties DEF Known, Types, SharedOK, ChanTypeOK
  <1>2. \A i \in 1..Len(waiting) : waiting[i] \in Ptr
    BY <1>1, ElementOfSeq
  <1>3. rcvid[t] > 0 /\ t \in Ptr
    BY ThreadSets DEF Known, Base, CallsOK, CallPC
  <1>4. PositionsOf(rcvid[t]) = {} => t \notin ToSet(waiting)
    BY DEF PositionsOf, ToSet
  <1>5. \A i \in PositionsOf(rcvid[t]) : i \in 1..Len(waiting) /\ waiting[i] = t
    BY <1>1, <1>2, <1>3 DEF PositionsOf, Known, IdsInv, RcvidUnique
  <1>6. ASSUME RemoveMessage(rcvid[t])
        PROVE  /\ t \in ToSet(waiting)
               /\ \E i \in 1..Len(waiting) : waiting[i] = t /\ Drops(waiting, waiting', i)
               /\ \A x \in ToSet(waiting) : x # t => x \in ToSet(waiting')
               /\ ToSet(waiting') \subseteq ToSet(waiting)
               /\ Once(waiting, t) => t \notin ToSet(waiting')
               /\ \A x : Once(waiting, x) => Once(waiting', x)
    <2>1. PICK i \in PositionsOf(rcvid[t]) : waiting' = RemoveAt(waiting, i)
      BY <1>6 DEF RemoveMessage
    <2>2. i \in 1..Len(waiting) /\ waiting[i] = t
      BY <1>5, <2>1
    <2>3. waiting' \in Seq(Ptr) /\ Drops(waiting, waiting', i)
      BY <1>1, <2>1, <2>2, RemoveAtDrops
    <2>4. /\ ToSet(waiting') \subseteq ToSet(waiting)
          /\ \A x \in ToSet(waiting) : x # waiting[i] => x \in ToSet(waiting')
          /\ waiting[i] \in ToSet(waiting)
          /\ Once(waiting, waiting[i]) => ToSet(waiting') = ToSet(waiting) \ {waiting[i]}
          /\ \A x : Once(waiting, x) => Once(waiting', x)
      BY <1>1, <2>2, <2>3, DropsSet
    <2> QED BY <2>2, <2>3, <2>4
  <1> QED BY <1>4, <1>6

-------------------------------------------------------------------------------
(* Pulses and no-reply messages: from kmalloc to kfree in one pair of      *)
(* hands.                                                                  *)

\* qnx_channel_free is between kfree and list_del of the first message in the queue.
Unlinking == \E th \in Threads : UnlinksMessage(th)

\* m is in the queue or held by one thread if it is allocated, nowhere if not, up to
\* its list_del.
HeapOK(m) ==
    /\ Once(waiting, m)
    /\ m \in heap \/ FreedInQueue(m) <=> m \in ToSet(waiting) \/ \E th \in Threads : cur[th] = m
    /\ FreedInQueue(m) => m \notin heap
    /\ m \in ToSet(waiting) => \A th \in Threads : cur[th] # m
    /\ \A th, u \in Threads : cur[th] = m /\ cur[u] = m => th = u

HeapInv == \A m \in Heap : HeapOK(m)

\* While somebody uses the channel nobody is freeing it.
LEMMA NotUnlinking ==
    ASSUME Known, NEW th \in Threads, OnlyMoves(th), ~FreeingChannel(th)',
           HoldsChannel(th) \/ chanListed
    PROVE  ~Unlinking /\ ~Unlinking'
  <1>1. chanRefs > 0
    BY ChannelUsed DEF Known
  <1>2. \A u \in Threads : ~FreeingChannel(u)
    BY <1>1 DEF Known, ChannelEnd
  <1> QED BY <1>2 DEF Unlinking, FreeingChannel, FreesChannel, UnlinksMessage, OnlyMoves

\* And a thread that does not free it does not change who does.
LEMMA SameUnlinking ==
    ASSUME NEW th \in Threads, OnlyMoves(th), ~UnlinksMessage(th), ~UnlinksMessage(th)'
    PROVE  Unlinking' <=> Unlinking
  BY DEF Unlinking, UnlinksMessage, OnlyMoves

\* A step that leaves the kmalloc'ed messages where they are.
LEMMA HeapKeep ==
    ASSUME HeapInv, NEW th \in Threads, OnlyMoves(th), UNCHANGED heap,
           \A m \in Heap : /\ Once(waiting, m) => Once(waiting', m)
                           /\ m \in ToSet(waiting') <=> m \in ToSet(waiting),
           cur'[th] = cur[th] \/ (cur[th] \notin Heap /\ cur'[th] \notin Heap),
           Unlinking' <=> Unlinking, Unlinking => UNCHANGED waiting
    PROVE  HeapInv'
  <1> SUFFICES ASSUME NEW m \in Heap PROVE HeapOK(m)'
    BY DEF HeapInv
  <1>1. \A u \in Threads : cur'[u] = m <=> cur[u] = m
    BY DEF OnlyMoves
  <1>2. HeapOK(m)
    BY DEF HeapInv
  <1>3. FreedInQueue(m)' <=> FreedInQueue(m)
    BY DEF FreedInQueue, Unlinking
  <1> QED BY <1>1, <1>2, <1>3 DEF HeapOK

\* kmalloc.
LEMMA HeapAllocate ==
    ASSUME HeapInv, NEW th \in Threads, OnlyMoves(th), UNCHANGED waiting,
           cur[th] \notin Heap, cur'[th] \in Heap,
           cur'[th] \notin heap, heap' = heap \cup {cur'[th]},
           ~Unlinking, ~Unlinking'
    PROVE  HeapInv'
  <1> SUFFICES ASSUME NEW m \in Heap PROVE HeapOK(m)'
    BY DEF HeapInv
  <1>0. \A n : ~FreedInQueue(n) /\ ~FreedInQueue(n)'
    BY DEF FreedInQueue, Unlinking
  <1>1. HeapOK(m)
    BY DEF HeapInv
  <1>2. \A u \in Threads : u # th => cur'[u] = cur[u]
    BY DEF OnlyMoves
  <1>3. CASE m = cur'[th]
    BY <1>0, <1>1, <1>2, <1>3 DEF HeapOK
  <1>4. CASE m # cur'[th]
    <2>1. \A u \in Threads : cur'[u] = m <=> cur[u] = m
      BY <1>2, <1>4
    <2> QED BY <1>0, <1>1, <1>4, <2>1 DEF HeapOK
  <1> QED BY <1>3, <1>4

\* kfree of the message in a thread's hands.
LEMMA HeapFree ==
    ASSUME HeapInv, NEW th \in Threads, OnlyMoves(th), UNCHANGED waiting,
           cur[th] \in Heap, cur'[th] \notin Heap, heap' = heap \ {cur[th]},
           ~Unlinking, ~Unlinking'
    PROVE  HeapInv'
  <1> SUFFICES ASSUME NEW m \in Heap PROVE HeapOK(m)'
    BY DEF HeapInv
  <1>0. \A n : ~FreedInQueue(n) /\ ~FreedInQueue(n)'
    BY DEF FreedInQueue, Unlinking
  <1>1. HeapOK(m)
    BY DEF HeapInv
  <1>2. \A u \in Threads : u # th => cur'[u] = cur[u]
    BY DEF OnlyMoves
  <1>3. CASE m = cur[th]
    <2>1. m \notin ToSet(waiting) /\ \A u \in Threads : cur'[u] # m
      BY <1>0, <1>1, <1>2, <1>3 DEF HeapOK
    <2> QED BY <1>0, <1>1, <1>3, <2>1 DEF HeapOK
  <1>4. CASE m # cur[th]
    <2>1. \A u \in Threads : cur'[u] = m <=> cur[u] = m
      BY <1>2, <1>4
    <2> QED BY <1>0, <1>1, <1>4, <2>1 DEF HeapOK
  <1> QED BY <1>3, <1>4

\* A message passes from a thread's hands to the queue.
LEMMA HeapQueue ==
    ASSUME Types, HeapInv, NEW th \in Threads, OnlyMoves(th), UNCHANGED heap,
           cur[th] \in Heap, cur'[th] \notin Heap, AddNewMessage(cur[th]),
           ~Unlinking, ~Unlinking'
    PROVE  HeapInv'
  <1> SUFFICES ASSUME NEW m \in Heap PROVE HeapOK(m)'
    BY DEF HeapInv
  <1>0. \A n : ~FreedInQueue(n) /\ ~FreedInQueue(n)'
    BY DEF FreedInQueue, Unlinking
  <1>1. HeapOK(m) /\ HeapOK(cur[th])
    BY DEF HeapInv
  <1>2. \A u \in Threads : u # th => cur'[u] = cur[u]
    BY DEF OnlyMoves
  <1>3. /\ ToSet(waiting') = ToSet(waiting) \cup {cur[th]}
        /\ \A x : Once(waiting, x) /\ (x = cur[th] => cur[th] \notin ToSet(waiting)) =>
              Once(waiting', x)
    BY QueueSets DEF Ptr
  <1>4. CASE m = cur[th]
    <2>1. m \notin ToSet(waiting) /\ \A u \in Threads : cur'[u] # m
      BY <1>0, <1>1, <1>2, <1>4 DEF HeapOK
    <2> QED BY <1>0, <1>1, <1>3, <1>4, <2>1 DEF HeapOK
  <1>5. CASE m # cur[th]
    <2>1. \A u \in Threads : cur'[u] = m <=> cur[u] = m
      BY <1>2, <1>5
    <2> QED BY <1>0, <1>1, <1>3, <1>5, <2>1 DEF HeapOK
  <1> QED BY <1>4, <1>5

\* And from the queue to a receiver's.
LEMMA HeapTake ==
    ASSUME Types, HeapInv, NEW th \in Threads, OnlyMoves(th), UNCHANGED heap,
           Dequeue, cur[th] \notin Heap, cur'[th] = Head(waiting),
           ~Unlinking, ~Unlinking'
    PROVE  HeapInv'
  <1> SUFFICES ASSUME NEW m \in Heap PROVE HeapOK(m)'
    BY DEF HeapInv
  <1>0. \A n : ~FreedInQueue(n) /\ ~FreedInQueue(n)'
    BY DEF FreedInQueue, Unlinking
  <1>1. HeapOK(m)
    BY DEF HeapInv
  <1>2. \A u \in Threads : u # th => cur'[u] = cur[u]
    BY DEF OnlyMoves
  <1>3. /\ Head(waiting) \in ToSet(waiting)
        /\ \A x \in ToSet(waiting) : x # Head(waiting) => x \in ToSet(waiting')
        /\ ToSet(waiting') \subseteq ToSet(waiting)
        /\ Once(waiting, Head(waiting)) => Head(waiting) \notin ToSet(waiting')
        /\ \A x : Once(waiting, x) => Once(waiting', x)
    BY QueueSets
  <1>4. CASE m = Head(waiting)
    BY <1>0, <1>1, <1>2, <1>3, <1>4 DEF HeapOK
  <1>5. CASE m # Head(waiting)
    <2>1. \A u \in Threads : cur'[u] = m <=> cur[u] = m
      BY <1>1, <1>2, <1>5
    <2> QED BY <1>0, <1>1, <1>3, <1>5, <2>1 DEF HeapOK
  <1> QED BY <1>4, <1>5

\* qnx_channel_free: kfree of the first message ...
LEMMA HeapFreeFirst ==
    ASSUME Known, HeapInv, NEW th \in Threads, ChannelFreeMsg(th)
    PROVE  HeapInv'
  <1> SUFFICES ASSUME NEW m \in Heap PROVE HeapOK(m)'
    BY DEF HeapInv
  <1>1. HeapOK(m)
    BY DEF HeapInv
  <1>2. /\ waiting # <<>> /\ waiting' = waiting /\ heap' = heap \ {Head(waiting)}
        /\ UnlinksMessage(th)' /\ cur' = cur
    BY Moves DEF Known, ChannelFreeMsg, FreesChannel, UnlinksMessage, FreeFirst, CleanupAndFree,
       GotoRc, chanVars
  <1>3. ~Unlinking
    BY DEF ChannelFreeMsg, Known, ChannelEnd, FreeingChannel, Unlinking, FreesChannel,
       UnlinksMessage
  <1>4. FreedInQueue(m)' <=> m = Head(waiting)
    BY <1>2 DEF FreedInQueue
  <1>5. ~FreedInQueue(m)
    BY <1>3 DEF FreedInQueue, Unlinking
  <1>6. Head(waiting) \in ToSet(waiting)
    <2>1. waiting \in Seq(Ptr) /\ waiting # <<>>
      BY <1>2 DEF Known, Types, SharedOK, ChanTypeOK
    <2> HIDE <1>2
    <2> QED BY <2>1, HeadIn
  <1> QED BY <1>1, <1>2, <1>4, <1>5, <1>6 DEF HeapOK

\* ... and its list_del.
LEMMA HeapUnlinkFirst ==
    ASSUME Known, HeapInv, NEW th \in Threads, ChannelFreeDel(th)
    PROVE  HeapInv'
  <1> SUFFICES ASSUME NEW m \in Heap PROVE HeapOK(m)'
    BY DEF HeapInv
  <1>1. HeapOK(m)
    BY DEF HeapInv
  <1>2. /\ waiting # <<>> /\ waiting' = Tail(waiting) /\ heap' = heap
        /\ UnlinksMessage(th) /\ cur' = cur
        /\ OnlyMoves(th) /\ ~UnlinksMessage(th)'
    BY Moves DEF Known, ChannelFreeDel, UnlinksMessage, UnlinkFirst, GotoRc, msgVars
  <1>3. ~Unlinking'
    BY <1>2 DEF Known, ChannelEnd, FreeingChannel, Unlinking, UnlinksMessage, OnlyMoves
  <1>4. ~FreedInQueue(m)'
    BY <1>3 DEF FreedInQueue, Unlinking
  <1>5. FreedInQueue(m) <=> m = Head(waiting)
    BY <1>2 DEF FreedInQueue
  <1>6. waiting \in Seq(Ptr)
    BY DEF Known, Types, SharedOK, ChanTypeOK
  <1>7. /\ waiting' \in Seq(Ptr) /\ Drops(waiting, waiting', 1)
        /\ 1 \in 1..Len(waiting) /\ waiting[1] = Head(waiting)
    BY <1>2, <1>6, TailDrops
  <1>8. /\ ToSet(waiting') \subseteq ToSet(waiting)
        /\ \A x \in ToSet(waiting) : x # Head(waiting) => x \in ToSet(waiting')
        /\ Head(waiting) \in ToSet(waiting)
        /\ Once(waiting, Head(waiting)) => ToSet(waiting') = ToSet(waiting) \ {Head(waiting)}
        /\ \A x : Once(waiting, x) => Once(waiting', x)
    BY <1>6, <1>7, DropsSet
  <1>9. CASE m = Head(waiting)
    BY <1>1, <1>2, <1>4, <1>5, <1>8, <1>9 DEF HeapOK
  <1>10. CASE m # Head(waiting)
    BY <1>1, <1>2, <1>4, <1>5, <1>8, <1>10 DEF HeapOK
  <1> QED BY <1>9, <1>10

\* Steps that do not touch the queue, its messages' memory or its counters.
LEMMA QuietSteps ==
    /\ \A t : MsgSend(t) \/ MsgSendBadf(t) \/ MsgSendvInitFails(t) \/ NoReplyRetry(t)
              \/ SetInterruptible(t) \/ WakeUp(t) \/ Expire(t) \/ Interrupted(t)
              \/ SpinReceiving(t) \/ FindProcess(t) \/ Grab(t) \/ SpinFinished(t) =>
          UNCHANGED <<heap, waiting, num_waiting_noreply>>
    /\ \A s : MsgReceive(s) \/ WaitEvent(s) \/ WaitInterrupted(s) \/ CopyMsg(s)
              \/ ReceiveAddPending(s) \/ (\E k : \E a \in Given : MsgAnswer(s, k, a))
              \/ Finish(s) \/ Wake(s) \/ ChannelDestroy(s) \/ Close(s) =>
          UNCHANGED <<heap, waiting, num_waiting_noreply>>
    /\ \A th : Put(th) \/ FreeChannels(th) \/ ChannelFreed(th)
               \/ EntryPut(th) \/ FreeDel(th) \/ FreeDone(th) =>
          UNCHANGED <<heap, waiting, num_waiting_noreply>>
  BY DEF MsgSend, InitMsg, ChannelGet, MsgSendBadf, MsgSendvInitFails, NoReplyRetry,
         SetInterruptible, WakeUp, Expire, Interrupted, SpinReceiving, FindProcess, Grab,
         SpinFinished, MsgReceive, WaitEvent, WaitInterrupted, CopyMsg, ReceiveAddPending,
         AddPending, MsgAnswer, Finish, StoreAnswer, Wake, WakeUpProcess, ChannelDestroy,
         UnlinkChannel, ChannelRelease, Close, Put, FreeChannels, ChannelFreed, EntryPut, FreeDel,
         FreeDone, msgVars, chanVars

\* FreePending disposes of blocking messages only.
LEMMA FreePendingQuiet ==
    ASSUME Types, NEW th, FreePending(th)
    PROVE  UNCHANGED <<heap, waiting, num_waiting_noreply>>
  BY MessagesAssumption DEF FreePending, CleanupAndFree, chanVars, Types, SharedOK, MsgTypeOK

\* The clients' steps keep track of the kmalloc'ed messages.
LEMMA ClientHeap ==
    ASSUME Known, HeapInv, NEW t \in Clients, SendSteps(t) \/ BlockSteps(t)
    PROVE  HeapInv'
  <1> USE DEF Known
  <1>1. /\ t \in Threads /\ NULL \notin Heap /\ t \notin Heap /\ t \in Ptr
        /\ cur[t] # NULL => pc[t] \in PointerPC(t)
        /\ pc[t] \in {"pulse_add", "noreply_add", "noreply_sleep"} => cur[t] \in Heap
    BY ThreadSets, MsgPassingAssumption, MessagesAssumption
       DEF Base, PointersOK, Types, ThreadsOK, Ptr
  <1> HIDE DEF Known
  <1>10. /\ Unlinking' <=> Unlinking
         /\ ~MsgSendBadf(t) => ~Unlinking /\ ~Unlinking'
    <2>1. OnlyMoves(t) /\ ~FreeingChannel(t) /\ ~FreeingChannel(t)'
      BY <1>1, HandlerPC DEF Known
    <2>2. Unlinking' <=> Unlinking
      BY <1>1, <2>1, SameUnlinking DEF FreeingChannel
    <2>3. ~MsgSendBadf(t) => HoldsChannel(t) \/ chanListed
      BY DEF SendSteps, BlockSteps, MsgSend, MsgSendvInitFails, MsgSendPulse, PulseAdd,
         MsgSendNoReply, NoReplyAdd, NoReplyRetry, NoReplyInterrupted, SetInterruptible, Enqueue,
         WakeUp, Expire, Interrupted, RemoveWaiting, SpinReceiving, FindProcess, Grab,
         SpinFinished, ChannelFound, HoldsChannel
    <2> QED BY <1>1, <2>1, <2>2, <2>3, NotUnlinking
  <1>2. CASE MsgSendBadf(t) \/ MsgSendvInitFails(t) \/ MsgSend(t) \/ NoReplyRetry(t)
             \/ SetInterruptible(t) \/ WakeUp(t) \/ Expire(t) \/ Interrupted(t) \/ SpinReceiving(t) \/ FindProcess(t) \/ Grab(t)
             \/ SpinFinished(t)
    <2>1. UNCHANGED <<heap, waiting>>
      BY <1>2, QuietSteps
    <2>2. OnlyMoves(t) /\ cur'[t] = cur[t]
      BY <1>1, <1>2, Moves DEF Known, MsgSendBadf, MsgSendvInitFails, MsgSend, NoReplyRetry,
         SetInterruptible, WakeUp, Expire, Interrupted, SpinReceiving, FindProcess, Grab, SpinFinished
    <2> QED BY <1>1, <1>10, <2>1, <2>2, HeapKeep
  <1>3. CASE MsgSendPulse(t)
    <2>1. PICK m \in Heap : InitPulse(m) /\ GotoCur(t, "pulse_add", m, "0")
      BY <1>3 DEF MsgSendPulse
    <2>2. OnlyMoves(t) /\ cur'[t] = m /\ cur[t] = NULL
      BY <1>1, <1>3, <2>1, Moves DEF Known, MsgSendPulse, PointerPC
    <2>3. ~Unlinking /\ ~Unlinking'
      BY <1>3, <1>10 DEF MsgSendPulse, MsgSendBadf
    <2> QED BY <1>1, <1>3, <2>1, <2>2, <2>3, HeapAllocate DEF MsgSendPulse, InitPulse, ChannelGet
  <1>4. CASE MsgSendNoReply(t)
    <2>1. PICK m \in Heap : InitNoReply(m) /\ GotoCur(t, "noreply_add", m, "0")
      BY <1>4 DEF MsgSendNoReply
    <2>2. OnlyMoves(t) /\ cur'[t] = m /\ cur[t] = NULL
      BY <1>1, <1>4, <2>1, Moves DEF Known, MsgSendNoReply, PointerPC
    <2>3. ~Unlinking /\ ~Unlinking'
      BY <1>4, <1>10 DEF MsgSendNoReply, MsgSendBadf
    <2> QED BY <1>1, <1>4, <2>1, <2>2, <2>3, HeapAllocate DEF MsgSendNoReply, InitNoReply, ChannelGet
  <1>5. CASE PulseAdd(t)
    <2>1. OnlyMoves(t) /\ cur'[t] = NULL /\ cur[t] \in Heap
      BY <1>1, <1>5, Moves DEF Known, PulseAdd
    <2>2. ~Unlinking /\ ~Unlinking'
      BY <1>5, <1>10 DEF PulseAdd, MsgSendBadf
    <2> QED BY <1>1, <1>5, <2>1, <2>2, HeapQueue DEF Known, PulseAdd, msgVars
  <1>6. CASE NoReplyAdd(t)
    <2>0. ~Unlinking /\ ~Unlinking'
      BY <1>6, <1>10 DEF NoReplyAdd, MsgSendBadf
    <2>1. CASE AddNewMessage(cur[t]) /\ GotoCur(t, "put", NULL, "0")
      <3>1. OnlyMoves(t) /\ cur'[t] = NULL /\ cur[t] \in Heap
        BY <1>1, <1>6, <2>1, Moves DEF Known, NoReplyAdd
      <3> QED BY <1>1, <1>6, <2>0, <2>1, <3>1, HeapQueue DEF Known, NoReplyAdd, msgVars
    <2>2. CASE AddNewMessageFull(cur[t]) /\ GotoRc(t, "noreply_sleep", "0")
      <3>1. OnlyMoves(t) /\ cur'[t] = cur[t]
        BY <1>1, <2>2, Moves DEF Known
      <3> QED BY <1>1, <1>6, <2>0, <2>2, <3>1, HeapKeep DEF NoReplyAdd, AddNewMessageFull, msgVars
    <2> QED BY <1>6, <2>1, <2>2 DEF NoReplyAdd
  <1>7. CASE NoReplyInterrupted(t)
    <2>1. OnlyMoves(t) /\ cur'[t] = NULL /\ cur[t] \in Heap
      BY <1>1, <1>7, Moves DEF Known, NoReplyInterrupted
    <2>2. ~Unlinking /\ ~Unlinking'
      BY <1>7, <1>10 DEF NoReplyInterrupted, MsgSendBadf
    <2> QED BY <1>1, <1>7, <2>1, <2>2, HeapFree DEF NoReplyInterrupted, chanVars
  <1>8. CASE Enqueue(t)
    <2>1. OnlyMoves(t) /\ cur'[t] = cur[t]
      BY <1>1, <1>8, Moves DEF Known, Enqueue
    <2>2. /\ ToSet(waiting') = ToSet(waiting) \cup {t}
          /\ \A x : Once(waiting, x) /\ (x = t => t \notin ToSet(waiting)) => Once(waiting', x)
      BY <1>1, <1>8, QueueSets DEF Known, Enqueue
    <2>3. UNCHANGED heap
      BY <1>8 DEF Enqueue, msgVars
    <2>4. ~Unlinking /\ ~Unlinking'
      BY <1>8, <1>10 DEF Enqueue, MsgSendBadf
    <2> QED BY <1>1, <2>1, <2>2, <2>3, <2>4, HeapKeep
  <1>9. CASE RemoveWaiting(t)
    <2>0. ~Unlinking /\ ~Unlinking'
      BY <1>9, <1>10 DEF RemoveWaiting, MsgSendBadf
    <2>1. OnlyMoves(t) /\ cur'[t] = cur[t] /\ UNCHANGED heap
      BY <1>1, <1>9, Moves DEF Known, RemoveWaiting, msgVars
    <2>2. CASE RemoveMessage(rcvid[t])
      <3>1. /\ \A x \in ToSet(waiting) : x # t => x \in ToSet(waiting')
            /\ ToSet(waiting') \subseteq ToSet(waiting)
            /\ \A x : Once(waiting, x) => Once(waiting', x)
        BY <1>9, <2>2, RemovesOwn DEF RemoveWaiting
      <3> QED BY <1>1, <2>0, <2>1, <3>1, HeapKeep
    <2>3. CASE UNCHANGED chanVars
      BY <1>1, <2>0, <2>1, <2>3, HeapKeep DEF chanVars
    <2> QED BY <1>9, <2>2, <2>3 DEF RemoveWaiting
  <1> QED BY <1>2, <1>3, <1>4, <1>5, <1>6, <1>7, <1>8, <1>9 DEF SendSteps, BlockSteps

\* So do the servers' steps.
LEMMA ServerHeap ==
    ASSUME Known, HeapInv, NEW s \in Servers, ReceiveSteps(s) \/ AnswerSteps(s)
    PROVE  HeapInv'
  <1>1. /\ s \in Threads /\ NULL \notin Heap
        /\ cur[s] # NULL => pc[s] \in PointerPC(s)
        /\ pc[s] \in {"add_pending", "fail", "fail_wake", "finish", "wake"} => cur[s] \notin Heap
        /\ \A m \in pending : m \notin Heap
    BY ThreadSets, MsgPassingAssumption, MessagesAssumption
       DEF Known, Base, PointersOK, Types, ThreadsOK, SharedOK, Ptr
  <1>7. CASE ChannelDestroy(s)
    <2>1. /\ OnlyMoves(s) /\ cur'[s] = cur[s]
          /\ ~UnlinksMessage(s) /\ ~UnlinksMessage(s)'
      BY <1>1, <1>7, Moves DEF Known, ChannelDestroy, UnlinksMessage
    <2> QED BY <1>1, <1>7, <2>1, QuietSteps, SameUnlinking, HeapKeep
  <1>8. ASSUME ~ChannelDestroy(s)
        PROVE  /\ Unlinking' <=> Unlinking
               /\ Take(s) \/ CopyPulse(s) \/ CopyNoReply(s) => ~Unlinking /\ ~Unlinking'
    <2>1. OnlyMoves(s) /\ ~FreeingChannel(s) /\ ~FreeingChannel(s)'
      BY <1>1, <1>8, HandlerPC DEF Known
    <2>2. Unlinking' <=> Unlinking
      BY <1>1, <2>1, SameUnlinking DEF FreeingChannel
    <2>3. Take(s) \/ CopyPulse(s) \/ CopyNoReply(s) => HoldsChannel(s)
      BY ThreadSets DEF Take, CopyPulse, CopyNoReply, HoldsChannel
    <2> QED BY <1>1, <2>1, <2>2, <2>3, NotUnlinking
  <1>2. CASE MsgReceive(s) \/ WaitEvent(s) \/ WaitInterrupted(s) \/ CopyMsg(s) \/ Finish(s) \/ Close(s)
    <2>1. UNCHANGED <<heap, waiting>>
      BY <1>2, QuietSteps
    <2>2. OnlyMoves(s) /\ cur'[s] = cur[s]
      BY <1>1, <1>2, Moves DEF Known, MsgReceive, WaitEvent, WaitInterrupted, CopyMsg, Finish, Close
    <2> QED BY <1>1, <1>7, <1>8, <2>1, <2>2, HeapKeep
  <1>3. CASE ReceiveAddPending(s) \/ Wake(s) \/ \E k : \E a \in Given : MsgAnswer(s, k, a)
    <2>1. UNCHANGED <<heap, waiting>>
      BY <1>3, QuietSteps
    <2>2. /\ OnlyMoves(s) /\ cur'[s] \in {NULL} \cup pending
          /\ pc[s] \in {"idle", "add_pending", "wake", "fail_wake"}
      BY <1>1, <1>3, Moves DEF Known, ReceiveAddPending, Wake, MsgAnswer, PendingWith
    <2>3. cur[s] \notin Heap /\ cur'[s] \notin Heap
      BY <1>1, <2>2, ThreadSets DEF PointerPC
    <2> QED BY <1>1, <1>7, <1>8, <2>1, <2>2, <2>3, HeapKeep
  <1>4. CASE Take(s) /\ ~ChannelDestroy(s)
    <2>0. ~Unlinking /\ ~Unlinking'
      BY <1>4, <1>8
    <2>1. cur[s] = NULL
      BY <1>1, <1>4, ThreadSets DEF Take, PointerPC
    <2>2. CASE GotoRc(s, "put", "ETIMEDOUT") /\ UNCHANGED <<chanVars, msgVars>>
      <3>1. OnlyMoves(s) /\ cur'[s] = cur[s]
        BY <1>1, <2>2, Moves DEF Known
      <3> QED BY <1>1, <2>0, <2>2, <3>1, HeapKeep DEF chanVars, msgVars
    <2>3. CASE Dequeue /\ GotoCur(s, "copy", Head(waiting), rc[s]) /\ UNCHANGED heap
      <3>1. OnlyMoves(s) /\ cur'[s] = Head(waiting)
        BY <1>1, <2>3, Moves DEF Known
      <3> QED BY <1>1, <2>0, <2>1, <2>3, <3>1, HeapTake DEF Known
    <2> QED BY <1>4, <2>2, <2>3 DEF Take
  <1>5. CASE (CopyPulse(s) \/ CopyNoReply(s)) /\ ~ChannelDestroy(s)
    <2>1. cur[s] \in Heap
      BY <1>5 DEF CopyPulse, CopyNoReply, IsNoReply, HasTask, Known, Types, ThreadsOK, Ptr
    <2>2. OnlyMoves(s) /\ cur'[s] = NULL
      BY <1>1, <1>5, Moves DEF Known, CopyPulse, CopyNoReply
    <2>3. heap' = heap \ {cur[s]} /\ UNCHANGED waiting
      BY <1>5 DEF CopyPulse, CopyNoReply, chanVars
    <2> QED BY <1>1, <1>5, <1>8, <2>1, <2>2, <2>3, HeapFree
  <1> QED BY <1>2, <1>3, <1>4, <1>5, <1>7 DEF ReceiveSteps, AnswerSteps

\* And returning and disposing of the entry.
LEMMA FreeHeap ==
    ASSUME Known, HeapInv, NEW th \in Threads, ReleaseAndFree(th)
    PROVE  HeapInv'
  <1>1. /\ NULL \notin Heap
        /\ cur[th] # NULL => pc[th] \in PointerPC(th)
        /\ pc[th] = "free_del" => cur[th] \notin Heap
        /\ \A m \in pending : m \notin Heap
    BY ThreadSets, MsgPassingAssumption, MessagesAssumption
       DEF Known, Base, PointersOK, Types, SharedOK, Ptr
  <1>2. CASE EntryPut(th) \/ FreeDone(th) \/ FreeChannels(th) \/ ChannelFreed(th)
    <2>1. /\ OnlyMoves(th) /\ cur'[th] = cur[th]
          /\ ~UnlinksMessage(th) /\ ~UnlinksMessage(th)'
      BY <1>2, Moves DEF Known, EntryPut, AfterFree, FreeDone, FreeChannels, ChannelFreed,
         FreesChannel, UnlinksMessage
    <2> QED BY <1>2, <2>1, QuietSteps, SameUnlinking, HeapKeep
  <1>3. CASE FreePending(th) \/ FreeDel(th)
    <2>1. /\ OnlyMoves(th) /\ cur'[th] \in {NULL} \cup pending
          /\ pc[th] \in {"free_pending", "free_del"}
          /\ ~UnlinksMessage(th) /\ ~UnlinksMessage(th)'
      <3>1. CASE FreePending(th)
        BY <3>1, Moves DEF Known, FreePending, UnlinksMessage
      <3>2. CASE FreeDel(th)
        BY <3>2, Moves DEF Known, FreeDel, UnlinksMessage
      <3> QED BY <1>3, <3>1, <3>2
    <2>2. cur[th] \notin Heap /\ cur'[th] \notin Heap
      BY <1>1, <2>1 DEF PointerPC
    <2>3. UNCHANGED <<heap, waiting>>
      BY <1>3, FreePendingQuiet, QuietSteps DEF Known
    <2> QED BY <2>1, <2>2, <2>3, SameUnlinking, HeapKeep
  <1>4. CASE Put(th)
    <2>1. /\ OnlyMoves(th) /\ cur'[th] = NULL /\ pc[th] \in {"out", "put"}
          /\ ~UnlinksMessage(th) /\ ~UnlinksMessage(th)'
      BY <1>4, Moves DEF Known, Put, UnlinksMessage
    <2>2. cur[th] \notin Heap
      BY <1>1, <2>1 DEF PointerPC
    <2> QED BY <1>1, <1>4, <2>1, <2>2, QuietSteps, SameUnlinking, HeapKeep
  <1> QED BY <1>2, <1>3, <1>4, HeapFreeFirst, HeapUnlinkFirst DEF ReleaseAndFree

\* Every kmalloc'ed message stays in one pair of hands.
LEMMA HeapInvariant == Spec => []HeapInv
  <1>1. Init => HeapInv
    <2> SUFFICES ASSUME Init PROVE HeapInv
      OBVIOUS
    <2>1. /\ waiting = <<>> /\ heap = {}
          /\ \A th \in Threads : cur[th] = NULL
      BY DEF Init, MsgInit, ChanInit
    <2>2. NULL \notin Heap
      BY MsgPassingAssumption DEF Ptr
    <2> QED BY <2>1, <2>2, EmptyList DEF HeapInv, HeapOK, FreedInQueue
  <1>2. Known /\ HeapInv /\ [Next]_vars => HeapInv'
    <2> SUFFICES ASSUME Known, HeapInv, [Next]_vars PROVE HeapInv'
      OBVIOUS
    <2>1. CASE Next
      BY <2>1, NextSteps, ClientHeap, ServerHeap, FreeHeap
    <2>2. CASE UNCHANGED vars
      BY <2>2 DEF vars, msgVars, chanVars, threadVars, HeapInv, HeapOK, FreedInQueue,
                  UnlinksMessage
    <2> QED BY <2>1, <2>2
  <1> QED BY <1>1, <1>2, KnownInvariant, PTL DEF Spec

\* Every kmalloc'ed message has one owner until it is freed: it is freed once, by
\* its receiver, by its interrupted sender or with its channel, and not used then
\* except by the list_del of qnx_channel_free (channel.c line 53).
THEOREM MsgPassingHeapOwnership == Spec => []HeapOwnership
  <1>1. Types /\ HeapInv => HeapOwnership
    <2> SUFFICES ASSUME Types, HeapInv, NEW m \in Heap
                 PROVE  Owners(m) = IF m \in heap \/ FreedInQueue(m) THEN 1 ELSE 0
      BY DEF HeapOwnership
    <2> DEFINE Q == {i \in DOMAIN waiting : waiting[i] = m}
               H == {th \in Threads : cur[th] = m}
    <2>1. HeapOK(m)
      BY DEF HeapInv
    <2>2. Owners(m) = Cardinality(Q) + Cardinality(H)
      BY DEF Owners
    <2>3. Cardinality(Q) = IF m \in ToSet(waiting) THEN 1 ELSE 0
      <3>1. \A i, j \in Q : i = j
        BY <2>1 DEF HeapOK, Once
      <3>2. Q = {} <=> m \notin ToSet(waiting)
        BY DEF ToSet
      <3> HIDE DEF Q
      <3> QED BY <3>1, <3>2, AtMostOne
    <2>4. Cardinality(H) = IF \E th \in Threads : cur[th] = m THEN 1 ELSE 0
      <3>1. \A th, u \in H : th = u
        BY <2>1 DEF HeapOK
      <3>2. H = {} <=> ~\E th \in Threads : cur[th] = m
        OBVIOUS
      <3> HIDE DEF H
      <3> QED BY <3>1, <3>2, AtMostOne
    <2> HIDE DEF Q, H
    <2> QED BY <2>1, <2>2, <2>3, <2>4 DEF HeapOK
  <1> QED BY <1>1, TypesInvariant, HeapInvariant, PTL

-------------------------------------------------------------------------------
(* The limit on no-reply messages.                                         *)

\* The messages that count against noreply_per_channel.
NoReplies == {m \in Ptr : IsNoReply(m)}

NoReplyInv ==
    chanRefs > 0 =>
       /\ num_waiting_noreply = Cardinality(PositionsIn(waiting, NoReplies))
       /\ num_waiting_noreply <= MaxNoReply

\* A step that does not touch the queue: only objects outside it get a new id.
LEMMA NoReplyKeep ==
    ASSUME Types, NoReplyInv, UNCHANGED <<waiting, num_waiting_noreply>>,
           chanRefs' > 0 => chanRefs > 0,
           \A m \in ToSet(waiting) : m \notin Clients => rcvid'[m] = rcvid[m]
    PROVE  NoReplyInv'
  <1>1. \A i \in DOMAIN waiting : waiting[i] \in Ptr /\ waiting[i] \in ToSet(waiting)
    BY LenProperties, ElementOfSeq DEF Types, SharedOK, ChanTypeOK, ToSet
  <1>2. \A i \in DOMAIN waiting : waiting[i] \in NoReplies' <=> waiting[i] \in NoReplies
    BY <1>1 DEF NoReplies, IsNoReply, HasTask
  <1>3. PositionsIn(waiting', NoReplies') = PositionsIn(waiting, NoReplies)
    BY <1>2 DEF PositionsIn
  <1> QED BY <1>3 DEF NoReplyInv

\* Queueing a message respects the limit.
LEMMA NoReplyQueue ==
    ASSUME Types, NoReplyInv, NEW m \in Ptr, AddNewMessage(m), UNCHANGED rcvid
    PROVE  NoReplyInv'
  <1>1. waiting \in Seq(Ptr) /\ num_waiting_noreply \in Int /\ MaxNoReply \in Nat
    BY ChannelAssumption DEF Types, SharedOK, ChanTypeOK
  <1>2. NoReplies' = NoReplies /\ (m \in NoReplies <=> IsNoReply(m))
    BY DEF NoReplies, IsNoReply
  <1>3. /\ Cardinality(PositionsIn(waiting, NoReplies)) \in Nat
        /\ Cardinality(PositionsIn(waiting', NoReplies)) =
              Cardinality(PositionsIn(waiting, NoReplies)) + (IF m \in NoReplies THEN 1 ELSE 0)
    BY <1>1, AppendCount DEF AddNewMessage
  <1> QED BY <1>1, <1>2, <1>3 DEF NoReplyInv, AddNewMessage

\* Receiving one counts down, withdrawing a blocking one does not.
LEMMA NoReplyTake ==
    ASSUME Types, NoReplyInv, UNCHANGED <<rcvid, chanRefs>>, NEW i \in 1..Len(waiting),
           waiting' \in Seq(Ptr), Drops(waiting, waiting', i),
           num_waiting_noreply' =
              num_waiting_noreply - (IF IsNoReply(waiting[i]) THEN 1 ELSE 0)
    PROVE  NoReplyInv'
  <1>1. waiting \in Seq(Ptr) /\ num_waiting_noreply \in Int /\ MaxNoReply \in Nat
    BY ChannelAssumption DEF Types, SharedOK, ChanTypeOK
  <1>2. waiting[i] \in Ptr
    BY <1>1, ElementOfSeq
  <1>3. NoReplies' = NoReplies /\ (waiting[i] \in NoReplies <=> IsNoReply(waiting[i]))
    BY <1>2 DEF NoReplies, IsNoReply
  <1>4. /\ Cardinality(PositionsIn(waiting, NoReplies)) \in Nat
        /\ Cardinality(PositionsIn(waiting', NoReplies)) =
              Cardinality(PositionsIn(waiting, NoReplies))
                - (IF waiting[i] \in NoReplies THEN 1 ELSE 0)
    BY <1>1, DropsCount
  <1> QED BY <1>1, <1>3, <1>4 DEF NoReplyInv

\* Releasing the channel.
LEMMA NoReplyRelease ==
    ASSUME Types, NoReplyInv, ChannelRelease
    PROVE  NoReplyInv'
  <1>1. UNCHANGED <<waiting, num_waiting_noreply, rcvid>> /\ chanRefs' = chanRefs - 1
    BY DEF ChannelRelease, msgVars
  <1>2. chanRefs \in Int
    BY DEF Types, SharedOK, ChanTypeOK
  <1> QED BY <1>1, <1>2, NoReplyKeep

\* The steps that construct messages: new ids only for objects outside the queue.
LEMMA ConstructsOutside ==
    ASSUME Known, HeapInv, NEW t \in Clients, SendSteps(t)
    PROVE  \A m \in ToSet(waiting) : m \notin Clients => rcvid'[m] = rcvid[m]
  <1>1. \A m \in ToSet(waiting) : m \notin Clients => m \in Ptr
    BY LenProperties, ElementOfSeq DEF Known, Types, SharedOK, ChanTypeOK, ToSet
  <1>7. ASSUME chanListed
        PROVE  \A m \in ToSet(waiting) : m \notin Clients => m \in Heap /\ m \in heap /\ m \in Ptr
    <2>1. \A th \in Threads : ~UnlinksMessage(th)
      BY <1>7, ChannelUsed DEF Known, ChannelEnd, FreeingChannel
    <2> QED BY <1>1, <2>1 DEF HeapInv, HeapOK, FreedInQueue, Ptr
  <1>2. rcvid \in [Ptr -> 0..MaxRcvid]
    BY DEF Known, Types, SharedOK, MsgTypeOK
  <1>3. CASE MsgSend(t)
    BY <1>1, <1>2, <1>3, ThreadSets DEF MsgSend, InitMsg, GetNewRcvid
  <1>4. CASE MsgSendPulse(t)
    BY <1>2, <1>4, <1>7 DEF MsgSendPulse, InitPulse, ChannelFound
  <1>5. CASE MsgSendNoReply(t)
    BY <1>2, <1>5, <1>7 DEF MsgSendNoReply, InitNoReply, GetNewRcvid, ChannelFound
  <1>6. CASE UNCHANGED rcvid
    BY <1>6
  <1> QED BY <1>3, <1>4, <1>5, <1>6 DEF SendSteps, MsgSendBadf, MsgSendvInitFails, PulseAdd,
          NoReplyAdd, NoReplyRetry, NoReplyInterrupted, msgVars

\* The clients' steps keep the count of no-reply messages.
LEMMA ClientNoReply ==
    ASSUME Known, HeapInv, NoReplyInv, NEW t \in Clients, SendSteps(t) \/ BlockSteps(t)
    PROVE  NoReplyInv'
  <1>1. Types /\ t \in Ptr
    BY ThreadSets DEF Known
  <1>2. CASE Enqueue(t)
    BY <1>1, <1>2, NoReplyQueue DEF Enqueue, msgVars
  <1>3. CASE PulseAdd(t)
    BY <1>1, <1>3, NoReplyQueue DEF PulseAdd, msgVars, Types, ThreadsOK, Ptr
  <1>4. CASE NoReplyAdd(t)
    <2>1. CASE AddNewMessage(cur[t])
      BY <1>1, <1>4, <2>1, NoReplyQueue DEF NoReplyAdd, msgVars, Types, ThreadsOK, Ptr
    <2>2. CASE AddNewMessageFull(cur[t])
      BY <1>1, <1>4, <2>2, NoReplyKeep DEF NoReplyAdd, msgVars, AddNewMessageFull
    <2> QED BY <1>4, <2>1, <2>2 DEF NoReplyAdd
  <1>5. CASE RemoveWaiting(t)
    <2>1. CASE RemoveMessage(rcvid[t])
      <3>1. PICK i \in 1..Len(waiting) : waiting[i] = t /\ Drops(waiting, waiting', i)
        BY <1>5, <2>1, RemovesOwn DEF RemoveWaiting
      <3>2. waiting' \in Seq(Ptr)
        BY <1>1, <2>1, QueueTypes DEF Types, SharedOK, ChanTypeOK
      <3>3. UNCHANGED <<rcvid, chanRefs, num_waiting_noreply>> /\ num_waiting_noreply \in Int
        BY <1>1, <1>5, <2>1 DEF RemoveWaiting, RemoveMessage, msgVars, Types, SharedOK, ChanTypeOK
      <3>4. ~IsNoReply(waiting[i])
        BY <3>1 DEF IsNoReply, HasTask
      <3> QED BY <1>1, <3>1, <3>2, <3>3, <3>4, NoReplyTake
    <2>2. CASE UNCHANGED chanVars
      BY <1>1, <1>5, <2>2, NoReplyKeep DEF RemoveWaiting, chanVars, msgVars
    <2> QED BY <1>5, <2>1, <2>2 DEF RemoveWaiting
  <1>6. CASE MsgSend(t) \/ MsgSendBadf(t) \/ MsgSendvInitFails(t) \/ MsgSendPulse(t)
             \/ MsgSendNoReply(t) \/ NoReplyRetry(t) \/ NoReplyInterrupted(t)
    <2>1. UNCHANGED <<waiting, num_waiting_noreply>>
      BY <1>6 DEF MsgSend, MsgSendBadf, MsgSendvInitFails, MsgSendPulse, MsgSendNoReply,
         NoReplyRetry, NoReplyInterrupted, ChannelGet, chanVars
    <2>2. chanRefs' > 0 => chanRefs > 0
      BY <1>6, ChannelUsed DEF Known, MsgSend, MsgSendBadf, MsgSendvInitFails, MsgSendPulse,
         MsgSendNoReply, NoReplyRetry, NoReplyInterrupted, ChannelGet, ChannelFound, chanVars
    <2>3. \A m \in ToSet(waiting) : m \notin Clients => rcvid'[m] = rcvid[m]
      BY <1>6, ConstructsOutside DEF SendSteps
    <2> QED BY <1>1, <2>1, <2>2, <2>3, NoReplyKeep
  <1>7. CASE SetInterruptible(t) \/ WakeUp(t) \/ Expire(t) \/ Interrupted(t) \/ SpinReceiving(t)
             \/ FindProcess(t) \/ Grab(t) \/ SpinFinished(t)
    <2>1. UNCHANGED <<waiting, num_waiting_noreply, chanRefs, rcvid>>
      BY <1>7 DEF SetInterruptible, WakeUp, Expire, Interrupted, SpinReceiving, FindProcess, Grab, SpinFinished,
         msgVars, chanVars
    <2> QED BY <1>1, <2>1, NoReplyKeep
  <1> QED BY <1>2, <1>3, <1>4, <1>5, <1>6, <1>7 DEF SendSteps, BlockSteps

\* So do the servers'.
LEMMA ServerNoReply ==
    ASSUME Known, NoReplyInv, NEW s \in Servers, ReceiveSteps(s) \/ AnswerSteps(s)
    PROVE  NoReplyInv'
  <1>1. Types
    BY DEF Known
  <1>2. CASE MsgReceive(s)
    <2>1. chanRefs > 0
      BY <1>2, ChannelUsed DEF Known, MsgReceive, ChannelFound
    <2> QED BY <1>1, <1>2, <2>1, NoReplyKeep DEF MsgReceive, ChannelGet, msgVars
  <1>3. CASE Take(s)
    <2>1. CASE UNCHANGED <<chanVars, msgVars>>
      BY <1>1, <2>1, NoReplyKeep DEF chanVars, msgVars
    <2>2. CASE Dequeue /\ UNCHANGED rcvid
      <3>1. waiting \in Seq(Ptr) /\ waiting # <<>> /\ waiting' = Tail(waiting)
        BY <1>1, <2>2 DEF Types, SharedOK, ChanTypeOK, Dequeue
      <3>2. /\ waiting' \in Seq(Ptr) /\ Drops(waiting, waiting', 1)
            /\ 1 \in 1..Len(waiting) /\ waiting[1] = Head(waiting)
        BY <3>1, TailDrops
      <3>3. /\ num_waiting_noreply' =
                  num_waiting_noreply - (IF IsNoReply(waiting[1]) THEN 1 ELSE 0)
            /\ UNCHANGED chanRefs
        BY <2>2, <3>2 DEF Dequeue
      <3> QED BY <1>1, <2>2, <3>2, <3>3, NoReplyTake
    <2> QED BY <1>3, <2>1, <2>2 DEF Take
  <1>4. CASE ChannelDestroy(s)
    BY <1>1, <1>4, NoReplyRelease DEF ChannelDestroy, UnlinkChannel
  <1>5. CASE WaitEvent(s) \/ WaitInterrupted(s) \/ CopyPulse(s) \/ CopyNoReply(s) \/ CopyMsg(s)
             \/ ReceiveAddPending(s) \/ Finish(s) \/ Wake(s) \/ Close(s)
             \/ \E k : \E a \in Given : MsgAnswer(s, k, a)
    <2>1. UNCHANGED <<waiting, num_waiting_noreply, chanRefs, rcvid>>
      BY <1>5 DEF WaitEvent, WaitInterrupted, CopyPulse, CopyNoReply, CopyMsg, ReceiveAddPending,
         AddPending, MsgAnswer, Finish, StoreAnswer, Wake, WakeUpProcess, Close, msgVars, chanVars
    <2> QED BY <1>1, <2>1, NoReplyKeep
  <1> QED BY <1>2, <1>3, <1>4, <1>5 DEF ReceiveSteps, AnswerSteps

\* And the ends of the handlers.
LEMMA FreeNoReply ==
    ASSUME Known, NoReplyInv, NEW th \in Threads, ReleaseAndFree(th)
    PROVE  NoReplyInv'
  <1>1. Types
    BY DEF Known
  <1>2. CASE ChannelRelease
    BY <1>1, <1>2, NoReplyRelease
  <1>3. CASE ChannelFreeDel(th)
    BY <1>3 DEF Known, ChannelEnd, FreeingChannel, ChannelFreeDel, UnlinkFirst, NoReplyInv
  <1>4. CASE ~ChannelRelease /\ ~ChannelFreeDel(th)
    <2>1. UNCHANGED <<waiting, num_waiting_noreply, chanRefs, rcvid>>
      BY <1>4 DEF ReleaseAndFree, Put, EntryPut, FreeChannels, UnlinkChannel, FreePending,
         CleanupAndFree, FreeDel, FreeDone, ChannelFreeMsg, FreeFirst, ChannelFreed, msgVars,
         chanVars
    <2> QED BY <1>1, <2>1, NoReplyKeep
  <1> QED BY <1>2, <1>3, <1>4

\* num_waiting_noreply counts the queued no-reply messages and stays within the
\* limit, however sends, rejections, retries, receives and the end of the channel
\* interleave.
THEOREM MsgPassingNoReplyAccounting == Spec => []NoReplyAccounting
  <1>1. Init => NoReplyInv
    <2> SUFFICES ASSUME Init PROVE NoReplyInv
      OBVIOUS
    <2>1. waiting = <<>> /\ num_waiting_noreply = 0
      BY DEF Init, ChanInit
    <2>2. PositionsIn(<<>>, NoReplies) = {} /\ Cardinality({}) = 0
      BY FS_EmptySet DEF PositionsIn
    <2> QED BY <2>1, <2>2, ChannelAssumption DEF NoReplyInv
  <1>2. Known /\ HeapInv /\ NoReplyInv /\ [Next]_vars => NoReplyInv'
    <2> SUFFICES ASSUME Known, HeapInv, NoReplyInv, [Next]_vars PROVE NoReplyInv'
      OBVIOUS
    <2>1. CASE Next
      BY <2>1, NextSteps, ClientNoReply, ServerNoReply, FreeNoReply
    <2>2. CASE UNCHANGED vars
      BY <2>2, NoReplyKeep DEF vars, msgVars, chanVars, Known
    <2> QED BY <2>1, <2>2
  <1>3. Types /\ NoReplyInv => NoReplyAccounting
    <2> SUFFICES ASSUME Types, NoReplyInv PROVE NoReplyAccounting
      OBVIOUS
    <2>1. \A i \in DOMAIN waiting : waiting[i] \in Ptr
      BY LenProperties, ElementOfSeq DEF Types, SharedOK, ChanTypeOK
    <2>2. PositionsIn(waiting, NoReplies) = {i \in DOMAIN waiting : IsNoReply(waiting[i])}
      BY <2>1 DEF PositionsIn, NoReplies
    <2> QED BY <2>2 DEF NoReplyInv, NoReplyAccounting
  <1> QED BY <1>1, <1>2, <1>3, TypesInvariant, KnownInvariant, HeapInvariant, PTL DEF Spec

-------------------------------------------------------------------------------
(* Blocking messages, as long as no sender has left through one of the     *)
(* windows that set raced.                                                 *)

\* A queued message: its sender waits for it, and it is nowhere else.
QueuedOK(t) ==
    /\ Once(waiting, t)
    /\ t \in ToSet(waiting) =>
          /\ pc[t] \in {"blocked", "remove"}
          /\ state[t] = "INITIAL" /\ status[t] = "initial"
          /\ t \notin pending
          /\ \A th \in Threads : cur[th] # t

\* A pending message: received, not answered, in nobody's hands unless the entry
\* is being disposed of.
PendingOK(t) ==
    t \in pending =>
       /\ InBlock(t)
       /\ state[t] = "PENDING"
       /\ \A th \in Threads : cur[th] = t => pc[th] = "free_del"
       /\ status[t] = "initial" \/ UnlinkOutstanding(t)

\* A message in the hands of server thread s, and of no other.  While it is being
\* received its state keeps an interrupted sender in busy loop (1).
HeldOK(t) ==
    \A s \in Servers : cur[s] = t /\ pc[s] # "free_del" =>
       /\ InBlock(t)
       /\ pc[s] \in {"copy", "add_pending", "fail"} =>
             pc[t] \in {"blocked", "remove", "spin_receiving"} /\ state[t] = "RECEIVING"
       /\ pc[s] = "finish" => state[t] = "PENDING"
       /\ pc[s] \in {"wake", "fail_wake"} <=> status[t] # "initial"
       /\ \A r \in Servers : cur[r] = t => r = s

\* A message has a status once its sender has been woken or has lost it.
DoneOK(t) ==
    /\ UnlinkOutstanding(t) => status[t] # "initial"
    /\ pc[t] = "blocked" /\ woken[t] =>
          status[t] # "initial" /\ \A s \in Servers : cur[s] = t => pc[s] = "free_del"
    /\ InBlock(t) => \/ status[t] # "initial"
                     \/ t \in ToSet(waiting) \/ t \in pending
                     \/ \E s \in Servers : cur[s] = t

\* The status is what the server side made of the message, and what its sender
\* returns is that status or an interruption that came before it.
ResultOK(t) ==
    /\ pc[t] \in CallPC => status[t] = outcome[rcvid[t]]
    /\ pc[t] \in {"set_state", "enqueue"} => state[t] = "INITIAL" /\ status[t] = "initial"
    /\ pc[t] = "enqueue" => ~woken[t]
    /\ pc[t] = "spin_finished" => status[t] = "initial"
    /\ pc[t] \in ReturnPC =>
          /\ rc[t] \in Status => rc[t] = status[t] /\ rc[t] # "initial"
          /\ rc[t] \in Interrupts /\ entryListed => status[t] = "initial"

Life(t) == QueuedOK(t) /\ PendingOK(t) /\ HeldOK(t) /\ DoneOK(t) /\ ResultOK(t)

Lifecycle == \A t \in Clients : Life(t)

\* Nobody holds or lists the message of a sender that is not waiting for it.
LEMMA Nowhere ==
    ASSUME Known, NEW t \in Clients, Life(t), ~InBlock(t)
    PROVE  /\ t \notin ToSet(waiting) /\ t \notin pending
           /\ \A th \in Threads : cur[th] # t
  <1>1. t \notin ToSet(waiting) /\ t \notin pending
    BY DEF Life, QueuedOK, PendingOK, InBlock
  <1>2. ASSUME NEW th \in Threads, cur[th] = t PROVE FALSE
    <2>1. pc[th] # "free_del"
      BY <1>1, <1>2 DEF Known, Base, PointersOK
    <2>2. CASE th \in Servers
      BY <1>2, <2>1, <2>2 DEF Life, HeldOK
    <2>3. CASE th \in Clients
      BY <1>2, <2>1, <2>3, MessagesAssumption, MsgPassingAssumption
         DEF Known, Base, PointersOK, PointerPC, Types, ThreadsOK, Ptr
    <2> QED BY <2>2, <2>3 DEF Threads
  <1> QED BY <1>1, <1>2

\* A step of th that does not concern the message of t.
LEMMA LifeElsewhere ==
    ASSUME Known, NEW t \in Clients, Life(t), NEW th \in Threads, OnlyMoves(th),
           status'[t] = status[t], state'[t] = state[t], woken'[t] = woken[t],
           rcvid'[t] = rcvid[t],
           pc[t] \in CallPC => outcome'[rcvid[t]] = outcome[rcvid[t]],
           t \in pending' <=> t \in pending,
           t \in ToSet(waiting') <=> t \in ToSet(waiting),
           Once(waiting, t) => Once(waiting', t),
           ~entryListed => ~entryListed',
           cur[th] # t, cur'[th] # t,
           th = t => \/ ~InBlock(t) /\ pc'[t] \notin CallPC
                     \/ pc[t] \in ReturnPC /\ pc'[t] \in ReturnPC /\ rc'[t] = rc[t]
    PROVE  Life(t)'
  <1>1. \A u \in Threads : u # th => pc'[u] = pc[u] /\ cur'[u] = cur[u] /\ rc'[u] = rc[u]
    BY DEF OnlyMoves
  <1>2. \A u \in Threads : cur'[u] = t <=> cur[u] = t
    BY <1>1
  <1>3. \A u \in Threads : cur[u] = t => pc'[u] = pc[u]
    BY <1>1
  <1>4. UnlinkOutstanding(t)' <=> UnlinkOutstanding(t)
    BY <1>2, <1>3 DEF UnlinkOutstanding
  <1>5. CASE th # t
    <2>1. pc'[t] = pc[t] /\ rc'[t] = rc[t]
      BY <1>1, <1>5, ThreadSets
    <2>2. InBlock(t)' <=> InBlock(t)
      BY <2>1 DEF InBlock
    <2>3. QueuedOK(t)'
      BY <1>2, <2>1 DEF Life, QueuedOK
    <2>4. PendingOK(t)'
      BY <1>2, <1>3, <1>4, <2>2 DEF Life, PendingOK
    <2>5. HeldOK(t)'
      BY <1>2, <1>3, <2>1, <2>2, ThreadSets DEF Life, HeldOK
    <2>6. DoneOK(t)'
      BY <1>2, <1>3, <1>4, <2>1, <2>2, ThreadSets DEF Life, DoneOK
    <2>7. ResultOK(t)'
      BY <2>1 DEF Life, ResultOK, CallPC, ReturnPC
    <2> QED BY <2>3, <2>4, <2>5, <2>6, <2>7 DEF Life
  <1>6. CASE th = t
    <2>1. ~InBlock(t) /\ ~InBlock(t)'
      BY <1>6 DEF InBlock, CallPC, ReturnPC, FreeingPC
    <2>2. t \notin ToSet(waiting) /\ t \notin pending /\ \A u \in Threads : cur[u] # t
      BY <2>1, Nowhere
    <2>3. QueuedOK(t)'
      BY <2>2 DEF Life, QueuedOK
    <2>4. PendingOK(t)'
      BY <2>2 DEF PendingOK
    <2>5. HeldOK(t)'
      BY <1>2, <2>2, ThreadSets DEF HeldOK
    <2>6. DoneOK(t)'
      BY <1>4, <2>1, <2>2 DEF Life, DoneOK, UnlinkOutstanding, InBlock
    <2>7. ResultOK(t)'
      BY <1>6, ThreadSets DEF Life, ResultOK, CallPC, ReturnPC, FreeingPC
    <2> QED BY <2>3, <2>4, <2>5, <2>6, <2>7 DEF Life
  <1> QED BY <1>5, <1>6

\* A sender that is not, or no more, in handle_msgsend_internal_block, and whose
\* message is nowhere.
LEMMA LifeLeft ==
    ASSUME NEW t \in Clients, ~InBlock(t)', Once(waiting', t), t \notin ToSet(waiting'),
           t \notin pending', \A th \in Threads : cur'[th] # t, ResultOK(t)'
    PROVE  Life(t)'
  <1>1. QueuedOK(t)' /\ PendingOK(t)'
    BY DEF QueuedOK, PendingOK
  <1>2. HeldOK(t)'
    BY ThreadSets DEF HeldOK
  <1>3. DoneOK(t)'
    BY DEF DoneOK, UnlinkOutstanding, InBlock
  <1> QED BY <1>1, <1>2, <1>3 DEF Life

\* A sender that goes on within handle_msgsend_internal_block, not past a message
\* that is still queued or being received.
LEMMA LifeMoves ==
    ASSUME NEW t \in Clients, Life(t), OnlyMoves(t), cur'[t] = cur[t], cur[t] = NULL,
           UNCHANGED <<waiting, pending, status, state, woken, rcvid, outcome>>,
           InBlock(t), InBlock(t)', pc'[t] # "blocked",
           t \in ToSet(waiting) => pc'[t] = "remove",
           \A s \in Servers : cur[s] = t /\ pc[s] \in {"copy", "add_pending", "fail"} =>
              pc'[t] \in {"remove", "spin_receiving"}
    PROVE  Life(t)'
  <1>1. \A u \in Threads : cur'[u] = cur[u] /\ (u # t => pc'[u] = pc[u])
    BY DEF OnlyMoves
  <1>2. cur[t] # t /\ \A s \in Servers : s # t /\ s \in Threads
    BY ThreadSets, MsgPassingAssumption
  <1>3. UnlinkOutstanding(t)' <=> UnlinkOutstanding(t)
    BY <1>1, <1>2 DEF UnlinkOutstanding
  <1>4. QueuedOK(t)'
    BY <1>1 DEF Life, QueuedOK
  <1>5. PendingOK(t)'
    BY <1>1, <1>2, <1>3 DEF Life, PendingOK
  <1>6. HeldOK(t)'
    BY <1>1, <1>2 DEF Life, HeldOK
  <1>7. DoneOK(t)'
    BY <1>1, <1>2, <1>3 DEF Life, DoneOK
  <1>8. ResultOK(t)'
    <2>1. /\ pc[t] \in CallPC /\ pc'[t] \notin ReturnPC
          /\ pc'[t] \notin {"set_state", "enqueue", "spin_finished"}
      BY DEF InBlock, CallPC, ReturnPC, FreeingPC
    <2> QED BY <2>1 DEF Life, ResultOK
  <1> QED BY <1>4, <1>5, <1>6, <1>7, <1>8 DEF Life

\* Who can hold the message of a client.
LEMMA Holders ==
    ASSUME Known, NEW t \in Clients, NEW th \in Threads, cur[th] = t
    PROVE  \/ pc[th] = "free_del" /\ t \in pending /\ UnlinkOutstanding(t) /\ entryRefs = 0
           \/ /\ th \in Servers
              /\ pc[th] \in {"copy", "add_pending", "fail", "fail_wake", "finish", "wake"}
  <1>1. cur[th] # NULL
    BY ThreadSets, MsgPassingAssumption
  <1>2. /\ pc[th] \in PointerPC(th)
        /\ pc[th] = "free_del" => t \in pending /\ entryRefs = 0 /\ UnlinkOutstanding(t)
    BY <1>1 DEF Known, Base, PointersOK, EntryEnd, Freeing, FreeingPC, UnlinkOutstanding
  <1>3. CASE th \in Clients
    <2>1. pc[th] \in {"pulse_add", "noreply_add", "noreply_sleep"} => cur[th] \in Heap
      BY <1>3 DEF Known, Types, ThreadsOK
    <2>2. pc[th] = "free_del"
      BY <1>2, <1>3, <2>1, MessagesAssumption DEF PointerPC
    <2> QED BY <1>2, <2>2
  <1>4. CASE th \in Servers
    <2>1. pc[th] \in {"copy", "add_pending", "fail", "fail_wake", "finish", "wake", "free_del"}
      BY <1>2, <1>4, ThreadSets DEF PointerPC
    <2> QED BY <1>2, <1>4, <2>1
  <1> QED BY <1>3, <1>4 DEF Threads

\* What a step leaves alone of the message of t.
MessageKept(t) ==
    /\ status'[t] = status[t] /\ state'[t] = state[t] /\ woken'[t] = woken[t]
    /\ rcvid'[t] = rcvid[t]
    /\ t \in ToSet(waiting') <=> t \in ToSet(waiting)
    /\ Once(waiting, t) => Once(waiting', t)

\* Releasing the channel does not touch the message of a client ...
LEMMA LifeRelease ==
    ASSUME ChannelRelease
    PROVE  \A t \in Clients : MessageKept(t)
  BY DEF ChannelRelease, msgVars, MessageKept

\* ... nor does freeing it: whoever is queued holds a reference.
LEMMA LifeChannelFree ==
    ASSUME Known, Lifecycle, NEW th \in Threads, ChannelFreeMsg(th) \/ ChannelFreeDel(th)
    PROVE  \A t \in Clients : MessageKept(t)
  <1> SUFFICES ASSUME NEW t \in Clients PROVE MessageKept(t)
    OBVIOUS
  <1>1. chanRefs = 0
    BY DEF Known, ChannelEnd, FreeingChannel, ChannelFreeMsg, ChannelFreeDel
  <1>2. t \notin ToSet(waiting)
    <2> SUFFICES ASSUME t \in ToSet(waiting) PROVE FALSE
      OBVIOUS
    <2>1. pc[t] \in {"blocked", "remove"}
      BY DEF Lifecycle, Life, QueuedOK
    <2>2. t \in Threads /\ HoldsChannel(t)
      BY <2>1, ThreadSets DEF HoldsChannel
    <2> QED BY <1>1, <2>2, ChannelUsed DEF Known
  <1>3. waiting \in Seq(Ptr) /\ waiting # <<>>
    BY DEF Known, Types, SharedOK, ChanTypeOK, ChannelFreeMsg, ChannelFreeDel, FreeFirst,
       UnlinkFirst
  <1>4. Head(waiting) # t
    BY <1>2, <1>3, HeadIn
  <1>5. CASE ChannelFreeMsg(th)
    BY <1>4, <1>5 DEF ChannelFreeMsg, FreeFirst, CleanupAndFree, chanVars, MessageKept, Known,
       Types, SharedOK, MsgTypeOK
  <1>6. CASE ChannelFreeDel(th)
    <2>1. waiting' = Tail(waiting) /\ UNCHANGED <<status, state, woken, rcvid>>
      BY <1>6 DEF ChannelFreeDel, UnlinkFirst, msgVars
    <2>2. /\ Tail(waiting) \in Seq(Ptr) /\ Drops(waiting, Tail(waiting), 1)
          /\ 1 \in 1..Len(waiting)
      BY <1>3, TailDrops
    <2>3. ToSet(Tail(waiting)) \subseteq ToSet(waiting)
          /\ (Once(waiting, t) => Once(Tail(waiting), t))
      BY <1>3, <2>2, DropsSet
    <2> QED BY <1>2, <2>1, <2>3 DEF MessageKept
  <1> QED BY <1>5, <1>6

\* handle_msgsend_internal_block: the message of its own sender.
LEMMA BlockLife ==
    ASSUME Known, Lifecycle, NEW t \in Clients, BlockSteps(t), ~raced'
    PROVE  Lifecycle'
  <1>1. /\ Types /\ t \in Threads /\ t \in Ptr /\ Life(t)
        /\ OnlyMoves(t) /\ cur[t] = NULL /\ cur'[t] = NULL
        /\ UNCHANGED <<rcvid, status, state, outcome, entryListed>>
    <2>1. Types /\ t \in Threads /\ t \in Ptr /\ Life(t)
      BY ThreadSets DEF Known, Lifecycle
    <2>2. cur[t] = NULL
      BY <2>1 DEF Known, Base, PointersOK, PointerPC, BlockSteps, SetInterruptible, Enqueue, WakeUp,
         Expire, Interrupted, RemoveWaiting, SpinReceiving, FindProcess, Grab, SpinFinished
    <2>3. OnlyMoves(t) /\ cur'[t] = cur[t]
      BY <2>1, Moves DEF BlockSteps, SetInterruptible, Enqueue, WakeUp, Expire, Interrupted,
         RemoveWaiting, SpinReceiving, FindProcess, Grab, SpinFinished
    <2>4. UNCHANGED <<rcvid, status, state, outcome, entryListed>>
      BY DEF BlockSteps, SetInterruptible, Enqueue, WakeUp, Expire, Interrupted, RemoveWaiting,
         SpinReceiving,
         FindProcess, Grab, SpinFinished, EntryGet, ReleasePending, msgVars, entryVars, ghostVars
    <2> QED BY <2>1, <2>2, <2>3, <2>4
  <1>2. /\ \A u \in Threads : cur'[u] = cur[u] /\ (u # t => pc'[u] = pc[u])
        /\ NULL \notin Clients /\ t \notin Servers
        /\ pc[t] \in CallPC => status[t] = outcome[rcvid[t]]
    BY <1>1, MsgPassingAssumption, ThreadSets DEF OnlyMoves, Ptr, Life, ResultOK
  <1>3. ASSUME \A u \in Clients : u # t =>
                  /\ woken'[u] = woken[u]
                  /\ u \in pending' <=> u \in pending
                  /\ u \in ToSet(waiting') <=> u \in ToSet(waiting)
                  /\ Once(waiting, u) => Once(waiting', u),
               Life(t)'
        PROVE  Lifecycle'
    <2>1. ASSUME NEW u \in Clients, u # t PROVE Life(u)'
      BY <1>1, <1>2, <1>3, <2>1, LifeElsewhere DEF Lifecycle
    <2> QED BY <1>3, <2>1 DEF Lifecycle
  <1>0. CASE SetInterruptible(t)
    <2>1. /\ pc[t] = "set_state" /\ pc'[t] = "enqueue" /\ rc'[t] = rc[t]
          /\ woken' = [woken EXCEPT ![t] = FALSE] /\ UNCHANGED <<waiting, pending>>
      BY <1>0, <1>1, Moves DEF SetInterruptible, chanVars, entryVars
    <2>2. ~woken'[t] /\ \A u \in Clients : u # t => woken'[u] = woken[u]
      BY <2>1 DEF Known, Types, SharedOK, MsgTypeOK
    <2>3. t \notin ToSet(waiting) /\ t \notin pending /\ \A th \in Threads : cur[th] # t
      BY <1>1, <2>1, Nowhere DEF InBlock
    <2>4. ResultOK(t)'
      BY <1>1, <1>2, <2>1, <2>2 DEF Life, ResultOK, CallPC, ReturnPC, FreeingPC
    <2>5. Once(waiting, t)
      BY <1>1 DEF Life, QueuedOK
    <2>6. Life(t)'
      BY <1>2, <2>1, <2>3, <2>4, <2>5, LifeLeft DEF InBlock
    <2> QED BY <1>3, <2>1, <2>2, <2>6
  <1>4. CASE Enqueue(t)
    <2>1. /\ pc[t] = "enqueue" /\ pc'[t] = "blocked" /\ AddNewMessage(t)
          /\ UNCHANGED <<pending, woken>>
      BY <1>1, <1>4, Moves DEF Enqueue, msgVars, entryVars
    <2>2. /\ ToSet(waiting') = ToSet(waiting) \cup {t}
          /\ \A x : Once(waiting, x) /\ (x = t => t \notin ToSet(waiting)) => Once(waiting', x)
      BY <1>1, <2>1, QueueSets
    <2>3. ~woken'[t]
      BY <1>1, <2>1 DEF Life, ResultOK
    <2>4. t \notin ToSet(waiting) /\ t \notin pending /\ \A th \in Threads : cur[th] # t
      BY <1>1, <2>1, Nowhere DEF InBlock
    <2>5. status[t] = "initial" /\ state[t] = "INITIAL" /\ Once(waiting, t)
      BY <1>1, <2>1 DEF Life, ResultOK, QueuedOK
    <2>6. QueuedOK(t)' /\ PendingOK(t)' /\ HeldOK(t)' /\ DoneOK(t)'
      BY <1>1, <1>2, <2>1, <2>2, <2>3, <2>4, <2>5, ThreadSets
         DEF QueuedOK, PendingOK, HeldOK, DoneOK, UnlinkOutstanding
    <2>7. ResultOK(t)'
      BY <1>1, <1>2, <2>1 DEF ResultOK, CallPC, ReturnPC, FreeingPC
    <2> QED BY <1>3, <2>1, <2>2, <2>3, <2>6, <2>7 DEF Life
  <1>5. CASE WakeUp(t)
    <2>1. /\ pc[t] = "blocked" /\ pc'[t] = "out" /\ rc'[t] = status[t] /\ woken[t]
          /\ UNCHANGED <<waiting, pending, woken>> /\ ~UnlinkOutstanding(t)
      BY <1>1, <1>5, Moves DEF WakeUp, msgVars, chanVars, entryVars
    <2>2. status[t] # "initial" /\ \A s \in Servers : cur[s] = t => pc[s] = "free_del"
      BY <1>1, <2>1 DEF Life, DoneOK
    <2>3. t \notin ToSet(waiting) /\ t \notin pending /\ Once(waiting, t)
      BY <1>1, <2>1, <2>2 DEF Life, QueuedOK, PendingOK
    <2>4. \A th \in Threads : cur[th] # t
      BY <2>1, <2>2, Holders
    <2>5. ResultOK(t)'
      BY <1>1, <1>2, <2>1, <2>2 DEF ResultOK, CallPC, ReturnPC, FreeingPC, Interrupts, Types,
         SharedOK, MsgTypeOK, Status, Answer
    <2>6. Life(t)'
      BY <1>2, <2>1, <2>3, <2>4, <2>5, LifeLeft DEF InBlock
    <2> QED BY <1>3, <2>1, <2>6
  <1>6. CASE Expire(t) \/ Interrupted(t)
    <2>1. /\ pc[t] = "blocked" /\ pc'[t] = "remove"
          /\ UNCHANGED <<waiting, pending, woken>>
      BY <1>1, <1>6, Moves DEF Expire, Interrupted, msgVars, chanVars, entryVars
    <2>2. Life(t)'
      BY <1>1, <2>1, LifeMoves DEF InBlock
    <2> QED BY <1>3, <2>1, <2>2
  <1>7. CASE RemoveWaiting(t)
    <2>1. pc[t] = "remove" /\ UNCHANGED <<pending, woken>>
      BY <1>7 DEF RemoveWaiting, msgVars, entryVars
    <2>2. CASE RemoveMessage(rcvid[t]) /\ GotoRc(t, "out", rc[t])
      <3>1. /\ pc'[t] = "out" /\ rc'[t] = rc[t] /\ rc[t] \in Interrupts
        BY <1>1, <2>1, <2>2, Moves DEF Known, Base, CallsOK
      <3>2. /\ t \in ToSet(waiting)
            /\ \A x \in ToSet(waiting) : x # t => x \in ToSet(waiting')
            /\ ToSet(waiting') \subseteq ToSet(waiting)
            /\ Once(waiting, t) => t \notin ToSet(waiting')
            /\ \A x : Once(waiting, x) => Once(waiting', x)
        BY <2>1, <2>2, RemovesOwn
      <3>3. /\ status[t] = "initial" /\ t \notin pending /\ Once(waiting, t)
            /\ \A th \in Threads : cur[th] # t
        BY <1>1, <3>2 DEF Life, QueuedOK
      <3>4. ResultOK(t)'
        BY <1>1, <1>2, <2>1, <3>1, <3>3 DEF ResultOK, CallPC, ReturnPC, FreeingPC, Interrupts,
           Status, Answer
      <3>5. Life(t)'
        BY <1>2, <2>1, <3>1, <3>2, <3>3, <3>4, LifeLeft DEF InBlock
      <3> QED BY <1>3, <2>1, <3>2, <3>5
    <2>3. CASE PositionsOf(rcvid[t]) = {} /\ GotoRc(t, "spin_receiving", rc[t]) /\ UNCHANGED chanVars
      <3>1. pc'[t] = "spin_receiving" /\ UNCHANGED waiting /\ t \notin ToSet(waiting)
        BY <1>1, <2>1, <2>3, Moves, RemovesOwn DEF chanVars
      <3>2. Life(t)'
        BY <1>1, <2>1, <3>1, LifeMoves DEF InBlock
      <3> QED BY <1>3, <2>1, <3>1, <3>2
    <2> QED BY <1>7, <2>2, <2>3 DEF RemoveWaiting
  <1>8. CASE SpinReceiving(t)
    <2>1. /\ pc[t] = "spin_receiving" /\ pc'[t] = "find_process" /\ state[t] # "RECEIVING"
          /\ UNCHANGED <<waiting, pending, woken>>
      BY <1>1, <1>8, Moves DEF SpinReceiving, msgVars, chanVars, entryVars
    <2>2. t \notin ToSet(waiting)
      BY <1>1, <2>1 DEF Life, QueuedOK
    <2>3. \A s \in Servers : cur[s] = t => pc[s] \notin {"copy", "add_pending", "fail"}
      BY <1>1, <2>1 DEF Life, HeldOK
    <2>4. Life(t)'
      BY <1>1, <2>1, <2>2, <2>3, LifeMoves DEF InBlock
    <2> QED BY <1>3, <2>1, <2>4
  <1>9. CASE FindProcess(t)
    <2>0. pc[t] = "find_process" => rc[t] \in Interrupts
      BY DEF Known, Base, CallsOK
    <2>1. /\ pc[t] = "find_process" /\ UNCHANGED <<waiting, pending, woken>>
          /\ rc'[t] = rc[t] /\ rc[t] \in Interrupts
          /\ pc'[t] = "grab" \/ (pc'[t] = "out" /\ ~entryListed /\ t \notin pending)
      BY <1>1, <1>9, <2>0, Moves DEF FindProcess, EntryGet, msgVars, chanVars, entryVars
    <2>2. t \notin ToSet(waiting) /\ Once(waiting, t)
      BY <1>1, <2>1 DEF Life, QueuedOK
    <2>3. \A s \in Servers : cur[s] = t => pc[s] \notin {"copy", "add_pending", "fail"}
      BY <1>1, <2>1 DEF Life, HeldOK
    <2>4. CASE pc'[t] = "grab"
      <3>1. Life(t)'
        BY <1>1, <2>1, <2>2, <2>3, <2>4, LifeMoves DEF InBlock
      <3> QED BY <1>3, <2>1, <3>1
    <2>5. CASE pc'[t] = "out" /\ ~entryListed /\ t \notin pending
      <3>1. \A s \in Servers : pc[s] \in {"idle", "entry_put"} \cup FreeingPC
        BY <2>5 DEF Known, Base, EntryEnd
      <3>2. \A th \in Threads : cur[th] # t
        BY <2>5, <3>1, Holders DEF FreeingPC
      <3>3. ResultOK(t)'
        BY <1>1, <1>2, <2>1, <2>5 DEF ResultOK, CallPC, ReturnPC, FreeingPC, Interrupts, Status,
           Answer
      <3>4. Life(t)'
        BY <1>2, <2>1, <2>2, <2>5, <3>2, <3>3, LifeLeft DEF InBlock
      <3> QED BY <1>3, <2>1, <3>4
    <2> QED BY <2>1, <2>4, <2>5
  <1>10. CASE Grab(t)
    <2>1. pc[t] = "grab" /\ UNCHANGED <<waiting, woken>> /\ rc[t] \in Interrupts
      BY <1>10 DEF Grab, msgVars, chanVars, Known, Base, CallsOK
    <2>2. t \notin ToSet(waiting) /\ Once(waiting, t)
      BY <1>1, <2>1 DEF Life, QueuedOK
    <2>3. entryRefs > 0
      BY <1>1, <2>1, EntryUsed DEF Known, HoldsEntry
    <2>4. CASE PendingWith(rcvid[t]) = {} /\ GotoRc(t, "entry_put", status[t])
               /\ raced' = (raced \/ BeingAnswered(t)) /\ UNCHANGED entryVars
      <3>1. t \notin pending /\ UNCHANGED pending
        BY <2>4 DEF PendingWith, entryVars
      <3>2. \A th \in Threads : cur[th] # t
        <4> SUFFICES ASSUME NEW th \in Threads, cur[th] = t PROVE FALSE
          OBVIOUS
        <4>1. th \in Servers /\ pc[th] \in {"copy", "add_pending", "fail", "fail_wake", "finish", "wake"}
          BY <3>1, Holders
        <4>2. pc[th] \notin {"finish", "wake", "fail_wake"}
          BY <2>4, <4>1 DEF BeingAnswered
        <4> QED BY <1>1, <2>1, <4>1, <4>2 DEF Life, HeldOK
      <3>3. status[t] # "initial"
        BY <1>1, <2>1, <2>2, <3>1, <3>2, ThreadSets DEF Life, DoneOK, InBlock
      <3>4. pc'[t] = "entry_put" /\ rc'[t] = status[t]
        BY <1>1, <2>4, Moves
      <3>5. ResultOK(t)'
        BY <1>1, <1>2, <2>1, <3>3, <3>4 DEF ResultOK, CallPC, ReturnPC, FreeingPC, Interrupts,
           Types, SharedOK, MsgTypeOK, Status, Answer
      <3>6. Life(t)'
        BY <1>2, <2>1, <2>2, <3>1, <3>2, <3>4, <3>5, LifeLeft DEF InBlock
      <3> QED BY <1>3, <2>1, <3>1, <3>6
    <2>5. CASE (\E m \in PendingWith(rcvid[t]) : ReleasePending(m))
               /\ GotoRc(t, "spin_finished", rc[t])
      <3>1. PICK m \in PendingWith(rcvid[t]) : ReleasePending(m)
        BY <2>5
      <3>2. m = t
        BY <1>1, <2>1 DEF PendingWith, Known, IdsInv, RcvidUnique, Types, SharedOK, EntryTypeOK,
           Base, CallsOK, CallPC
      <3>3. t \in pending /\ pending' = pending \ {t}
        BY <3>1, <3>2 DEF PendingWith, ReleasePending
      <3>4. \A th \in Threads : cur[th] # t
        BY <1>1, <2>3, <3>3, Holders DEF Life, PendingOK
      <3>5. status[t] = "initial"
        BY <1>1, <3>3, <3>4 DEF Life, PendingOK, UnlinkOutstanding
      <3>6. pc'[t] = "spin_finished"
        BY <1>1, <2>5, Moves
      <3>7. ResultOK(t)'
        BY <1>1, <1>2, <2>1, <3>5, <3>6 DEF ResultOK, CallPC, ReturnPC, FreeingPC
      <3>8. Life(t)'
        BY <1>2, <2>1, <2>2, <3>3, <3>4, <3>6, <3>7, LifeLeft DEF InBlock
      <3> QED BY <1>3, <2>1, <3>3, <3>8
    <2> QED BY <1>10, <2>4, <2>5 DEF Grab
  <1>11. CASE SpinFinished(t)
    <2>1. /\ pc[t] = "spin_finished" /\ pc'[t] = "entry_put" /\ rc'[t] = rc[t]
          /\ rc[t] \in Interrupts
          /\ UNCHANGED <<waiting, pending, woken>>
      BY <1>1, <1>11, Moves DEF SpinFinished, msgVars, chanVars, entryVars, Known, Base, CallsOK
    <2>2. t \notin ToSet(waiting) /\ t \notin pending /\ \A th \in Threads : cur[th] # t
      BY <1>1, <2>1, Nowhere DEF InBlock
    <2>3. status[t] = "initial" /\ Once(waiting, t)
      BY <1>1, <2>1 DEF Life, ResultOK, QueuedOK
    <2>4. ResultOK(t)'
      BY <1>1, <1>2, <2>1, <2>3 DEF ResultOK, CallPC, ReturnPC, FreeingPC, Interrupts, Status,
         Answer
    <2>5. Life(t)'
      BY <1>2, <2>1, <2>2, <2>3, <2>4, LifeLeft DEF InBlock
    <2> QED BY <1>3, <2>1, <2>5
  <1> QED BY <1>0, <1>4, <1>5, <1>6, <1>7, <1>8, <1>9, <1>10, <1>11 DEF BlockSteps

\* The calls of the clients: a new message is in nobody's hands, and one-way
\* messages do not concern the blocking ones.
LEMMA SendLife ==
    ASSUME Known, Lifecycle, NEW t \in Clients, SendSteps(t)
    PROVE  Lifecycle'
  <1>1. /\ Types /\ t \in Threads /\ t \in Ptr /\ Life(t) /\ OnlyMoves(t)
        /\ UNCHANGED <<outcome, entryListed, pending>>
    <2>1. Types /\ t \in Threads /\ t \in Ptr /\ Life(t)
      BY ThreadSets DEF Known, Lifecycle
    <2>2. OnlyMoves(t)
      BY <2>1, Moves DEF SendSteps, MsgSend, MsgSendBadf, MsgSendvInitFails, MsgSendPulse,
         PulseAdd, MsgSendNoReply, NoReplyAdd, NoReplyRetry, NoReplyInterrupted
    <2>3. UNCHANGED <<outcome, entryListed, pending>>
      BY DEF SendSteps, MsgSend, MsgSendBadf, MsgSendvInitFails, MsgSendPulse, PulseAdd,
         MsgSendNoReply, NoReplyAdd, NoReplyRetry, NoReplyInterrupted, ghostVars, entryVars
    <2> QED BY <2>1, <2>2, <2>3
  <1>2. Clients \cap Heap = {} /\ NULL \notin Clients
    BY MessagesAssumption, MsgPassingAssumption DEF Ptr
  <1>3. CASE MsgSend(t)
    <2>1. /\ pc[t] = "idle" /\ pc'[t] = "set_state" /\ UNCHANGED <<waiting, woken, cur>>
          /\ InitMsg(t)
      BY <1>1, <1>3, Moves DEF MsgSend, InitMsg, ChannelGet, GotoRc
    <2>2. /\ rcvid'[t] = gbl_next_rcvid + 1 /\ gbl_next_rcvid + 1 \in 1..MaxRcvid
          /\ status'[t] = "initial" /\ state'[t] = "INITIAL"
          /\ \A u \in Clients : u # t => /\ rcvid'[u] = rcvid[u]
                                         /\ status'[u] = status[u] /\ state'[u] = state[u]
      BY <1>1, <2>1, ThreadSets, MessagesAssumption
         DEF InitMsg, GetNewRcvid, Types, SharedOK, MsgTypeOK
    <2>3. outcome[gbl_next_rcvid + 1] = "initial"
      BY <2>2, MessagesAssumption DEF Known, Base, CallsOK, Types, SharedOK, MsgTypeOK
    <2>4. t \notin ToSet(waiting) /\ t \notin pending /\ \A th \in Threads : cur[th] # t
      BY <1>1, <2>1, Nowhere DEF InBlock
    <2>5. ResultOK(t)'
      BY <1>1, <2>1, <2>2, <2>3 DEF ResultOK, CallPC, ReturnPC, FreeingPC
    <2>6. Life(t)'
      BY <1>1, <2>1, <2>4, <2>5, LifeLeft DEF InBlock, Life, QueuedOK
    <2>7. cur[t] \notin Clients
      BY <1>1, <1>2, <2>1, ThreadSets DEF Known, Base, PointersOK, PointerPC
    <2>8. ASSUME NEW u \in Clients, u # t PROVE Life(u)'
      BY <1>1, <2>1, <2>2, <2>7, <2>8, LifeElsewhere DEF Lifecycle
    <2> QED BY <2>6, <2>8 DEF Lifecycle
  <1>4. CASE ~MsgSend(t)
    <2>1. /\ UNCHANGED <<status, state, woken>>
          /\ \A u \in Clients : rcvid'[u] = rcvid[u]
      <3>1. rcvid \in [Ptr -> 0..MaxRcvid] /\ \A u \in Clients : u \in Ptr /\ u \notin Heap
        BY <1>1, <1>2 DEF Types, SharedOK, MsgTypeOK, Ptr
      <3>2. CASE MsgSendPulse(t) \/ MsgSendNoReply(t)
        BY <3>1, <3>2 DEF MsgSendPulse, MsgSendNoReply, InitPulse, InitNoReply, GetNewRcvid
      <3> QED BY <1>4, <3>2 DEF SendSteps, MsgSendBadf, MsgSendvInitFails, PulseAdd, NoReplyAdd,
              NoReplyRetry, NoReplyInterrupted, msgVars
    <2>2. /\ pc[t] \in {"idle", "pulse_add", "noreply_add", "noreply_sleep"}
          /\ cur[t] \notin Clients
      <3>1. pc[t] \in {"idle", "pulse_add", "noreply_add", "noreply_sleep"}
        BY <1>4 DEF SendSteps, MsgSendBadf, MsgSendvInitFails, MsgSendPulse, PulseAdd,
           MsgSendNoReply, NoReplyAdd, NoReplyRetry, NoReplyInterrupted
      <3>2. pc[t] # "idle" => cur[t] \in Heap
        BY <1>1, <3>1 DEF Types, ThreadsOK
      <3>3. pc[t] = "idle" => cur[t] = NULL
        BY <1>1, ThreadSets DEF Known, Base, PointersOK, PointerPC
      <3> QED BY <1>2, <3>1, <3>2, <3>3
    <2>3. /\ pc'[t] \in {"idle", "pulse_add", "noreply_add", "noreply_sleep", "put"}
          /\ cur'[t] \notin Clients
      <3>1. CASE MsgSendBadf(t) \/ MsgSendvInitFails(t) \/ NoReplyRetry(t)
        BY <1>1, <2>2, <3>1, Moves DEF MsgSendBadf, MsgSendvInitFails, NoReplyRetry
      <3>2. CASE MsgSendPulse(t) \/ MsgSendNoReply(t)
        BY <1>1, <1>2, <3>2, Moves DEF MsgSendPulse, MsgSendNoReply
      <3>3. CASE PulseAdd(t) \/ NoReplyAdd(t) \/ NoReplyInterrupted(t)
        BY <1>1, <1>2, <2>2, <3>3, Moves DEF PulseAdd, NoReplyAdd, NoReplyInterrupted
      <3> QED BY <1>4, <3>1, <3>2, <3>3 DEF SendSteps
    <2>4. \A u \in Clients : /\ u \in ToSet(waiting') <=> u \in ToSet(waiting)
                             /\ Once(waiting, u) => Once(waiting', u)
      <3>1. CASE UNCHANGED waiting
        BY <3>1
      <3>2. CASE pc[t] # "idle" /\ AddNewMessage(cur[t])
        <4>1. cur[t] \in Ptr /\ cur[t] \notin Clients
          BY <1>1, <2>2, <3>2 DEF Types, ThreadsOK, Ptr
        <4>2. /\ ToSet(waiting') = ToSet(waiting) \cup {cur[t]}
              /\ \A x : Once(waiting, x) /\ (x = cur[t] => cur[t] \notin ToSet(waiting)) =>
                    Once(waiting', x)
          BY <1>1, <3>2, <4>1, QueueSets
        <4> QED BY <4>1, <4>2
      <3> QED BY <1>4, <3>1, <3>2 DEF SendSteps, MsgSendBadf, MsgSendvInitFails, MsgSendPulse,
              PulseAdd, MsgSendNoReply, NoReplyAdd, NoReplyRetry, NoReplyInterrupted, ChannelGet,
              AddNewMessageFull, chanVars
    <2>5. ~InBlock(t) /\ pc'[t] \notin CallPC
      BY <2>2, <2>3 DEF InBlock, CallPC, FreeingPC
    <2>6. ASSUME NEW u \in Clients PROVE Life(u)'
      BY <1>1, <2>1, <2>2, <2>3, <2>4, <2>5, LifeElsewhere DEF Lifecycle
    <2> QED BY <2>6 DEF Lifecycle
  <1> QED BY <1>3, <1>4

\* handle_msgreceive: the message it takes from the queue to the pending list.
LEMMA ReceiveLife ==
    ASSUME Known, Lifecycle, NEW s \in Servers, ReceiveSteps(s)
    PROVE  Lifecycle'
  <1>1. /\ Types /\ s \in Threads /\ s \notin Clients /\ OnlyMoves(s)
        /\ UNCHANGED <<rcvid, status, woken, outcome, entryListed>>
    <2>1. Types /\ s \in Threads /\ s \notin Clients
      BY ThreadSets DEF Known
    <2>2. OnlyMoves(s)
      BY <2>1, Moves DEF ReceiveSteps, MsgReceive, WaitEvent, WaitInterrupted, Take, CopyPulse,
         CopyNoReply, CopyMsg, ReceiveAddPending
    <2>3. UNCHANGED <<rcvid, status, woken, outcome, entryListed>>
      BY DEF ReceiveSteps, MsgReceive, WaitEvent, WaitInterrupted, Take, CopyPulse, CopyNoReply,
         CopyMsg, ReceiveAddPending, AddPending, msgVars, entryVars, ghostVars
    <2> QED BY <2>1, <2>2, <2>3
  <1>2. /\ \A u \in Threads : u # s => cur'[u] = cur[u] /\ pc'[u] = pc[u] /\ rc'[u] = rc[u]
        /\ NULL \notin Clients /\ NULL \notin Ptr
    BY <1>1, MsgPassingAssumption DEF OnlyMoves, Ptr
  <1>3. ASSUME NEW u \in Clients, state'[u] = state[u], cur[s] # u, cur'[s] # u,
               u \in pending' <=> u \in pending,
               u \in ToSet(waiting') <=> u \in ToSet(waiting),
               Once(waiting, u) => Once(waiting', u)
        PROVE  Life(u)'
    BY <1>1, <1>3, LifeElsewhere DEF Lifecycle
  <1>4. CASE MsgReceive(s) \/ WaitEvent(s) \/ WaitInterrupted(s) \/ CopyPulse(s) \/ CopyNoReply(s)
    <2>1. UNCHANGED <<waiting, pending, state>>
      BY <1>4 DEF MsgReceive, WaitEvent, WaitInterrupted, CopyPulse, CopyNoReply, ChannelGet,
         msgVars, chanVars, entryVars
    <2>2. cur[s] \notin Clients
      BY <1>2, <1>4, ThreadSets DEF MsgReceive, WaitEvent, WaitInterrupted, CopyPulse, CopyNoReply,
         HasTask, IsNoReply, Known, Base, PointersOK, PointerPC
    <2>3. cur'[s] = cur[s] \/ cur'[s] = NULL
      BY <1>1, <1>4, Moves DEF MsgReceive, WaitEvent, WaitInterrupted, CopyPulse, CopyNoReply
    <2> QED BY <1>2, <1>3, <2>1, <2>2, <2>3 DEF Lifecycle
  <1>5. CASE Take(s)
    <2>0. pc[s] = "take" /\ UNCHANGED pending /\ cur[s] \notin Clients
      BY <1>2, <1>5, ThreadSets DEF Take, entryVars, Known, Base, PointersOK, PointerPC
    <2>1. CASE GotoRc(s, "put", "ETIMEDOUT") /\ UNCHANGED <<chanVars, msgVars>>
      <3>1. cur'[s] = cur[s] /\ UNCHANGED <<waiting, state>>
        BY <1>1, <2>1, Moves DEF chanVars, msgVars
      <3> QED BY <1>3, <2>0, <3>1 DEF Lifecycle
    <2>2. CASE /\ Dequeue
               /\ state' = [t \in Clients |-> IF t = Head(waiting) THEN "RECEIVING" ELSE state[t]]
               /\ GotoCur(s, "copy", Head(waiting), rc[s])
      <3> DEFINE h == Head(waiting)
      <3>1. /\ h \in ToSet(waiting) /\ h \in Ptr
            /\ \A x \in ToSet(waiting) : x # h => x \in ToSet(waiting')
            /\ ToSet(waiting') \subseteq ToSet(waiting)
            /\ Once(waiting, h) => h \notin ToSet(waiting')
            /\ \A x : Once(waiting, x) => Once(waiting', x)
        BY <1>1, <2>2, QueueSets
      <3>2. cur'[s] = h /\ pc'[s] = "copy"
        BY <1>1, <2>2, Moves
      <3>3. \A u \in Clients : state'[u] = IF u = h THEN "RECEIVING" ELSE state[u]
        BY <2>2
      <3> HIDE DEF h
      <3>4. ASSUME NEW u \in Clients, u # h PROVE Life(u)'
        BY <1>3, <2>0, <3>1, <3>2, <3>3, <3>4
      <3>5. ASSUME NEW t \in Clients, t = h PROVE Life(t)'
        <4>1. Life(t)
          BY DEF Lifecycle
        <4>2. /\ pc[t] \in {"blocked", "remove"} /\ status[t] = "initial" /\ t \notin pending
              /\ Once(waiting, t) /\ \A th \in Threads : cur[th] # t
          BY <3>1, <3>5, <4>1 DEF Life, QueuedOK
        <4>3. pc'[t] = pc[t] /\ t \notin ToSet(waiting') /\ Once(waiting', t)
          BY <1>1, <1>2, <3>1, <3>5, <4>2, ThreadSets
        <4>4. \A th \in Threads : cur'[th] = t => th = s
          BY <1>2, <4>2
        <4>5. QueuedOK(t)' /\ PendingOK(t)'
          BY <2>0, <4>2, <4>3 DEF QueuedOK, PendingOK
        <4>6. HeldOK(t)'
          BY <1>1, <3>2, <3>3, <3>5, <4>2, <4>3, <4>4, ThreadSets DEF HeldOK, InBlock
        <4>7. ~UnlinkOutstanding(t)'
          BY <3>2, <3>5, <4>4 DEF UnlinkOutstanding
        <4>8. DoneOK(t)'
          BY <1>1, <3>2, <3>5, <4>1, <4>2, <4>3, <4>7 DEF Life, DoneOK
        <4>9. ResultOK(t)'
          BY <1>1, <4>1, <4>2, <4>3 DEF Life, ResultOK, CallPC, ReturnPC, FreeingPC
        <4> QED BY <4>5, <4>6, <4>8, <4>9 DEF Life
      <3> QED BY <3>4, <3>5 DEF Lifecycle
    <2> QED BY <1>5, <2>1, <2>2 DEF Take
  <1>6. CASE CopyMsg(s)
    <2>1. /\ pc[s] = "copy" /\ cur[s] \in Clients /\ cur'[s] = cur[s] /\ pc'[s] \in {"add_pending", "fail"}
          /\ UNCHANGED <<waiting, pending, state>>
      BY <1>1, <1>6, Moves DEF CopyMsg, HasTask, msgVars, chanVars, entryVars
    <2>2. ASSUME NEW u \in Clients, u # cur[s] PROVE Life(u)'
      BY <1>3, <2>1, <2>2
    <2>3. ASSUME NEW t \in Clients, t = cur[s] PROVE Life(t)'
      <3>1. Life(t) /\ cur[s] = t /\ pc'[t] = pc[t] /\ rc'[t] = rc[t]
        BY <1>1, <1>2, <2>1, <2>3, ThreadSets DEF Lifecycle
      <3>2. \A u \in Threads : cur'[u] = t <=> cur[u] = t
        BY <1>2, <2>1, <3>1
      <3>3. UnlinkOutstanding(t)' <=> UnlinkOutstanding(t)
        BY <1>2, <2>1, <3>1 DEF UnlinkOutstanding
      <3>4. t \notin ToSet(waiting) /\ t \notin pending
        BY <1>1, <2>1, <3>1 DEF Life, QueuedOK, PendingOK
      <3>5. QueuedOK(t)' /\ PendingOK(t)'
        BY <2>1, <3>1, <3>4 DEF Life, QueuedOK, PendingOK
      <3>6. InBlock(t)' <=> InBlock(t)
        BY <3>1 DEF InBlock
      <3>7. HeldOK(t)'
        BY <1>1, <1>2, <2>1, <3>1, <3>2, <3>6, ThreadSets DEF Life, HeldOK
      <3>8. DoneOK(t)'
        BY <1>1, <2>1, <3>1, <3>3, <3>6 DEF Life, DoneOK
      <3>9. ResultOK(t)'
        BY <1>1, <2>1, <3>1 DEF Life, ResultOK
      <3> QED BY <3>5, <3>7, <3>8, <3>9 DEF Life
    <2> QED BY <2>2, <2>3 DEF Lifecycle
  <1>7. CASE ReceiveAddPending(s)
    <2>1. /\ pc[s] = "add_pending" /\ cur[s] \in Clients /\ cur'[s] = NULL /\ pc'[s] = "put"
          /\ UNCHANGED waiting /\ pending' = pending \cup {cur[s]}
          /\ \A u \in Clients : state'[u] = IF u = cur[s] THEN "PENDING" ELSE state[u]
      BY <1>1, <1>7, Moves DEF ReceiveAddPending, AddPending, chanVars, Types, ThreadsOK, SharedOK,
         MsgTypeOK
    <2>2. ASSUME NEW u \in Clients, u # cur[s] PROVE Life(u)'
      BY <1>2, <1>3, <2>1, <2>2
    <2>3. ASSUME NEW t \in Clients, t = cur[s] PROVE Life(t)'
      <3>1. Life(t) /\ cur[s] = t /\ pc'[t] = pc[t] /\ rc'[t] = rc[t]
        BY <1>1, <1>2, <2>1, <2>3, ThreadSets DEF Lifecycle
      <3>2. /\ pc[t] \in {"blocked", "remove", "spin_receiving"} /\ status[t] = "initial"
            /\ \A r \in Servers : cur[r] = t => r = s
        BY <2>1, <3>1 DEF Life, HeldOK
      <3>3. t \notin ToSet(waiting) /\ t \notin pending
        BY <1>1, <2>1, <3>1 DEF Life, QueuedOK, PendingOK
      <3>4. \A u \in Threads : cur'[u] # t
        BY <1>2, <2>1, <3>1, <3>2, <3>3, Holders
      <3>5. QueuedOK(t)' /\ PendingOK(t)'
        BY <1>1, <2>1, <3>1, <3>2, <3>3, <3>4 DEF Life, QueuedOK, PendingOK, InBlock
      <3>6. HeldOK(t)'
        BY <3>4, ThreadSets DEF HeldOK
      <3>7. DoneOK(t)'
        BY <1>1, <2>1, <3>1, <3>2, <3>4, ThreadSets DEF Life, DoneOK, UnlinkOutstanding
      <3>8. ResultOK(t)'
        BY <1>1, <3>1, <3>2 DEF Life, ResultOK, CallPC, ReturnPC, FreeingPC
      <3> QED BY <3>5, <3>6, <3>7, <3>8 DEF Life
    <2> QED BY <2>2, <2>3 DEF Lifecycle
  <1> QED BY <1>4, <1>5, <1>6, <1>7 DEF ReceiveSteps

\* Replies, errors and failed receives, and the end of the channel and the server.
LEMMA AnswerLife ==
    ASSUME Known, Lifecycle, NEW s \in Servers, AnswerSteps(s)
    PROVE  Lifecycle'
  <1>1. /\ Types /\ s \in Threads /\ s \notin Clients /\ OnlyMoves(s)
        /\ ~entryListed => ~entryListed'
    <2>1. Types /\ s \in Threads /\ s \notin Clients
      BY ThreadSets DEF Known
    <2>2. OnlyMoves(s)
      BY <2>1, Moves DEF AnswerSteps, MsgAnswer, Finish, Wake, ChannelDestroy, Close
    <2>3. ~entryListed => ~entryListed'
      BY DEF AnswerSteps, MsgAnswer, ReleasePending, Finish, Wake, ChannelDestroy, UnlinkChannel,
         Close, UnlinkEntry, entryVars
    <2> QED BY <2>1, <2>2, <2>3
  <1>2. /\ \A u \in Threads : u # s => cur'[u] = cur[u] /\ pc'[u] = pc[u] /\ rc'[u] = rc[u]
        /\ NULL \notin Clients
        /\ \A t \in Clients : pc'[t] = pc[t] /\ rc'[t] = rc[t] /\ (InBlock(t)' <=> InBlock(t))
    BY <1>1, MsgPassingAssumption, ThreadSets DEF OnlyMoves, Ptr, InBlock
  <1>3. CASE \E k : \E a \in Given : MsgAnswer(s, k, a)
    <2>1. PICK m \in pending : ReleasePending(m) /\ \E a : GotoCur(s, "finish", m, a)
      BY <1>3 DEF MsgAnswer, PendingWith
    <2>2. /\ pc[s] = "idle" /\ entryListed
          /\ UNCHANGED <<waiting, status, state, woken, rcvid, outcome>>
      BY <1>3 DEF MsgAnswer, msgVars, chanVars, ghostVars
    <2>3. /\ m \in Clients /\ pc'[s] = "finish" /\ cur'[s] = m /\ pending' = pending \ {m}
          /\ cur[s] = NULL
      BY <1>1, <2>1, <2>2, Moves, ThreadSets DEF ReleasePending, Types, SharedOK, Known, Base,
         PointersOK, PointerPC
    <2>4. ASSUME NEW u \in Clients, u # m PROVE Life(u)'
      BY <1>1, <1>2, <2>2, <2>3, <2>4, LifeElsewhere DEF Lifecycle
    <2>5. Life(m)'
      <3>1. Life(m)
        BY <2>3 DEF Lifecycle
      <3>2. entryRefs > 0
        BY <1>1, <2>2, EntryUsed DEF Known
      <3>3. \A th \in Threads : cur[th] # m
        BY <2>3, <3>1, <3>2, Holders DEF Life, PendingOK
      <3>4. /\ InBlock(m) /\ state[m] = "PENDING" /\ status[m] = "initial"
            /\ m \notin ToSet(waiting) /\ Once(waiting, m)
        BY <2>1, <3>1, <3>3 DEF Life, PendingOK, QueuedOK, UnlinkOutstanding
      <3>5. \A th \in Threads : cur'[th] = m => th = s
        BY <1>2, <3>3
      <3>6. QueuedOK(m)' /\ PendingOK(m)'
        BY <2>2, <2>3, <3>4 DEF QueuedOK, PendingOK
      <3>7. HeldOK(m)'
        BY <1>2, <2>2, <2>3, <3>4, <3>5, ThreadSets DEF HeldOK
      <3>8. DoneOK(m)'
        BY <1>2, <2>2, <2>3, <3>1, <3>4, <3>5 DEF Life, DoneOK, UnlinkOutstanding
      <3>9. ResultOK(m)'
        BY <1>2, <2>2, <2>3, <3>1, <3>4 DEF Life, ResultOK, InBlock, ReturnPC, FreeingPC
      <3> QED BY <3>6, <3>7, <3>8, <3>9 DEF Life
    <2> QED BY <2>4, <2>5 DEF Lifecycle
  <1>4. CASE Finish(s)
    <2>1. /\ pc[s] \in {"finish", "fail"} /\ cur[s] \in Clients /\ cur'[s] = cur[s]
          /\ pc'[s] \in {"wake", "fail_wake"} /\ rc[s] \in Given
          /\ UNCHANGED <<waiting, pending, woken, rcvid, entryListed>>
          /\ StoreAnswer(cur[s], rc[s])
          /\ outcome' = [outcome EXCEPT ![rcvid[cur[s]]] = rc[s]]
      BY <1>1, <1>4, Moves DEF Finish, StoreAnswer, chanVars, entryVars, Types, ThreadsOK
    <2>2. /\ \A u \in Clients : u # cur[s] => status'[u] = status[u] /\ state'[u] = state[u]
          /\ status'[cur[s]] = rc[s] /\ state'[cur[s]] = "FINISHED"
      BY <1>1, <2>1 DEF StoreAnswer, Types, SharedOK, MsgTypeOK
    <2>3. /\ \A t \in Clients : pc[t] \in CallPC => rcvid[t] \in 1..MaxRcvid
          /\ \A t, u \in Clients : pc[u] \in CallPC /\ u # t => rcvid[u] # rcvid[t]
      BY <1>1, MessagesAssumption, ThreadSets DEF Known, Base, CallsOK, IdsInv, RcvidUnique, Types,
         SharedOK, MsgTypeOK
    <2>4. \A u \in Clients : u # cur[s] /\ pc[u] \in CallPC =>
             outcome'[rcvid[u]] = outcome[rcvid[u]]
      BY <1>1, <2>1, <2>3 DEF Types, SharedOK
    <2>5. ASSUME NEW u \in Clients, u # cur[s] PROVE Life(u)'
      BY <1>1, <2>1, <2>2, <2>4, <2>5, LifeElsewhere DEF Lifecycle
    <2>6. ASSUME NEW t \in Clients, t = cur[s] PROVE Life(t)'
      <3>1. Life(t)
        BY DEF Lifecycle
      <3>2. /\ InBlock(t) /\ pc[t] \in CallPC
            /\ t \notin ToSet(waiting) /\ Once(waiting, t) /\ t \notin pending
            /\ \A r \in Servers : cur[r] = t => r = s
        BY <1>1, <2>1, <2>6, <3>1 DEF Life, HeldOK, QueuedOK, PendingOK, InBlock, CallPC
      <3>3. \A th \in Threads : cur'[th] = t => th = s
        BY <1>2, <3>2, Holders
      <3>4. status'[t] # "initial" /\ outcome'[rcvid[t]] = status'[t]
        BY <1>1, <2>1, <2>2, <2>3, <2>6, <3>2 DEF Answer, Given, Types, SharedOK
      <3>5. QueuedOK(t)' /\ PendingOK(t)'
        BY <2>1, <3>2 DEF QueuedOK, PendingOK
      <3>6. HeldOK(t)'
        BY <1>2, <2>1, <3>2, <3>3, <3>4, ThreadSets DEF HeldOK
      <3>7. DoneOK(t)'
        BY <1>2, <2>1, <2>6, <3>1, <3>3, <3>4 DEF Life, DoneOK, UnlinkOutstanding
      <3>8. ResultOK(t)'
        BY <1>2, <2>1, <3>2, <3>4 DEF ResultOK, InBlock, ReturnPC, FreeingPC
      <3> QED BY <3>5, <3>6, <3>7, <3>8 DEF Life
    <2> QED BY <2>5, <2>6 DEF Lifecycle
  <1>5. CASE Wake(s)
    <2>1. /\ pc[s] \in {"wake", "fail_wake"} /\ cur[s] \in Clients /\ cur'[s] = NULL
          /\ pc'[s] \in {"idle", "put"}
          /\ UNCHANGED <<waiting, pending, status, state, rcvid, outcome, entryListed>>
          /\ \A u \in Clients : u # cur[s] => woken'[u] = woken[u]
      BY <1>1, <1>5, Moves DEF Wake, WakeUpProcess, chanVars, entryVars, ghostVars, Types, ThreadsOK,
         SharedOK, MsgTypeOK
    <2>2. ASSUME NEW u \in Clients, u # cur[s] PROVE Life(u)'
      BY <1>1, <1>2, <2>1, <2>2, LifeElsewhere DEF Lifecycle
    <2>3. ASSUME NEW t \in Clients, t = cur[s] PROVE Life(t)'
      <3>1. Life(t)
        BY DEF Lifecycle
      <3>2. /\ InBlock(t) /\ status[t] # "initial"
            /\ t \notin ToSet(waiting) /\ Once(waiting, t) /\ t \notin pending
            /\ \A r \in Servers : cur[r] = t => r = s
        BY <1>1, <2>1, <2>3, <3>1 DEF Life, HeldOK, QueuedOK, PendingOK
      <3>3. \A th \in Threads : cur'[th] # t
        BY <1>2, <2>1, <3>2, Holders
      <3>4. QueuedOK(t)' /\ PendingOK(t)' /\ HeldOK(t)'
        BY <2>1, <3>2, <3>3, ThreadSets DEF QueuedOK, PendingOK, HeldOK
      <3>5. DoneOK(t)'
        BY <2>1, <3>2, <3>3, ThreadSets DEF DoneOK, UnlinkOutstanding
      <3>6. ResultOK(t)'
        BY <1>2, <2>1, <3>1, <3>2 DEF Life, ResultOK, InBlock
      <3> QED BY <3>4, <3>5, <3>6 DEF Life
    <2> QED BY <2>2, <2>3 DEF Lifecycle
  <1>6. CASE ChannelDestroy(s) \/ Close(s)
    <2>1. cur[s] = NULL /\ cur'[s] = NULL /\ UNCHANGED <<pending, outcome>>
      <3>1. pc[s] = "idle"
        BY <1>6 DEF ChannelDestroy, Close
      <3>2. cur[s] = NULL
        BY <1>1, <3>1, ThreadSets DEF Known, Base, PointersOK, PointerPC
      <3>3. cur'[s] = cur[s]
        BY <1>1, <1>6, Moves DEF ChannelDestroy, Close
      <3> QED BY <1>6, <3>2, <3>3 DEF ChannelDestroy, Close, UnlinkChannel, UnlinkEntry, ghostVars
    <2>2. \A t \in Clients : MessageKept(t)
      <3>1. CASE ChannelDestroy(s)
        BY <3>1, LifeRelease DEF ChannelDestroy, UnlinkChannel
      <3>2. CASE Close(s)
        BY <3>2 DEF Close, msgVars, chanVars, MessageKept
      <3> QED BY <1>6, <3>1, <3>2
    <2>3. ASSUME NEW u \in Clients PROVE Life(u)'
      BY <1>1, <1>2, <2>1, <2>2, LifeElsewhere DEF Lifecycle, MessageKept
    <2> QED BY <2>3 DEF Lifecycle
  <1> QED BY <1>3, <1>4, <1>5, <1>6 DEF AnswerSteps

\* Returning, and disposing of the entry with what is still pending.
LEMMA FreeLife ==
    ASSUME Known, Lifecycle, NEW th \in Threads, ReleaseAndFree(th)
    PROVE  Lifecycle'
  <1>1. /\ Types /\ OnlyMoves(th) /\ UNCHANGED entryListed
        /\ \A u \in Threads : u # th => cur'[u] = cur[u] /\ pc'[u] = pc[u] /\ rc'[u] = rc[u]
        /\ NULL \notin Clients
    <2>1. Types
      BY DEF Known
    <2>2. OnlyMoves(th)
      BY <2>1, Moves DEF ReleaseAndFree, Put, EntryPut, FreeChannels, FreePending, FreeDel,
         FreeDone, ChannelFreeMsg, ChannelFreeDel, ChannelFreed
    <2>3. UNCHANGED entryListed
      BY DEF ReleaseAndFree, Put, EntryPut, EntryRelease, FreeChannels, UnlinkChannel, FreePending,
         FreeDel, ReleasePending, FreeDone, ChannelFreeMsg, ChannelFreeDel, ChannelFreed, entryVars
    <2> QED BY <2>1, <2>2, <2>3, MsgPassingAssumption DEF OnlyMoves, Ptr
  <1>2. CASE FreePending(th)
    <2>1. PICK m \in pending : /\ CleanupAndFree({m})
                               /\ outcome' = [outcome EXCEPT ![rcvid[m]] = "ESRCH"]
                               /\ GotoCur(th, "free_del", m, rc[th])
      BY <1>2 DEF FreePending
    <2>2. /\ pc[th] = "free_pending" /\ cur[th] = NULL
          /\ pc'[th] = "free_del" /\ cur'[th] = m /\ rc'[th] = rc[th]
          /\ UNCHANGED <<waiting, pending>>
      BY <1>1, <1>2, <2>1, Moves DEF FreePending, chanVars, entryVars, Known, Base, PointersOK,
         PointerPC
    <2>3. m \in Clients
      BY <1>1, <2>1 DEF Types, SharedOK
    <2>4. /\ \A u \in Clients : u # m => status'[u] = status[u] /\ woken'[u] = woken[u]
          /\ status'[m] = "ESRCH" /\ UNCHANGED <<state, rcvid>>
      BY <1>1, <2>1, <2>3 DEF CleanupAndFree, Types, SharedOK, MsgTypeOK
    <2>5. Life(m) /\ InBlock(m) /\ pc[m] \in CallPC
      BY <2>1, <2>3 DEF Lifecycle, Life, PendingOK, InBlock, CallPC
    <2>6. m # th /\ pc'[m] = pc[m]
      BY <1>1, <2>2, <2>3, <2>5, ThreadSets DEF InBlock
    <2>7. /\ \A t \in Clients : pc[t] \in CallPC => rcvid[t] \in 1..MaxRcvid
          /\ \A t, u \in Clients : pc[u] \in CallPC /\ u # t => rcvid[u] # rcvid[t]
      BY <1>1, MessagesAssumption, ThreadSets DEF Known, Base, CallsOK, IdsInv, RcvidUnique, Types,
         SharedOK, MsgTypeOK
    <2>8. /\ outcome'[rcvid[m]] = "ESRCH"
          /\ \A u \in Clients : u # m /\ pc[u] \in CallPC =>
                outcome'[rcvid[u]] = outcome[rcvid[u]]
      BY <1>1, <2>1, <2>3, <2>5, <2>7 DEF Types, SharedOK
    <2>9. ASSUME NEW u \in Clients, u # m PROVE Life(u)'
      BY <1>1, <2>2, <2>4, <2>8, <2>9, LifeElsewhere DEF Lifecycle, ReturnPC, FreeingPC
    <2>10. Life(m)'
      <3>1. m \notin ToSet(waiting) /\ Once(waiting, m) /\ state[m] = "PENDING"
        BY <2>1, <2>5 DEF Life, QueuedOK, PendingOK
      <3>2. \A u \in Threads : cur'[u] = m => pc'[u] = "free_del"
        BY <1>1, <2>1, <2>2, <2>5 DEF Life, PendingOK
      <3>3. UnlinkOutstanding(m)' /\ (InBlock(m)' <=> InBlock(m))
        BY <2>2, <2>6 DEF UnlinkOutstanding, InBlock
      <3>4. QueuedOK(m)' /\ PendingOK(m)'
        BY <2>2, <2>4, <2>5, <3>1, <3>2, <3>3 DEF QueuedOK, PendingOK
      <3>5. HeldOK(m)' /\ DoneOK(m)'
        BY <2>4, <3>2, ThreadSets DEF HeldOK, DoneOK
      <3>6. ResultOK(m)'
        BY <2>4, <2>5, <2>6, <2>8 DEF ResultOK, InBlock, ReturnPC, FreeingPC
      <3> QED BY <3>4, <3>5, <3>6 DEF Life
    <2> QED BY <2>9, <2>10 DEF Lifecycle
  <1>3. CASE FreeDel(th)
    <2>1. /\ pc[th] = "free_del" /\ cur[th] \in pending /\ cur'[th] = NULL
          /\ pc'[th] = "free_pending" /\ rc'[th] = rc[th]
          /\ pending' = pending \ {cur[th]}
          /\ UNCHANGED <<waiting, status, state, woken, rcvid, outcome>>
      BY <1>1, <1>3, Moves DEF FreeDel, ReleasePending, msgVars, chanVars, ghostVars, Known, Base,
         PointersOK
    <2>2. cur[th] \in Clients
      BY <1>1, <2>1 DEF Types, SharedOK
    <2>3. ASSUME NEW u \in Clients, u # cur[th] PROVE Life(u)'
      BY <1>1, <2>1, <2>3, LifeElsewhere DEF Lifecycle, ReturnPC, FreeingPC
    <2>4. ASSUME NEW m \in Clients, m = cur[th] PROVE Life(m)'
      <3>1. Life(m) /\ InBlock(m) /\ UnlinkOutstanding(m)
        BY <2>1, <2>4 DEF Lifecycle, Life, PendingOK, UnlinkOutstanding
      <3>2. /\ status[m] # "initial" /\ m \notin ToSet(waiting) /\ Once(waiting, m)
            /\ \A u \in Threads : cur[u] = m => pc[u] = "free_del"
        BY <2>1, <2>4, <3>1 DEF Life, DoneOK, QueuedOK, PendingOK
      <3>3. \A u \in Threads : cur'[u] # m
        BY <1>1, <2>1, <3>2 DEF Known, Base, EntryEnd, Freeing, FreeingPC
      <3>4. pc'[m] = pc[m]
        BY <1>1, <2>1, <3>1, ThreadSets DEF InBlock
      <3>5. QueuedOK(m)' /\ PendingOK(m)' /\ HeldOK(m)'
        BY <2>1, <2>4, <3>2, <3>3, ThreadSets DEF QueuedOK, PendingOK, HeldOK
      <3>6. DoneOK(m)'
        BY <2>1, <3>2, <3>3, ThreadSets DEF DoneOK, UnlinkOutstanding
      <3>7. ResultOK(m)'
        BY <2>1, <3>1, <3>4 DEF Life, ResultOK, InBlock, ReturnPC, FreeingPC
      <3> QED BY <3>5, <3>6, <3>7 DEF Life
    <2> QED BY <2>3, <2>4 DEF Lifecycle
  <1>4. CASE \/ Put(th) \/ EntryPut(th) \/ FreeChannels(th) \/ FreeDone(th)
             \/ ChannelFreeMsg(th) \/ ChannelFreeDel(th) \/ ChannelFreed(th)
    <2>1. cur[th] = NULL /\ cur'[th] = NULL /\ UNCHANGED <<pending, outcome>>
      <3>1. cur[th] = NULL
        BY <1>4 DEF Put, EntryPut, FreeChannels, FreeDone, ChannelFreeMsg, ChannelFreeDel,
           ChannelFreed, FreesChannel, UnlinksMessage, Known, Base, PointersOK, PointerPC
      <3>2. cur'[th] = cur[th] \/ cur'[th] = NULL
        BY <1>1, <1>4, Moves DEF Put, EntryPut, FreeChannels, FreeDone, ChannelFreeMsg,
           ChannelFreeDel, ChannelFreed
      <3> QED BY <1>4, <3>1, <3>2 DEF Put, EntryPut, FreeChannels, FreeDone, ChannelFreeMsg,
              ChannelFreeDel, ChannelFreed, UnlinkChannel, EntryRelease, entryVars, ghostVars
    <2>2. \A t \in Clients : MessageKept(t)
      <3>1. CASE Put(th)
        BY <3>1, LifeRelease DEF Put
      <3>2. CASE FreeChannels(th)
        <4>1. CASE UnlinkChannel
          BY <4>1, LifeRelease DEF UnlinkChannel
        <4> QED BY <3>2, <4>1 DEF FreeChannels, msgVars, chanVars, MessageKept
      <3>3. CASE EntryPut(th) \/ FreeDone(th) \/ ChannelFreed(th)
        BY <3>3 DEF EntryPut, FreeDone, ChannelFreed, msgVars, chanVars, MessageKept
      <3> QED BY <1>4, <3>1, <3>2, <3>3, LifeChannelFree
    <2>3. ASSUME NEW t \in Clients, th = t
          PROVE  \/ ~InBlock(t) /\ pc'[t] \notin CallPC
                 \/ pc[t] \in ReturnPC /\ pc'[t] \in ReturnPC /\ rc'[t] = rc[t]
      BY <1>1, <1>4, <2>3, Moves DEF Put, EntryPut, FreeChannels, FreeDone, ChannelFreeMsg,
         ChannelFreeDel, ChannelFreed, FreesChannel, UnlinksMessage, AfterFree, InBlock, CallPC,
         ReturnPC, FreeingPC
    <2>4. ASSUME NEW u \in Clients PROVE Life(u)'
      BY <1>1, <2>1, <2>2, <2>3, LifeElsewhere DEF Lifecycle, MessageKept
    <2> QED BY <2>4 DEF Lifecycle
  <1> QED BY <1>2, <1>3, <1>4 DEF ReleaseAndFree

\* What holds of the blocking messages until a sender leaves through a window.
LifeInv == ~raced => Lifecycle

\* A sender that has slipped through a window stays on record.
LEMMA RacedStays == Next /\ raced => raced'
  <1> SUFFICES ASSUME Next, raced PROVE raced'
    OBVIOUS
  <1>1. ASSUME NEW t \in Clients, SendSteps(t) \/ BlockSteps(t) PROVE raced'
    BY <1>1 DEF SendSteps, BlockSteps, MsgSend, MsgSendBadf, MsgSendvInitFails, MsgSendPulse,
       PulseAdd, MsgSendNoReply, NoReplyAdd, NoReplyRetry, NoReplyInterrupted, SetInterruptible,
       Enqueue, WakeUp, Expire, Interrupted, RemoveWaiting, SpinReceiving, FindProcess, Grab,
       SpinFinished, ghostVars
  <1>2. ASSUME NEW s \in Servers, ReceiveSteps(s) \/ AnswerSteps(s) PROVE raced'
    BY <1>2 DEF ReceiveSteps, AnswerSteps, MsgReceive, WaitEvent, WaitInterrupted, Take, CopyPulse,
       CopyNoReply, CopyMsg, ReceiveAddPending, MsgAnswer, Finish, Wake, ChannelDestroy, Close,
       ghostVars
  <1>3. ASSUME NEW th \in Threads, ReleaseAndFree(th) PROVE raced'
    BY <1>3 DEF ReleaseAndFree, Put, EntryPut, FreeChannels, FreePending, FreeDel, FreeDone,
       ChannelFreeMsg, ChannelFreeDel, ChannelFreed, ghostVars
  <1> QED BY <1>1, <1>2, <1>3, NextSteps

\* The life of every blocking message is as described above.
LEMMA LifeInvariant == Spec => []LifeInv
  <1>1. Init => LifeInv
    <2> SUFFICES ASSUME Init, NEW t \in Clients PROVE Life(t)
      BY DEF LifeInv, Lifecycle
    <2>1. /\ waiting = <<>> /\ pending = {} /\ pc[t] = "idle"
          /\ \A th \in Threads : cur[th] = NULL
      BY ThreadSets DEF Init, ChanInit, EntryInit
    <2>2. t # NULL
      BY ThreadSets, MsgPassingAssumption
    <2> QED BY <2>1, <2>2, EmptyList, ThreadSets DEF Life, QueuedOK, PendingOK, HeldOK, DoneOK,
            UnlinkOutstanding, InBlock, ResultOK, CallPC, ReturnPC, FreeingPC
  <1>2. Known /\ LifeInv /\ [Next]_vars => LifeInv'
    <2> SUFFICES ASSUME Known, LifeInv, [Next]_vars, ~raced' PROVE Lifecycle'
      BY DEF LifeInv
    <2>1. CASE Next
      <3>1. Lifecycle
        BY <2>1, RacedStays DEF LifeInv
      <3> QED BY <2>1, <3>1, NextSteps, SendLife, BlockLife, ReceiveLife, AnswerLife, FreeLife
    <2>2. CASE UNCHANGED vars
      <3>1. /\ UNCHANGED <<rcvid, status, state, woken, waiting, pending, pc, cur, rc>>
            /\ UNCHANGED <<entryListed, outcome, raced>>
        BY <2>2 DEF vars, msgVars, chanVars, entryVars, threadVars, ghostVars
      <3>2. Lifecycle
        BY <3>1 DEF LifeInv
      <3> QED BY <3>1, <3>2 DEF Lifecycle, Life, QueuedOK, PendingOK, HeldOK, DoneOK,
              UnlinkOutstanding, InBlock, ResultOK
    <2> QED BY <2>1, <2>2
  <1> QED BY <1>1, <1>2, KnownInvariant, PTL DEF Spec

\* No pointer to a sender's message outlives the sender's stay in
\* handle_msgsend_internal_block, for any number of clients and servers, unless a
\* sender has left through one of the three windows.
THEOREM MsgPassingNoDangling == Spec => []NoDangling
  <1>1. Known /\ LifeInv => NoDangling
    BY Nowhere DEF LifeInv, Lifecycle, NoDangling, PointedTo
  <1> QED BY <1>1, KnownInvariant, LifeInvariant, PTL

\* A blocking message is in one place: queued, pending or in the hands of one
\* server thread.
THEOREM MsgPassingOnePlace == Spec => []OnePlace
  <1>1. Known /\ LifeInv => OnePlace
    <2> SUFFICES ASSUME Known, LifeInv, ~raced, NEW t \in Clients
                 PROVE  Places(t) <= IF UnlinkOutstanding(t) THEN 2 ELSE 1
      BY DEF OnePlace
    <2> DEFINE Q == {i \in DOMAIN waiting : waiting[i] = t}
               P == {m \in pending : m = t}
               S == {s \in Servers : cur[s] = t}
    <2>1. Life(t)
      BY DEF LifeInv, Lifecycle
    <2>2. Places(t) = Cardinality(Q) + Cardinality(P) + Cardinality(S)
      BY DEF Places
    <2>3. Cardinality(Q) = IF t \in ToSet(waiting) THEN 1 ELSE 0
      <3>1. \A i, j \in Q : i = j
        BY <2>1 DEF Life, QueuedOK, Once
      <3>2. Q = {} <=> t \notin ToSet(waiting)
        BY DEF ToSet
      <3> HIDE DEF Q
      <3> QED BY <3>1, <3>2, AtMostOne
    <2>4. Cardinality(P) = IF t \in pending THEN 1 ELSE 0
      <3>1. (\A x, y \in P : x = y) /\ (P = {} <=> t \notin pending)
        OBVIOUS
      <3> HIDE DEF P
      <3> QED BY <3>1, AtMostOne
    <2>5. Cardinality(S) = IF \E s \in Servers : cur[s] = t THEN 1 ELSE 0
      <3>1. \A r, s \in S : r = s
        BY <2>1, ThreadSets DEF Life, HeldOK, Known, Base, EntryEnd, Freeing, FreeingPC
      <3>2. S = {} <=> ~\E s \in Servers : cur[s] = t
        OBVIOUS
      <3> HIDE DEF S
      <3> QED BY <3>1, <3>2, AtMostOne
    <2>6. t \in ToSet(waiting) => t \notin pending /\ \A s \in Servers : cur[s] # t
      BY <2>1, ThreadSets DEF Life, QueuedOK
    <2>7. t \in pending /\ (\E s \in Servers : cur[s] = t) => UnlinkOutstanding(t)
      BY <2>1, ThreadSets DEF Life, PendingOK, UnlinkOutstanding
    <2> HIDE DEF Q, P, S
    <2> QED BY <2>2, <2>3, <2>4, <2>5, <2>6, <2>7
  <1> QED BY <1>1, KnownInvariant, LifeInvariant, PTL

\* The status a sender returns is the one stored for this very message.
THEOREM MsgPassingAnswerMatches == Spec => []AnswerMatches
  <1>1. LifeInv => AnswerMatches
    BY DEF LifeInv, Lifecycle, Life, ResultOK, CallPC, ReturnPC, AnswerMatches
  <1> QED BY <1>1, LifeInvariant, PTL

\* While the server lives, a sender that gives up has not been answered.
THEOREM MsgPassingAnswerNotLost == Spec => []AnswerNotLost
  <1>1. LifeInv => AnswerNotLost
    BY DEF LifeInv, Lifecycle, Life, ResultOK, CallPC, ReturnPC, Interrupts, AnswerNotLost
  <1> QED BY <1>1, LifeInvariant, PTL

\* What the server side made of a receive id is never overwritten.
THEOREM MsgPassingAnsweredOnce == Spec => AnsweredOnce
  <1> DEFINE Stands == \A k \in 1..MaxRcvid :
                          outcome[k] # "initial" /\ ~raced' => outcome'[k] = outcome[k]
  <1>1. Known /\ LifeInv /\ [Next]_vars => [Stands]_vars
    <2> SUFFICES ASSUME Known, LifeInv, Next, ~raced',
                        NEW k \in 1..MaxRcvid, outcome[k] # "initial"
                 PROVE  outcome'[k] = outcome[k]
      OBVIOUS
    <2>1. Lifecycle /\ outcome \in [1..MaxRcvid -> Status]
      BY RacedStays DEF LifeInv, Known, Types, SharedOK
    <2>2. ASSUME NEW t \in Clients, InBlock(t), status[t] = "initial"
          PROVE  outcome[rcvid[t]] = "initial"
      BY <2>1, <2>2 DEF Lifecycle, Life, ResultOK, InBlock, CallPC
    <2>3. ASSUME NEW s \in Servers, Finish(s) PROVE outcome'[k] = outcome[k]
      <3>1. /\ pc[s] \in {"finish", "fail"} /\ cur[s] \in Clients
            /\ outcome' = [outcome EXCEPT ![rcvid[cur[s]]] = rc[s]]
        BY <2>3 DEF Finish, Known, Types, ThreadsOK
      <3>2. InBlock(cur[s]) /\ status[cur[s]] = "initial"
        BY <2>1, <3>1 DEF Lifecycle, Life, HeldOK
      <3> QED BY <2>1, <2>2, <3>1, <3>2
    <2>4. ASSUME NEW th \in Threads, FreePending(th) PROVE outcome'[k] = outcome[k]
      <3>1. PICK m \in pending : outcome' = [outcome EXCEPT ![rcvid[m]] = "ESRCH"]
        BY <2>4 DEF FreePending
      <3>2. m \in Clients
        BY <3>1 DEF Known, Types, SharedOK
      <3>3. ~UnlinkOutstanding(m)
        BY <2>4 DEF FreePending, UnlinkOutstanding, Known, Base, EntryEnd, Freeing, FreeingPC
      <3>4. InBlock(m) /\ status[m] = "initial"
        BY <2>1, <3>1, <3>2, <3>3 DEF Lifecycle, Life, PendingOK
      <3> QED BY <2>1, <2>2, <3>1, <3>2, <3>4
    <2>5. ASSUME NEW t \in Clients, SendSteps(t) \/ BlockSteps(t) PROVE UNCHANGED outcome
      BY <2>5 DEF SendSteps, BlockSteps, MsgSend, MsgSendBadf, MsgSendvInitFails, MsgSendPulse,
         PulseAdd, MsgSendNoReply, NoReplyAdd, NoReplyRetry, NoReplyInterrupted, SetInterruptible,
         Enqueue, WakeUp, Expire, Interrupted, RemoveWaiting, SpinReceiving, FindProcess, Grab,
         SpinFinished, ghostVars
    <2>6. ASSUME NEW s \in Servers, ReceiveSteps(s) \/ AnswerSteps(s)
          PROVE  UNCHANGED outcome \/ Finish(s)
      BY <2>6 DEF ReceiveSteps, AnswerSteps, MsgReceive, WaitEvent, WaitInterrupted, Take,
         CopyPulse, CopyNoReply, CopyMsg, ReceiveAddPending, MsgAnswer, Wake, ChannelDestroy, Close,
         ghostVars
    <2>7. ASSUME NEW th \in Threads, ReleaseAndFree(th) PROVE UNCHANGED outcome \/ FreePending(th)
      BY <2>7 DEF ReleaseAndFree, Put, EntryPut, FreeChannels, FreeDel, FreeDone, ChannelFreeMsg,
         ChannelFreeDel, ChannelFreed, ghostVars
    <2> QED BY <2>3, <2>4, <2>5, <2>6, <2>7, NextSteps
  <1> QED BY <1>1, KnownInvariant, LifeInvariant, PTL DEF Spec, AnsweredOnce

-------------------------------------------------------------------------------
(* The order of the blocking messages in the queue.                        *)

\* Who is in front of whom.
LEMMA InFrontPairs ==
    ASSUME NEW q
    PROVE  /\ InFront(q) \subseteq Clients \X Clients
           /\ \A a, b \in Clients : <<a, b>> \in InFront(q) <=>
                 \E i, j \in DOMAIN q : i < j /\ q[i] = a /\ q[j] = b
  BY DEF InFront

\* Relations between clients are equal if they relate the same clients.
LEMMA SameRelation ==
    ASSUME NEW A \in SUBSET (Clients \X Clients), NEW B \in SUBSET (Clients \X Clients),
           \A a, b \in Clients : <<a, b>> \in A <=> <<a, b>> \in B
    PROVE  A = B
  OBVIOUS

\* A new message is behind all others.
LEMMA AppendInFront ==
    ASSUME NEW q \in Seq(Ptr), NEW m \in Ptr
    PROVE  InFront(Append(q, m)) =
              InFront(q) \cup ((ToSet(q) \cap Clients) \X ({m} \cap Clients))
  <1>1. /\ Len(q) \in Nat /\ DOMAIN q = 1..Len(q)
        /\ DOMAIN Append(q, m) = 1..(Len(q) + 1)
        /\ \A j \in 1..Len(q) : Append(q, m)[j] = q[j]
        /\ Append(q, m)[Len(q) + 1] = m
    BY LenProperties, AppendProperties
  <1> DEFINE r == Append(q, m)
             B == InFront(q) \cup ((ToSet(q) \cap Clients) \X ({m} \cap Clients))
  <1>2. B \subseteq Clients \X Clients
    BY InFrontPairs
  <1>3. ASSUME NEW a \in Clients, NEW b \in Clients
        PROVE  <<a, b>> \in InFront(r) <=> <<a, b>> \in B
    <2> HIDE DEF r
    <2>1. <<a, b>> \in InFront(r) <=>
             \E i, j \in DOMAIN r : i < j /\ r[i] = a /\ r[j] = b
      BY InFrontPairs
    <2>2. <<a, b>> \in InFront(q) <=>
             \E i, j \in DOMAIN q : i < j /\ q[i] = a /\ q[j] = b
      BY InFrontPairs
    <2>3. <<a, b>> \in B <=> <<a, b>> \in InFront(q) \/ (a \in ToSet(q) /\ b = m)
      OBVIOUS
    <2>4. a \in ToSet(q) <=> \E i \in 1..Len(q) : q[i] = a
      BY <1>1 DEF ToSet
    <2> HIDE DEF B
    <2>5. \A j \in 1..Len(q) : r[j] = q[j]
      BY <1>1 DEF r
    <2>6. r[Len(q) + 1] = m /\ DOMAIN r = 1..(Len(q) + 1)
      BY <1>1 DEF r
    <2>7. ASSUME NEW i \in DOMAIN r, NEW j \in DOMAIN r,
                 i < j, r[i] = a, r[j] = b
          PROVE  <<a, b>> \in B
      <3>1. i \in 1..Len(q) /\ q[i] = a
        BY <1>1, <2>5, <2>6, <2>7
      <3>2. CASE j \in 1..Len(q)
        BY <2>2, <2>3, <2>5, <2>7, <1>1, <3>1, <3>2
      <3>3. CASE j = Len(q) + 1
        BY <2>3, <2>4, <2>6, <2>7, <3>1, <3>3
      <3> QED BY <1>1, <2>6, <3>2, <3>3
    <2>8. ASSUME <<a, b>> \in InFront(q) PROVE <<a, b>> \in InFront(r)
      <3>1. PICK i \in DOMAIN q, j \in DOMAIN q : i < j /\ q[i] = a /\ q[j] = b
        BY <2>2, <2>8
      <3>2. i \in DOMAIN r /\ j \in DOMAIN r
        BY <1>1, <2>6
      <3> QED BY <1>1, <2>1, <2>5, <3>1, <3>2
    <2>9. ASSUME a \in ToSet(q), b = m PROVE <<a, b>> \in InFront(r)
      <3>1. PICK i \in 1..Len(q) : q[i] = a
        BY <2>4, <2>9
      <3>2. i \in DOMAIN r /\ Len(q) + 1 \in DOMAIN r /\ i < Len(q) + 1
        BY <1>1, <2>6
      <3> QED BY <2>1, <2>5, <2>6, <2>9, <3>1, <3>2
    <2> QED BY <2>1, <2>3, <2>7, <2>8, <2>9
  <1>4. InFront(r) \subseteq Clients \X Clients
    BY InFrontPairs
  <1> HIDE DEF r, B
  <1>5. InFront(r) = B
    BY <1>2, <1>3, <1>4, SameRelation
  <1> QED BY <1>5 DEF r, B

\* What is left when a message leaves the queue keeps its order.
LEMMA DropsInFront ==
    ASSUME NEW q \in Seq(Ptr), NEW r \in Seq(Ptr), NEW i \in 1..Len(q), Drops(q, r, i),
           Once(q, q[i]) \/ q[i] \notin Clients
    PROVE  InFront(r) = {p \in InFront(q) : p[1] # q[i] /\ p[2] # q[i]}
  <1>1. /\ Len(q) \in Nat /\ DOMAIN q = 1..Len(q) /\ DOMAIN r = 1..(Len(q) - 1)
        /\ \A j \in 1..(Len(q) - 1) : r[j] = IF j < i THEN q[j] ELSE q[j + 1]
    BY LenProperties DEF Drops
  <1> DEFINE B == {p \in InFront(q) : p[1] # q[i] /\ p[2] # q[i]}
  <1>2. B \subseteq Clients \X Clients /\ InFront(r) \subseteq Clients \X Clients
    BY InFrontPairs
  <1>3. ASSUME NEW a \in Clients, NEW b \in Clients
        PROVE  <<a, b>> \in InFront(r) <=> <<a, b>> \in B
    <2>1. <<a, b>> \in InFront(r) <=>
             \E k, l \in DOMAIN r : k < l /\ r[k] = a /\ r[l] = b
      BY InFrontPairs
    <2>2. <<a, b>> \in InFront(q) <=>
             \E k, l \in DOMAIN q : k < l /\ q[k] = a /\ q[l] = b
      BY InFrontPairs
    <2>3. <<a, b>> \in B <=> <<a, b>> \in InFront(q) /\ a # q[i] /\ b # q[i]
      OBVIOUS
    <2> HIDE DEF B
    <2>4. ASSUME NEW k \in DOMAIN r, NEW l \in DOMAIN r,
                 k < l, r[k] = a, r[l] = b
          PROVE  <<a, b>> \in B
      <3>1. PICK x \in DOMAIN q : q[x] = a /\ x # i /\ x = IF k < i THEN k ELSE k + 1
        BY <1>1, <2>4
      <3>2. PICK y \in DOMAIN q : q[y] = b /\ y # i /\ y = IF l < i THEN l ELSE l + 1
        BY <1>1, <2>4
      <3>3. x < y
        BY <1>1, <2>4, <3>1, <3>2
      <3>4. a # q[i] /\ b # q[i]
        BY <1>1, <3>1, <3>2 DEF Once
      <3> QED BY <2>2, <2>3, <3>1, <3>2, <3>3, <3>4
    <2>5. ASSUME <<a, b>> \in B PROVE <<a, b>> \in InFront(r)
      <3>1. PICK x \in DOMAIN q, y \in DOMAIN q : x < y /\ q[x] = a /\ q[y] = b
        BY <2>2, <2>3, <2>5
      <3>2. x # i /\ y # i
        BY <2>3, <2>5, <3>1
      <3>3. PICK k \in DOMAIN r : r[k] = a /\ k = IF x < i THEN x ELSE x - 1
        BY <1>1, <3>1, <3>2
      <3>4. PICK l \in DOMAIN r : r[l] = b /\ l = IF y < i THEN y ELSE y - 1
        BY <1>1, <3>1, <3>2
      <3>5. k < l
        BY <1>1, <3>1, <3>2, <3>3, <3>4
      <3> QED BY <2>1, <3>3, <3>4, <3>5
    <2> QED BY <2>1, <2>4, <2>5
  <1> HIDE DEF B
  <1>4. InFront(r) = B
    BY <1>2, <1>3, SameRelation
  <1> QED BY <1>4 DEF B

-------------------------------------------------------------------------------
(* What the callers see of a client.                                       *)

\* The mapped state of t, by where t is.
Seen(t) ==
    /\ InBlock(t) =>
          /\ t \in ToSet(waiting) => Calls[t] = "sent"
          /\ t \notin ToSet(waiting) =>
                Calls[t] = IF outcome[rcvid[t]] = "initial" THEN "received" ELSE "answered"
          /\ AnswersGiven[t] = outcome[rcvid[t]] /\ Results[t] = "initial"
    /\ Leaving(t) =>
          Calls[t] = "done" /\ AnswersGiven[t] = outcome[rcvid[t]] /\ Results[t] = rc[t]
    /\ ~InCall(t) =>
          Calls[t] = "idle" /\ AnswersGiven[t] = "initial" /\ Results[t] = "initial"

\* This is what the refinement mapping says, before and after a step.
LEMMA SeenAll == \A t \in Clients : Seen(t) /\ Seen(t)'
  <1> SUFFICES ASSUME NEW t \in Clients PROVE Seen(t) /\ Seen(t)'
    OBVIOUS
  <1>1. ~(InBlock(t) /\ Leaving(t)) /\ ~(InBlock(t) /\ Leaving(t))'
    BY DEF InBlock, Leaving
  <1>2. Seen(t)
    BY <1>1 DEF Seen, Calls, AnswersGiven, Results, Phase, InCall
  <1>3. Seen(t)'
    BY <1>1 DEF Seen, Calls, AnswersGiven, Results, Phase, InCall
  <1> QED BY <1>2, <1>3

\* Nothing of it changes.
SameCall(t) ==
    Calls'[t] = Calls[t] /\ AnswersGiven'[t] = AnswersGiven[t] /\ Results'[t] = Results[t]

\* A step that does not touch t, its message or the outcome of its call.
LEMMA Unseen ==
    ASSUME NEW t \in Clients,
           pc'[t] = pc[t], rc'[t] = rc[t], rcvid'[t] = rcvid[t],
           t \in ToSet(waiting') <=> t \in ToSet(waiting),
           pc[t] \in CallPC => outcome'[rcvid[t]] = outcome[rcvid[t]]
    PROVE  SameCall(t)
  <1>1. InCall(t) => pc[t] \in CallPC
    BY DEF InCall, InBlock, Leaving, CallPC, FreeingPC
  <1>2. (InBlock(t)' <=> InBlock(t)) /\ (Leaving(t)' <=> Leaving(t)) /\ (InCall(t)' <=> InCall(t))
    BY DEF InBlock, Leaving, InCall
  <1> QED BY <1>1, <1>2, SeenAll DEF Seen, SameCall, InCall

\* A step that moves t within handle_msgsend_internal_block, on its way out of it or
\* outside of it.
LEMMA Invisible ==
    ASSUME NEW t \in Clients,
           InCall(t) => rcvid'[t] = rcvid[t] /\ outcome'[rcvid[t]] = outcome[rcvid[t]],
           t \in ToSet(waiting') <=> t \in ToSet(waiting),
           \/ InBlock(t) /\ InBlock(t)'
           \/ Leaving(t) /\ Leaving(t)' /\ rc'[t] = rc[t]
           \/ ~InCall(t) /\ ~InCall(t)'
    PROVE  SameCall(t)
  BY SeenAll DEF Seen, SameCall, InCall

\* The mapped functions, when only the call of t changes.
LEMMA OneCall ==
    ASSUME NEW t \in Clients, \A u \in Clients : u # t => SameCall(u)
    PROVE  /\ Calls' = [Calls EXCEPT ![t] = Calls'[t]]
           /\ AnswersGiven' = [AnswersGiven EXCEPT ![t] = AnswersGiven'[t]]
           /\ Results' = [Results EXCEPT ![t] = Results'[t]]
           /\ AnswersGiven'[t] = AnswersGiven[t] => UNCHANGED AnswersGiven
           /\ Results'[t] = Results[t] => UNCHANGED Results
  <1>1. /\ Calls = [u \in Clients |-> Calls[u]] /\ Calls' = [u \in Clients |-> Calls'[u]]
        /\ AnswersGiven = [u \in Clients |-> AnswersGiven[u]]
        /\ AnswersGiven' = [u \in Clients |-> AnswersGiven'[u]]
        /\ Results = [u \in Clients |-> Results[u]] /\ Results' = [u \in Clients |-> Results'[u]]
    BY DEF Calls, AnswersGiven, Results
  <1> QED BY <1>1 DEF SameCall

\* A step of SendReceiveReply, or one that its callers do not see.
CallStep == Abstract!Next \/ UNCHANGED Abstract!vars

\* Nobody's call changes.
LEMMA NoCall ==
    ASSUME \A t \in Clients : SameCall(t), InFront(waiting)' = InFront(waiting),
           entryListed' = entryListed
    PROVE  CallStep
  <1>1. /\ Calls = [u \in Clients |-> Calls[u]] /\ Calls' = [u \in Clients |-> Calls'[u]]
        /\ AnswersGiven = [u \in Clients |-> AnswersGiven[u]]
        /\ AnswersGiven' = [u \in Clients |-> AnswersGiven'[u]]
        /\ Results = [u \in Clients |-> Results[u]] /\ Results' = [u \in Clients |-> Results'[u]]
    BY DEF Calls, AnswersGiven, Results
  <1>2. UNCHANGED <<Calls, AnswersGiven, Results>>
    BY <1>1 DEF SameCall
  <1> QED BY <1>2 DEF CallStep, Abstract!vars

\* The calls that were sent and not received are those in the queue.
LEMMA SentCalls ==
    ASSUME Lifecycle
    PROVE  {u \in Clients : Calls[u] = "sent"} = ToSet(waiting) \cap Clients
  <1>1. ASSUME NEW u \in Clients PROVE Calls[u] = "sent" <=> u \in ToSet(waiting)
    <2>1. Seen(u) /\ (u \in ToSet(waiting) => InBlock(u))
      BY SeenAll DEF Lifecycle, Life, QueuedOK, InBlock
    <2> QED BY <2>1 DEF Seen, InCall
  <1> QED BY <1>1

-------------------------------------------------------------------------------
(* The steps of the handlers are steps of SendReceiveReply.                *)

\* handle_msgsend_internal_block sends, and completes or withdraws.
LEMMA BlockCall ==
    ASSUME Known, Lifecycle, NEW t \in Clients, BlockSteps(t), ~raced'
    PROVE  CallStep
  <1>1. /\ Types /\ t \in Threads /\ t \in Ptr /\ Life(t) /\ OnlyMoves(t) /\ waiting \in Seq(Ptr)
        /\ UNCHANGED <<rcvid, status, state, outcome, entryListed>>
    <2>1. Types /\ t \in Threads /\ t \in Ptr /\ Life(t) /\ waiting \in Seq(Ptr)
      BY ThreadSets DEF Known, Lifecycle, Types, SharedOK, ChanTypeOK
    <2>2. OnlyMoves(t)
      BY <2>1, Moves DEF BlockSteps, SetInterruptible, Enqueue, WakeUp, Expire, Interrupted,
         RemoveWaiting, SpinReceiving, FindProcess, Grab, SpinFinished
    <2>3. UNCHANGED <<rcvid, status, state, outcome, entryListed>>
      BY DEF BlockSteps, SetInterruptible, Enqueue, WakeUp, Expire, Interrupted, RemoveWaiting,
         SpinReceiving, FindProcess, Grab, SpinFinished, EntryGet, ReleasePending, msgVars, entryVars, ghostVars
    <2> QED BY <2>1, <2>2, <2>3
  <1>2. /\ pc[t] \in CallPC => status[t] = outcome[rcvid[t]]
        /\ Seen(t) /\ Seen(t)'
    BY <1>1, SeenAll DEF Life, ResultOK
  <1>3. ASSUME \A u \in Clients : u # t => (u \in ToSet(waiting') <=> u \in ToSet(waiting))
        PROVE  \A u \in Clients : u # t => SameCall(u)
    <2>1. \A u \in Clients : u # t => pc'[u] = pc[u] /\ rc'[u] = rc[u]
      BY <1>1, ThreadSets DEF OnlyMoves
    <2> QED BY <1>1, <1>3, <2>1, Unseen
  <1>4. ASSUME UNCHANGED waiting,
               \/ InBlock(t) /\ InBlock(t)'
               \/ Leaving(t) /\ Leaving(t)' /\ rc'[t] = rc[t]
               \/ ~InCall(t) /\ ~InCall(t)'
        PROVE  CallStep
    <2>1. SameCall(t)
      BY <1>1, <1>4, Invisible
    <2> QED BY <1>1, <1>3, <1>4, <2>1, NoCall
  <1>5. ASSUME UNCHANGED waiting, InBlock(t), t \notin ToSet(waiting), Leaving(t)',
               pc[t] \in CallPC, status[t] # "initial",
               rc'[t] = status[t] \/ (~entryListed /\ rc'[t] \in Interrupts)
        PROVE  CallStep
    <2>1. /\ Calls[t] = "answered" /\ Calls'[t] = "done" /\ AnswersGiven'[t] = AnswersGiven[t]
          /\ Results'[t] \in {AnswersGiven[t]} \cup (IF entryListed THEN {} ELSE Interrupts)
      BY <1>1, <1>2, <1>5 DEF Seen
    <2>2. Abstract!Complete(t)
      BY <1>1, <1>3, <1>5, <2>1, OneCall DEF Abstract!Complete, Abstract!Enter, Interrupts
    <2> QED BY <2>2 DEF CallStep, Abstract!Next
  <1>6. ASSUME InBlock(t), Leaving(t)', rc'[t] \in Interrupts, status[t] = "initial",
               pc[t] \in CallPC,
               \A u \in Clients : u # t => (u \in ToSet(waiting') <=> u \in ToSet(waiting)),
               InFront(waiting') = {p \in InFront(waiting) : p[1] # t /\ p[2] # t}
        PROVE  CallStep
    <2>1. /\ Calls[t] \in {"sent", "received"} /\ Calls'[t] = "done"
          /\ AnswersGiven'[t] = AnswersGiven[t] /\ Results'[t] \in Interrupts
      BY <1>1, <1>2, <1>6 DEF Seen
    <2>2. Abstract!Withdraw(t)
      BY <1>1, <1>3, <1>6, <2>1, OneCall
         DEF Abstract!Withdraw, Abstract!Enter, Abstract!Leave, Interrupts
    <2> QED BY <2>2 DEF CallStep, Abstract!Next
  <1>0. CASE SetInterruptible(t)
    <2>1. pc[t] = "set_state" /\ pc'[t] = "enqueue" /\ UNCHANGED waiting
      BY <1>0, <1>1, Moves DEF SetInterruptible, chanVars
    <2> QED BY <1>4, <2>1 DEF InCall, InBlock, Leaving
  <1>7. CASE Enqueue(t)
    <2>1. pc[t] = "enqueue" /\ pc'[t] = "blocked" /\ AddNewMessage(t)
      BY <1>1, <1>7, Moves DEF Enqueue
    <2>2. ToSet(waiting') = ToSet(waiting) \cup {t}
      BY <1>1, <2>1, QueueSets
    <2>3. InFront(waiting') = InFront(waiting) \cup ((ToSet(waiting) \cap Clients) \X {t})
      <3>1. waiting' = Append(waiting, t) /\ {t} \cap Clients = {t}
        BY <2>1 DEF AddNewMessage
      <3> QED BY <1>1, <3>1, AppendInFront
    <2>4. status[t] = "initial" /\ pc[t] \in CallPC
      BY <1>1, <2>1 DEF Life, ResultOK, CallPC
    <2>5. /\ Calls[t] = "idle" /\ Calls'[t] = "sent" /\ AnswersGiven'[t] = AnswersGiven[t]
          /\ Results'[t] = Results[t]
      BY <1>1, <1>2, <2>1, <2>2, <2>4 DEF Seen, InCall, InBlock, Leaving
    <2>6. \A u \in Clients : u # t => SameCall(u)
      BY <1>3, <2>2
    <2>7. Abstract!Send(t)
      BY <1>1, <2>3, <2>5, <2>6, OneCall, SentCalls DEF Abstract!Send, Abstract!Enter
    <2> QED BY <2>7 DEF CallStep, Abstract!Next
  <1>8. CASE WakeUp(t)
    <2>1. /\ pc[t] = "blocked" /\ pc'[t] = "out" /\ rc'[t] = status[t] /\ woken[t]
          /\ UNCHANGED waiting
      BY <1>1, <1>8, Moves DEF WakeUp, chanVars
    <2>2. status[t] # "initial" /\ t \notin ToSet(waiting)
      BY <1>1, <2>1 DEF Life, DoneOK, QueuedOK
    <2> QED BY <1>5, <2>1, <2>2 DEF InBlock, Leaving, CallPC
  <1>9. CASE Expire(t) \/ Interrupted(t)
    <2>1. pc[t] = "blocked" /\ pc'[t] = "remove" /\ UNCHANGED waiting
      BY <1>1, <1>9, Moves DEF Expire, Interrupted, chanVars
    <2> QED BY <1>4, <2>1 DEF InBlock
  <1>10. CASE RemoveWaiting(t)
    <2>1. pc[t] = "remove" /\ pc[t] \in CallPC /\ InBlock(t)
      BY <1>10 DEF RemoveWaiting, CallPC, InBlock
    <2>2. CASE RemoveMessage(rcvid[t]) /\ GotoRc(t, "out", rc[t])
      <3>1. pc'[t] = "out" /\ rc'[t] \in Interrupts
        BY <1>1, <2>1, <2>2, Moves DEF Known, Base, CallsOK
      <3>2. /\ t \in ToSet(waiting)
            /\ \A x \in ToSet(waiting) : x # t => x \in ToSet(waiting')
            /\ ToSet(waiting') \subseteq ToSet(waiting)
        BY <2>1, <2>2, RemovesOwn
      <3>3. PICK i \in 1..Len(waiting) : waiting[i] = t /\ Drops(waiting, waiting', i)
        BY <2>1, <2>2, RemovesOwn
      <3>4. status[t] = "initial" /\ Once(waiting, t)
        BY <1>1, <3>2 DEF Life, QueuedOK
      <3>5. waiting' \in Seq(Ptr)
        BY <1>1, <2>2, QueueTypes DEF Types, SharedOK, ChanTypeOK
      <3>6. InFront(waiting') = {p \in InFront(waiting) : p[1] # t /\ p[2] # t}
        BY <1>1, <3>3, <3>4, <3>5, DropsInFront
      <3> QED BY <1>6, <2>1, <3>1, <3>2, <3>4, <3>6 DEF Leaving
    <2>3. CASE GotoRc(t, "spin_receiving", rc[t]) /\ UNCHANGED chanVars
      <3>1. pc'[t] = "spin_receiving" /\ UNCHANGED waiting
        BY <1>1, <2>3, Moves DEF chanVars
      <3> QED BY <1>4, <2>1, <3>1 DEF InBlock
    <2> QED BY <1>10, <2>2, <2>3 DEF RemoveWaiting
  <1>11. CASE SpinReceiving(t)
    <2>1. pc[t] = "spin_receiving" /\ pc'[t] = "find_process" /\ UNCHANGED waiting
      BY <1>1, <1>11, Moves DEF SpinReceiving, chanVars
    <2> QED BY <1>4, <2>1 DEF InBlock
  <1>12. CASE FindProcess(t)
    <2>0. pc[t] = "find_process" => rc[t] \in Interrupts
      BY DEF Known, Base, CallsOK
    <2>1. /\ pc[t] = "find_process" /\ UNCHANGED waiting /\ rc'[t] = rc[t] /\ rc[t] \in Interrupts
          /\ pc'[t] = "grab" \/ (pc'[t] = "out" /\ ~entryListed /\ t \notin pending)
      BY <1>1, <1>12, <2>0, Moves DEF FindProcess, EntryGet, msgVars, chanVars, entryVars
    <2>2. CASE pc'[t] = "grab"
      BY <1>4, <2>1, <2>2 DEF InBlock
    <2>3. CASE pc'[t] = "out" /\ ~entryListed /\ t \notin pending
      <3>1. \A s \in Servers : pc[s] \in {"idle", "entry_put"} \cup FreeingPC
        BY <2>3 DEF Known, Base, EntryEnd
      <3>2. \A s \in Servers : cur[s] # t
        BY <2>3, <3>1, Holders, ThreadSets DEF FreeingPC
      <3>3. t \notin ToSet(waiting)
        BY <1>1, <2>1 DEF Life, QueuedOK
      <3>4. status[t] # "initial"
        BY <1>1, <2>1, <2>3, <3>2, <3>3 DEF Life, DoneOK, InBlock
      <3> QED BY <1>5, <2>1, <2>3, <3>3, <3>4 DEF InBlock, Leaving, CallPC
    <2> QED BY <2>1, <2>2, <2>3
  <1>13. CASE Grab(t)
    <2>1. /\ pc[t] = "grab" /\ UNCHANGED waiting /\ rc[t] \in Interrupts
          /\ pc[t] \in CallPC /\ InBlock(t)
      BY <1>13 DEF Grab, chanVars, Known, Base, CallsOK, CallPC, InBlock
    <2>2. t \notin ToSet(waiting)
      BY <1>1, <2>1 DEF Life, QueuedOK
    <2>3. CASE PendingWith(rcvid[t]) = {} /\ GotoRc(t, "entry_put", status[t])
               /\ raced' = (raced \/ BeingAnswered(t))
      <3>1. pc'[t] = "entry_put" /\ rc'[t] = status[t] /\ t \notin pending
        BY <1>1, <2>3, Moves DEF PendingWith
      <3>2. \A s \in Servers : cur[s] # t
        <4> SUFFICES ASSUME NEW s \in Servers, cur[s] = t PROVE FALSE
          OBVIOUS
        <4>1. pc[s] \in {"copy", "add_pending", "fail", "fail_wake", "finish", "wake"}
          BY <3>1, Holders, ThreadSets
        <4>2. pc[s] \notin {"finish", "wake", "fail_wake"}
          BY <2>3 DEF BeingAnswered
        <4> QED BY <1>1, <2>1, <4>1, <4>2 DEF Life, HeldOK
      <3>3. status[t] # "initial"
        BY <1>1, <2>1, <2>2, <3>1, <3>2 DEF Life, DoneOK
      <3> QED BY <1>5, <2>1, <2>2, <3>1, <3>3 DEF Leaving
    <2>4. CASE (\E m \in PendingWith(rcvid[t]) : ReleasePending(m))
               /\ GotoRc(t, "spin_finished", rc[t])
      <3>1. PICK m \in PendingWith(rcvid[t]) : TRUE
        BY <2>4
      <3>2. m = t /\ t \in pending
        BY <1>1, <2>1, <3>1 DEF PendingWith, Known, IdsInv, RcvidUnique, Types, SharedOK, EntryTypeOK,
           Base, CallsOK
      <3>3. entryRefs > 0
        BY <1>1, <2>1, EntryUsed DEF Known, HoldsEntry
      <3>4. ~UnlinkOutstanding(t)
        BY <3>3, Holders DEF UnlinkOutstanding, Known, Base, EntryEnd, Freeing, FreeingPC
      <3>5. status[t] = "initial"
        BY <1>1, <3>2, <3>4 DEF Life, PendingOK
      <3>6. pc'[t] = "spin_finished" /\ rc'[t] = rc[t]
        BY <1>1, <2>4, Moves
      <3>7. InFront(waiting') = {p \in InFront(waiting) : p[1] # t /\ p[2] # t}
        <4>1. ASSUME NEW p \in InFront(waiting) PROVE p[1] # t /\ p[2] # t
          BY <2>2 DEF InFront, ToSet
        <4> QED BY <2>1, <4>1
      <3> QED BY <1>6, <2>1, <3>5, <3>6, <3>7 DEF Leaving
    <2> QED BY <1>13, <2>3, <2>4 DEF Grab
  <1>14. CASE SpinFinished(t)
    <2>1. /\ pc[t] = "spin_finished" /\ pc'[t] = "entry_put" /\ rc'[t] = rc[t]
          /\ UNCHANGED waiting
      BY <1>1, <1>14, Moves DEF SpinFinished, chanVars
    <2> QED BY <1>4, <2>1 DEF Leaving
  <1> QED BY <1>0, <1>7, <1>8, <1>9, <1>10, <1>11, <1>12, <1>13, <1>14 DEF BlockSteps

\* A step that touches neither the clients nor the queue, or the queue only where
\* it does not concern blocking messages.
LEMMA QuietCall ==
    ASSUME \A u \in Clients : /\ pc'[u] = pc[u] /\ rc'[u] = rc[u] /\ rcvid'[u] = rcvid[u]
                              /\ u \in ToSet(waiting') <=> u \in ToSet(waiting),
           outcome' = outcome, InFront(waiting') = InFront(waiting), entryListed' = entryListed
    PROVE  CallStep
  BY Unseen, NoCall

\* The message of m is answered with a.
LEMMA ReplyCall ==
    ASSUME Known, Lifecycle, NEW m \in Clients, NEW a \in Answer,
           InBlock(m), InBlock(m)', m \notin ToSet(waiting), status[m] = "initial",
           outcome' = [outcome EXCEPT ![rcvid[m]] = a], a = "ESRCH" <=> ~entryListed,
           UNCHANGED <<waiting, rcvid, entryListed>>,
           \A u \in Clients : u # m =>
              \/ pc'[u] = pc[u] /\ rc'[u] = rc[u]
              \/ Leaving(u) /\ Leaving(u)' /\ rc'[u] = rc[u]
    PROVE  CallStep
  <1>1. /\ \A t \in Clients : pc[t] \in CallPC => rcvid[t] \in 1..MaxRcvid
        /\ \A u \in Clients : pc[u] \in CallPC /\ u # m => rcvid[u] # rcvid[m]
        /\ outcome \in [1..MaxRcvid -> Status]
    BY MessagesAssumption, ThreadSets DEF Known, Base, CallsOK, IdsInv, RcvidUnique, Types,
       SharedOK, MsgTypeOK
  <1>2. pc[m] \in CallPC /\ \A u \in Clients : Leaving(u) => pc[u] \in CallPC
    BY DEF InBlock, Leaving, CallPC, FreeingPC
  <1>3. /\ outcome[rcvid[m]] = "initial" /\ outcome'[rcvid[m]] = a
        /\ \A u \in Clients : u # m /\ pc[u] \in CallPC =>
              outcome'[rcvid[u]] = outcome[rcvid[u]]
    BY <1>1, <1>2 DEF Lifecycle, Life, ResultOK
  <1>4. ASSUME NEW u \in Clients, u # m PROVE SameCall(u)
    <2>1. CASE pc'[u] = pc[u] /\ rc'[u] = rc[u]
      BY <1>3, <1>4, <2>1, Unseen
    <2>2. CASE Leaving(u) /\ Leaving(u)' /\ rc'[u] = rc[u]
      BY <1>2, <1>3, <1>4, <2>2, Invisible
    <2> QED BY <1>4, <2>1, <2>2
  <1>5. /\ Calls[m] = "received" /\ Calls'[m] = "answered"
        /\ AnswersGiven'[m] = a /\ Results'[m] = Results[m]
    <2>1. a # "initial" /\ Seen(m) /\ Seen(m)'
      BY SeenAll DEF Answer
    <2> QED BY <1>3, <2>1 DEF Seen
  <1>6. Abstract!Reply(m, a)
    BY <1>4, <1>5, OneCall DEF Abstract!Reply, Abstract!Enter
  <1> QED BY <1>6 DEF CallStep, Abstract!Next

\* Without blocking messages there is no order.
LEMMA NobodyInFront ==
    ASSUME NEW q, \A u \in Clients : u \notin ToSet(q)
    PROVE  InFront(q) = {}
  BY DEF InFront, ToSet

\* Whoever is queued holds a reference, so qnx_channel_free disposes of no call.
LEMMA ChannelFreeInFront ==
    ASSUME Known, Lifecycle, NEW th \in Threads, ChannelFreeMsg(th) \/ ChannelFreeDel(th)
    PROVE  /\ InFront(waiting') = InFront(waiting)
           /\ \A u \in Clients : /\ rcvid'[u] = rcvid[u]
                                 /\ u \in ToSet(waiting') <=> u \in ToSet(waiting)
  <1>1. \A u \in Clients : MessageKept(u)
    BY LifeChannelFree
  <1>2. chanRefs = 0
    BY DEF Known, ChannelEnd, FreeingChannel, ChannelFreeMsg, ChannelFreeDel
  <1>3. ASSUME NEW u \in Clients, u \in ToSet(waiting) PROVE FALSE
    <2>1. pc[u] \in {"blocked", "remove"}
      BY <1>3 DEF Lifecycle, Life, QueuedOK
    <2>2. u \in Threads /\ HoldsChannel(u)
      BY <2>1, ThreadSets DEF HoldsChannel
    <2> QED BY <1>2, <2>2, ChannelUsed DEF Known
  <1>4. \A u \in Clients : u \notin ToSet(waiting) /\ u \notin ToSet(waiting')
    BY <1>1, <1>3 DEF MessageKept
  <1>5. InFront(waiting) = {} /\ InFront(waiting') = {}
    BY <1>4, NobodyInFront
  <1> QED BY <1>1, <1>5 DEF MessageKept

\* Constructing a message and one-way messages are invisible.
LEMMA SendCall ==
    ASSUME Known, Lifecycle, NEW t \in Clients, SendSteps(t)
    PROVE  CallStep
  <1>1. /\ Types /\ t \in Threads /\ OnlyMoves(t) /\ waiting \in Seq(Ptr)
        /\ UNCHANGED <<outcome, entryListed>>
    <2>1. Types /\ t \in Threads /\ waiting \in Seq(Ptr)
      BY ThreadSets DEF Known, Types, SharedOK, ChanTypeOK
    <2>2. OnlyMoves(t)
      BY <2>1, Moves DEF SendSteps, MsgSend, MsgSendBadf, MsgSendvInitFails, MsgSendPulse,
         PulseAdd, MsgSendNoReply, NoReplyAdd, NoReplyRetry, NoReplyInterrupted
    <2>3. UNCHANGED <<outcome, entryListed>>
      BY DEF SendSteps, MsgSend, MsgSendBadf, MsgSendvInitFails, MsgSendPulse, PulseAdd,
         MsgSendNoReply, NoReplyAdd, NoReplyRetry, NoReplyInterrupted, ghostVars, entryVars
    <2> QED BY <2>1, <2>2, <2>3
  <1>2. /\ rcvid \in [Ptr -> 0..MaxRcvid] /\ t \in Ptr
        /\ \A u \in Clients : u \in Ptr /\ u \notin Heap
    BY <1>1, MessagesAssumption DEF Types, SharedOK, MsgTypeOK, Ptr
  <1>3. \A u \in Clients : u # t => rcvid'[u] = rcvid[u]
    <2>1. CASE MsgSend(t)
      BY <1>2, <2>1 DEF MsgSend, InitMsg, GetNewRcvid
    <2>2. CASE MsgSendPulse(t) \/ MsgSendNoReply(t)
      BY <1>2, <2>2 DEF MsgSendPulse, MsgSendNoReply, InitPulse, InitNoReply, GetNewRcvid
    <2> QED BY <2>1, <2>2 DEF SendSteps, MsgSendBadf, MsgSendvInitFails, PulseAdd, NoReplyAdd,
            NoReplyRetry, NoReplyInterrupted, msgVars
  <1>4. ~InCall(t) /\ ~InCall(t)'
    <2>1. pc[t] \in {"idle", "pulse_add", "noreply_add", "noreply_sleep"}
      BY DEF SendSteps, MsgSend, MsgSendBadf, MsgSendvInitFails, MsgSendPulse, PulseAdd,
         MsgSendNoReply, NoReplyAdd, NoReplyRetry, NoReplyInterrupted
    <2>2. pc'[t] = pc[t] \/ pc'[t] \in {"set_state", "pulse_add", "noreply_add", "noreply_sleep", "put"}
      BY <1>1, Moves DEF SendSteps, MsgSend, MsgSendBadf, MsgSendvInitFails, MsgSendPulse, PulseAdd,
         MsgSendNoReply, NoReplyAdd, NoReplyRetry, NoReplyInterrupted
    <2> QED BY <2>1, <2>2 DEF InCall, InBlock, Leaving
  <1>5. /\ InFront(waiting') = InFront(waiting)
        /\ \A u \in Clients : u \in ToSet(waiting') <=> u \in ToSet(waiting)
    <2>1. CASE UNCHANGED waiting
      BY <2>1
    <2>2. CASE pc[t] \in {"pulse_add", "noreply_add"} /\ AddNewMessage(cur[t])
      <3>1. cur[t] \in Ptr /\ cur[t] \notin Clients
        BY <1>1, <1>2, <2>2 DEF Types, ThreadsOK, Ptr
      <3>2. ToSet(waiting') = ToSet(waiting) \cup {cur[t]}
        BY <1>1, <2>2, <3>1, QueueSets
      <3>3. waiting' = Append(waiting, cur[t]) /\ {cur[t]} \cap Clients = {}
        BY <2>2, <3>1 DEF AddNewMessage
      <3>4. InFront(waiting') =
               InFront(waiting) \cup ((ToSet(waiting) \cap Clients) \X {})
        BY <1>1, <3>1, <3>3, AppendInFront
      <3> QED BY <3>1, <3>2, <3>4
    <2> QED BY <2>1, <2>2 DEF SendSteps, MsgSend, MsgSendBadf, MsgSendvInitFails, MsgSendPulse,
            PulseAdd, MsgSendNoReply, NoReplyAdd, NoReplyRetry, NoReplyInterrupted, InitMsg,
            AddNewMessageFull, ChannelGet, chanVars
  <1>6. SameCall(t)
    BY <1>4, <1>5, Invisible
  <1>7. ASSUME NEW u \in Clients, u # t PROVE SameCall(u)
    <2>1. pc'[u] = pc[u] /\ rc'[u] = rc[u]
      BY <1>1, <1>7, ThreadSets DEF OnlyMoves
    <2> QED BY <1>1, <1>3, <1>5, <1>7, <2>1, Unseen
  <1> QED BY <1>1, <1>5, <1>6, <1>7, NoCall

\* handle_msgreceive receives the call that was sent first.
LEMMA ReceiveCall ==
    ASSUME Known, Lifecycle, NEW s \in Servers, ReceiveSteps(s)
    PROVE  CallStep
  <1>1. /\ Types /\ waiting \in Seq(Ptr)
        /\ UNCHANGED <<rcvid, status, outcome, entryListed>>
        /\ \A u \in Clients : pc'[u] = pc[u] /\ rc'[u] = rc[u]
    <2>1. Types /\ s \in Threads /\ waiting \in Seq(Ptr)
      BY ThreadSets DEF Known, Types, SharedOK, ChanTypeOK
    <2>2. OnlyMoves(s)
      BY <2>1, Moves DEF ReceiveSteps, MsgReceive, WaitEvent, WaitInterrupted, Take, CopyPulse,
         CopyNoReply, CopyMsg, ReceiveAddPending
    <2>3. UNCHANGED <<rcvid, status, outcome, entryListed>>
      BY DEF ReceiveSteps, MsgReceive, WaitEvent, WaitInterrupted, Take, CopyPulse, CopyNoReply,
         CopyMsg, ReceiveAddPending, AddPending, msgVars, entryVars, ghostVars
    <2> QED BY <2>1, <2>2, <2>3, ThreadSets DEF OnlyMoves
  <1>2. CASE UNCHANGED waiting
    BY <1>1, <1>2, QuietCall
  <1>3. CASE Take(s) /\ Dequeue
    <2>1. waiting # <<>> /\ waiting' = Tail(waiting)
      BY <1>3 DEF Dequeue
    <2>2. PICK h : h = Head(waiting)
      OBVIOUS
    <2>3. /\ waiting' \in Seq(Ptr) /\ Drops(waiting, waiting', 1)
          /\ 1 \in 1..Len(waiting) /\ waiting[1] = h
      BY <1>1, <2>1, <2>2, TailDrops
    <2>4. /\ h \in ToSet(waiting)
          /\ \A x \in ToSet(waiting) : x # h => x \in ToSet(waiting')
          /\ ToSet(waiting') \subseteq ToSet(waiting)
          /\ Once(waiting, h) => h \notin ToSet(waiting')
      BY <1>1, <1>3, <2>2, QueueSets
    <2>5. Once(waiting, h) \/ h \notin Clients
      BY DEF Lifecycle, Life, QueuedOK
    <2>6. InFront(waiting') = {p \in InFront(waiting) : p[1] # h /\ p[2] # h}
      BY <1>1, <2>3, <2>5, DropsInFront
    <2>7. CASE h \notin Clients
      <3>1. ASSUME NEW p \in InFront(waiting) PROVE p[1] # h /\ p[2] # h
        BY <2>7 DEF InFront
      <3>2. InFront(waiting') = InFront(waiting)
        BY <2>6, <3>1
      <3> QED BY <1>1, <2>4, <2>7, <3>2, QuietCall
    <2>8. CASE h \in Clients
      <3>1. /\ InBlock(h) /\ InBlock(h)' /\ pc[h] \in CallPC /\ outcome[rcvid[h]] = "initial"
            /\ Once(waiting, h)
        BY <1>1, <2>4, <2>8 DEF Lifecycle, Life, QueuedOK, ResultOK, InBlock, CallPC
      <3>2. /\ Calls[h] = "sent" /\ Calls'[h] = "received"
            /\ AnswersGiven'[h] = AnswersGiven[h] /\ Results'[h] = Results[h]
        BY <1>1, <2>4, <2>8, <3>1, SeenAll DEF Seen
      <3>3. ASSUME NEW u \in Clients PROVE <<u, h>> \notin InFront(waiting)
        <4>1. ASSUME NEW i \in DOMAIN waiting, NEW j \in DOMAIN waiting, i < j, waiting[j] = h
              PROVE  FALSE
          <5>1. DOMAIN waiting = 1..Len(waiting) /\ Len(waiting) \in Nat
            BY <1>1, LenProperties
          <5>2. j = 1
            BY <2>3, <3>1, <4>1, <5>1 DEF Once
          <5> QED BY <4>1, <5>1, <5>2
        <4> QED BY <2>8, <4>1, InFrontPairs
      <3>4. \A u \in Clients : u # h => SameCall(u)
        BY <1>1, <2>4, Unseen
      <3>5. Abstract!Receive(h)
        BY <1>1, <2>6, <2>8, <3>2, <3>3, <3>4, OneCall
           DEF Abstract!Receive, Abstract!Enter, Abstract!Leave
      <3> QED BY <2>8, <3>5 DEF CallStep, Abstract!Next
    <2> QED BY <2>7, <2>8
  <1> QED BY <1>2, <1>3 DEF ReceiveSteps, MsgReceive, WaitEvent, WaitInterrupted, Take, CopyPulse,
          CopyNoReply, CopyMsg, ReceiveAddPending, ChannelGet, chanVars

\* handle_msgreply and handle_msgerror answer, and qnxcomm_close ends the server.
LEMMA AnswerCall ==
    ASSUME Known, Lifecycle, NEW s \in Servers, AnswerSteps(s)
    PROVE  CallStep
  <1>1. /\ Types /\ s \in Threads /\ OnlyMoves(s)
        /\ \A u \in Clients : pc'[u] = pc[u] /\ rc'[u] = rc[u]
    <2>1. Types /\ s \in Threads
      BY ThreadSets DEF Known
    <2>2. OnlyMoves(s)
      BY <2>1, Moves DEF AnswerSteps, MsgAnswer, Finish, Wake, ChannelDestroy, Close
    <2> QED BY <2>1, <2>2, ThreadSets DEF OnlyMoves
  <1>2. CASE (\E k : \E a \in Given : MsgAnswer(s, k, a)) \/ Wake(s)
    <2>1. UNCHANGED <<waiting, rcvid, outcome, entryListed>>
      BY <1>2 DEF MsgAnswer, ReleasePending, Wake, WakeUpProcess, msgVars, chanVars, entryVars,
         ghostVars
    <2> QED BY <1>1, <2>1, QuietCall
  <1>3. CASE Finish(s)
    <2>1. /\ pc[s] \in {"finish", "fail"} /\ cur[s] \in Clients /\ rc[s] \in Given
          /\ UNCHANGED <<waiting, rcvid, entryListed>>
          /\ outcome' = [outcome EXCEPT ![rcvid[cur[s]]] = rc[s]]
      BY <1>1, <1>3 DEF Finish, StoreAnswer, chanVars, entryVars, Types, ThreadsOK
    <2>2. Life(cur[s])
      BY <2>1 DEF Lifecycle
    <2>3. InBlock(cur[s]) /\ status[cur[s]] = "initial" /\ cur[s] \notin ToSet(waiting)
      BY <1>1, <2>1, <2>2 DEF Life, HeldOK, QueuedOK
    <2>4. InBlock(cur[s]) => pc'[cur[s]] \in {"blocked", "remove", "spin_receiving", "find_process", "grab"}
      BY <1>1, <2>1 DEF InBlock
    <2>5. entryListed
      BY <2>1 DEF Known, Base, EntryEnd, FreeingPC
    <2>6. PICK m \in Clients : m = cur[s]
      BY <2>1
    <2>7. InBlock(m)'
      BY <2>3, <2>4, <2>6 DEF InBlock
    <2> QED BY <1>1, <2>1, <2>3, <2>5, <2>6, <2>7, ReplyCall DEF Given
  <1>4. CASE ChannelDestroy(s)
    <2>1. UNCHANGED <<waiting, rcvid, outcome, entryListed>>
      BY <1>4 DEF ChannelDestroy, UnlinkChannel, ChannelRelease, msgVars, ghostVars
    <2> QED BY <1>1, <2>1, QuietCall
  <1>5. CASE Close(s)
    <2>1. UNCHANGED <<waiting, rcvid, outcome>> /\ entryListed /\ entryListed' = FALSE
      BY <1>5 DEF Close, UnlinkEntry, msgVars, chanVars, ghostVars
    <2>2. \A u \in Clients : SameCall(u)
      BY <1>1, <2>1, Unseen
    <2>3. UNCHANGED <<Calls, AnswersGiven, Results>>
      <3>1. /\ Calls = [u \in Clients |-> Calls[u]] /\ Calls' = [u \in Clients |-> Calls'[u]]
            /\ AnswersGiven = [u \in Clients |-> AnswersGiven[u]]
            /\ AnswersGiven' = [u \in Clients |-> AnswersGiven'[u]]
            /\ Results = [u \in Clients |-> Results[u]]
            /\ Results' = [u \in Clients |-> Results'[u]]
        BY DEF Calls, AnswersGiven, Results
      <3> QED BY <2>2, <3>1 DEF SameCall
    <2>4. Abstract!ServerEnds
      BY <2>1, <2>3 DEF Abstract!ServerEnds
    <2> QED BY <2>4 DEF CallStep, Abstract!Next
  <1> QED BY <1>2, <1>3, <1>4, <1>5 DEF AnswerSteps

\* A call returns, and qnx_process_entry_free answers what was received.
LEMMA FreeCall ==
    ASSUME Known, Lifecycle, NEW th \in Threads, ReleaseAndFree(th)
    PROVE  CallStep
  <1>1. /\ Types /\ OnlyMoves(th) /\ UNCHANGED entryListed
        /\ \A u \in Clients : u # th => pc'[u] = pc[u] /\ rc'[u] = rc[u]
    <2>1. Types
      BY DEF Known
    <2>2. OnlyMoves(th)
      BY <2>1, Moves DEF ReleaseAndFree, Put, EntryPut, FreeChannels, FreePending, FreeDel,
         FreeDone, ChannelFreeMsg, ChannelFreeDel, ChannelFreed
    <2>3. UNCHANGED entryListed
      BY DEF ReleaseAndFree, Put, EntryPut, EntryRelease, FreeChannels, UnlinkChannel, FreePending,
         FreeDel, ReleasePending, FreeDone, ChannelFreeMsg, ChannelFreeDel, ChannelFreed, entryVars
    <2> QED BY <2>1, <2>2, <2>3, ThreadSets DEF OnlyMoves
  <1>2. CASE FreePending(th)
    <2>1. PICK m \in pending : /\ CleanupAndFree({m})
                               /\ outcome' = [outcome EXCEPT ![rcvid[m]] = "ESRCH"]
                               /\ GotoCur(th, "free_del", m, rc[th])
      BY <1>2 DEF FreePending
    <2>2. /\ pc[th] = "free_pending" /\ pc'[th] = "free_del" /\ rc'[th] = rc[th]
          /\ UNCHANGED <<waiting, rcvid>>
      BY <1>1, <1>2, <2>1, Moves DEF FreePending, CleanupAndFree, chanVars
    <2>3. m \in Clients
      BY <1>1, <2>1 DEF Types, SharedOK
    <2>4. ~UnlinkOutstanding(m) /\ ~entryListed
      BY <1>1, <2>2, EntryUsed DEF UnlinkOutstanding, Known, Base, EntryEnd, Freeing, FreeingPC,
         SharedOK, Types, EntryTypeOK
    <2>5. InBlock(m) /\ status[m] = "initial" /\ m \notin ToSet(waiting)
      BY <2>1, <2>3, <2>4 DEF Lifecycle, Life, PendingOK, QueuedOK
    <2>6. m # th /\ InBlock(m)'
      BY <1>1, <2>2, <2>3, <2>5 DEF InBlock
    <2>7. th \in Clients => Leaving(th) /\ Leaving(th)'
      BY <2>2 DEF Leaving
    <2>8. "ESRCH" \in Answer
      BY DEF Answer
    <2> QED BY <1>1, <2>1, <2>2, <2>3, <2>4, <2>5, <2>6, <2>7, <2>8, ReplyCall
  <1>3. CASE \/ Put(th) \/ EntryPut(th) \/ FreeChannels(th) \/ FreeDel(th) \/ FreeDone(th)
             \/ ChannelFreeMsg(th) \/ ChannelFreeDel(th) \/ ChannelFreed(th)
    <2>1. UNCHANGED outcome
      BY <1>3 DEF Put, EntryPut, FreeChannels, FreeDel, FreeDone, ChannelFreeMsg, ChannelFreeDel,
         ChannelFreed, ghostVars
    <2>2. /\ InFront(waiting') = InFront(waiting)
          /\ \A u \in Clients : /\ rcvid'[u] = rcvid[u]
                                /\ u \in ToSet(waiting') <=> u \in ToSet(waiting)
      <3>1. CASE ~(ChannelFreeMsg(th) \/ ChannelFreeDel(th))
        <4>1. UNCHANGED <<waiting, rcvid>>
          BY <1>3, <3>1 DEF Put, ChannelRelease, FreeChannels, UnlinkChannel, EntryPut, FreeDel,
             FreeDone, ChannelFreed, msgVars, chanVars
        <4> QED BY <4>1
      <3> QED BY <3>1, ChannelFreeInFront
    <2>3. \A u \in Clients : u # th => SameCall(u)
      BY <1>1, <2>1, <2>2, Unseen
    <2>4. CASE th \notin Clients
      BY <1>1, <2>2, <2>3, <2>4, NoCall
    <2>5. CASE th \in Clients /\ ~(pc[th] = "out" /\ Put(th))
      <3>1. \/ Leaving(th) /\ Leaving(th)' /\ rc'[th] = rc[th]
            \/ ~InCall(th) /\ ~InCall(th)'
        <4>1. CASE Put(th)
          BY <1>1, <2>5, <4>1, Moves DEF Put, InCall, InBlock, Leaving
        <4>2. CASE EntryPut(th) \/ FreeChannels(th) \/ FreeDel(th) \/ FreeDone(th)
          BY <1>1, <2>5, <4>2, Moves DEF EntryPut, FreeChannels, FreeDel, FreeDone, AfterFree, Leaving
        <4>3. CASE ChannelFreeMsg(th) \/ ChannelFreeDel(th) \/ ChannelFreed(th)
          BY <1>1, <2>5, <4>3, Moves DEF ChannelFreeMsg, ChannelFreeDel, ChannelFreed, FreesChannel,
             UnlinksMessage, InCall, InBlock, Leaving
        <4> QED BY <1>3, <4>1, <4>2, <4>3
      <3>2. SameCall(th)
        BY <2>1, <2>2, <2>5, <3>1, Invisible
      <3> QED BY <1>1, <2>2, <2>3, <3>2, NoCall
    <2>6. CASE th \in Clients /\ pc[th] = "out" /\ Put(th)
      <3>1. pc'[th] \in {"idle", "put_free"}
        BY <1>1, <2>6, Moves DEF Put
      <3>2. /\ Calls[th] = "done" /\ Calls'[th] = "idle"
            /\ AnswersGiven'[th] = "initial" /\ Results'[th] = "initial"
        BY <2>6, <3>1, SeenAll DEF Seen, InCall, InBlock, Leaving
      <3>3. Abstract!Return(th)
        BY <1>1, <2>2, <2>3, <2>6, <3>2, OneCall DEF Abstract!Return, Abstract!Enter
      <3> QED BY <2>6, <3>3 DEF CallStep, Abstract!Next
    <2> QED BY <2>4, <2>5, <2>6
  <1> QED BY <1>2, <1>3 DEF ReleaseAndFree

\* The driver implements SendReceiveReply, for any number of clients and server
\* threads: as long as no sender leaves through one of the three windows, every step
\* of a handler is a step of a call or invisible to the callers.
THEOREM MsgPassingImplementsCalls == UnracedSpec => ImplementsCalls
  <1>1. Init => Abstract!Init
    <2> SUFFICES ASSUME Init PROVE Abstract!Init
      OBVIOUS
    <2>1. /\ \A t \in Clients : pc[t] = "idle" /\ Seen(t)
          /\ entryListed = TRUE /\ waiting = <<>>
      BY ThreadSets, SeenAll DEF Init, EntryInit, ChanInit
    <2>2. \A t \in Clients :
             Calls[t] = "idle" /\ AnswersGiven[t] = "initial" /\ Results[t] = "initial"
      BY <2>1 DEF Seen, InCall, InBlock, Leaving
    <2>3. InFront(waiting) = {}
      BY <2>1, EmptyList, NobodyInFront
    <2>4. /\ Calls = [t \in Clients |-> Calls[t]]
          /\ AnswersGiven = [t \in Clients |-> AnswersGiven[t]]
          /\ Results = [t \in Clients |-> Results[t]]
      BY DEF Calls, AnswersGiven, Results
    <2> QED BY <2>1, <2>2, <2>3, <2>4 DEF Abstract!Init
  <1>2. Known /\ LifeInv /\ [Next /\ ~raced']_vars => [Abstract!Next]_(Abstract!vars)
    <2> SUFFICES ASSUME Known, LifeInv, [Next /\ ~raced']_vars
                 PROVE  CallStep
      BY DEF CallStep
    <2>1. CASE Next /\ ~raced'
      <3>1. Lifecycle
        BY <2>1, RacedStays DEF LifeInv
      <3> QED BY <2>1, <3>1, NextSteps, SendCall, BlockCall, ReceiveCall, AnswerCall, FreeCall
    <2>2. CASE UNCHANGED vars
      <3>1. UNCHANGED <<pc, rc, rcvid, outcome, waiting, entryListed>>
        BY <2>2 DEF vars, msgVars, chanVars, entryVars, threadVars, ghostVars
      <3> QED BY <3>1, QuietCall
    <2> QED BY <2>1, <2>2
  <1>3. [Next /\ ~raced']_vars => [Next]_vars
    OBVIOUS
  <1> QED BY <1>1, <1>2, <1>3, KnownInvariant, LifeInvariant, PTL
          DEF UnracedSpec, Spec, ImplementsCalls, Abstract!Spec
===============================================================================
