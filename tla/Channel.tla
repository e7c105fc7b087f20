-------------------------------- MODULE Channel -------------------------------
(***************************************************************************)
(* One channel of kernel/channel.[ch]: its queue of waiting messages, the  *)
(* two counters kept beside it and its reference count.  The operations    *)
(* hold waiting_lock for all they touch, so each is one step; only         *)
(* qnx_channel_free is several, since it gives memory back before it is    *)
(* done with it.                                                           *)
(***************************************************************************)
EXTENDS Messages, SequencesExt

CONSTANT MaxNoReply      \* module parameter noreply_per_channel

ASSUME ChannelAssumption == MaxNoReply \in Nat

VARIABLES
    waiting,               \* chnl->waiting
    num_waiting,           \* chnl->num_waiting, what receivers and poll look at
    num_waiting_noreply,   \* chnl->num_waiting_noreply
    chanRefs               \* chnl->refcnt; 0: qnx_channel_free runs or has run

chanVars == <<waiting, num_waiting, num_waiting_noreply, chanRefs>>

ChanTypeOK ==
    /\ waiting \in Seq(Ptr)
    /\ num_waiting \in Int
    /\ num_waiting_noreply \in Int
    /\ chanRefs \in Int

\* qnx_channel_init: kref_init starts at 1, the reference of the channel list.
ChanInit ==
    /\ waiting = <<>>
    /\ num_waiting = 0
    /\ num_waiting_noreply = 0
    /\ chanRefs = 1

-------------------------------------------------------------------------------

\* A message that counts against noreply_per_channel.
IsNoReply(m) == rcvid[m] > 0 /\ ~HasTask(m)

\* The newest message is the first to be received.
AddNewMessageFront(m) ==
    /\ IsNoReply(m) => num_waiting_noreply < MaxNoReply
    /\ waiting' = <<m>> \o waiting
    /\ num_waiting_noreply' = num_waiting_noreply + (IF IsNoReply(m) THEN 1 ELSE 0)
    /\ num_waiting' = num_waiting + 1
    /\ UNCHANGED chanRefs

\* qnx_channel_add_new_message queues m.
AddNewMessage(m) ==
    /\ IsNoReply(m) => num_waiting_noreply < MaxNoReply
    /\ waiting' = Append(waiting, m)
    /\ num_waiting_noreply' = num_waiting_noreply + (IF IsNoReply(m) THEN 1 ELSE 0)
    /\ num_waiting' = num_waiting + 1
    /\ UNCHANGED chanRefs

\* qnx_channel_add_new_message returns -1: the counter goes up all the same.
AddNewMessageFull(m) ==
    /\ IsNoReply(m)
    /\ num_waiting_noreply >= MaxNoReply
    /\ num_waiting' = num_waiting + 1
    /\ UNCHANGED <<waiting, num_waiting_noreply, chanRefs>>

\* The positions in the queue of the message with receive id k.
PositionsOf(k) == {i \in DOMAIN waiting : rcvid[waiting[i]] = k}

\* qnx_channel_remove_message returns 1: the first match leaves the queue.
RemoveMessage(k) ==
    /\ \E i \in PositionsOf(k) :
          /\ \A j \in PositionsOf(k) : i <= j
          /\ waiting' = RemoveAt(waiting, i)
    /\ num_waiting' = num_waiting - 1
    /\ UNCHANGED <<num_waiting_noreply, chanRefs>>

\* num_waiting_noreply is not decremented.
DequeueKeepsNoReply ==
    /\ waiting # <<>>
    /\ waiting' = Tail(waiting)
    /\ num_waiting' = num_waiting - 1
    /\ UNCHANGED <<num_waiting_noreply, chanRefs>>

\* The locked section of handle_msgreceive that takes the first message.
Dequeue ==
    /\ waiting # <<>>
    /\ waiting' = Tail(waiting)
    /\ num_waiting' = num_waiting - 1
    /\ num_waiting_noreply' =
          num_waiting_noreply - (IF IsNoReply(Head(waiting)) THEN 1 ELSE 0)
    /\ UNCHANGED chanRefs

\* kref_get of a lookup that found the channel.
ChannelGet ==
    /\ chanRefs' = chanRefs + 1
    /\ UNCHANGED <<waiting, num_waiting, num_waiting_noreply>>

\* The last kref_put runs qnx_channel_free.
LastReference == chanRefs = 1

\* qnx_channel_release
ChannelRelease ==
    /\ chanRefs' = chanRefs - 1
    /\ UNCHANGED <<waiting, num_waiting, num_waiting_noreply, msgVars>>

\* The loop of qnx_channel_free: qnx_internal_msgsend_cleanup_and_free of the first
\* message still queued ...
FreeFirst ==
    /\ waiting # <<>>
    /\ CleanupAndFree({Head(waiting)})
    /\ UNCHANGED chanVars

\* ... and only then its list_del.
UnlinkFirst ==
    /\ waiting # <<>>
    /\ waiting' = Tail(waiting)
    /\ UNCHANGED <<num_waiting, num_waiting_noreply, chanRefs, msgVars>>
===============================================================================
