------------------------- MODULE MsgPassingRefinement -------------------------
(***************************************************************************)
(* MsgPassing implements SendReceiveReply: the refinement mapping and the  *)
(* behaviours it is claimed for.                                           *)
(***************************************************************************)
EXTENDS MsgPassing

\* t is in handle_msgsend_internal_block and on its way out of it.
Leaving(t) ==
    pc[t] \in {"spin_finished", "entry_put", "free_channels", "free_chan", "free_chan_del",
               "free_pending", "free_del", "out"}

\* t's message is in the driver (pulses and no-reply messages have no call).
InCall(t) == InBlock(t) \/ Leaving(t)

\* The phase of t's call, from where its message is and what became of it.
Phase(t) ==
    CASE Leaving(t) -> "done"
      [] InBlock(t) /\ t \in ToSet(waiting) -> "sent"
      [] InBlock(t) /\ t \notin ToSet(waiting) ->
            IF outcome[rcvid[t]] = "initial" THEN "received" ELSE "answered"
      [] OTHER -> "idle"

Calls == [t \in Clients |-> Phase(t)]

\* What was made of each client's call, and what the call is going to return.
AnswersGiven == [t \in Clients |-> IF InCall(t) THEN outcome[rcvid[t]] ELSE "initial"]

Results == [t \in Clients |-> IF Leaving(t) THEN rc[t] ELSE "initial"]

\* The blocking messages in queue q, the one in front of another first.
InFront(q) ==
    {p \in Clients \X Clients :
        \E i, j \in DOMAIN q : i < j /\ q[i] = p[1] /\ q[j] = p[2]}

Abstract == INSTANCE SendReceiveReply WITH
    Answers <- Answer,
    Dead <- "ESRCH",
    Interrupts <- {"ETIMEDOUT", "ERESTARTSYS"},
    None <- "initial",
    before <- InFront(waiting),
    call <- Calls,
    answer <- AnswersGiven,
    result <- Results,
    up <- entryListed

\* The behaviours in which no sender leaves through one of the three windows.
UnracedSpec == Init /\ [][Next /\ ~raced']_vars

UnracedFairSpec ==
    /\ UnracedSpec
    /\ \A t \in Clients : WF_vars(ClientStep(t))
    /\ \A s \in Servers : WF_vars(ServerStep(s))

\* The handlers implement the promise: every step of a thread is a step of
\* SendReceiveReply or invisible to the callers.  In particular calls are received
\* in the order of sending (MsgReceive takes the first message), a withdrawn call
\* is not answered afterwards, and no call returns anything but its own answer.
ImplementsCalls == Abstract!Spec

\* The fairness SendReceiveReply asks for: whoever answers a call - MsgReply,
\* MsgError, a failing MsgReceive or qnx_process_entry_free - the wake up is not
\* lost, and its sender returns to user space.
ImplementsFairness == Abstract!Fairness
===============================================================================
