--------------------------- MODULE SendReceiveReply ---------------------------
(***************************************************************************)
(* What blocking message passing promises its callers, without queues,     *)
(* locks, states, wake ups and reference counts: a call is sent, received  *)
(* in the order of sending, answered once, and returns with that answer;   *)
(* or its sender withdraws it before it is answered, and then nobody       *)
(* answers it any more.  The end of the server answers what was received.  *)
(***************************************************************************)

CONSTANTS
    Clients,       \* threads that call MsgSend
    Answers,       \* what a server can answer
    Dead,          \* the answer given for a server that is gone
    Interrupts,    \* results of a call that was withdrawn
    None           \* no answer, no result

VARIABLES
    before,    \* the pairs of calls sent and not received, the earlier one first
    call,      \* phase of each client's call
    answer,    \* the answer to each client's call
    result,    \* what the call is going to return
    up         \* the server is alive

vars == <<before, call, answer, result, up>>

Init ==
    /\ before = {}
    /\ call = [t \in Clients |-> "idle"]
    /\ answer = [t \in Clients |-> None]
    /\ result = [t \in Clients |-> None]
    /\ up = TRUE

\* t's call goes from idle to sent, received, answered and done.
Enter(t, phase) == call' = [call EXCEPT ![t] = phase]

\* The order of the calls that are left when t's call is not waiting any more.
Leave(t) == before' = {p \in before : p[1] # t /\ p[2] # t}

Send(t) ==
    /\ call[t] = "idle"
    /\ Enter(t, "sent")
    /\ before' = before \cup ({u \in Clients : call[u] = "sent"} \X {t})
    /\ UNCHANGED <<answer, result, up>>

\* The server receives the call that was sent first.
Receive(t) ==
    /\ call[t] = "sent"
    /\ \A u \in Clients : <<u, t>> \notin before
    /\ Enter(t, "received")
    /\ Leave(t)
    /\ UNCHANGED <<answer, result, up>>

\* The server answers, or its end does.
Reply(t, a) ==
    /\ call[t] = "received"
    /\ (a = Dead) <=> ~up
    /\ Enter(t, "answered")
    /\ answer' = [answer EXCEPT ![t] = a]
    /\ UNCHANGED <<before, result, up>>

\* The sender is going to return with the answer.  An interrupted sender that
\* finds the server gone does not look for one.
Complete(t) ==
    /\ call[t] = "answered"
    /\ Enter(t, "done")
    /\ \E r \in {answer[t]} \cup (IF up THEN {} ELSE Interrupts) :
          result' = [result EXCEPT ![t] = r]
    /\ UNCHANGED <<before, answer, up>>

\* A signal or the timeout, before there is an answer.
Withdraw(t) ==
    /\ call[t] \in {"sent", "received"}
    /\ Enter(t, "done")
    /\ Leave(t)
    /\ \E r \in Interrupts : result' = [result EXCEPT ![t] = r]
    /\ UNCHANGED <<answer, up>>

Return(t) ==
    /\ call[t] = "done"
    /\ Enter(t, "idle")
    /\ answer' = [answer EXCEPT ![t] = None]
    /\ result' = [result EXCEPT ![t] = None]
    /\ UNCHANGED <<before, up>>

ServerEnds ==
    /\ up
    /\ up' = FALSE
    /\ UNCHANGED <<before, call, answer, result>>

Next ==
    \/ \E t \in Clients :
          \/ Send(t) \/ Receive(t) \/ Complete(t) \/ Withdraw(t) \/ Return(t)
          \/ \E a \in Answers : Reply(t, a)
    \/ ServerEnds

Spec == Init /\ [][Next]_vars

\* An answered call returns.
Fairness == \A t \in Clients : WF_vars(Complete(t)) /\ WF_vars(Return(t))

FairSpec == Spec /\ Fairness
===============================================================================
