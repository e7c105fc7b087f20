------------------------------- MODULE Messages -------------------------------
(***************************************************************************)
(* The message objects of kernel/internal_msgsend.[ch] (struct             *)
(* qnx_internal_msgsend) and their constructors and destructors.           *)
(*                                                                         *)
(* A pointer to a message is a model value.  A blocking MsgSend(v) keeps   *)
(* its message in a local variable of the handler, that is on the kernel   *)
(* stack of the calling thread, and two blocking calls of one thread use   *)
(* the same frame: the pointer is the calling thread itself, and a write   *)
(* through an outdated pointer lands in whatever call the thread is in by  *)
(* then.  Pulses and no-reply messages are kmalloc'ed: their pointers are  *)
(* the members of Heap, free again (and reusable) after kfree.             *)
(*                                                                         *)
(* Payload, coid, pids and the reply buffer are left out: nothing in the   *)
(* control flow modelled here reads them.                                  *)
(***************************************************************************)
EXTENDS Integers, FiniteSets

CONSTANTS
    Clients,     \* threads that send
    Heap,        \* addresses kmalloc can return for a message object
    MaxRcvid     \* bound on the receive ids handed out

ASSUME MessagesAssumption ==
    /\ IsFiniteSet(Clients)
    /\ IsFiniteSet(Heap)
    /\ Clients \cap Heap = {}
    /\ MaxRcvid \in Nat

VARIABLES
    rcvid,           \* send_data->rcvid: 0 for a pulse, else > 0
    status,          \* send_data->status of the blocking messages
    state,           \* send_data->state of the blocking messages
    woken,           \* wake_up_process hit the thread since it last went TASK_INTERRUPTIBLE
    heap,            \* the addresses allocated now
    gbl_next_rcvid   \* the last receive id handed out

msgVars == <<rcvid, status, state, woken, heap, gbl_next_rcvid>>

Ptr == Clients \cup Heap

\* send_data->task # 0: somebody waits for an answer.
HasTask(m) == m \in Clients

\* What a server (or its end) can make of a message.
Answer == {"reply", "error", "EFAULT", "ESRCH"}

\* "initial" is the 0 that the constructors store.
Status == Answer \cup {"initial"}

MsgState == {"INITIAL", "RECEIVING", "PENDING", "FINISHED"}

MsgTypeOK ==
    /\ rcvid \in [Ptr -> 0..MaxRcvid]
    /\ status \in [Clients -> Status]
    /\ state \in [Clients -> MsgState]
    /\ woken \in [Clients -> BOOLEAN]
    /\ heap \subseteq Heap
    /\ gbl_next_rcvid \in 0..MaxRcvid

MsgInit ==
    /\ rcvid = [m \in Ptr |-> 0]
    /\ status = [t \in Clients |-> "initial"]
    /\ state = [t \in Clients |-> "INITIAL"]
    /\ woken = [t \in Clients |-> FALSE]
    /\ heap = {}
    /\ gbl_next_rcvid = 0

-------------------------------------------------------------------------------
(* Constructors.  Those that fail before get_new_rcvid change nothing.     *)

\* The increment is lost.
GetNewRcvidNoInc(m) ==
    /\ gbl_next_rcvid < MaxRcvid
    /\ gbl_next_rcvid' = gbl_next_rcvid
    /\ rcvid' = [rcvid EXCEPT ![m] = gbl_next_rcvid + 1]

\* get_new_rcvid, stored in the object m.
GetNewRcvid(m) ==
    /\ gbl_next_rcvid < MaxRcvid
    /\ gbl_next_rcvid' = gbl_next_rcvid + 1
    /\ rcvid' = [rcvid EXCEPT ![m] = gbl_next_rcvid + 1]

\* qnx_internal_msgsend_init and _initv: the object in the frame of thread t.
InitMsg(t) ==
    /\ GetNewRcvid(t)
    /\ status' = [status EXCEPT ![t] = "initial"]
    /\ state' = [state EXCEPT ![t] = "INITIAL"]
    /\ UNCHANGED <<woken, heap>>

\* qnx_internal_msgsend_init_noreply and _init_noreplyv: kmalloc returned m.
InitNoReply(m) ==
    /\ m \notin heap
    /\ heap' = heap \cup {m}
    /\ GetNewRcvid(m)
    /\ UNCHANGED <<status, state, woken>>

\* kmalloc returned m, then qnx_internal_msgsend_init_pulse.
InitPulse(m) ==
    /\ m \notin heap
    /\ heap' = heap \cup {m}
    /\ rcvid' = [rcvid EXCEPT ![m] = 0]
    /\ UNCHANGED <<status, state, woken, gbl_next_rcvid>>

-------------------------------------------------------------------------------
(* Destructors and answers.                                                *)

\* wake_up_process is missing.
CleanupAndFreeNoWake(ms) ==
    /\ heap' = heap \ ms
    /\ status' = [t \in Clients |-> IF t \in ms THEN "ESRCH" ELSE status[t]]
    /\ UNCHANGED <<rcvid, state, woken, gbl_next_rcvid>>

\* qnx_internal_msgsend_cleanup_and_free on every message of ms: kfree the
\* ones without a task, ESRCH and wake_up_process for the others.
CleanupAndFree(ms) ==
    /\ heap' = heap \ ms
    /\ status' = [t \in Clients |-> IF t \in ms THEN "ESRCH" ELSE status[t]]
    /\ woken' = [t \in Clients |-> woken[t] \/ t \in ms]
    /\ UNCHANGED <<rcvid, state, gbl_next_rcvid>>

\* The store of status is missing.
StoreAnswerNoStatus(m, a) ==
    /\ state' = [state EXCEPT ![m] = "FINISHED"]
    /\ UNCHANGED <<rcvid, status, woken, heap, gbl_next_rcvid>>

\* The stores of an answer a: status, then state = FINISHED.
StoreAnswer(m, a) ==
    /\ status' = [status EXCEPT ![m] = a]
    /\ state' = [state EXCEPT ![m] = "FINISHED"]
    /\ UNCHANGED <<rcvid, woken, heap, gbl_next_rcvid>>

\* The wake up is lost.
WakeUpProcessNot(m) == UNCHANGED msgVars

\* wake_up_process(send_data->task)
WakeUpProcess(m) ==
    /\ woken' = [woken EXCEPT ![m] = TRUE]
    /\ UNCHANGED <<rcvid, status, state, heap, gbl_next_rcvid>>
===============================================================================
