--------------------------------- MODULE MsgData ------------------------------
(***************************************************************************)
(* Where the bytes of a message go, and who frees the buffers: the four    *)
(* sending handlers with the constructors and destructors of               *)
(* kernel/internal_msgsend.c, the iovec copies of kernel/compatibility.h,  *)
(* and what MsgReceive, MsgRead and MsgReply copy.                         *)
(*                                                                         *)
(* One sender and one server.  Every allocation and every copy from or to  *)
(* user space may fail.  The waiting of the sender, the queue and several  *)
(* threads are left to MsgPassing.  Addresses count the bytes of a call's  *)
(* parts from 0, for the message and for the answer; parts do not overlap. *)
(* A byte is a number: the sender's are 1, 2, ... in the order of its      *)
(* parts, those of the answer 101, 102, ..., and 0 is what a buffer held   *)
(* before.                                                                 *)
(***************************************************************************)
EXTENDS Integers, FiniteSetsExt, SequencesExt

CONSTANTS
    MaxParts,        \* bound on the parts of an iovec
    MaxPart,         \* bound on the bytes of a part
    StackParts,      \* QNX_MAX_IOVEC_LEN
    MaxNoReplySize,  \* qnx_max_noreply_msg_size
    MaxBuffer        \* bound on the server's buffers and answers

ASSUME MsgDataAssumption ==
    /\ MaxParts \in Nat /\ MaxPart \in Nat /\ StackParts \in Nat
    /\ MaxNoReplySize \in Nat /\ MaxBuffer \in Nat

VARIABLES
    pc,        \* place in the handler of the sender
    kind,      \* the call
    siov,      \* the sender's parts
    riov,      \* the sender's parts for the answer
    obuf,      \* the bytes in them
    rc,        \* what the call returns
    heap,      \* allocations minus calls of kfree, for each buffer
    ptr,       \* the buffers whose pointer is set
    in,        \* bytes at data.msg.in.iov_base
    reply,     \* bytes at reply.iov_base
    part,      \* the part that an iovec copy has reached
    left,      \* len of an iovec copy
    uninit,    \* history: init_noreplyv has returned an uninitialised rc
    place,     \* where the message is
    rbuf,      \* history: what MsgReceive has copied, and info.msglen
    back       \* history: the last MsgRead

callVars == <<kind, siov, riov>>
bufVars == <<heap, ptr>>
copyVars == <<part, left>>
serverVars == <<place, rbuf, back>>
vars == <<pc, callVars, obuf, rc, bufVars, in, reply, copyVars, uninit, serverVars>>

Kind == {"MsgSend", "MsgSendv", "MsgSendNoReply", "MsgSendNoReplyv"}
Blocking == {"MsgSend", "MsgSendv"}
Vector == {"MsgSendv", "MsgSendNoReplyv"}

\* The kmalloc'ed memory: copies of the iovecs, buffers of a blocking message, the
\* answer, and a no-reply message with its data attached.
Buffer == {"iov_in", "iov_out", "inbuf", "outbuf", "reply", "msg"}

\* struct iovec: a part is iov_len bytes from iov_base.  The parts of a call follow
\* each other, empty ones included.
End(iov, p) == iov[p].iov_base + iov[p].iov_len

Iovec ==
    {iov \in SeqOf([iov_base : 0..(MaxParts * MaxPart), iov_len : 0..MaxPart], MaxParts) :
        \A p, q \in DOMAIN iov :
            /\ p = 1 => iov[p].iov_base = 0
            /\ q = p + 1 => iov[q].iov_base = End(iov, p)
            /\ p < q => End(iov, p) <= iov[q].iov_base}

\* iov_length: where the last part ends.
IovLength(iov) == IF iov = <<>> THEN 0 ELSE End(iov, Len(iov))

\* The address that a copy has reached when it gets to part p, which may be the one
\* behind the last.
Start(iov, p) == IF p <= Len(iov) THEN iov[p].iov_base ELSE IovLength(iov)

\* A message of n bytes, the first n bytes of a part of it, n bytes that nobody has
\* written to, and an answer of n bytes.
Sending(n) == [j \in 1..n |-> j]
Bytes(iovec, n) == [j \in 1..n |-> iovec.iov_base + j]
Blank(n) == [j \in 1..n |-> 0]
Answering(n) == [j \in 1..n |-> 100 + j]

TypeOK ==
    /\ pc \in {"idle", "alloc_in", "alloc_out", "copy_iov", "lookup", "init",
               "alloc_outbuf", "gather", "send", "blocked", "copy_back", "destroy",
               "out_clean_out", "out_clean_in", "out"}
    /\ kind \in Kind
    /\ siov \in Iovec /\ riov \in Iovec
    /\ Len(obuf) = IovLength(riov)
    /\ rc \in {"OK", "EFAULT", "ENOMEM", "EBADF", "EINVAL", "ERESTARTSYS", "error", "garbage"}
    /\ heap \in [Buffer -> Int]
    /\ ptr \subseteq Buffer
    /\ Len(in) <= (IF kind = "MsgSendNoReplyv" THEN MaxNoReplySize ELSE MaxParts * MaxPart)
    /\ Len(reply) <= MaxBuffer
    /\ part \in 1..(MaxParts + 1)
    /\ left \in Nat
    /\ uninit \in BOOLEAN
    /\ place \in {"none", "waiting", "pending", "answered"}

Init ==
    /\ pc = "idle"
    /\ kind = "MsgSend"
    /\ siov = <<>>
    /\ riov = <<>>
    /\ obuf = <<>>
    /\ rc = "OK"
    /\ heap = [b \in Buffer |-> 0]
    /\ ptr = {}
    /\ in = <<>>
    /\ reply = <<>>
    /\ part = 1
    /\ left = 0
    /\ uninit = FALSE
    /\ place = "none"
    /\ rbuf = [data |-> <<>>, msglen |-> 0]
    /\ back = [offset |-> 0, data |-> <<>>]

-------------------------------------------------------------------------------

Goto(l) == pc' = l

\* The handler takes an error exit.
Fail(r, l) == rc' = r /\ Goto(l)

Alloc(b) ==
    /\ heap' = [heap EXCEPT ![b] = @ + 1]
    /\ ptr' = ptr \cup {b}

\* kfree of each b in bs; kfree(0) does nothing, and no pointer is reset.
Free(bs) == heap' = [b \in Buffer |-> heap[b] - (IF b \in bs \cap ptr THEN 1 ELSE 0)]

\* A call: MsgSend and MsgSendNoReply have one part each.
Call(k, ins, outs) ==
    /\ pc = "idle"
    /\ k \notin Vector => Len(ins) = 1 /\ Len(outs) <= 1
    /\ k \notin Blocking => outs = <<>>
    /\ kind' = k
    /\ siov' = ins
    /\ riov' = outs
    /\ obuf' = Blank(IovLength(outs))
    /\ Goto(IF k \in Vector THEN "alloc_in" ELSE "init")
    /\ UNCHANGED <<rc, bufVars, in, reply, copyVars, uninit, serverVars>>

-------------------------------------------------------------------------------
(* The iovecs themselves.                                                  *)

\* More parts than fit on the stack.
AllocIn ==
    /\ pc = "alloc_in"
    /\ LET next == IF kind = "MsgSendv" THEN "alloc_out" ELSE "copy_iov" IN
       IF Len(siov) > StackParts
          THEN \/ Alloc("iov_in") /\ Goto(next) /\ UNCHANGED rc
               \/ Fail("ENOMEM", "out") /\ UNCHANGED bufVars
          ELSE Goto(next) /\ UNCHANGED <<rc, bufVars>>
    /\ UNCHANGED <<callVars, obuf, in, reply, copyVars, uninit, serverVars>>

AllocOut ==
    /\ pc = "alloc_out"
    /\ IF Len(riov) > StackParts
          THEN \/ Alloc("iov_out") /\ Goto("copy_iov") /\ UNCHANGED rc
               \/ Fail("ENOMEM", "out_clean_in") /\ UNCHANGED bufVars
          ELSE Goto("copy_iov") /\ UNCHANGED <<rc, bufVars>>
    /\ UNCHANGED <<callVars, obuf, in, reply, copyVars, uninit, serverVars>>

CopyIov ==
    /\ pc = "copy_iov"
    /\ \/ Goto("lookup") /\ UNCHANGED rc
       \/ Fail("EFAULT", IF kind = "MsgSendv" THEN "out_clean_out" ELSE "out_clean_in")
    /\ UNCHANGED <<callVars, obuf, bufVars, in, reply, copyVars, uninit, serverVars>>

\* Connection and channel: before the constructor for iovecs, after it otherwise.
Lookup ==
    /\ pc = "lookup"
    /\ \/ Goto(IF kind \in Vector THEN "init" ELSE "send") /\ UNCHANGED <<rc, heap>>
       \/ CASE kind = "MsgSend" -> Fail("EBADF", "destroy") /\ UNCHANGED heap
            [] kind = "MsgSendNoReply" -> Fail("EBADF", "out") /\ Free({"msg"})
            [] kind = "MsgSendv" -> Fail("EBADF", "out_clean_out") /\ UNCHANGED heap
            [] kind = "MsgSendNoReplyv" -> Fail("EBADF", "out_clean_in") /\ UNCHANGED heap
    /\ UNCHANGED <<callVars, obuf, ptr, in, reply, copyVars, uninit, serverVars>>

-------------------------------------------------------------------------------
(* The constructors.                                                       *)

\* Where a constructor's failure leads.
InitFails(r) ==
    Fail(r, CASE kind \in {"MsgSend", "MsgSendNoReply"} -> "out"
              [] kind = "MsgSendv" -> "out_clean_out"
              [] kind = "MsgSendNoReplyv" -> "out_clean_in")

\* The limit that only qnx_internal_msgsend_init_noreplyv knows.
TooLong(n) == n > MaxNoReplySize

\* The first allocation of each constructor.
InitMsg ==
    /\ pc = "init"
    /\ \/ /\ kind = "MsgSendNoReplyv" /\ TooLong(IovLength(siov))
          /\ InitFails("EINVAL")
          /\ UNCHANGED <<bufVars, copyVars>>
       \/ /\ kind = "MsgSendNoReplyv" => ~TooLong(IovLength(siov))
          /\ \/ /\ Alloc(IF kind \in Blocking THEN "inbuf" ELSE "msg")
                /\ part' = 1 /\ left' = IovLength(siov)
                /\ Goto(IF kind = "MsgSendv" /\ IovLength(riov) > 0 THEN "alloc_outbuf"
                                                                    ELSE "gather")
                /\ UNCHANGED rc
             \/ InitFails("ENOMEM") /\ UNCHANGED <<bufVars, copyVars>>
    /\ UNCHANGED <<callVars, obuf, in, reply, uninit, serverVars>>

\* The error exit forgets the first buffer.
AllocOutbufLeaks ==
    /\ pc = "alloc_outbuf"
    /\ \/ Alloc("outbuf") /\ Goto("gather") /\ UNCHANGED rc
       \/ Fail("ENOMEM", "out_clean_out") /\ UNCHANGED bufVars
    /\ UNCHANGED <<callVars, obuf, in, reply, copyVars, uninit, serverVars>>

\* initv: the buffer for the answer.
AllocOutbuf ==
    /\ pc = "alloc_outbuf"
    /\ \/ Alloc("outbuf") /\ Goto("gather") /\ UNCHANGED rc
       \/ Fail("ENOMEM", "out_clean_out") /\ Free({"inbuf"}) /\ UNCHANGED ptr
    /\ UNCHANGED <<callVars, obuf, in, reply, copyVars, uninit, serverVars>>

\* kdata does not move on.
FromIovecSamePlace ==
    /\ pc = "gather" /\ left > 0 /\ part <= Len(siov)
    /\ LET copy == Min({left, siov[part].iov_len}) IN
          /\ in' = Bytes(siov[part], copy)
          /\ left' = left - copy
    /\ part' = part + 1
    /\ UNCHANGED <<pc, callVars, obuf, rc, bufVars, reply, uninit, serverVars>>

\* One turn of memcpy_fromiovec, or the copy_from_user of a single part.
FromIovec ==
    /\ pc = "gather" /\ left > 0 /\ part <= Len(siov)
    /\ LET copy == Min({left, siov[part].iov_len}) IN
          /\ in' = in \o Bytes(siov[part], copy)
          /\ left' = left - copy
    /\ part' = part + 1
    /\ UNCHANGED <<pc, callVars, obuf, rc, bufVars, reply, uninit, serverVars>>

Gathered ==
    /\ pc = "gather" /\ left = 0
    /\ Goto(IF kind \in Vector THEN "send" ELSE "lookup")
    /\ UNCHANGED <<callVars, obuf, rc, bufVars, in, reply, copyVars, uninit, serverVars>>

\* A copy fails.  init_noreplyv frees the message and returns whatever is in rc:
\* with 0 the handler goes on.
GatherFails ==
    /\ pc = "gather" /\ left > 0
    /\ Free({"inbuf", "outbuf", "msg"})
    /\ IF kind = "MsgSendNoReplyv"
          THEN /\ uninit' = TRUE
               /\ (Goto("send") /\ UNCHANGED rc) \/ InitFails("garbage")
          ELSE InitFails("EFAULT") /\ UNCHANGED uninit
    /\ UNCHANGED <<callVars, obuf, ptr, in, reply, copyVars, serverVars>>

-------------------------------------------------------------------------------
(* The message is sent.                                                    *)

Send ==
    /\ pc = "send"
    /\ place' = "waiting"
    /\ Goto(CASE kind \in Blocking -> "blocked"
              [] kind = "MsgSendNoReply" -> "out"
              [] kind = "MsgSendNoReplyv" -> "out_clean_in")
    /\ UNCHANGED <<callVars, obuf, rc, bufVars, in, reply, copyVars, uninit, rbuf, back>>

\* A signal or the timeout.
Interrupted ==
    /\ pc = "blocked" /\ place \in {"waiting", "pending"}
    /\ place' = "none"
    /\ Fail("ERESTARTSYS", "destroy")
    /\ UNCHANGED <<callVars, obuf, bufVars, in, reply, copyVars, uninit, rbuf, back>>

\* The length of the answer is not cut to the sender's buffers.
AnsweredUncut ==
    /\ pc = "blocked" /\ place = "answered"
    /\ place' = "none"
    /\ Goto(IF rc = "OK" /\ Len(reply) > 0 THEN "copy_back" ELSE "destroy")
    /\ part' = 1
    /\ left' = Len(reply)
    /\ UNCHANGED <<callVars, obuf, rc, bufVars, in, reply, uninit, rbuf, back>>

\* The status is not looked at before the answer is copied back.
AnsweredAnyStatus ==
    /\ pc = "blocked" /\ place = "answered"
    /\ place' = "none"
    /\ Goto(IF Len(reply) > 0 THEN "copy_back" ELSE "destroy")
    /\ part' = 1
    /\ left' = Min({IovLength(riov), Len(reply)})
    /\ UNCHANGED <<callVars, obuf, rc, bufVars, in, reply, uninit, rbuf, back>>

\* The sender wakes up.  Only a successful answer is copied back.
Answered ==
    /\ pc = "blocked" /\ place = "answered"
    /\ place' = "none"
    /\ Goto(IF rc = "OK" /\ Len(reply) > 0 THEN "copy_back" ELSE "destroy")
    /\ part' = 1
    /\ left' = Min({IovLength(riov), Len(reply)})
    /\ UNCHANGED <<callVars, obuf, rc, bufVars, in, reply, uninit, rbuf, back>>

\* Each part is filled from the start of the answer.
ToIovecSamePlace ==
    /\ pc = "copy_back" /\ left > 0 /\ part <= Len(riov)
    /\ LET copy == Min({left, riov[part].iov_len})
           base == riov[part].iov_base
       IN /\ obuf' = [j \in DOMAIN obuf |->
                         IF j - base \in 1..copy THEN reply[j - base] ELSE obuf[j]]
          /\ left' = left - copy
    /\ part' = part + 1
    /\ UNCHANGED <<pc, callVars, rc, bufVars, in, reply, uninit, serverVars>>

\* One turn of memcpy_toiovec, or the copy_to_user of a single part.
ToIovec ==
    /\ pc = "copy_back" /\ left > 0 /\ part <= Len(riov)
    /\ LET copy == Min({left, riov[part].iov_len})
           base == riov[part].iov_base
           done == Min({IovLength(riov), Len(reply)}) - left
       IN /\ obuf' = [j \in DOMAIN obuf |->
                         IF j - base \in 1..copy THEN reply[done + (j - base)] ELSE obuf[j]]
          /\ left' = left - copy
    /\ part' = part + 1
    /\ UNCHANGED <<pc, callVars, rc, bufVars, in, reply, uninit, serverVars>>

CopiedBack ==
    /\ pc = "copy_back"
    /\ \/ left = 0 /\ Goto("destroy") /\ UNCHANGED rc
       \/ left > 0 /\ Fail("EFAULT", "destroy")
    /\ UNCHANGED <<callVars, obuf, bufVars, in, reply, copyVars, uninit, serverVars>>

\* qnx_internal_msgsend_destroy and _destroyv
Destroy ==
    /\ pc = "destroy"
    /\ Free(IF kind = "MsgSendv" THEN {"inbuf", "outbuf", "reply"} ELSE {"inbuf", "reply"})
    /\ Goto(IF kind = "MsgSendv" THEN "out_clean_out" ELSE "out")
    /\ UNCHANGED <<callVars, obuf, rc, ptr, in, reply, copyVars, uninit, serverVars>>

CleanOut ==
    /\ pc = "out_clean_out"
    /\ Free({"iov_out"})
    /\ Goto("out_clean_in")
    /\ UNCHANGED <<callVars, obuf, rc, ptr, in, reply, copyVars, uninit, serverVars>>

CleanIn ==
    /\ pc = "out_clean_in"
    /\ Free({"iov_in"})
    /\ Goto("out")
    /\ UNCHANGED <<callVars, obuf, rc, ptr, in, reply, copyVars, uninit, serverVars>>

\* The call has returned and nobody has its message.
Return ==
    /\ pc = "out" /\ place = "none"
    /\ Goto("idle")
    /\ siov' = <<>> /\ riov' = <<>> /\ obuf' = <<>> /\ kind' = "MsgSend" /\ rc' = "OK"
    /\ ptr' = {} /\ in' = <<>> /\ reply' = <<>> /\ part' = 1 /\ left' = 0
    /\ rbuf' = [data |-> <<>>, msglen |-> 0]
    /\ back' = [offset |-> 0, data |-> <<>>]
    /\ UNCHANGED <<heap, uninit, place>>

-------------------------------------------------------------------------------
(* The server.                                                             *)

\* The message's bytes are copied into a buffer of n bytes.
Receive(n) ==
    /\ place = "waiting"
    /\ LET copy == Min({Len(in), n}) IN
          rbuf' = [data |-> SubSeq(in, 1, copy), msglen |-> Len(in)]
    /\ IF kind \in Blocking THEN place' = "pending" /\ UNCHANGED heap
                            ELSE place' = "none" /\ Free({"msg"})
    /\ UNCHANGED <<pc, callVars, obuf, rc, ptr, in, reply, copyVars, uninit, back>>

\* A copy fails: the sender gets the error, a no-reply message is lost.
ReceiveFails ==
    /\ place = "waiting"
    /\ IF kind \in Blocking THEN place' = "answered" /\ rc' = "EFAULT" /\ UNCHANGED heap
                            ELSE place' = "none" /\ Free({"msg"}) /\ UNCHANGED rc
    /\ UNCHANGED <<pc, callVars, obuf, ptr, in, reply, copyVars, uninit, rbuf, back>>

\* An offset beyond the message is EINVAL.
MsgRead(offset, n) ==
    /\ place = "pending"
    /\ offset <= Len(in)
    /\ LET copy == Min({Len(in) - offset, n}) IN
          back' = [offset |-> offset, data |-> SubSeq(in, offset + 1, offset + copy)]
    /\ UNCHANGED <<pc, callVars, obuf, rc, bufVars, in, reply, copyVars, uninit, place, rbuf>>

\* The status a server gives: a negative one is an error.
Status == {"OK", "error"}

\* The answer is kept only if both sides have a buffer, and whatever the status is.
MsgReply(n) ==
    /\ place = "pending"
    /\ place' = "answered"
    /\ IF IovLength(riov) > 0 /\ n > 0
          THEN \/ Alloc("reply") /\ reply' = Answering(n) /\ rc' \in Status
               \/ Alloc("reply") /\ rc' = "EFAULT" /\ UNCHANGED reply
               \/ rc' = "ENOMEM" /\ UNCHANGED <<bufVars, reply>>
          ELSE rc' \in Status /\ UNCHANGED <<bufVars, reply>>
    /\ UNCHANGED <<pc, callVars, obuf, in, copyVars, uninit, rbuf, back>>

\* MsgError has no bytes; error 0 is success.
MsgError ==
    /\ place = "pending"
    /\ place' = "answered"
    /\ rc' \in Status
    /\ UNCHANGED <<pc, callVars, obuf, bufVars, in, reply, copyVars, uninit, rbuf, back>>

Handler ==
    \/ AllocIn \/ AllocOut \/ CopyIov \/ Lookup \/ InitMsg \/ AllocOutbuf
    \/ FromIovec \/ Gathered \/ GatherFails \/ Send \/ Answered \/ ToIovec \/ CopiedBack
    \/ Destroy \/ CleanOut \/ CleanIn \/ Return

Next ==
    \/ \E k \in Kind, ins, outs \in Iovec : Call(k, ins, outs)
    \/ Handler
    \/ Interrupted
    \/ \E n \in 0..MaxBuffer : Receive(n) \/ MsgReply(n) \/ \E o \in 0..MaxBuffer : MsgRead(o, n)
    \/ ReceiveFails
    \/ MsgError

Spec == Init /\ [][Next]_vars

\* TLC goes no further than the uninitialised rc.
UpToUninit == ~uninit

-------------------------------------------------------------------------------
(* Properties.                                                             *)

\* The message the sender gave, as a reference.
Message == Sending(IovLength(siov))

\* What a server gets to see is the message: MsgReceive copies its beginning and
\* reports its whole length, and MsgRead, at any offset and with any buffer, the
\* bytes from there, so that the two together give back what MsgSend(v) gathered
\* from its parts, empty ones included.  (A message sent after the failed copy of
\* MsgSendNoReplyv has no such content.)
ServerSeesMessage ==
    ~uninit =>
        /\ place # "none" => in = Message
        /\ place = "pending" =>
              /\ IsPrefix(rbuf.data, Message) /\ rbuf.msglen = Len(Message)
              /\ back.data = SubSeq(Message, back.offset + 1, back.offset + Len(back.data))

\* When the call has returned, the sender's buffers together hold the answer, as far
\* as they go, followed by what they held before; without success they hold only
\* what they held, also when the server sent bytes along with a negative status
\* (unless the copy itself failed).
AnswerScattered ==
    pc \in {"out_clean_out", "out_clean_in", "out"} /\ kind \in Blocking /\ rc # "EFAULT" =>
        LET n == IF rc = "OK" THEN Min({Len(obuf), Len(reply)}) ELSE 0
        IN  obuf = [j \in 1..IovLength(riov) |-> IF j <= n THEN reply[j] ELSE 0]

\* The iovec copies never look at a part behind the last one, whatever the sizes:
\* what is left to copy fits into the parts that are left.
CopyWithinParts ==
    /\ pc = "gather" => left <= IovLength(siov) - Start(siov, part)
    /\ pc = "copy_back" => left <= IovLength(riov) - Start(riov, part)

\* Whichever step fails, every buffer is freed once: no second kfree, nothing is left
\* when the call returns but a no-reply message that is still queued, and nothing
\* that is queued or pending has been freed (up to the uninitialised rc).
FreedOnce ==
    ~uninit =>
        /\ \A b \in Buffer : heap[b] \in 0..1
        /\ pc \in {"idle", "out"} =>
              \A b \in Buffer : heap[b] = 1 => b = "msg" /\ place = "waiting"
        /\ place # "none" => heap[IF kind \in Blocking THEN "inbuf" ELSE "msg"] = 1

\* A no-reply message is not longer than noreply_max_size.
NoReplySizeLimited ==
    kind \notin Blocking /\ place # "none" => Len(in) <= MaxNoReplySize
===============================================================================
