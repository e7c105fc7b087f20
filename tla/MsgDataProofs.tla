------------------------------ MODULE MsgDataProofs ---------------------------
(***************************************************************************)
(* Proofs about the data of a message, for iovecs of any length and parts  *)
(* of any size, whichever allocation or copy fails: every buffer is freed  *)
(* once, the server sees the bytes sent and the sender the bytes answered, *)
(* and no copy runs past the last part.                                    *)
(***************************************************************************)
EXTENDS MsgData, SequenceTheorems, TLAPS

-------------------------------------------------------------------------------
(* The inductive invariant.                                                *)

\* Which buffers a call of each kind allocates.
Allocates ==
    /\ kind \in Kind /\ ptr \subseteq Buffer
    /\ "iov_in" \in ptr => kind \in Vector
    /\ "iov_out" \in ptr => kind = "MsgSendv"
    /\ "inbuf" \in ptr => kind \in Blocking
    /\ "outbuf" \in ptr => kind = "MsgSendv"
    /\ "reply" \in ptr => kind \in Blocking
    /\ "msg" \in ptr => kind \notin Blocking

\* The places between the first allocation of a constructor and the end of the
\* message, for each kind: the lookup comes before the constructor for iovecs.
Constructed ==
    {"alloc_outbuf", "gather", "send", "blocked", "copy_back", "destroy"}
        \cup (IF kind \in Vector THEN {} ELSE {"lookup"})

First == IF kind \in Blocking THEN "inbuf" ELSE "msg"

\* Where a call of each kind can be, and what it has allocated by then.
Progress ==
    /\ pc \in {"idle", "alloc_in", "alloc_out", "copy_iov", "lookup", "init",
               "alloc_outbuf", "gather", "send", "blocked", "copy_back", "destroy",
               "out_clean_out", "out_clean_in", "out"}
    /\ pc \in {"alloc_in", "copy_iov", "out_clean_in"} => kind \in Vector
    /\ pc \in {"alloc_out", "alloc_outbuf", "out_clean_out"} => kind = "MsgSendv"
    /\ pc \in {"blocked", "copy_back", "destroy"} => kind \in Blocking
    /\ pc \in {"idle", "alloc_in"} => ptr = {}
    /\ pc = "alloc_out" => "iov_out" \notin ptr
    /\ pc \in {"alloc_out", "copy_iov", "lookup", "init"} /\ pc \notin Constructed =>
          ptr \subseteq {"iov_in", "iov_out"}
    /\ pc \in Constructed => First \in ptr
    /\ pc = "alloc_outbuf" => "outbuf" \notin ptr
    /\ "reply" \in ptr =>
          \/ pc = "blocked" /\ place = "answered"
          \/ pc \in {"copy_back", "destroy", "out_clean_out", "out_clean_in", "out"}

\* A message that is somewhere has a sender that waits for it, or needs no answer.
Placed ==
    /\ place \in {"none", "waiting", "pending", "answered"}
    /\ pc = "blocked" <=> kind \in Blocking /\ place # "none"
    /\ place # "none" /\ kind \notin Blocking =>
          place = "waiting" /\ pc \in {"out_clean_in", "out"} /\ "msg" \in ptr

\* Until when an allocated buffer has not been freed.
Live(b) ==
    CASE b = "iov_in" -> pc \notin {"idle", "out"}
      [] b = "iov_out" -> pc \notin {"idle", "out", "out_clean_in"}
      [] b \in {"inbuf", "outbuf", "reply"} -> pc \in Constructed
      [] b = "msg" -> pc \in Constructed \/ place = "waiting"

\* Where the handler is and what it points to, whatever has happened before.
ControlInv == Allocates /\ Progress /\ Placed

HeapIsLive ==
    /\ heap \in [Buffer -> Int]
    /\ \A b \in Buffer : heap[b] = (IF b \in ptr /\ Live(b) THEN 1 ELSE 0)

BufferInv == ControlInv /\ (~uninit => HeapIsLive)

-------------------------------------------------------------------------------

\* What the invariant says is what the run checks.
LEMMA BufferInvFreedOnce == BufferInv => FreedOnce
  BY DEF BufferInv, ControlInv, FreedOnce, Allocates, Progress, Placed, HeapIsLive, Live,
         Constructed, First, Buffer, Kind, Blocking, Vector

\* Nothing is allocated at the start.
LEMMA InitBufferInv == Init => BufferInv
  BY DEF Init, BufferInv, ControlInv, Allocates, Progress, Placed, HeapIsLive, Live,
         Constructed, First, Buffer, Kind, Blocking, Vector

-------------------------------------------------------------------------------
(* Control: one step per action.                                           *)

\* The constructors, and what comes before them.
LEMMA ConstructControl ==
    ASSUME ControlInv, CopyIov \/ Lookup \/ InitMsg \/ AllocOutbuf
              \/ FromIovec \/ Gathered \/ GatherFails
    PROVE  ControlInv'
  <1>1. CASE CopyIov
    BY <1>1 DEF CopyIov, Goto, Fail, callVars, bufVars, serverVars, ControlInv, Allocates,
             Progress, Placed, Constructed, First, Buffer, Kind, Blocking,
             Vector
  <1>2. CASE Lookup
    BY <1>2 DEF Lookup, Goto, Fail, callVars, bufVars, serverVars, ControlInv, Allocates,
             Progress, Placed, Constructed, First, Buffer, Kind, Blocking,
             Vector
  <1>3. CASE InitMsg
    BY <1>3 DEF InitMsg, InitFails, Alloc, Goto, Fail, callVars, bufVars, serverVars,
             ControlInv, Allocates, Progress, Placed, Constructed, First,
             Buffer, Kind, Blocking, Vector
  <1>4. CASE AllocOutbuf
    BY <1>4 DEF AllocOutbuf, Alloc, Goto, Fail, callVars, bufVars, serverVars, ControlInv,
             Allocates, Progress, Placed, Constructed, First, Buffer, Kind,
             Blocking, Vector
  <1>5. CASE FromIovec
    BY <1>5 DEF FromIovec, Goto, Fail, callVars, bufVars, serverVars, ControlInv,
             Allocates, Progress, Placed, Constructed, First, Buffer, Kind,
             Blocking, Vector
  <1>6. CASE Gathered
    BY <1>6 DEF Gathered, Goto, Fail, callVars, bufVars, serverVars, ControlInv, Allocates,
             Progress, Placed, Constructed, First, Buffer, Kind, Blocking,
             Vector
  <1>7. CASE GatherFails
    BY <1>7 DEF GatherFails, InitFails, Goto, Fail, callVars, bufVars, serverVars,
             ControlInv, Allocates, Progress, Placed, Constructed, First,
             Buffer, Kind, Blocking, Vector
  <1> QED BY <1>1, <1>2, <1>3, <1>4, <1>5, <1>6, <1>7

\* The copies of the iovecs themselves.
LEMMA AllocControl == ASSUME ControlInv, AllocIn \/ AllocOut PROVE ControlInv'
  <1>1. CASE AllocIn
    <2>1. /\ pc = "alloc_in" /\ UNCHANGED <<kind, place>>
          /\ \/ ptr' = ptr \cup {"iov_in"} /\ pc' \in {"alloc_out", "copy_iov"}
             \/ ptr' = ptr /\ pc' \in {"alloc_out", "copy_iov", "out"}
          /\ pc' = "alloc_out" => kind = "MsgSendv"
      BY <1>1 DEF AllocIn, Alloc, Goto, Fail, callVars, bufVars, serverVars
    <2> QED BY <2>1 DEF ControlInv, Allocates, Progress, Placed, Constructed, First, Buffer,
                        Kind, Blocking, Vector
  <1>2. CASE AllocOut
    <2>1. /\ pc = "alloc_out" /\ UNCHANGED <<kind, place>>
          /\ \/ ptr' = ptr \cup {"iov_out"} /\ pc' = "copy_iov"
             \/ ptr' = ptr /\ pc' \in {"copy_iov", "out_clean_in"}
      BY <1>2 DEF AllocOut, Alloc, Goto, Fail, callVars, bufVars, serverVars
    <2> QED BY <2>1 DEF ControlInv, Allocates, Progress, Placed, Constructed, First, Buffer,
                        Kind, Blocking, Vector
  <1> QED BY <1>1, <1>2

\* The message is sent, answered or interrupted, and destroyed.
LEMMA SendControl ==
    ASSUME ControlInv, Send \/ Interrupted \/ Answered \/ ToIovec \/ CopiedBack \/ Destroy
              \/ CleanOut \/ CleanIn \/ Return
    PROVE  ControlInv'
  <1>1. CASE Send
    BY <1>1 DEF Send, Goto, Fail, callVars, bufVars, serverVars, ControlInv, Allocates,
             Progress, Placed, Constructed, First, Buffer, Kind, Blocking,
             Vector
  <1>2. CASE Interrupted
    BY <1>2 DEF Interrupted, Goto, Fail, callVars, bufVars, serverVars, ControlInv,
             Allocates, Progress, Placed, Constructed, First, Buffer, Kind,
             Blocking, Vector
  <1>3. CASE Answered
    BY <1>3 DEF Answered, Goto, Fail, callVars, bufVars, serverVars, ControlInv, Allocates,
             Progress, Placed, Constructed, First, Buffer, Kind, Blocking,
             Vector
  <1>4. CASE ToIovec
    BY <1>4 DEF ToIovec, Goto, Fail, callVars, bufVars, serverVars, ControlInv, Allocates,
             Progress, Placed, Constructed, First, Buffer, Kind, Blocking,
             Vector
  <1>5. CASE CopiedBack
    BY <1>5 DEF CopiedBack, Goto, Fail, callVars, bufVars, serverVars, ControlInv,
             Allocates, Progress, Placed, Constructed, First, Buffer, Kind,
             Blocking, Vector
  <1>6. CASE Destroy
    BY <1>6 DEF Destroy, Goto, Fail, callVars, bufVars, serverVars, ControlInv, Allocates,
             Progress, Placed, Constructed, First, Buffer, Kind, Blocking,
             Vector
  <1>7. CASE CleanOut
    BY <1>7 DEF CleanOut, Goto, Fail, callVars, bufVars, serverVars, ControlInv, Allocates,
             Progress, Placed, Constructed, First, Buffer, Kind, Blocking,
             Vector
  <1>8. CASE CleanIn
    BY <1>8 DEF CleanIn, Goto, Fail, callVars, bufVars, serverVars, ControlInv, Allocates,
             Progress, Placed, Constructed, First, Buffer, Kind, Blocking,
             Vector
  <1>9. CASE Return
    BY <1>9 DEF Return, Goto, Fail, callVars, bufVars, serverVars, ControlInv, Allocates,
             Progress, Placed, Constructed, First, Buffer, Kind, Blocking,
             Vector
  <1> QED BY <1>1, <1>2, <1>3, <1>4, <1>5, <1>6, <1>7, <1>8, <1>9

\* A call begins, and the server's steps.
LEMMA ServerControl ==
    ASSUME ControlInv,
           \/ \E k \in Kind, ins, outs \in Iovec : Call(k, ins, outs)
           \/ \E n \in 0..MaxBuffer : Receive(n) \/ MsgReply(n)
           \/ ReceiveFails \/ MsgError
    PROVE  ControlInv'
  <1>1. ASSUME NEW k \in Kind, NEW ins, NEW outs, Call(k, ins, outs) PROVE ControlInv'
    <2>1. /\ pc = "idle" /\ pc' \in {"alloc_in", "init"} /\ kind' = k
          /\ pc' = "alloc_in" <=> k \in Vector
          /\ UNCHANGED <<ptr, place>>
      BY <1>1 DEF Call, Goto, bufVars, serverVars
    <2> QED BY <2>1 DEF ControlInv, Allocates, Progress, Placed, Constructed, First, Buffer,
                        Kind, Blocking, Vector
  <1>2. ASSUME NEW n, Receive(n) PROVE ControlInv'
    BY <1>2 DEF Receive, callVars, ControlInv, Allocates, Progress, Placed, Constructed,
                First, Buffer, Kind, Blocking, Vector
  <1>3. ASSUME NEW n, MsgReply(n) PROVE ControlInv'
    <2>1. /\ place = "pending" /\ place' = "answered" /\ UNCHANGED <<pc, kind>>
          /\ ptr' \in {ptr, ptr \cup {"reply"}}
      BY <1>3 DEF MsgReply, Alloc, callVars, bufVars
    <2>2. kind \in Blocking /\ pc = "blocked"
      BY <2>1 DEF ControlInv, Placed
    <2> QED BY <2>1, <2>2 DEF ControlInv, Allocates, Progress, Placed, Constructed, First,
                              Buffer, Kind, Blocking, Vector
  <1>4. CASE ReceiveFails
    BY <1>4 DEF ReceiveFails, callVars, ControlInv, Allocates, Progress, Placed, Constructed,
                First, Buffer, Kind, Blocking, Vector
  <1>5. CASE MsgError
    BY <1>5 DEF MsgError, callVars, bufVars, ControlInv, Allocates, Progress, Placed,
                Constructed, First, Buffer, Kind, Blocking, Vector
  <1> QED BY <1>1, <1>2, <1>3, <1>4, <1>5

\* MsgRead moves nothing but its copy.
LEMMA MsgReadKeeps ==
    ASSUME NEW o, NEW n, MsgRead(o, n) \/ UNCHANGED vars
    PROVE  UNCHANGED <<pc, kind, ptr, heap, place, uninit>>
  BY DEF MsgRead, vars, callVars, bufVars, serverVars

\* Every step goes to a place the kind of call has.
LEMMA NextControl == ControlInv /\ [Next]_vars => ControlInv'
  <1> SUFFICES ASSUME ControlInv, [Next]_vars PROVE ControlInv'
    OBVIOUS
  <1>1. CASE UNCHANGED <<pc, kind, ptr, heap, place, uninit>>
    BY <1>1 DEF ControlInv, Allocates, Progress, Placed, Constructed, First
  <1> QED BY <1>1, MsgReadKeeps, ConstructControl, AllocControl, SendControl, ServerControl
          DEF Next, Handler

-------------------------------------------------------------------------------
(* Buffers and their pointers.                                             *)

\* kmalloc: the new buffer has not been allocated before in this call, and the other
\* buffers are what they were.
LEMMA AllocCounts ==
    ASSUME HeapIsLive, NEW b \in Buffer, b \notin ptr, Alloc(b), Live(b)',
           \A c \in Buffer : c \in ptr => (Live(c)' <=> Live(c))
    PROVE  HeapIsLive'
  <1>1. ASSUME NEW c \in Buffer
        PROVE  heap'[c] = (IF c \in ptr' /\ Live(c)' THEN 1 ELSE 0)
    <2>1. CASE c = b
      BY <2>1 DEF Alloc, HeapIsLive
    <2>2. CASE c # b
      <3>1. heap'[c] = heap[c] /\ (c \in ptr' <=> c \in ptr)
        BY <2>2 DEF Alloc, HeapIsLive
      <3> QED BY <3>1 DEF HeapIsLive
    <2> QED BY <2>1, <2>2
  <1>2. heap' \in [Buffer -> Int]
    BY DEF Alloc, HeapIsLive
  <1> QED BY <1>1, <1>2 DEF HeapIsLive

\* kfree of buffers that have not been freed yet; pointers that are not set do not
\* matter, and the other buffers are what they were.
LEMMA FreeCounts ==
    ASSUME HeapIsLive, NEW bs, Free(bs), UNCHANGED ptr,
           \A c \in Buffer : c \in ptr => (Live(c)' <=> Live(c) /\ c \notin bs),
           \A c \in Buffer : c \in ptr /\ c \in bs => Live(c)
    PROVE  HeapIsLive'
  <1>1. ASSUME NEW c \in Buffer
        PROVE  heap'[c] = (IF c \in ptr' /\ Live(c)' THEN 1 ELSE 0)
    <2>1. heap'[c] = heap[c] - (IF c \in bs /\ c \in ptr THEN 1 ELSE 0)
      BY DEF Free
    <2>2. heap[c] = (IF c \in ptr /\ Live(c) THEN 1 ELSE 0)
      BY DEF HeapIsLive
    <2> QED BY <2>1, <2>2
  <1>2. heap' \in [Buffer -> Int]
    BY <1>1 DEF Free
  <1> QED BY <1>1, <1>2 DEF HeapIsLive

\* Neither.
LEMMA SameCounts ==
    ASSUME HeapIsLive, UNCHANGED bufVars,
           \A c \in Buffer : c \in ptr => (Live(c)' <=> Live(c))
    PROVE  HeapIsLive'
  BY DEF HeapIsLive, bufVars

-------------------------------------------------------------------------------
(* The heap: one step per action.                                          *)

\* The steps that neither allocate nor free anything.
LEMMA QuietHeap ==
    ASSUME ControlInv, HeapIsLive,
           CopyIov \/ FromIovec \/ Gathered \/ Send \/ Interrupted \/ Answered \/ ToIovec
              \/ CopiedBack \/ MsgError
    PROVE  HeapIsLive'
  <1>1. UNCHANGED bufVars
    BY DEF CopyIov, FromIovec, Gathered, Send, Interrupted, Answered, ToIovec,
           CopiedBack, MsgError, bufVars
  <1> SUFFICES \A c \in Buffer : c \in ptr => (Live(c)' <=> Live(c))
    BY <1>1, SameCounts
  <1>2. CASE CopyIov
    BY <1>2 DEF CopyIov, Goto, Fail, callVars, serverVars, Live, ControlInv, Allocates,
             Progress, Placed, Constructed, First, Buffer, Kind, Blocking,
             Vector
  <1>3. CASE FromIovec
    BY <1>3 DEF FromIovec, Goto, Fail, callVars, serverVars, Live, ControlInv, Allocates,
             Progress, Placed, Constructed, First, Buffer, Kind, Blocking,
             Vector
  <1>4. CASE Gathered
    BY <1>4 DEF Gathered, Goto, Fail, callVars, serverVars, Live, ControlInv, Allocates,
             Progress, Placed, Constructed, First, Buffer, Kind, Blocking,
             Vector
  <1>5. CASE Send
    BY <1>5 DEF Send, Goto, Fail, callVars, serverVars, Live, ControlInv, Allocates,
             Progress, Placed, Constructed, First, Buffer, Kind, Blocking,
             Vector
  <1>6. CASE Interrupted
    BY <1>6 DEF Interrupted, Goto, Fail, callVars, serverVars, Live, ControlInv, Allocates,
             Progress, Placed, Constructed, First, Buffer, Kind, Blocking,
             Vector
  <1>7. CASE Answered
    BY <1>7 DEF Answered, Goto, Fail, callVars, serverVars, Live, ControlInv, Allocates,
             Progress, Placed, Constructed, First, Buffer, Kind, Blocking,
             Vector
  <1>8. CASE ToIovec
    BY <1>8 DEF ToIovec, Goto, Fail, callVars, serverVars, Live, ControlInv, Allocates,
             Progress, Placed, Constructed, First, Buffer, Kind, Blocking,
             Vector
  <1>9. CASE CopiedBack
    BY <1>9 DEF CopiedBack, Goto, Fail, callVars, serverVars, Live, ControlInv, Allocates,
             Progress, Placed, Constructed, First, Buffer, Kind, Blocking,
             Vector
  <1>10. CASE MsgError
    BY <1>10 DEF MsgError, Goto, Fail, callVars, serverVars, Live, ControlInv, Allocates,
             Progress, Placed, Constructed, First, Buffer, Kind, Blocking,
             Vector
  <1> QED BY <1>2, <1>3, <1>4, <1>5, <1>6, <1>7, <1>8, <1>9, <1>10

\* The steps that free: the two destructors, the two exits of the iovec handlers and
\* a failed copy (which, in a no-reply iovec, is the end of what the invariant says).
LEMMA FreeHeap ==
    ASSUME ControlInv, HeapIsLive, ~uninit', Destroy \/ CleanOut \/ CleanIn \/ GatherFails
    PROVE  HeapIsLive'
  <1>1. CASE Destroy
    <2> DEFINE bs == IF kind = "MsgSendv" THEN {"inbuf", "outbuf", "reply"} ELSE {"inbuf", "reply"}
    <2>1. /\ \A c \in Buffer : c \in ptr => (Live(c)' <=> Live(c) /\ c \notin bs)
          /\ \A c \in Buffer : c \in ptr /\ c \in bs => Live(c)
      BY <1>1 DEF Destroy, Goto, Fail, callVars, serverVars, Live, ControlInv, Allocates,
               Progress, Placed, Constructed, First, Buffer, Kind,
               Blocking, Vector
    <2>2. Free(bs) /\ UNCHANGED ptr
      BY <1>1 DEF Destroy
    <2> HIDE DEF bs
    <2> QED BY <2>1, <2>2, FreeCounts
  <1>2. CASE CleanOut
    <2> DEFINE bs == {"iov_out"}
    <2>1. /\ \A c \in Buffer : c \in ptr => (Live(c)' <=> Live(c) /\ c \notin bs)
          /\ \A c \in Buffer : c \in ptr /\ c \in bs => Live(c)
      BY <1>2 DEF CleanOut, Goto, Fail, callVars, serverVars, Live, ControlInv, Allocates,
               Progress, Placed, Constructed, First, Buffer, Kind,
               Blocking, Vector
    <2>2. Free(bs) /\ UNCHANGED ptr
      BY <1>2 DEF CleanOut
    <2> HIDE DEF bs
    <2> QED BY <2>1, <2>2, FreeCounts
  <1>3. CASE CleanIn
    <2> DEFINE bs == {"iov_in"}
    <2>1. /\ \A c \in Buffer : c \in ptr => (Live(c)' <=> Live(c) /\ c \notin bs)
          /\ \A c \in Buffer : c \in ptr /\ c \in bs => Live(c)
      BY <1>3 DEF CleanIn, Goto, Fail, callVars, serverVars, Live, ControlInv, Allocates,
               Progress, Placed, Constructed, First, Buffer, Kind,
               Blocking, Vector
    <2>2. Free(bs) /\ UNCHANGED ptr
      BY <1>3 DEF CleanIn
    <2> HIDE DEF bs
    <2> QED BY <2>1, <2>2, FreeCounts
  <1>4. CASE GatherFails
    <2> DEFINE bs == {"inbuf", "outbuf", "msg"}
    <2>1. /\ \A c \in Buffer : c \in ptr => (Live(c)' <=> Live(c) /\ c \notin bs)
          /\ \A c \in Buffer : c \in ptr /\ c \in bs => Live(c)
      BY <1>4 DEF GatherFails, Goto, Fail, InitFails, callVars, serverVars, Live,
               ControlInv, Allocates, Progress, Placed, Constructed,
               First, Buffer, Kind, Blocking, Vector
    <2>2. Free(bs) /\ UNCHANGED ptr
      BY <1>4 DEF GatherFails
    <2> HIDE DEF bs
    <2> QED BY <2>1, <2>2, FreeCounts
  <1> QED BY <1>1, <1>2, <1>3, <1>4

\* The iovec handlers copy the iovecs to memory of their own when they are long.
LEMMA AllocIovHeap == ASSUME ControlInv, HeapIsLive, AllocIn \/ AllocOut PROVE HeapIsLive'
  <1>1. CASE AllocIn
    <2>1. \A c \in Buffer : c \in ptr => (Live(c)' <=> Live(c))
      BY <1>1 DEF AllocIn, ControlInv, Progress
    <2>2. Alloc("iov_in") => Live("iov_in")' /\ "iov_in" \in Buffer \ ptr
      BY <1>1 DEF AllocIn, Alloc, Goto, Fail, bufVars, Live, ControlInv, Progress, Buffer
    <2>3. Alloc("iov_in") \/ UNCHANGED bufVars
      BY <1>1 DEF AllocIn, bufVars
    <2> QED BY <2>1, <2>2, <2>3, AllocCounts, SameCounts
  <1>2. CASE AllocOut
    <2>1. \A c \in Buffer : c \in ptr => (Live(c)' <=> Live(c))
      BY <1>2 DEF AllocOut, ControlInv, Progress, Live, Goto, Fail, Constructed, Buffer, Vector,
                  callVars, serverVars
    <2>2. Alloc("iov_out") => Live("iov_out")' /\ "iov_out" \in Buffer \ ptr
      BY <1>2 DEF AllocOut, Alloc, Goto, Fail, bufVars, Live, ControlInv, Progress, Buffer
    <2>3. Alloc("iov_out") \/ UNCHANGED bufVars
      BY <1>2 DEF AllocOut, bufVars
    <2> QED BY <2>1, <2>2, <2>3, AllocCounts, SameCounts
  <1> QED BY <1>1, <1>2

\* The first allocation of a constructor, or its failure.
LEMMA InitMsgHeap == ASSUME ControlInv, HeapIsLive, InitMsg PROVE HeapIsLive'
  <1>1. \A c \in Buffer : c \in ptr => (Live(c)' <=> Live(c))
    BY DEF InitMsg, ControlInv, Allocates, Progress, Live, Goto, Fail, InitFails, Constructed,
           Buffer, Vector, Kind, callVars, serverVars
  <1> PICK b \in Buffer : b = First
    BY DEF First, Buffer
  <1>2. Alloc(b) => Live(b)' /\ b \notin ptr
    BY DEF InitMsg, Alloc, Goto, Fail, InitFails, bufVars, callVars, Live, ControlInv,
           Allocates, Progress, Constructed, First, Buffer, Blocking, Vector, Kind
  <1>3. Alloc(b) \/ UNCHANGED bufVars
    BY DEF InitMsg, bufVars, First
  <1> QED BY <1>1, <1>2, <1>3, AllocCounts, SameCounts

\* initv: the second allocation fails and the first buffer is freed.
LEMMA AllocOutbufHeap == ASSUME ControlInv, HeapIsLive, AllocOutbuf PROVE HeapIsLive'
  <1>1. CASE Alloc("outbuf") /\ Goto("gather")
    <2>1. \A c \in Buffer : c \in ptr => (Live(c)' <=> Live(c))
      BY <1>1 DEF AllocOutbuf, Live, Goto, Constructed, Buffer, callVars, serverVars
    <2>2. Live("outbuf")' /\ "outbuf" \in Buffer \ ptr
      BY <1>1 DEF AllocOutbuf, Live, Goto, Constructed, Buffer, ControlInv, Progress
    <2> QED BY <1>1, <2>1, <2>2, AllocCounts
  <1>2. CASE Fail("ENOMEM", "out_clean_out") /\ Free({"inbuf"}) /\ UNCHANGED ptr
    <2>1. /\ \A c \in Buffer : c \in ptr => (Live(c)' <=> Live(c) /\ c \notin {"inbuf"})
          /\ \A c \in Buffer : c \in ptr /\ c \in {"inbuf"} => Live(c)
      BY <1>2 DEF AllocOutbuf, Live, Goto, Fail, Constructed, Buffer, ControlInv, Allocates,
                  Progress, Placed, Blocking, callVars, serverVars
    <2> QED BY <1>2, <2>1, FreeCounts
  <1> QED BY <1>1, <1>2 DEF AllocOutbuf

\* MsgReply allocates the answer; a copy that fails leaves it to the destructor.
LEMMA MsgReplyHeap == ASSUME ControlInv, HeapIsLive, NEW n, MsgReply(n) PROVE HeapIsLive'
  <1>1. Alloc("reply") \/ UNCHANGED bufVars
    BY DEF MsgReply, bufVars
  <1>2. place = "pending" /\ place' = "answered" /\ UNCHANGED <<pc, kind>>
    BY DEF MsgReply, callVars
  <1>3. pc = "blocked" /\ "reply" \notin ptr
    BY <1>2 DEF ControlInv, Placed, Progress
  <1>4. \A c \in Buffer : c \in ptr => (Live(c)' <=> Live(c))
    BY <1>2, <1>3 DEF Live, Constructed, Buffer
  <1>5. Live("reply")' /\ "reply" \in Buffer
    BY <1>2, <1>3 DEF Live, Constructed, Buffer
  <1> QED BY <1>1, <1>3, <1>4, <1>5, AllocCounts, SameCounts

\* The lookup: MsgSendNoReply frees its message when it fails, MsgSend goes on to the
\* destructor.
LEMMA LookupHeap == ASSUME ControlInv, HeapIsLive, Lookup PROVE HeapIsLive'
  <1>1. CASE kind = "MsgSendNoReply" /\ Fail("EBADF", "out") /\ Free({"msg"})
    <2>1. /\ \A c \in Buffer : c \in ptr => (Live(c)' <=> Live(c) /\ c \notin {"msg"})
          /\ \A c \in Buffer : c \in ptr /\ c \in {"msg"} => Live(c)
          /\ UNCHANGED ptr
      BY <1>1 DEF Lookup, Live, Goto, Fail, Constructed, Buffer, ControlInv, Allocates,
                  Progress, Placed, Blocking, Vector, callVars, serverVars
    <2> QED BY <1>1, <2>1, FreeCounts
  <1>2. CASE UNCHANGED heap /\ (pc' \in {"init", "send"} \/ kind # "MsgSendNoReply")
    <2>1. /\ UNCHANGED <<ptr, kind, place>> /\ pc = "lookup"
          /\ \/ pc' = IF kind \in Vector THEN "init" ELSE "send"
             \/ kind = "MsgSend" /\ pc' = "destroy"
             \/ kind = "MsgSendv" /\ pc' = "out_clean_out"
             \/ kind = "MsgSendNoReplyv" /\ pc' = "out_clean_in"
      BY <1>2 DEF Lookup, Goto, Fail, ControlInv, Allocates, Kind, callVars, serverVars
    <2>2. \A c \in Buffer : c \in ptr => (Live(c)' <=> Live(c))
      BY <2>1 DEF Live, Constructed, Buffer, ControlInv, Allocates, Progress, Vector, Kind
    <2> QED BY <1>2, <2>1, <2>2, SameCounts DEF bufVars
  <1> QED BY <1>1, <1>2 DEF Lookup, Goto, Fail, ControlInv, Allocates, Kind

\* A server takes the message: a no-reply message ends here, also when the copy to the
\* server fails.
LEMMA ReceiveHeap ==
    ASSUME ControlInv, HeapIsLive, ReceiveFails \/ \E n \in 0..MaxBuffer : Receive(n)
    PROVE  HeapIsLive'
  <1>1. /\ place = "waiting"
        /\ UNCHANGED <<pc, kind, ptr>>
        /\ IF kind \in Blocking THEN place' \in {"pending", "answered"} /\ UNCHANGED heap
                                ELSE place' = "none" /\ Free({"msg"})
    BY DEF ReceiveFails, Receive, callVars
  <1>2. CASE kind \in Blocking
    <2>1. \A c \in Buffer : c \in ptr => (Live(c)' <=> Live(c))
      BY <1>1, <1>2 DEF Live, Constructed, Buffer, ControlInv, Allocates
    <2> QED BY <1>1, <1>2, <2>1, SameCounts DEF bufVars
  <1>3. CASE kind \notin Blocking
    <2>1. /\ \A c \in Buffer : c \in ptr => (Live(c)' <=> Live(c) /\ c \notin {"msg"})
          /\ \A c \in Buffer : c \in ptr /\ c \in {"msg"} => Live(c)
      BY <1>1, <1>3 DEF Live, Constructed, Buffer, ControlInv, Allocates, Placed, Vector
    <2> QED BY <1>1, <1>3, <2>1, FreeCounts
  <1> QED BY <1>2, <1>3

\* A call begins and ends without a buffer.
LEMMA CallHeap ==
    ASSUME ControlInv, HeapIsLive,
           Return \/ \E k \in Kind, ins, outs \in Iovec : Call(k, ins, outs)
    PROVE  HeapIsLive'
  <1>1. CASE Return
    BY <1>1 DEF Return, Goto, ControlInv, Allocates, Progress, Placed, HeapIsLive, Live,
                Constructed, First, Buffer, Kind, Blocking, Vector
  <1>2. ASSUME NEW k \in Kind, NEW ins, NEW outs, Call(k, ins, outs) PROVE HeapIsLive'
    <2>1. pc = "idle" /\ UNCHANGED <<ptr, heap>>
      BY <1>2 DEF Call, Goto, bufVars
    <2> QED BY <2>1 DEF ControlInv, Progress, HeapIsLive
  <1> QED BY <1>1, <1>2

\* Every step keeps the buffers in order.
LEMMA NextBufferInv == BufferInv /\ [Next]_vars => BufferInv'
  <1> SUFFICES ASSUME BufferInv, [Next]_vars, ~uninit' PROVE HeapIsLive'
    BY NextControl DEF BufferInv
  <1>1. ControlInv
    BY DEF BufferInv
  <1>2. ~uninit /\ HeapIsLive
    <2>1. UNCHANGED uninit \/ uninit'
      BY DEF Next, Handler, vars, Call, AllocIn, AllocOut, CopyIov, Lookup, InitMsg,
             AllocOutbuf, FromIovec, Gathered, GatherFails, Send, Answered, ToIovec,
             CopiedBack, Destroy, CleanOut, CleanIn, Return, Interrupted, Receive, MsgReply,
             MsgRead, ReceiveFails, MsgError
    <2> QED BY <2>1 DEF BufferInv
  <1>3. CASE UNCHANGED <<pc, kind, ptr, heap, place, uninit>>
    BY <1>2, <1>3 DEF HeapIsLive, Live, Constructed
  <1> QED BY <1>1, <1>2, <1>3, MsgReadKeeps, QuietHeap, FreeHeap, AllocIovHeap, InitMsgHeap,
             AllocOutbufHeap, MsgReplyHeap, LookupHeap, ReceiveHeap, CallHeap DEF Next, Handler

\* Whichever allocation or copy of a sending handler fails, whatever the server does
\* and however long the iovecs are, every buffer is freed once and none is freed while
\* its message is queued or pending.
THEOREM MsgDataFreedOnce == Spec => []FreedOnce
  BY InitBufferInv, NextBufferInv, BufferInvFreedOnce, PTL DEF Spec

-------------------------------------------------------------------------------
(* Iovecs.                                                                 *)

\* The smaller of two lengths.
LEMMA MinOfTwo ==
    ASSUME NEW a \in Int, NEW b \in Int
    PROVE  Min({a, b}) = IF a <= b THEN a ELSE b
  <1> DEFINE m == IF a <= b THEN a ELSE b
  <1>1. m \in {a, b} /\ \A y \in {a, b} : m <= y
    OBVIOUS
  <1>2. \A x \in {a, b} : (\A y \in {a, b} : x <= y) => x = m
    OBVIOUS
  <1> HIDE DEF m
  <1>3. Min({a, b}) = m
    BY <1>1, <1>2 DEF Min
  <1> QED BY <1>3 DEF m

\* The parts of an iovec: where one ends the next begins, and all are within its length.
LEMMA Parts ==
    ASSUME NEW iov \in Iovec
    PROVE  /\ Len(iov) \in Nat /\ IovLength(iov) \in Nat
           /\ Start(iov, 1) = 0 /\ Start(iov, Len(iov) + 1) = IovLength(iov)
           /\ \A p \in 1..(Len(iov) + 1) :
                 Start(iov, p) \in Nat /\ Start(iov, p) <= IovLength(iov)
           /\ \A p \in 1..Len(iov) :
                 /\ iov[p].iov_base = Start(iov, p) /\ iov[p].iov_len \in Nat
                 /\ Start(iov, p + 1) = Start(iov, p) + iov[p].iov_len
  <1> DEFINE IO == [iov_base : 0..(MaxParts * MaxPart), iov_len : 0..MaxPart]
  <1>1. PICK m \in 0..MaxParts : iov \in [1..m -> IO]
    BY DEF Iovec, SeqOf
  <1>2. Len(iov) = m /\ m \in Nat /\ DOMAIN iov = 1..m
    <2>1. m \in Nat
      BY MsgDataAssumption
    <2> HIDE DEF IO
    <2>2. iov \in Seq(IO)
      BY <1>1, <2>1, SeqDef
    <2>3. DOMAIN iov = 1..m /\ DOMAIN iov = 1..Len(iov) /\ Len(iov) \in Nat
      BY <1>1, <2>2, LenProperties
    <2> QED BY <2>1, <2>3
  <1>3. \A p \in 1..m : iov[p].iov_base \in Nat /\ iov[p].iov_len \in Nat
    <2>1. \A r \in IO : r.iov_base \in Nat /\ r.iov_len \in Nat
      BY MsgDataAssumption
    <2> QED BY <1>1, <2>1
  <1>4. \A p, q \in 1..m :
            /\ p = 1 => iov[p].iov_base = 0
            /\ q = p + 1 => iov[q].iov_base = End(iov, p)
            /\ p < q => End(iov, p) <= iov[q].iov_base
    BY <1>2 DEF Iovec
  <1>5. CASE m = 0
    <2>1. iov = <<>>
      BY <1>1, <1>5
    <2> QED BY <1>2, <1>5, <2>1 DEF IovLength, Start
  <1>6. CASE m # 0
    <2>1. iov # <<>> /\ m \in 1..m /\ 1 \in 1..m
      BY <1>2, <1>6
    <2>2. IovLength(iov) = iov[m].iov_base + iov[m].iov_len
      BY <1>2, <2>1 DEF IovLength, End
    <2>3. \A p \in 1..m : iov[p].iov_base <= IovLength(iov) /\ Start(iov, p) = iov[p].iov_base
      <3> SUFFICES ASSUME NEW p \in 1..m
                   PROVE  iov[p].iov_base <= IovLength(iov) /\ Start(iov, p) = iov[p].iov_base
        OBVIOUS
      <3>1. Start(iov, p) = iov[p].iov_base
        BY <1>2 DEF Start
      <3>2. CASE p = m
        BY <1>3, <2>2, <3>1, <3>2
      <3>3. CASE p < m
        <4>1. End(iov, p) <= iov[m].iov_base
          BY <1>4, <2>1, <3>3
        <4> QED BY <1>3, <2>1, <2>2, <3>1, <4>1 DEF End
      <3> QED BY <1>2, <3>2, <3>3
    <2>4. \A p \in 1..m : Start(iov, p + 1) = iov[p].iov_base + iov[p].iov_len
      <3> SUFFICES ASSUME NEW p \in 1..m
                   PROVE  Start(iov, p + 1) = iov[p].iov_base + iov[p].iov_len
        OBVIOUS
      <3>1. CASE p = m
        BY <1>2, <2>2, <3>1 DEF Start
      <3>2. CASE p < m
        <4>1. p + 1 \in 1..m
          BY <1>2, <3>2
        <4> QED BY <1>2, <1>4, <4>1 DEF Start, End
      <3> QED BY <1>2, <3>1, <3>2
    <2>5. Start(iov, m + 1) = IovLength(iov) /\ IovLength(iov) \in Nat
      BY <1>2, <1>3, <2>1, <2>2 DEF Start
    <2>6. ASSUME NEW p \in 1..(m + 1)
          PROVE  Start(iov, p) \in Nat /\ Start(iov, p) <= IovLength(iov)
      <3>1. p \in 1..m \/ p = m + 1
        BY <1>2
      <3> QED BY <1>3, <2>3, <2>5, <3>1
    <2>7. Start(iov, 1) = 0
      BY <1>4, <2>1, <2>3
    <2> QED BY <1>2, <1>3, <2>3, <2>4, <2>5, <2>6, <2>7
  <1> QED BY <1>2, <1>5, <1>6

\* The bytes of a part follow those of the parts before it.
LEMMA BytesFollow ==
    ASSUME NEW e, NEW m \in Nat, NEW n \in Nat, m = e.iov_base
    PROVE  Sending(m) \o Bytes(e, n) = Sending(m + n)
  <1> DEFINE s == Sending(m)
             t == Bytes(e, n)
             u == Sending(m + n)
  <1>1. s \in Seq(Nat) /\ t \in Seq(Nat) /\ u \in Seq(Nat)
    BY IsASeq DEF Sending, Bytes
  <1>2. Len(s) = m /\ Len(t) = n /\ Len(u) = m + n
    BY DEF Sending, Bytes
  <1>3. /\ \A j \in 1..m : s[j] = j
        /\ \A j \in 1..n : t[j] = m + j
        /\ \A j \in 1..(m + n) : u[j] = j
    BY DEF Sending, Bytes
  <1> HIDE DEF s, t, u
  <1>4. s \o t \in Seq(Nat) /\ Len(s \o t) = m + n
    <2>1. s \o t \in Seq(Nat) /\ Len(s \o t) = Len(s) + Len(t)
      BY <1>1, ConcatProperties
    <2> QED BY <1>2, <2>1
  <1>5. ASSUME NEW j \in 1..(m + n) PROVE (s \o t)[j] = u[j]
    <2>1. (s \o t)[j] = IF j <= m THEN s[j] ELSE t[j - m]
      <3>1. j \in 1..(Len(s) + Len(t))
        BY <1>2
      <3>2. (s \o t)[j] = IF j <= Len(s) THEN s[j] ELSE t[j - Len(s)]
        BY <1>1, <3>1, ConcatProperties
      <3> QED BY <1>2, <3>2
    <2>2. IF j <= m THEN j \in 1..m ELSE j - m \in 1..n /\ m + (j - m) = j
      OBVIOUS
    <2> QED BY <1>3, <2>1, <2>2
  <1>6. s \o t = u
    BY <1>1, <1>2, <1>4, <1>5, SeqEqual
  <1> QED BY <1>6 DEF s, t, u

-------------------------------------------------------------------------------
(* Gathering: the parts before the one a copy has reached are in the buffer. *)

\* The constructor has not begun.
Fresh ==
    \/ pc \in {"idle", "alloc_in", "alloc_out", "copy_iov", "init"}
    \/ pc = "lookup" /\ kind \in Vector

Gathering == pc \in {"alloc_outbuf", "gather"}

GatherInv ==
    /\ siov \in Iovec /\ riov \in Iovec
    /\ Fresh => in = <<>>
    /\ Gathering =>
          /\ part \in 1..(Len(siov) + 1)
          /\ left = IovLength(siov) - Start(siov, part)
          /\ in = Sending(Start(siov, part))

\* There is nothing to copy in a call without parts.
LEMMA NoParts == <<>> \in Iovec /\ IovLength(<<>>) = 0
  <1>1. <<>> \in SeqOf([iov_base : 0..(MaxParts * MaxPart), iov_len : 0..MaxPart], MaxParts)
    BY MsgDataAssumption DEF SeqOf
  <1> QED BY <1>1 DEF Iovec, IovLength

\* Nothing is gathered at the start.
LEMMA InitGather == Init => GatherInv
  BY NoParts DEF Init, GatherInv, Fresh, Gathering

\* The steps outside the constructors.
LEMMA GatherKeeps ==
    ASSUME GatherInv, UNCHANGED <<kind, siov, riov, in>>, Fresh' => Fresh,
           Gathering' => Gathering /\ UNCHANGED <<part, left>>
    PROVE  GatherInv'
  BY DEF GatherInv

\* One turn of memcpy_fromiovec takes the whole part.
LEMMA FromIovecGathers == ASSUME GatherInv, FromIovec PROVE GatherInv'
  <1>1. pc = "gather" /\ pc' = pc /\ UNCHANGED <<kind, siov, riov>>
    BY DEF FromIovec, callVars
  <1>2. /\ part \in 1..Len(siov) /\ part' = part + 1 /\ Len(siov) \in Nat
        /\ left = IovLength(siov) - Start(siov, part)
        /\ in = Sending(Start(siov, part))
    <2>1. Len(siov) \in Nat
      BY Parts DEF GatherInv
    <2> QED BY <1>1, <2>1 DEF FromIovec, GatherInv, Gathering
  <1> DEFINE len == siov[part].iov_len
  <1>3. /\ siov[part].iov_base = Start(siov, part) /\ Start(siov, part) \in Nat /\ len \in Nat
        /\ Start(siov, part + 1) = Start(siov, part) + len
        /\ Start(siov, part + 1) <= IovLength(siov) /\ IovLength(siov) \in Nat
    <2>1. part \in 1..(Len(siov) + 1) /\ part + 1 \in 1..(Len(siov) + 1)
      BY <1>2
    <2> QED BY <1>2, <2>1, Parts DEF GatherInv
  <1>4. Min({left, len}) = len
    <2>1. left \in Int /\ len <= left
      BY <1>2, <1>3
    <2> QED BY <1>3, <2>1, MinOfTwo
  <1>5. in' = in \o Bytes(siov[part], len) /\ left' = left - len
    BY <1>4 DEF FromIovec
  <1>6. in' = Sending(Start(siov, part + 1))
    <2> HIDE DEF len
    <2>1. Sending(Start(siov, part)) \o Bytes(siov[part], len)
             = Sending(Start(siov, part) + len)
      BY <1>3, BytesFollow
    <2> QED BY <1>2, <1>3, <1>5, <2>1
  <1>7. left' = IovLength(siov) - Start(siov, part + 1)
    BY <1>2, <1>3, <1>5
  <1>8. part' \in 1..(Len(siov) + 1)
    BY <1>2
  <1> QED BY <1>1, <1>2, <1>6, <1>7, <1>8 DEF GatherInv, Fresh, Gathering

\* The constructor begins before the first part.
LEMMA InitMsgGathers == ASSUME ControlInv, GatherInv, InitMsg PROVE GatherInv'
  <1>1. pc = "init" /\ UNCHANGED <<kind, siov, riov, in>>
    BY DEF InitMsg, callVars
  <1>2. in = <<>>
    BY <1>1 DEF GatherInv, Fresh
  <1>3. ~Fresh' /\ (Gathering' => part' = 1 /\ left' = IovLength(siov))
    BY DEF InitMsg, InitFails, Fail, Goto, Fresh, Gathering, ControlInv, Allocates, Kind
  <1>4. /\ 1 \in 1..(Len(siov) + 1) /\ Start(siov, 1) = 0
        /\ IovLength(siov) = IovLength(siov) - Start(siov, 1)
    BY Parts DEF GatherInv
  <1>5. <<>> = Sending(0)
    BY DEF Sending
  <1> QED BY <1>1, <1>2, <1>3, <1>4, <1>5 DEF GatherInv

\* Every step keeps what has been gathered.
LEMMA NextGather == ControlInv /\ GatherInv /\ [Next]_vars => GatherInv'
  <1> SUFFICES ASSUME ControlInv, GatherInv, [Next]_vars PROVE GatherInv'
    OBVIOUS
  <1>1. ASSUME NEW k \in Kind, NEW ins \in Iovec, NEW outs \in Iovec, Call(k, ins, outs)
        PROVE  GatherInv'
    BY <1>1 DEF Call, Goto, GatherInv, Fresh, Gathering
  <1>2. CASE Return
    BY <1>2, NoParts DEF Return, Goto, GatherInv, Fresh, Gathering
  <1>3. CASE \/ AllocIn \/ AllocOut \/ CopyIov \/ Lookup \/ AllocOutbuf \/ Gathered
    <2>1. /\ UNCHANGED <<kind, siov, riov, in>> /\ (Fresh' => Fresh)
          /\ Gathering' => Gathering /\ UNCHANGED <<part, left>>
      BY <1>3 DEF AllocIn, AllocOut, CopyIov, Lookup, AllocOutbuf, Gathered, Goto, Fail,
                  callVars, copyVars, Fresh, Gathering, ControlInv, Allocates, Kind, Vector
    <2> QED BY <2>1, GatherKeeps
  <1>4. CASE \/ GatherFails \/ Send \/ Interrupted \/ Answered \/ ToIovec \/ CopiedBack
             \/ Destroy \/ CleanOut \/ CleanIn
    <2>1. /\ UNCHANGED <<kind, siov, riov, in>> /\ (Fresh' => Fresh)
          /\ Gathering' => Gathering /\ UNCHANGED <<part, left>>
      BY <1>4 DEF GatherFails, InitFails, Send, Interrupted, Answered, ToIovec, CopiedBack,
                  Destroy, CleanOut, CleanIn, Goto, Fail, callVars, copyVars, Fresh, Gathering,
                  ControlInv, Allocates, Kind, Blocking, Vector
    <2> QED BY <2>1, GatherKeeps
  <1>5. ASSUME NEW n, NEW o,
               Receive(n) \/ MsgReply(n) \/ MsgRead(o, n) \/ ReceiveFails \/ MsgError
                  \/ UNCHANGED vars
        PROVE  GatherInv'
    <2>1. UNCHANGED <<pc, kind, siov, riov, in, part, left>>
      BY <1>5 DEF Receive, MsgReply, MsgRead, ReceiveFails, MsgError, vars, callVars, copyVars
    <2> QED BY <2>1, GatherKeeps DEF Fresh, Gathering
  <1> QED BY <1>1, <1>2, <1>3, <1>4, <1>5, FromIovecGathers, InitMsgGathers DEF Next, Handler

-------------------------------------------------------------------------------
(* Scattering: the parts before the one a copy has reached hold the answer. *)

\* The call is on its way out.
Ending == {"destroy", "out_clean_out", "out_clean_in", "out"}

\* How much of the answer fits, and how much of that a copy has moved.
Fits == Min({IovLength(riov), Len(reply)})
Moved == Min({Fits, Start(riov, part)})

Filled(n) == obuf = [j \in 1..IovLength(riov) |-> IF j <= n THEN reply[j] ELSE 0]

ScatterInv ==
    /\ reply \in Seq(Nat)
    /\ pc \notin Ending \cup {"copy_back"} => obuf = Blank(IovLength(riov))
    /\ pc = "copy_back" =>
          /\ rc = "OK" /\ part \in 1..(Len(riov) + 1)
          /\ left = Fits - Moved
          /\ Filled(Moved)
    /\ pc \in Ending /\ kind \in Blocking =>
          /\ rc = "OK" => Filled(Fits)
          /\ rc \notin {"OK", "EFAULT"} => obuf = Blank(IovLength(riov))

\* Nothing of the answer is nothing at all.
LEMMA FilledNone == Filled(0) <=> obuf = Blank(IovLength(riov))
  <1>1. [j \in 1..IovLength(riov) |-> IF j <= 0 THEN reply[j] ELSE 0] = Blank(IovLength(riov))
    BY DEF Blank
  <1> QED BY <1>1 DEF Filled

\* There are no buffers for an answer at the start.
LEMMA InitScatter == Init => ScatterInv
  <1> SUFFICES ASSUME Init PROVE ScatterInv
    OBVIOUS
  <1>1. obuf = Blank(IovLength(riov)) /\ reply \in Seq(Nat)
    BY NoParts DEF Init, Blank
  <1> QED BY <1>1 DEF Init, ScatterInv, Ending

\* Before the answer is copied, on the way out, and where nothing changes.
LEMMA ScatterKeeps ==
    ASSUME ScatterInv, UNCHANGED <<kind, riov, obuf>>, reply' \in Seq(Nat),
           \/ /\ pc \notin Ending \cup {"copy_back"}
              /\ pc' \notin Ending \cup {"copy_back"}
           \/ /\ pc \notin Ending \cup {"copy_back"}
              /\ pc' \in Ending /\ (kind \in Blocking => rc' # "OK")
           \/ pc \in Ending /\ pc' \in Ending /\ UNCHANGED <<rc, reply>>
           \/ UNCHANGED <<pc, rc, reply, part, left>>
    PROVE  ScatterInv'
  BY DEF ScatterInv, Ending, Filled, Fits, Moved

\* The lengths that the copy of the answer compares.
LEMMA FitsMoved ==
    ASSUME GatherInv, ScatterInv
    PROVE  /\ IovLength(riov) \in Nat /\ Len(riov) \in Nat /\ Len(reply) \in Nat
           /\ Fits \in Nat /\ Fits <= IovLength(riov) /\ Fits <= Len(reply)
           /\ \A s \in Nat : Min({Fits, s}) = IF Fits <= s THEN Fits ELSE s
  <1>1. IovLength(riov) \in Nat /\ Len(riov) \in Nat /\ Len(reply) \in Nat
    BY Parts, LenProperties DEF GatherInv, ScatterInv
  <1>2. Fits \in Nat /\ Fits <= IovLength(riov) /\ Fits <= Len(reply)
    BY <1>1, MinOfTwo DEF Fits
  <1> QED BY <1>1, <1>2, MinOfTwo

\* The sender wakes up before the first part.
LEMMA AnsweredScatters ==
    ASSUME ControlInv, GatherInv, ScatterInv, Answered PROVE ScatterInv'
  <1>1. /\ pc = "blocked" /\ kind \in Blocking /\ UNCHANGED <<kind, riov, obuf, rc, reply>>
        /\ part' = 1 /\ left' = Fits
        /\ pc' = IF rc = "OK" /\ Len(reply) > 0 THEN "copy_back" ELSE "destroy"
    BY DEF Answered, Goto, callVars, Fits, ControlInv, Progress
  <1>2. obuf = Blank(IovLength(riov)) /\ Filled(0)
    BY <1>1, FilledNone DEF ScatterInv, Ending
  <1>3. Fits' = Fits /\ Start(riov, 1) = 0 /\ 1 \in 1..(Len(riov) + 1)
    BY <1>1, FitsMoved, Parts DEF Fits, GatherInv
  <1>4. Moved' = 0
    BY <1>1, <1>3, FitsMoved DEF Moved
  <1>5. CASE pc' = "copy_back"
    <2>1. rc' = "OK" /\ part' \in 1..(Len(riov') + 1) /\ left' = Fits' - Moved'
      BY <1>1, <1>3, <1>4, <1>5, FitsMoved
    <2>2. Filled(Moved)'
      BY <1>1, <1>2, <1>4 DEF Filled
    <2> QED BY <1>1, <1>5, <2>1, <2>2 DEF ScatterInv, Ending
  <1>6. CASE pc' = "destroy"
    <2>1. rc = "OK" => Fits = 0
      BY <1>1, <1>6, FitsMoved
    <2>2. rc = "OK" => Filled(Fits)'
      BY <1>1, <1>2, <1>3, <2>1 DEF Filled
    <2> QED BY <1>1, <1>2, <1>6, <2>2 DEF ScatterInv, Ending
  <1> QED BY <1>1, <1>5, <1>6

\* One turn of memcpy_toiovec moves what belongs into the part.
LEMMA ToIovecScatters ==
    ASSUME GatherInv, ScatterInv, ToIovec PROVE ScatterInv'
  <1>0. Fits \in Nat /\ IovLength(riov) \in Nat /\ Len(riov) \in Nat
    BY FitsMoved
  <1>1. pc = "copy_back" /\ UNCHANGED <<pc, kind, riov, rc, reply>> /\ part' = part + 1
    BY DEF ToIovec, callVars
  <1> DEFINE s == Start(riov, part)
             len == riov[part].iov_len
             copy == Min({left, len})
  <1>2. /\ part \in 1..Len(riov) /\ left > 0 /\ rc = "OK"
        /\ left = Fits - Moved /\ Filled(Moved)
    BY <1>1, FitsMoved DEF ToIovec, ScatterInv
  <1>3. /\ riov[part].iov_base = s /\ s \in Nat /\ len \in Nat
        /\ Start(riov, part + 1) = s + len
        /\ part + 1 \in 1..(Len(riov) + 1)
    <2>1. part \in 1..(Len(riov) + 1)
      BY <1>2, FitsMoved
    <2> QED BY <1>2, <2>1, Parts, FitsMoved DEF GatherInv
  <1>4. Moved = IF Fits <= s THEN Fits ELSE s
    BY <1>3, FitsMoved DEF Moved
  <1> HIDE DEF s
  <1>5. Moved = s /\ left = Fits - s /\ s < Fits
    BY <1>0, <1>2, <1>3, <1>4
  <1>6. copy = (IF left <= len THEN left ELSE len) /\ copy \in Nat /\ copy <= left
    <2>1. left \in Int /\ left > 0 /\ len \in Nat
      BY <1>0, <1>2, <1>3, <1>5
    <2> HIDE DEF len
    <2>2. copy = IF left <= len THEN left ELSE len
      BY <2>1, MinOfTwo
    <2> HIDE DEF copy
    <2> QED BY <2>1, <2>2
  <1>7. left' = left - copy
    BY DEF ToIovec
  <1>8. Fits' = Fits
    BY <1>1 DEF Fits
  <1>9. Moved' = s + copy
    <2>1. Moved' = Min({Fits, s + len})
      BY <1>1, <1>3, <1>8 DEF Moved
    <2> HIDE DEF len, copy
    <2>2. Moved' = IF Fits <= s + len THEN Fits ELSE s + len
      BY <1>3, <2>1, FitsMoved
    <2> QED BY <1>0, <1>3, <1>5, <1>6, <2>2
  <1>10. Filled(Moved)'
    <2>1. obuf' = [j \in DOMAIN obuf |->
                      IF j - s \in 1..copy THEN reply[Fits - left + (j - s)] ELSE obuf[j]]
      BY <1>3 DEF ToIovec, Fits
    <2> HIDE DEF len, copy
    <2>2. /\ DOMAIN obuf = 1..IovLength(riov)
          /\ \A j \in 1..IovLength(riov) : obuf[j] = IF j <= s THEN reply[j] ELSE 0
      BY <1>2, <1>5 DEF Filled
    <2>3. ASSUME NEW j \in 1..IovLength(riov)
          PROVE  (IF j - s \in 1..copy THEN reply[Fits - left + (j - s)] ELSE obuf[j])
                    = (IF j <= s + copy THEN reply[j] ELSE 0)
      <3>1. j \in Nat /\ Fits - left + (j - s) = j
        BY <1>0, <1>3, <1>5
      <3>2. j - s \in 1..copy <=> s < j /\ j <= s + copy
        BY <1>3, <1>6, <3>1
      <3>3. j <= s => j <= s + copy
        BY <1>3, <1>6, <3>1
      <3>4. j <= s \/ s < j
        BY <1>3, <3>1
      <3> QED BY <1>3, <2>2, <3>1, <3>2, <3>3, <3>4
    <2>4. obuf' = [j \in 1..IovLength(riov) |-> IF j <= s + copy THEN reply[j] ELSE 0]
      BY <2>1, <2>2, <2>3
    <2> QED BY <1>1, <1>9, <2>4 DEF Filled
  <1>11. left' = Fits' - Moved'
    <2> HIDE DEF len, copy
    <2> QED BY <1>0, <1>3, <1>5, <1>6, <1>7, <1>8, <1>9
  <1> QED BY <1>1, <1>2, <1>3, <1>10, <1>11 DEF ScatterInv, Ending

\* The copy is done, or has failed.
LEMMA CopiedBackScatters ==
    ASSUME ControlInv, GatherInv, ScatterInv, CopiedBack PROVE ScatterInv'
  <1>1. /\ pc = "copy_back" /\ pc' = "destroy" /\ UNCHANGED <<kind, riov, obuf, reply>>
        /\ (rc' = rc /\ left = 0) \/ rc' = "EFAULT"
    BY DEF CopiedBack, Goto, Fail, callVars
  <1>2. /\ reply \in Seq(Nat) /\ rc = "OK" /\ part \in 1..(Len(riov) + 1)
        /\ left = Fits - Moved /\ Filled(Moved)
    BY <1>1 DEF ScatterInv
  <1>3. rc' = "OK" => Filled(Fits)
    <2>1. Start(riov, part) \in Nat
      BY <1>2, Parts DEF GatherInv
    <2>2. Moved \in Nat
      BY <2>1, FitsMoved DEF Moved
    <2> QED BY <1>1, <1>2, <2>2, FitsMoved
  <1> QED BY <1>1, <1>2, <1>3 DEF ScatterInv, Ending, Filled, Fits

\* Every step keeps what has been scattered.
LEMMA NextScatter == ControlInv /\ GatherInv /\ ScatterInv /\ [Next]_vars => ScatterInv'
  <1> SUFFICES ASSUME ControlInv, GatherInv, ScatterInv, [Next]_vars PROVE ScatterInv'
    OBVIOUS
  <1>0. reply \in Seq(Nat)
    BY DEF ScatterInv
  <1>1. ASSUME NEW k \in Kind, NEW ins, NEW outs, Call(k, ins, outs)
        PROVE  ScatterInv'
    <2>1. /\ pc' \notin Ending \cup {"copy_back"} /\ UNCHANGED reply
          /\ (obuf = Blank(IovLength(riov)))'
      BY <1>1 DEF Call, Goto, Ending
    <2> QED BY <1>0, <2>1 DEF ScatterInv, Ending
  <1>2. CASE Return
    <2>1. /\ pc' = "idle" /\ reply' = <<>>
          /\ (obuf = Blank(IovLength(riov)))'
      BY <1>2, NoParts DEF Return, Goto, Blank
    <2> QED BY <2>1 DEF ScatterInv, Ending
  <1>3. CASE \/ AllocIn \/ AllocOut \/ CopyIov \/ Lookup \/ InitMsg \/ AllocOutbuf
             \/ FromIovec \/ Gathered \/ GatherFails
    <2>1. /\ UNCHANGED <<kind, riov, obuf, reply>>
          /\ pc \notin Ending \cup {"copy_back"}
          /\ \/ pc' \notin Ending \cup {"copy_back"}
             \/ pc' \in Ending /\ rc' # "OK"
      BY <1>3 DEF AllocIn, AllocOut, CopyIov, Lookup, InitMsg, AllocOutbuf, FromIovec, Gathered,
                  GatherFails, InitFails, Goto, Fail, callVars, Ending, ControlInv, Allocates,
                  Kind
    <2> QED BY <1>0, <2>1, ScatterKeeps
  <1>4. CASE Send \/ Interrupted
    <2>1. /\ UNCHANGED <<kind, riov, obuf, reply>>
          /\ pc \notin Ending \cup {"copy_back"}
          /\ \/ pc' \notin Ending \cup {"copy_back"}
             \/ pc' \in Ending /\ (kind \in Blocking => rc' # "OK")
      BY <1>4 DEF Send, Interrupted, Goto, Fail, callVars, Ending, ControlInv, Allocates, Kind,
                  Blocking
    <2> QED BY <1>0, <2>1, ScatterKeeps
  <1>5. CASE Destroy \/ CleanOut \/ CleanIn
    <2>1. /\ UNCHANGED <<kind, riov, obuf, reply, rc>>
          /\ pc \in Ending /\ pc' \in Ending
      BY <1>5 DEF Destroy, CleanOut, CleanIn, Goto, callVars, Ending
    <2> QED BY <1>0, <2>1, ScatterKeeps
  <1>6. ASSUME NEW n, NEW o, Receive(n) \/ MsgRead(o, n) \/ UNCHANGED vars
        PROVE  ScatterInv'
    <2>1. UNCHANGED <<pc, kind, riov, obuf, rc, reply, part, left>>
      BY <1>6 DEF Receive, MsgRead, vars, callVars, copyVars
    <2> QED BY <1>0, <2>1, ScatterKeeps
  <1>7. ASSUME NEW n \in 0..MaxBuffer, MsgReply(n) \/ MsgError \/ ReceiveFails
        PROVE  ScatterInv'
    <2>1. UNCHANGED <<pc, kind, riov, obuf, part, left>>
      BY <1>7 DEF MsgReply, MsgError, ReceiveFails, callVars, copyVars
    <2>2. reply' \in Seq(Nat)
      <3>1. Answering(n) \in Seq(Nat)
        BY IsASeq DEF Answering
      <3> QED BY <1>0, <1>7, <3>1 DEF MsgReply, MsgError, ReceiveFails
    <2>3. CASE pc = "blocked"
      BY <2>1, <2>2, <2>3, ScatterKeeps DEF Ending
    <2>4. CASE pc # "blocked"
      <3>1. UNCHANGED <<rc, reply>>
        BY <1>7, <2>4 DEF MsgReply, MsgError, ReceiveFails, ControlInv, Placed
      <3> QED BY <2>1, <2>2, <3>1, ScatterKeeps
    <2> QED BY <2>3, <2>4
  <1>8. 0 \in 0..MaxBuffer
    BY MsgDataAssumption
  <1> QED BY <1>1, <1>2, <1>3, <1>4, <1>5, <1>6, <1>7, <1>8, AnsweredScatters, ToIovecScatters,
             CopiedBackScatters DEF Next, Handler

-------------------------------------------------------------------------------
(* What the server sees.                                                   *)

\* The message has been built, or is somewhere.
Built ==
    \/ pc = "send"
    \/ pc = "lookup" /\ kind \notin Vector
    \/ place # "none"

\* The server's copies are copies of the message.
CopiesOf(msg) ==
    /\ place = "pending" => IsPrefix(rbuf.data, msg) /\ rbuf.msglen = Len(msg)
    /\ back.data = SubSeq(msg, back.offset + 1, back.offset + Len(back.data))

SeenInv ==
    /\ pc = "idle" => back = [offset |-> 0, data |-> <<>>]
    /\ ~uninit => (Built => in = Message) /\ CopiesOf(Message)

\* Without a byte read there is nothing to compare.
LEMMA NothingRead ==
    ASSUME NEW msg, NEW b, b = [offset |-> 0, data |-> <<>>]
    PROVE  b.data = SubSeq(msg, b.offset + 1, b.offset + Len(b.data))
  <1>1. SubSeq(msg, 1, 0) = <<>>
    BY SubSeqEmpty
  <1> QED BY <1>1

\* MsgReceive copies the beginning of a message, as much of it as fits.
LEMMA Beginning ==
    ASSUME NEW m \in Nat, NEW n \in Nat, NEW c, c = Min({m, n})
    PROVE  IsPrefix(SubSeq(Sending(m), 1, c), Sending(m))
  <1> DEFINE s == Sending(m)
  <1>1. s \in Seq(Nat) /\ Len(s) = m /\ \A j \in 1..m : s[j] \in Nat
    BY IsASeq DEF Sending
  <1>2. c \in Nat /\ c <= m
    BY MinOfTwo
  <1> HIDE DEF s
  <1>3. /\ SubSeq(s, 1, c) \in Seq(Nat) /\ Len(SubSeq(s, 1, c)) = c
    <2>1. \A j \in 1..c : s[j] \in Nat
      BY <1>1, <1>2
    <2>2. SubSeq(s, 1, c) \in Seq(Nat)
      BY <1>2, <2>1, SubSeqProperties
    <2>3. Len(SubSeq(s, 1, c)) = IF 1 <= c THEN c - 1 + 1 ELSE 0
      BY <1>2, <2>1, SubSeqProperties
    <2> QED BY <1>2, <2>2, <2>3
  <1>4. SubSeq(SubSeq(s, 1, c), 1, c) = SubSeq(s, 1, c)
    BY <1>3, SubSeqFull
  <1>5. IsPrefix(SubSeq(s, 1, c), s)
    BY <1>1, <1>2, <1>3, <1>4 DEF IsPrefix
  <1> QED BY <1>5 DEF s

\* MsgRead copies as many bytes as it says.
LEMMA FromOffset ==
    ASSUME NEW m \in Nat, NEW o \in Nat, NEW c \in Nat, o + c <= m
    PROVE  Len(SubSeq(Sending(m), o + 1, o + c)) = c
  <1> DEFINE s == Sending(m)
  <1>1. \A j \in 1..m : s[j] \in Nat
    BY DEF Sending
  <1> HIDE DEF s
  <1>2. \A j \in (o + 1)..(o + c) : s[j] \in Nat
    BY <1>1
  <1>3. Len(SubSeq(s, o + 1, o + c)) = IF o + 1 <= o + c THEN o + c - (o + 1) + 1 ELSE 0
    BY <1>2, SubSeqProperties
  <1>4. Len(SubSeq(s, o + 1, o + c)) = c
    BY <1>3
  <1> QED BY <1>4 DEF s

\* Nothing has been received or read at the start.
LEMMA InitSeen == Init => SeenInv
  BY NothingRead DEF Init, SeenInv, CopiesOf, Built

\* The steps that neither build, move nor copy the message.
LEMMA SeenKeeps ==
    ASSUME SeenInv, UNCHANGED <<siov, rbuf, back>>, pc' = "idle" => pc = "idle",
           ~uninit' => ~uninit,
           Built' /\ ~uninit' => Built /\ in' = in,
           place' = "pending" => place = "pending"
    PROVE  SeenInv'
  <1>1. Message' = Message
    BY DEF Message, IovLength, End
  <1> QED BY <1>1 DEF SeenInv, CopiesOf

\* The copy is complete.
LEMMA GatheredSeen == ASSUME ControlInv, GatherInv, SeenInv, Gathered PROVE SeenInv'
  <1>1. /\ pc = "gather" /\ left = 0 /\ pc' \in {"send", "lookup"}
        /\ UNCHANGED <<kind, siov, in, uninit, place, rbuf, back>>
    BY DEF Gathered, Goto, callVars, serverVars
  <1>2. in = Message
    <2>1. /\ part \in 1..(Len(siov) + 1) /\ left = IovLength(siov) - Start(siov, part)
          /\ in = Sending(Start(siov, part)) /\ siov \in Iovec
      BY <1>1 DEF GatherInv, Gathering
    <2>2. Start(siov, part) = IovLength(siov)
      BY <1>1, <2>1, Parts
    <2> QED BY <2>1, <2>2 DEF Message
  <1>3. Message' = Message
    BY <1>1 DEF Message, IovLength, End
  <1> QED BY <1>1, <1>2, <1>3 DEF SeenInv, CopiesOf

\* MsgReceive.
LEMMA ReceiveSeen == ASSUME GatherInv, SeenInv, NEW n \in Nat, Receive(n) PROVE SeenInv'
  <1>1. /\ place = "waiting" /\ UNCHANGED <<pc, kind, siov, in, uninit, back>>
        /\ rbuf'.data = SubSeq(in, 1, Min({Len(in), n})) /\ rbuf'.msglen = Len(in)
    BY DEF Receive, callVars
  <1>2. Message' = Message
    BY <1>1 DEF Message, IovLength, End
  <1>3. ASSUME ~uninit PROVE in = Message /\ IsPrefix(rbuf'.data, Message)
    <2>1. in = Message
      BY <1>1, <1>3 DEF SeenInv, Built
    <2>2. IovLength(siov) \in Nat
      BY Parts DEF GatherInv
    <2>3. Len(Message) = IovLength(siov)
      BY <2>2 DEF Message, Sending
    <2> QED BY <1>1, <2>1, <2>2, <2>3, Beginning DEF Message
  <1>4. ~uninit' => (Built' => in' = Message')
    BY <1>1, <1>2, <1>3
  <1>5. ~uninit' => CopiesOf(Message)'
    BY <1>1, <1>2, <1>3 DEF CopiesOf, SeenInv
  <1> QED BY <1>1, <1>4, <1>5 DEF SeenInv

\* MsgRead.
LEMMA MsgReadSeen ==
    ASSUME ControlInv, GatherInv, SeenInv, NEW o \in Nat, NEW n \in Nat, MsgRead(o, n)
    PROVE  SeenInv'
  <1> DEFINE c == Min({Len(in) - o, n})
  <1>1. /\ place = "pending" /\ o <= Len(in)
        /\ UNCHANGED <<pc, kind, siov, in, uninit, place, rbuf>>
        /\ back' = [offset |-> o, data |-> SubSeq(in, o + 1, o + c)]
    BY DEF MsgRead, callVars
  <1>2. Message' = Message
    BY <1>1 DEF Message, IovLength, End
  <1>3. ASSUME ~uninit PROVE in = Message /\ Len(SubSeq(in, o + 1, o + c)) = c
    <2>1. in = Message
      BY <1>1, <1>3 DEF SeenInv, Built
    <2>2. IovLength(siov) \in Nat
      BY Parts DEF GatherInv
    <2>3. Len(Message) = IovLength(siov)
      BY <2>2 DEF Message, Sending
    <2>4. o <= IovLength(siov) /\ c = Min({IovLength(siov) - o, n})
      BY <1>1, <2>1, <2>3
    <2> HIDE DEF c
    <2>5. c \in Nat /\ o + c <= IovLength(siov)
      BY <2>2, <2>4, MinOfTwo
    <2>6. Len(SubSeq(Sending(IovLength(siov)), o + 1, o + c)) = c
      BY <2>2, <2>5, FromOffset
    <2> QED BY <2>1, <2>6 DEF Message
  <1> HIDE DEF c
  <1>4. ~uninit' => CopiesOf(Message)'
    <2> SUFFICES ASSUME ~uninit' PROVE CopiesOf(Message)'
      OBVIOUS
    <2>1. back'.data = SubSeq(Message, back'.offset + 1, back'.offset + Len(back'.data))
      BY <1>1, <1>3
    <2> QED BY <1>1, <1>2, <2>1 DEF CopiesOf, SeenInv
  <1>5. pc = "blocked"
    BY <1>1 DEF ControlInv, Placed
  <1> QED BY <1>1, <1>2, <1>3, <1>4, <1>5 DEF SeenInv

\* A call begins before anything is read, and its end forgets what was.
LEMMA CallSeen ==
    ASSUME ControlInv, SeenInv,
           Return \/ \E k \in Kind, ins, outs \in Iovec : Call(k, ins, outs)
    PROVE  SeenInv'
  <1>1. CASE Return
    <2>1. /\ pc' = "idle" /\ place' = "none"
          /\ back' = [offset |-> 0, data |-> <<>>]
      BY <1>1 DEF Return, Goto
    <2>2. CopiesOf(Message)'
      BY <2>1, NothingRead DEF CopiesOf
    <2> QED BY <2>1, <2>2 DEF SeenInv, Built
  <1>2. ASSUME NEW k \in Kind, NEW ins, NEW outs, Call(k, ins, outs) PROVE SeenInv'
    <2>1. /\ pc = "idle" /\ pc' \in {"alloc_in", "init"} /\ UNCHANGED <<place, back>>
      BY <1>2 DEF Call, Goto, serverVars
    <2>2. place = "none"
      BY <2>1 DEF ControlInv, Placed
    <2>3. back' = [offset |-> 0, data |-> <<>>]
      BY <2>1 DEF SeenInv
    <2>4. CopiesOf(Message)'
      BY <2>1, <2>2, <2>3, NothingRead DEF CopiesOf
    <2> QED BY <2>1, <2>2, <2>4 DEF SeenInv, Built
  <1> QED BY <1>1, <1>2

\* Every step keeps what the server sees.
LEMMA NextSeen == ControlInv /\ GatherInv /\ SeenInv /\ [Next]_vars => SeenInv'
  <1> SUFFICES ASSUME ControlInv, GatherInv, SeenInv, [Next]_vars PROVE SeenInv'
    OBVIOUS
  <1>1. CASE \/ AllocIn \/ AllocOut \/ CopyIov \/ Lookup \/ InitMsg \/ AllocOutbuf
             \/ FromIovec \/ GatherFails
    <2>0. uninit' = uninit \/ uninit' = TRUE
      BY <1>1 DEF AllocIn, AllocOut, CopyIov, Lookup, InitMsg, AllocOutbuf, FromIovec,
                  GatherFails
    <2>1. /\ UNCHANGED <<siov, rbuf, back, place>> /\ pc' # "idle"
      BY <1>1 DEF AllocIn, AllocOut, CopyIov, Lookup, InitMsg, AllocOutbuf, FromIovec,
                  GatherFails, InitFails, Goto, Fail, callVars, serverVars, ControlInv,
                  Allocates, Kind
    <2>2. place = "none" /\ place' = "none"
      BY <1>1, <2>1 DEF AllocIn, AllocOut, CopyIov, Lookup, InitMsg, AllocOutbuf, FromIovec,
                  GatherFails, ControlInv, Placed
    <2>3. Built' /\ ~uninit' => Built /\ in' = in
      BY <1>1, <2>2 DEF Built, AllocIn, AllocOut, CopyIov, Lookup, InitMsg, AllocOutbuf,
                  FromIovec, GatherFails, InitFails, Goto, Fail, callVars, ControlInv,
                  Allocates, Progress, Kind, Vector
    <2> QED BY <2>0, <2>1, <2>2, <2>3, SeenKeeps
  <1>2. CASE \/ Send \/ Interrupted \/ Answered \/ ToIovec \/ CopiedBack
             \/ Destroy \/ CleanOut \/ CleanIn
    <2>1. /\ UNCHANGED <<siov, rbuf, back, in, uninit>>
          /\ pc' # "idle" /\ pc' \notin {"send", "lookup"}
          /\ place' # "none" => place # "none" \/ pc = "send"
          /\ place' = "pending" => place = "pending"
      BY <1>2 DEF Send, Interrupted, Answered, ToIovec, CopiedBack, Destroy, CleanOut, CleanIn,
                  Goto, Fail, callVars, serverVars, ControlInv, Allocates, Kind, Blocking
    <2> QED BY <2>1, SeenKeeps DEF Built
  <1>3. ASSUME NEW n, MsgReply(n) \/ MsgError \/ ReceiveFails \/ UNCHANGED vars
        PROVE  SeenInv'
    <2>1. /\ UNCHANGED <<pc, kind, siov, rbuf, back, in, uninit>>
          /\ place' # "none" => place # "none"
          /\ place' = "pending" => place = "pending"
      BY <1>3 DEF MsgReply, MsgError, ReceiveFails, vars, callVars, serverVars
    <2> QED BY <2>1, SeenKeeps DEF Built
  <1>4. 0..MaxBuffer \subseteq Nat
    BY MsgDataAssumption
  <1> QED BY <1>1, <1>2, <1>3, <1>4, GatheredSeen, ReceiveSeen, MsgReadSeen, CallSeen
          DEF Next, Handler

-------------------------------------------------------------------------------
(* The data of a call.                                                     *)

DataInv == ControlInv /\ GatherInv /\ ScatterInv /\ SeenInv

\* The parts, the buffers and the copies start empty.
LEMMA InitDataInv == Init => DataInv
  BY InitBufferInv, InitGather, InitScatter, InitSeen DEF DataInv, BufferInv

\* Every step keeps the data where it belongs.
LEMMA NextDataInv == DataInv /\ [Next]_vars => DataInv'
  BY NextControl, NextGather, NextScatter, NextSeen DEF DataInv

\* What is left of a copy fits into the parts that are left.
LEMMA DataWithinParts == DataInv => CopyWithinParts
  <1> SUFFICES ASSUME DataInv PROVE CopyWithinParts
    OBVIOUS
  <1>1. GatherInv /\ ScatterInv
    BY DEF DataInv
  <1>2. ASSUME pc = "gather" PROVE left <= IovLength(siov) - Start(siov, part)
    <2>1. left = IovLength(siov) - Start(siov, part) /\ part \in 1..(Len(siov) + 1)
      BY <1>1, <1>2 DEF GatherInv, Gathering
    <2>2. IovLength(siov) \in Nat /\ Start(siov, part) \in Nat
      BY <1>1, <2>1, Parts DEF GatherInv
    <2> QED BY <2>1, <2>2
  <1>3. ASSUME pc = "copy_back" PROVE left <= IovLength(riov) - Start(riov, part)
    <2>1. left = Fits - Moved /\ part \in 1..(Len(riov) + 1)
      BY <1>1, <1>3 DEF ScatterInv
    <2>2. Start(riov, part) \in Nat /\ Start(riov, part) <= IovLength(riov)
      BY <1>1, <2>1, Parts DEF GatherInv
    <2>3. Moved = IF Fits <= Start(riov, part) THEN Fits ELSE Start(riov, part)
      BY <1>1, <2>2, FitsMoved DEF Moved
    <2> QED BY <1>1, <2>1, <2>2, <2>3, FitsMoved
  <1> QED BY <1>2, <1>3 DEF CopyWithinParts

\* On the way out the buffers hold what fits of a successful answer.
LEMMA DataScattered == DataInv => AnswerScattered
  <1> SUFFICES ASSUME DataInv, pc \in {"out_clean_out", "out_clean_in", "out"},
                      kind \in Blocking, rc # "EFAULT"
               PROVE  LET n == IF rc = "OK" THEN Min({Len(obuf), Len(reply)}) ELSE 0
                      IN  obuf = [j \in 1..IovLength(riov) |-> IF j <= n THEN reply[j] ELSE 0]
    BY DEF AnswerScattered
  <1>1. /\ rc = "OK" => Filled(Fits)
        /\ rc # "OK" => Filled(0)
    BY FilledNone DEF DataInv, ScatterInv, Ending
  <1>2. IovLength(riov) \in Nat
    BY Parts DEF DataInv, GatherInv
  <1>3. rc = "OK" => Len(obuf) = IovLength(riov)
    BY <1>1, <1>2 DEF Filled
  <1>4. CASE rc = "OK"
    BY <1>1, <1>3, <1>4 DEF Filled, Fits
  <1>5. CASE rc # "OK"
    BY <1>1, <1>5 DEF Filled
  <1> QED BY <1>4, <1>5

\* What the server sees is the message.
LEMMA DataSeen == DataInv => ServerSeesMessage
  BY DEF DataInv, SeenInv, CopiesOf, Built, ServerSeesMessage

\* A server that receives a message of any number of parts, empty ones included, and
\* reads it at any offset with buffers of any size gets the bytes of the parts in order,
\* for all four calls, up to the uninitialised result of qnx_internal_msgsend_init_noreplyv.
THEOREM MsgDataServerSeesMessage == Spec => []ServerSeesMessage
  BY InitDataInv, NextDataInv, DataSeen, PTL DEF Spec

\* An answer of any size is scattered over the sender's parts in order, cut where they
\* end, and a call that fails otherwise than in that copy leaves them as they were.
THEOREM MsgDataAnswerScattered == Spec => []AnswerScattered
  BY InitDataInv, NextDataInv, DataScattered, PTL DEF Spec

\* Neither iovec copy runs past the last part.
THEOREM MsgDataCopyWithinParts == Spec => []CopyWithinParts
  BY InitDataInv, NextDataInv, DataWithinParts, PTL DEF Spec
===============================================================================
