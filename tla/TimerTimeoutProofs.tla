-------------------------- MODULE TimerTimeoutProofs --------------------------
(***************************************************************************)
(* Proofs about timeouts: for a millisecond, a jiffy, an int and a         *)
(* uint64_t of any size, the real ones included.                           *)
(***************************************************************************)
EXTENDS TimerTimeout, TLAPS

\* Division with remainder.
LEMMA DivBounds ==
    ASSUME NEW n \in Nat, NEW d \in Nat, d > 0
    PROVE  /\ n \div d \in Nat
           /\ (n \div d) * d <= n
           /\ n < (n \div d + 1) * d
  OBVIOUS

\* Products keep the order.
LEMMA TimesKeepsOrder ==
    ASSUME NEW a \in Int, NEW b \in Int, NEW d \in Nat, a <= b
    PROVE  a * d <= b * d
  OBVIOUS

\* Products of numbers are numbers; one with a positive number is at least as large as
\* the other factor.
LEMMA TimesNat ==
    ASSUME NEW a \in Nat, NEW d \in Nat
    PROVE  a * d \in Nat /\ (a > 0 => a * d >= d) /\ (a + 1) * d = a * d + d
  OBVIOUS

\* The whole milliseconds of a timeout.
LEMMA Milliseconds ==
    ASSUME NEW t \in 0..U64Max
    PROVE  /\ t \div NsPerMs \in Nat
           /\ (t \div NsPerMs) * NsPerMs <= t
           /\ t < (t \div NsPerMs + 1) * NsPerMs
  <1>1. t \in Nat /\ NsPerMs \in Nat /\ NsPerMs > 0
    BY TimerAssumption
  <1> QED BY <1>1, DivBounds

\* get_timeout_ms returns an int.
LEMMA TimeoutIsInt == ntime \in 0..U64Max => GetTimeoutMs \in -1..IntMax
  <1> SUFFICES ASSUME ntime \in 0..U64Max PROVE GetTimeoutMs \in -1..IntMax
    OBVIOUS
  <1> DEFINE ms == ntime \div NsPerMs
  <1>1. ms \in Nat
    BY Milliseconds
  <1>2. GetTimeoutMs = IF ms > IntMax THEN -1 ELSE ms
    BY DEF GetTimeoutMs
  <1> HIDE DEF ms
  <1> QED BY <1>1, <1>2, TimerAssumption

\* msecs_to_jiffies rounds up, by less than a jiffy.
LEMMA JiffiesRoundUp ==
    ASSUME NEW ms \in Nat
    PROVE  /\ MsecsToJiffies(ms) \in Nat
           /\ ms * NsPerMs <= MsecsToJiffies(ms) * NsPerJiffy
           /\ MsecsToJiffies(ms) * NsPerJiffy <= ms * NsPerMs + (MsPerJiffy - 1) * NsPerMs
  <1> DEFINE j == MsecsToJiffies(ms)
             n == ms + MsPerJiffy - 1
  <1>1. NsPerMs \in Nat /\ MsPerJiffy \in Nat /\ MsPerJiffy > 0 /\ n \in Nat
    BY TimerAssumption
  <1>2. j = n \div MsPerJiffy
    BY DEF MsecsToJiffies
  <1>3. j \in Nat /\ j * MsPerJiffy <= n /\ n < (j + 1) * MsPerJiffy
    BY <1>1, <1>2, DivBounds
  <1>4. (j + 1) * MsPerJiffy = j * MsPerJiffy + MsPerJiffy /\ j * MsPerJiffy \in Nat
    <2> HIDE DEF j
    <2> QED BY <1>1, <1>3, TimesNat
  <1> DEFINE p == j * MsPerJiffy
  <1>5. p \in Nat /\ ms <= p /\ p <= ms + (MsPerJiffy - 1)
    <2>1. p \in Nat /\ p <= n /\ n < p + MsPerJiffy
      BY <1>3, <1>4
    <2> HIDE DEF p
    <2> QED BY <1>1, <2>1
  <1>6. p * NsPerMs = j * NsPerJiffy
    <2> HIDE DEF j
    <2> QED BY <1>1, <1>3 DEF NsPerJiffy
  <1> HIDE DEF p, j
  <1>7. ms * NsPerMs <= p * NsPerMs
    BY <1>1, <1>5, TimesKeepsOrder
  <1>8. p * NsPerMs <= (ms + (MsPerJiffy - 1)) * NsPerMs
    BY <1>1, <1>5, TimesKeepsOrder
  <1>9. (ms + (MsPerJiffy - 1)) * NsPerMs = ms * NsPerMs + (MsPerJiffy - 1) * NsPerMs
    BY <1>1
  <1>10. j \in Nat /\ ms * NsPerMs <= j * NsPerJiffy
                   /\ j * NsPerJiffy <= ms * NsPerMs + (MsPerJiffy - 1) * NsPerMs
    BY <1>3, <1>6, <1>7, <1>8, <1>9
  <1> QED BY <1>10 DEF j

\* A jiffy lasts.
LEMMA JiffyPositive == NsPerJiffy \in Nat /\ NsPerJiffy > 0
  BY TimerAssumption, TimesNat DEF NsPerJiffy

\* The driver's limit for a call is a number of jiffies or Forever.
LEMMA LimitType ==
    ASSUME NEW c, NEW ms \in -1..IntMax
    PROVE  DriverLimit(c, ms) \in Nat \cup {Forever}
  <1>1. MsecsToJiffies(ms) \in Nat
    <2>1. CASE ms \in Nat
      BY <2>1, JiffiesRoundUp
    <2>2. CASE ms < 0
      BY <2>2, TimerAssumption DEF MsecsToJiffies
    <2> QED BY <2>1, <2>2, TimerAssumption
  <1>2. DriverLimit(c, ms) \in {MsecsToJiffies(ms), MsecsToJiffies(ms) + 1, Forever}
    BY DEF DriverLimit
  <1> HIDE DEF DriverLimit
  <1> QED BY <1>1, <1>2

\* A sleep does not end before it began.
LEMMA DeadlineNat ==
    ASSUME NEW l \in Nat, NEW f \in 0..NsPerJiffy - 1
    PROVE  (IF l = 0 THEN 0 ELSE l * NsPerJiffy - f) \in Nat
  <1>1. l * NsPerJiffy \in Nat /\ (l > 0 => l * NsPerJiffy >= NsPerJiffy)
    BY JiffyPositive, TimesNat
  <1> DEFINE p == l * NsPerJiffy
  <1> HIDE DEF p
  <1>2. p \in Nat /\ (l > 0 => p >= NsPerJiffy)
    BY <1>1 DEF p
  <1>3. (IF l = 0 THEN 0 ELSE p - f) \in Nat
    BY <1>2, JiffyPositive
  <1> QED BY <1>3 DEF p

-------------------------------------------------------------------------------
(* Between TimerTimeout and the end of the call that uses it, ntime is the *)
(* time asked for, and the driver's limit is computed from it; a sleep     *)
(* does not go on after its timer.                                         *)

LimitFromAsked ==
    /\ asked = -1 => ntime = U64Max
    /\ asked # -1 => ntime = asked
    /\ limit = IF call = "none" THEN Forever ELSE DriverLimit(call, GetTimeoutMs)

SleepBounded ==
    /\ place = "user" <=> call = "none"
    /\ place = "wait" /\ limit # Forever => elapsed <= Deadline

TimerInv == TypeOK /\ LimitFromAsked /\ SleepBounded

\* The values of the variables when no timeout is set have their types.
LEMMA NoTimeoutTypes ==
    /\ U64Max \in 0..U64Max /\ -1 \in -1..U64Max
    /\ 0 \in Nat /\ 0 \in 0..NsPerJiffy - 1 /\ FALSE \in BOOLEAN
  BY TimerAssumption, JiffyPositive

\* A thread starts without a timeout.
LEMMA InitTimerInv == Init => TimerInv
  <1> SUFFICES ASSUME Init PROVE TimerInv
    OBVIOUS
  <1>1. TypeOK
    BY NoTimeoutTypes, Zenon DEF Init, TypeOK
  <1>2. LimitFromAsked /\ SleepBounded
    BY DEF Init, LimitFromAsked, SleepBounded
  <1> QED BY <1>1, <1>2 DEF TimerInv

\* When the handler goes to sleep with a limit, the timer has not gone off.
LEMMA SleepStarts ==
    ASSUME GoToSleep, limit' \in Nat \cup {Forever}, call' # "none"
    PROVE  SleepBounded'
  <1>1. place' = "wait" /\ elapsed' = 0 /\ phase' \in 0..NsPerJiffy - 1
    BY DEF GoToSleep
  <1>2. limit' # Forever => Deadline' \in Nat
    <2> SUFFICES ASSUME limit' \in Nat PROVE Deadline' \in Nat
      OBVIOUS
    <2> QED BY <1>1, DeadlineNat DEF Deadline
  <1>3. limit' # Forever => 0 <= Deadline'
    BY <1>2
  <1> QED BY <1>1, <1>3 DEF SleepBounded

\* Every step keeps the invariant.
LEMMA NextTimerInv == TimerInv /\ [Next]_vars => TimerInv'
  <1> SUFFICES ASSUME TimerInv, [Next]_vars PROVE TimerInv'
    OBVIOUS
  <1>0. TypeOK /\ LimitFromAsked /\ SleepBounded
    BY DEF TimerInv
  <1>1. ASSUME UNCHANGED <<ntime, call, limit, asked>> PROVE LimitFromAsked'
    BY <1>0, <1>1 DEF LimitFromAsked, GetTimeoutMs
  <1>2. ASSUME UNCHANGED callVars PROVE SleepBounded'
    BY <1>0, <1>2 DEF SleepBounded, callVars, Deadline
  <1>3. ASSUME NEW t \in 0..U64Max, NEW o \in BOOLEAN, Set(t, o) PROVE TimerInv'
    <2>1. TypeOK'
      BY <1>0, <1>3, TimerAssumption DEF Set, TypeOK, callVars
    <2>2. call = "none" /\ limit = Forever
      BY <1>0, <1>3 DEF Set, LimitFromAsked
    <2>3. LimitFromAsked'
      BY <1>3, <2>2, TimerAssumption DEF Set, LimitFromAsked, callVars
    <2> QED BY <1>2, <1>3, <2>1, <2>3 DEF Set, TimerInv
  <1>4. ASSUME NEW t \in 0..U64Max, NEW now \in 0..U64Max, NEW o \in BOOLEAN,
               SetAbsolute(t, now, o)
        PROVE TimerInv'
    <2>1. (IF now > t THEN 0 ELSE t - now) \in 0..U64Max
      BY TimerAssumption
    <2> QED BY <1>3, <1>4, <2>1 DEF SetAbsolute
  <1>5. ASSUME NEW c \in Timed, TimedCall(c) PROVE TimerInv'
    <2>1. c # "none"
      BY DEF Timed
    <2>2. GetTimeoutMs' = GetTimeoutMs
      BY <1>5 DEF TimedCall, GetTimeoutMs
    <2>3. DriverLimit(c, GetTimeoutMs) \in Nat \cup {Forever}
      BY <1>0, TimeoutIsInt, LimitType DEF TypeOK
    <2>4. TypeOK'
      BY <1>0, <1>5, <2>3 DEF TimedCall, TypeOK, GoToSleep
    <2>5. limit' = DriverLimit(call', GetTimeoutMs')
      BY <1>5, <2>2 DEF TimedCall
    <2>6. call' # "none" /\ UNCHANGED <<asked, ntime>>
      BY <1>5, <2>1 DEF TimedCall
    <2>7. LimitFromAsked'
      BY <1>0, <2>5, <2>6 DEF LimitFromAsked
    <2>8. SleepBounded'
      BY <1>5, <2>3, <2>6, SleepStarts DEF TimedCall
    <2> QED BY <2>4, <2>7, <2>8 DEF TimerInv
  <1>6. CASE OtherCall \/ Reconnect
    <2>1. UNCHANGED <<ntime, asked, callVars>>
      BY <1>6 DEF OtherCall, Reconnect
    <2>2. TypeOK'
      BY <1>0, <1>6 DEF OtherCall, Reconnect, TypeOK, callVars
    <2> QED BY <1>1, <1>2, <2>1, <2>2 DEF TimerInv, callVars
  <1>7. CASE Tick
    <2>1. place = "wait" /\ limit # Forever /\ elapsed # Deadline
      BY <1>7 DEF Tick, Due
    <2>2. UNCHANGED <<ntime, call, place, limit, phase, asked>> /\ elapsed' = elapsed + 1
      BY <1>7 DEF Tick
    <2>3. Deadline \in Nat /\ Deadline' = Deadline
      <3>1. limit \in Nat /\ phase \in 0..NsPerJiffy - 1
        BY <1>0, <2>1 DEF TypeOK
      <3> QED BY <2>2, <3>1, DeadlineNat DEF Deadline
    <2>4. elapsed \in Nat /\ elapsed <= Deadline
      BY <1>0, <2>1 DEF SleepBounded, TypeOK
    <2>5. elapsed' <= Deadline'
      <3> HIDE DEF Deadline
      <3> QED BY <2>1, <2>2, <2>3, <2>4
    <2>6. SleepBounded'
      BY <1>0, <2>2, <2>5 DEF SleepBounded
    <2>7. TypeOK'
      BY <1>0, <1>7 DEF Tick, TypeOK
    <2> QED BY <1>1, <2>2, <2>6, <2>7 DEF TimerInv
  <1>8. ASSUME NEW r \in {"ok", "ETIMEDOUT", "ERESTARTSYS"}, EndSleep(r) PROVE TimerInv'
    <2>1. TypeOK'
      BY <1>0, <1>8 DEF EndSleep, TypeOK
    <2>2. SleepBounded'
      BY <1>0, <1>8 DEF EndSleep, SleepBounded
    <2> QED BY <1>1, <1>8, <2>1, <2>2 DEF EndSleep, TimerInv
  <1>9. CASE Expire \/ Woken \/ Interrupted
    BY <1>8, <1>9 DEF Expire, Woken, Interrupted
  <1>10. CASE Restart
    <2>1. place = "leaving" /\ UNCHANGED <<ntime, call, limit, asked>>
      BY <1>10 DEF Restart
    <2>2. call' # "none" /\ limit' \in Nat \cup {Forever}
      BY <1>0, <2>1 DEF SleepBounded, TypeOK
    <2>3. TypeOK'
      BY <1>0, <1>10 DEF Restart, GoToSleep, TypeOK
    <2>4. SleepBounded'
      BY <1>10, <2>2, SleepStarts DEF Restart
    <2> QED BY <1>1, <2>1, <2>3, <2>4 DEF TimerInv
  <1>11. CASE Return
    <2>1. TypeOK'
      BY <1>0, <1>11, NoTimeoutTypes, Zenon DEF Return, Finish, TypeOK
    <2>2. LimitFromAsked' /\ SleepBounded'
      BY <1>11 DEF Return, Finish, LimitFromAsked, SleepBounded
    <2> QED BY <2>1, <2>2 DEF TimerInv
  <1>12. CASE UNCHANGED vars
    <2>1. TypeOK'
      BY <1>0, <1>12 DEF vars, callVars, TypeOK
    <2> QED BY <1>1, <1>2, <1>12, <2>1 DEF vars, callVars, TimerInv
  <1>13. CASE Next
    BY <1>3, <1>4, <1>5, <1>6, <1>7, <1>9, <1>10, <1>11, <1>13 DEF Next, SetRelative
  <1> QED BY <1>12, <1>13

\* The invariant holds throughout.
THEOREM TimerInvariant == Spec => []TimerInv
  BY InitTimerInv, NextTimerInv, PTL DEF Spec

-------------------------------------------------------------------------------

\* No call without a TimerTimeout of its own has a limit (timeout_val::finish,
\* get_timeout_ms) other than MAX_JIFFY_OFFSET.
THEOREM TimerNoStrayTimeout == Spec => []NoStrayTimeout
  <1>1. TimerInv => NoStrayTimeout
    <2> SUFFICES ASSUME TimerInv, call # "none", asked = -1
                 PROVE  limit = IF call = "MsgReceive" THEN MaxJiffyOffset ELSE Forever
      BY DEF NoStrayTimeout
    <2>1. ntime = U64Max /\ limit = DriverLimit(call, GetTimeoutMs)
      BY DEF TimerInv, LimitFromAsked
    <2>2. GetTimeoutMs = -1
      BY <2>1, TimerAssumption DEF GetTimeoutMs
    <2>3. call \in Timed
      BY DEF TimerInv, TypeOK
    <2> QED BY <2>1, <2>2, <2>3 DEF DriverLimit, MsecsToJiffies, Timed
  <1> QED BY <1>1, TimerInvariant, PTL

\* How a limit of ms milliseconds, that is of j jiffies (p = j * NsPerJiffy
\* nanoseconds), relates to the t nanoseconds it was computed from.
LEMMA ReceiveDeadline ==
    ASSUME NEW t \in Nat, NEW ms \in Nat, NEW f \in 0..NsPerJiffy - 1,
           ms * NsPerMs <= t, t < (ms + 1) * NsPerMs,
           NEW d, d = IF MsecsToJiffies(ms) = 0 THEN 0
                                                ELSE MsecsToJiffies(ms) * NsPerJiffy - f
    PROVE  d <= t + (MsPerJiffy - 1) * NsPerMs /\ t < d + NsPerMs + NsPerJiffy
  <1> DEFINE j == MsecsToJiffies(ms)
             p == j * NsPerJiffy
             q == ms * NsPerMs
             r == (MsPerJiffy - 1) * NsPerMs
  <1>1. j \in Nat /\ q <= p /\ p <= q + r
    BY JiffiesRoundUp
  <1>2. NsPerMs \in Nat /\ MsPerJiffy - 1 \in Nat
    BY TimerAssumption
  <1>3. p \in Nat /\ q \in Nat /\ r \in Nat
    BY <1>1, <1>2, JiffyPositive, TimesNat
  <1>4. t < q + NsPerMs /\ q <= t
    BY <1>2
  <1>5. d = IF j = 0 THEN 0 ELSE p - f
    OBVIOUS
  <1>6. j = 0 => p = 0
    BY JiffyPositive
  <1> HIDE DEF j, p, q, r
  <1>7. d <= t + r /\ t < d + NsPerMs + NsPerJiffy
    <2>1. CASE j = 0
      BY <1>1, <1>2, <1>3, <1>4, <1>5, <1>6, <2>1, JiffyPositive
    <2>2. CASE j # 0
      BY <1>1, <1>2, <1>3, <1>4, <1>5, <2>2, JiffyPositive
    <2> QED BY <2>1, <2>2
  <1> QED BY <1>7 DEF r

\* The same for the sleep of MsgSend, with a jiffy more.
LEMMA SendDeadline ==
    ASSUME NEW t \in Nat, NEW ms \in Nat, NEW f \in 0..NsPerJiffy - 1,
           ms * NsPerMs <= t, t < (ms + 1) * NsPerMs,
           NEW d, d = (MsecsToJiffies(ms) + 1) * NsPerJiffy - f
    PROVE  d <= t + (MsPerJiffy - 1) * NsPerMs + NsPerJiffy /\ t < d + NsPerMs
  <1> DEFINE j == MsecsToJiffies(ms)
             p == j * NsPerJiffy
             q == ms * NsPerMs
             r == (MsPerJiffy - 1) * NsPerMs
  <1>1. j \in Nat /\ q <= p /\ p <= q + r
    BY JiffiesRoundUp
  <1>2. NsPerMs \in Nat /\ MsPerJiffy - 1 \in Nat
    BY TimerAssumption
  <1>3. p \in Nat /\ q \in Nat /\ r \in Nat
    BY <1>1, <1>2, JiffyPositive, TimesNat
  <1>4. t < q + NsPerMs /\ q <= t
    BY <1>2
  <1>5. (j + 1) * NsPerJiffy = p + NsPerJiffy
    BY <1>1, JiffyPositive, TimesNat
  <1> DEFINE e == (j + 1) * NsPerJiffy
  <1>6. d = e - f /\ e = p + NsPerJiffy
    BY <1>5
  <1> HIDE DEF e
  <1> HIDE DEF j, p, q, r
  <1>7. d <= t + r + NsPerJiffy /\ t < d + NsPerMs
    BY <1>1, <1>2, <1>3, <1>4, <1>6, JiffyPositive
  <1> QED BY <1>7 DEF r

\* The timer of a sleep goes off when the caller asked for, within the bounds that the
\* conversions to milliseconds and jiffies leave, whenever they can express the time.
THEOREM TimerWaitAsAsked == Spec => []WaitAsAsked
  <1>1. TimerInv => WaitAsAsked
    <2> SUFFICES ASSUME TimerInv, place = "wait", Expressible(call, asked)
                 PROVE  /\ limit # Forever /\ elapsed <= Deadline
                        /\ Deadline <= asked + (MsPerJiffy - 1) * NsPerMs
                                         + (IF call = "MsgSend" THEN NsPerJiffy ELSE 0)
                        /\ asked < Deadline + NsPerMs
                                     + (IF call = "MsgReceive" THEN NsPerJiffy ELSE 0)
      BY DEF WaitAsAsked
    <2> DEFINE ms == asked \div NsPerMs
    <2>1. ntime = asked /\ asked \in 0..U64Max
      BY DEF TimerInv, LimitFromAsked, TypeOK, Expressible
    <2>2. limit = DriverLimit(call, GetTimeoutMs)
      BY DEF TimerInv, LimitFromAsked, Expressible
    <2>3. ms \in Nat /\ ms * NsPerMs <= asked /\ asked < (ms + 1) * NsPerMs
      BY <2>1, Milliseconds
    <2>4. ms <= IntMax
      BY DEF Expressible
    <2>5. GetTimeoutMs = IF ms > IntMax THEN -1 ELSE ms
      BY <2>1 DEF GetTimeoutMs
    <2>6. call = "MsgSend" => asked >= NsPerMs
      BY DEF Expressible
    <2>7. call \in {"MsgSend", "MsgReceive"}
      BY DEF Expressible
    <2>8. asked \in Nat /\ phase \in 0..NsPerJiffy - 1
      BY <2>1, TimerAssumption DEF TimerInv, TypeOK
    <2> HIDE DEF ms
    <2>9. GetTimeoutMs = ms
      BY <2>3, <2>4, <2>5, TimerAssumption
    <2>10. call = "MsgSend" => ms > 0
      BY <2>1, <2>3, <2>6, TimerAssumption
    <2>11. MsecsToJiffies(ms) \in Nat
      BY <2>3, JiffiesRoundUp
    <2>12. CASE call = "MsgReceive"
      <3>1. limit = MsecsToJiffies(ms)
        BY <2>2, <2>9, <2>12 DEF DriverLimit
      <3>2. Deadline = IF MsecsToJiffies(ms) = 0 THEN 0
                                                 ELSE MsecsToJiffies(ms) * NsPerJiffy - phase
        BY <3>1 DEF Deadline
      <3>3. Deadline <= asked + (MsPerJiffy - 1) * NsPerMs
              /\ asked < Deadline + NsPerMs + NsPerJiffy
        BY <2>3, <2>8, <3>2, ReceiveDeadline
      <3>4. limit # Forever
        BY <2>11, <3>1 DEF Forever
      <3>5. elapsed <= Deadline
        BY <3>4 DEF TimerInv, SleepBounded
      <3>6. asked + (MsPerJiffy - 1) * NsPerMs + 0 = asked + (MsPerJiffy - 1) * NsPerMs
        BY <2>8, TimerAssumption
      <3> QED BY <2>12, <3>3, <3>4, <3>5, <3>6
    <2>13. CASE call = "MsgSend"
      <3>1. limit = MsecsToJiffies(ms) + 1
        BY <2>2, <2>9, <2>10, <2>13 DEF DriverLimit
      <3>2. Deadline = (MsecsToJiffies(ms) + 1) * NsPerJiffy - phase
        BY <2>11, <3>1 DEF Deadline
      <3>3. Deadline <= asked + (MsPerJiffy - 1) * NsPerMs + NsPerJiffy
              /\ asked < Deadline + NsPerMs
        BY <2>3, <2>8, <3>2, SendDeadline
      <3>4. limit # Forever
        BY <2>11, <3>1 DEF Forever
      <3>5. elapsed <= Deadline
        BY <3>4 DEF TimerInv, SleepBounded
      <3>6. Deadline + NsPerMs + 0 = Deadline + NsPerMs
        <4>1. (MsecsToJiffies(ms) + 1) * NsPerJiffy \in Nat
          BY <2>11, JiffyPositive, TimesNat
        <4> DEFINE p == (MsecsToJiffies(ms) + 1) * NsPerJiffy
        <4> HIDE DEF p
        <4>2. p \in Nat /\ Deadline = p - phase
          BY <3>2, <4>1 DEF p
        <4>3. Deadline \in Int
          BY <2>8, <4>2, JiffyPositive
        <4> HIDE DEF Deadline
        <4> QED BY <4>3, TimerAssumption
      <3> QED BY <2>13, <3>3, <3>4, <3>5, <3>6
    <2> QED BY <2>7, <2>12, <2>13
  <1> QED BY <1>1, TimerInvariant, PTL
===============================================================================
