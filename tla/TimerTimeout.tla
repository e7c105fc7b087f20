------------------------------ MODULE TimerTimeout ----------------------------
(***************************************************************************)
(* Timeouts: the thread-local sTimerTimeout of userspace/userspace.cpp,    *)
(* its conversion to milliseconds, the calls that use it up, and what the  *)
(* driver and the kernel's timers make of timeout_ms.  One thread, as the  *)
(* variable is its own.                                                    *)
(*                                                                         *)
(* Time is counted in nanoseconds; the kernel's timers count jiffies.  The *)
(* units and the largest values of the types are scaled down.              *)
(***************************************************************************)
EXTENDS Integers

CONSTANTS
    NsPerMs,          \* 1000000
    MsPerJiffy,       \* 1000 / HZ
    IntMax,           \* std::numeric_limits<int>::max()
    MaxJiffyOffset,   \* MAX_JIFFY_OFFSET, a long: half of LONG_MAX
    U64Max            \* UINT64_MAX: no timeout

ASSUME TimerAssumption ==
    /\ NsPerMs \in Nat \ {0, 1} /\ MsPerJiffy \in Nat \ {0}
    /\ IntMax \in Nat \ {0} /\ MaxJiffyOffset \in Nat /\ U64Max \in Nat
    /\ U64Max \div NsPerMs > IntMax

VARIABLES
    ntime,     \* sTimerTimeout.ntime
    otime,     \* sTimerTimeout.otime is set
    connected, \* fd >= 0
    call,      \* the call the thread is in, or "none"
    place,     \* where in it: "user", asleep ("wait"), or on the way out ("leaving")
    rc,        \* how the sleep ended
    limit,     \* the sleep's limit in jiffies
    phase,     \* nanoseconds from the last tick to the begin of the sleep
    elapsed,   \* nanoseconds the thread has slept
    asked,     \* history: the timeout set and not yet used up, in nanoseconds
    fresh      \* history: no call was made since that was set

callVars == <<call, place, rc, limit, phase, elapsed>>
vars == <<ntime, otime, connected, callVars, asked, fresh>>

Forever == -1
Timed == {"MsgSend", "MsgReceive", "MsgSendNoReply"}
NsPerJiffy == MsPerJiffy * NsPerMs

TypeOK ==
    /\ ntime \in 0..U64Max
    /\ otime \in BOOLEAN
    /\ connected \in BOOLEAN
    /\ call \in Timed \cup {"none"}
    /\ place \in {"user", "wait", "leaving"}
    /\ rc \in {"none", "ok", "ETIMEDOUT", "ERESTARTSYS"}
    /\ limit \in Nat \cup {Forever}
    /\ phase \in 0..NsPerJiffy - 1
    /\ elapsed \in Nat
    /\ asked \in -1..U64Max
    /\ fresh \in BOOLEAN

Init ==
    /\ ntime = U64Max
    /\ otime = FALSE
    /\ connected \in BOOLEAN
    /\ call = "none" /\ place = "user" /\ rc = "none"
    /\ limit = Forever /\ phase = 0 /\ elapsed = 0
    /\ asked = -1
    /\ fresh = FALSE

-------------------------------------------------------------------------------

\* The timeout is set; a bad clock or a null pointer is EINVAL and changes nothing.
Set(t, o) ==
    /\ call = "none"
    /\ ntime' = t
    /\ otime' = o
    /\ asked' = IF t = U64Max THEN -1 ELSE t
    /\ fresh' = TRUE
    /\ UNCHANGED <<connected, callVars>>

SetRelative(t, o) == Set(t, o)

\* TIMER_ABSTIME, at time now: a time that has passed is 0.
SetAbsolute(t, now, o) == Set(IF now > t THEN 0 ELSE t - now, o)

\* The part of a millisecond is rounded up.
GetTimeoutMsUp ==
    LET ms == (ntime + NsPerMs - 1) \div NsPerMs IN IF ms > IntMax THEN -1 ELSE ms

\* get_timeout_ms
GetTimeoutMs == LET ms == ntime \div NsPerMs IN IF ms > IntMax THEN -1 ELSE ms

\* msecs_to_jiffies rounds up; a negative number means the largest wait there is.
MsecsToJiffies(ms) ==
    IF ms < 0 THEN MaxJiffyOffset ELSE (ms + MsPerJiffy - 1) \div MsPerJiffy

\* The sleep of the handler: MsgReceive waits for msecs_to_jiffies, MsgSend with a
\* positive timeout_ms in msleep_interruptible, which adds a jiffy for the one that
\* has begun; MsgSendNoReply ignores timeout_ms.
DriverLimit(c, ms) ==
    CASE c = "MsgReceive"         -> MsecsToJiffies(ms)
      [] c = "MsgSend" /\ ms > 0  -> MsecsToJiffies(ms) + 1
      [] OTHER                    -> Forever

\* The handler goes to sleep, somewhere between two ticks.
GoToSleep ==
    /\ place' = "wait" /\ rc' = "none" /\ elapsed' = 0
    /\ phase' \in 0..NsPerJiffy - 1

\* MsgSend(v), MsgReceive, MsgSendNoReply(v).
TimedCall(c) ==
    /\ connected
    /\ call = "none"
    /\ call' = c
    /\ limit' = DriverLimit(c, GetTimeoutMs)
    /\ GoToSleep
    /\ UNCHANGED <<ntime, otime, connected, asked, fresh>>

\* The other calls, and every call without a descriptor: no TimerStackSafe.
OtherCall ==
    /\ call = "none"
    /\ fresh' = FALSE
    /\ UNCHANGED <<ntime, otime, connected, callVars, asked>>

\* When the timer goes off: at the limit-th tick after the begin of the sleep.
Deadline == IF limit = 0 THEN 0 ELSE limit * NsPerJiffy - phase

Due == limit # Forever /\ elapsed = Deadline

\* Time passes in a sleep with a limit.
Tick ==
    /\ place = "wait" /\ limit # Forever /\ ~Due
    /\ elapsed' = elapsed + 1
    /\ UNCHANGED <<ntime, otime, connected, call, place, rc, limit, phase, asked, fresh>>

\* The sleep ends with rc = r.
EndSleep(r) ==
    /\ place = "wait"
    /\ place' = "leaving" /\ rc' = r
    /\ UNCHANGED <<ntime, otime, connected, call, limit, phase, elapsed, asked, fresh>>

Expire == Due /\ EndSleep("ETIMEDOUT")

\* The ticks left of the wait, at least 1, and the int handle_msgreceive puts them into.
JiffiesLeft ==
    LET left == limit - (elapsed + phase) \div NsPerJiffy IN IF left > 1 THEN left ELSE 1

ToInt(n) == ((n + IntMax + 1) % (2 * (IntMax + 1))) - (IntMax + 1)

\* A message, an answer or a free slot.  msleep_interruptible goes back to sleep then;
\* MsgReceive takes a negative number for a signal.
Woken ==
    \/ call = "MsgReceive" /\ EndSleep(IF ToInt(JiffiesLeft) < 0 THEN "ERESTARTSYS" ELSE "ok")
    \/ call \in {"MsgSend", "MsgSendNoReply"} /\ limit = Forever /\ EndSleep("ok")

Interrupted == EndSleep("ERESTARTSYS")

\* The kernel runs an interrupted call again, with the same timeout_ms.
Restart ==
    /\ place = "leaving" /\ rc = "ERESTARTSYS"
    /\ GoToSleep
    /\ UNCHANGED <<ntime, otime, connected, call, limit, asked, fresh>>

\* sTimerTimeout keeps its value.
FinishKeeps ==
    /\ otime' = FALSE
    /\ asked' = -1
    /\ fresh' = FALSE
    /\ UNCHANGED ntime

\* ~TimerStackSafe runs finish().
Finish ==
    /\ ntime' = U64Max
    /\ otime' = FALSE
    /\ asked' = -1
    /\ fresh' = FALSE

\* The rest of the handler (of MsgSend: the message is taken back, which MsgPassing
\* has in detail) and of the library's call, with whatever result.
Return ==
    /\ place = "leaving"
    /\ call' = "none" /\ place' = "user" /\ rc' = "none"
    /\ limit' = Forever /\ phase' = 0 /\ elapsed' = 0
    /\ Finish
    /\ UNCHANGED connected

\* A reconnect fails or succeeds.
Reconnect ==
    /\ call = "none"
    /\ connected' = ~connected
    /\ UNCHANGED <<ntime, otime, callVars, asked, fresh>>

Next ==
    \/ \E t \in 0..U64Max, o \in BOOLEAN :
          SetRelative(t, o) \/ \E now \in 0..U64Max : SetAbsolute(t, now, o)
    \/ \E c \in Timed : TimedCall(c)
    \/ OtherCall \/ Tick \/ Expire \/ Woken \/ Interrupted \/ Restart \/ Return \/ Reconnect

Spec == Init /\ [][Next]_vars

-------------------------------------------------------------------------------
(* Properties.                                                             *)

\* A timeout is used up by the first call that looks at it, whether it expires or
\* not: a call without a TimerTimeout of its own never has another limit than the
\* longest wait there is (MsgReceive; the other calls have none at all).
NoStrayTimeout ==
    call # "none" /\ asked = -1 =>
        limit = IF call = "MsgReceive" THEN MaxJiffyOffset ELSE Forever

\* A timeout the conversion can express: a millisecond or more (for MsgReceive less
\* as well), and not beyond the largest int.
Expressible(c, t) ==
    /\ t # -1 /\ t \div NsPerMs <= IntMax
    /\ c = "MsgReceive" \/ (c = "MsgSend" /\ t >= NsPerMs)

\* Through the two conversions, to milliseconds (cut off) and to jiffies (rounded up),
\* and wherever between two ticks a sleep begins, its timer goes off in time.  Not
\* late: a MsgReceive exceeds the time asked for by less than a jiffy, and not at all
\* with HZ = 1000; a MsgSend by less than two.  Not early: a MsgSend falls short of
\* it by less than a millisecond, a MsgReceive by less than a millisecond and a jiffy.
WaitAsAsked ==
    place = "wait" /\ Expressible(call, asked) =>
        /\ limit # Forever /\ elapsed <= Deadline
        /\ Deadline <= asked + (MsPerJiffy - 1) * NsPerMs
                          + (IF call = "MsgSend" THEN NsPerJiffy ELSE 0)
        /\ asked < Deadline + NsPerMs + (IF call = "MsgReceive" THEN NsPerJiffy ELSE 0)

\* A MsgSend for which a timeout has been set has a limit.
SendHasLimit == call = "MsgSend" /\ asked # -1 => limit # Forever

\* A timeout is for the next call.
NextCallOnly == call # "none" /\ asked # -1 => fresh

\* A MsgReceive that finds a message does not leave as if a signal had come.
MessageIsNoSignal == [][Woken => rc' = "ok"]_vars
===============================================================================
