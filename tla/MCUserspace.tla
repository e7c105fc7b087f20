------------------------------ MODULE MCUserspace -----------------------------
(* Small instances of Userspace for TLC. *)
EXTENDS Userspace, TLC

CONSTANTS p1, p2, p3, f1, f2, f3, f4, e1, e2, e3, ch1, ch2, t1, t2, t3, t4

\* One thread in each process, or two in the second.
OneThreadEach == (t1 :> p1) @@ (t2 :> p2)
TwoThreadsInOne == OneThreadEach @@ (t3 :> p2)
ThreeProcesses == OneThreadEach @@ (t4 :> p3)
Grandchild == TwoThreadsInOne @@ (t4 :> p3)

\* All that a step depends on: not the results of the calls, not a descriptor that is
\* going to be read again, not the library's variables of a dead process.
InUse ==
    LET OfLiving(v, x) == [p \in Pids |-> IF p \in alive THEN v[p] ELSE x]
        Reads(th) == pc[th] \in {"ioctl", "poll_register", "poll_close"}
    IN  <<regVars, alive, used, fdtab, OfLiving(fd, NoFd), OfLiving(mtx, NULL), made, forks, starts,
          pc, cmd, [th \in Threads |-> IF Reads(th) THEN num[th] ELSE NoFd], tries>>

Symmetry == Permutations(Files) \cup Permutations(Entries) \cup Permutations(Chans)
===============================================================================
