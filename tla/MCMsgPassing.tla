----------------------------- MODULE MCMsgPassing -----------------------------
(* Small instances of MsgPassing for TLC. *)
EXTENDS MsgPassingRefinement

CONSTANTS c1, c2, s1, s2, h1, h2

\* Once a sender has left one of the race windows, server threads read and write
\* a dead stack frame; the safety runs look no further than that state.
UpToTheRace == ~raced
===============================================================================
