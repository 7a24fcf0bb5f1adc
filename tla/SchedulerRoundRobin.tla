------------------------ MODULE SchedulerRoundRobin ------------------------
(***************************************************************************)
(* Scheduler implements RoundRobin.  The line of waiting threads is the    *)
(* circular list read from the successor of the current thread, without    *)
(* the dead threads that stay in it.                                       *)
(***************************************************************************)
EXTENDS Scheduler

(* The list q read from the successor of its i-th element once around.     *)
ReadFrom(q, i) == SubSeq(q, i + 1, Len(q)) \o SubSeq(q, 1, i - 1)

(* The elements of q that are in S, in order.                              *)
OnlyUpTo(S, q) ==
  LET kept[n \in 0 .. Len(q)] ==
        IF n = 0 THEN <<>>
        ELSE IF q[n] \in S THEN Append(kept[n - 1], q[n]) ELSE kept[n - 1]
  IN  kept
Only(S, q) == OnlyUpTo(S, q)[Len(q)]

Alive == {t \in Threads : state[t] # "DEAD"}
WaitingLine ==
  Only(Alive, IF Started THEN ReadFrom(readyq, Pos(sched_current)) ELSE readyq)
Leaving == Started /\ sched_current \notin Alive

RR == INSTANCE RoundRobin WITH
        running <- sched_current, line <- WaitingLine, leaving <- Leaving

(* No interrupt, yield, exit or failed creation makes the order in which   *)
(* threads get the CPU differ from a plain rotating line.                  *)
ImplementsRoundRobin == RR!FairSpec
=============================================================================
