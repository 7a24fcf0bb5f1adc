----------------------------- MODULE RoundRobin -----------------------------
(***************************************************************************)
(* What the dispatcher promises: one thread runs, the others wait in line. *)
(* The thread at the head of the line is next, a thread that loses the CPU *)
(* goes to the end of the line, a thread that leaves does not come back,   *)
(* and the line keeps moving.  There is no queue with dead entries, no     *)
(* quantum, no interrupt and no frame here: Scheduler.tla implements this  *)
(* module with a circular list that is never pruned.                       *)
(***************************************************************************)
EXTENDS Naturals, Sequences

CONSTANTS
  Threads,
  NoThread  \* no member of Threads

VARIABLES running, line, leaving
vars == <<running, line, leaving>>

InLine == {line[i] : i \in 1 .. Len(line)}

Init ==
  /\ running = NoThread
  /\ line = <<>>
  /\ leaving = FALSE

(* Before the CPU is handed out for the first time.                        *)
Admit(t) ==
  /\ running = NoThread
  /\ t \notin InLine
  /\ line' = Append(line, t)
  /\ UNCHANGED <<running, leaving>>

Start(t) ==
  /\ running = NoThread
  /\ t \notin InLine
  /\ running' = t
  /\ UNCHANGED <<line, leaving>>

Rotate ==
  /\ running # NoThread
  /\ line # <<>>
  /\ ~leaving
  /\ running' = Head(line)
  /\ line' = Append(Tail(line), running)
  /\ UNCHANGED leaving

Leave ==
  /\ running # NoThread
  /\ line # <<>>
  /\ leaving' = TRUE
  /\ UNCHANGED <<running, line>>

Retire ==
  /\ leaving
  /\ running' = Head(line)
  /\ line' = Tail(line)
  /\ leaving' = FALSE

Next ==
  \/ \E t \in Threads : Admit(t) \/ Start(t)
  \/ Rotate
  \/ Leave
  \/ Retire

Spec == Init /\ [][Next]_vars

FairSpec ==
  /\ Spec
  /\ WF_vars(\E t \in Threads : Start(t))
  /\ WF_vars(Rotate \/ Retire)
=============================================================================
