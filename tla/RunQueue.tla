------------------------------ MODULE RunQueue ------------------------------
(***************************************************************************)
(* What the ready queue promises: threads wait in the order they were      *)
(* added, leaving takes a thread out of the order and disturbs nobody      *)
(* else, and the thread to run next is the first ready one after the       *)
(* current thread, once around the order.  ReadyQueue.tla implements this  *)
(* with a circular list of pointers.                                       *)
(***************************************************************************)
EXTENDS Naturals, Sequences

CONSTANTS Threads, NULL

VARIABLES line,   \* the threads in the queue, oldest first
          picked  \* the last question and its answer

Queued == {line[i] : i \in 1 .. Len(line)}
PlaceOf(t) == CHOOSE i \in 1 .. Len(line) : line[i] = t

NoQuestion == [current |-> NULL, ready |-> {}, thread |-> NULL]

Init == line = <<>> /\ picked = NoQuestion

Add(t) ==
  /\ t \notin Queued
  /\ line' = Append(line, t)
  /\ UNCHANGED picked

Remove(t) ==
  /\ line' = IF t \notin Queued THEN line
             ELSE SubSeq(line, 1, PlaceOf(t) - 1) \o SubSeq(line, PlaceOf(t) + 1, Len(line))
  /\ UNCHANGED picked

(* The order as current sees it: its successor first, itself last.         *)
After(current) ==
  IF current \notin Queued THEN line
  ELSE SubSeq(line, PlaceOf(current) + 1, Len(line)) \o SubSeq(line, 1, PlaceOf(current))

FirstOf(order, ready) ==
  order[CHOOSE i \in 1 .. Len(order) :
          order[i] \in ready /\ \A j \in 1 .. i - 1 : order[j] \notin ready]

Pick(current, ready) ==
  /\ picked' = [current |-> current, ready |-> ready,
                thread |-> IF Queued \cap ready # {} THEN FirstOf(After(current), ready)
                           ELSE IF line # <<>> /\ current \in ready THEN current
                           ELSE NULL]
  /\ UNCHANGED line

Next ==
  \/ \E t \in Threads : Add(t) \/ Remove(t)
  \/ \E current \in Threads \cup {NULL}, ready \in SUBSET Threads : Pick(current, ready)

Spec == Init /\ [][Next]_<<line, picked>>
=============================================================================
