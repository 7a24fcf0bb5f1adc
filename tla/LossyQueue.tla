----------------------------- MODULE LossyQueue -----------------------------
(***************************************************************************)
(* What both input rings promise: events come out in the order they went   *)
(* in, whole, each once; an event is discarded only when Capacity of them  *)
(* are waiting.                                                            *)
(***************************************************************************)
EXTENDS Naturals, Sequences

CONSTANTS Capacity, Events, NoEvent

VARIABLES waiting,  \* accepted and not yet taken, oldest first
          dropped,  \* whether the last event offered was discarded
          got       \* the answer to the last request

Init == waiting = <<>> /\ dropped = FALSE /\ got = NoEvent

Accept(ev) ==
  /\ Len(waiting) < Capacity
  /\ waiting' = Append(waiting, ev)
  /\ dropped' = FALSE
  /\ UNCHANGED got

Discard ==
  /\ Len(waiting) = Capacity
  /\ dropped' = TRUE
  /\ UNCHANGED <<waiting, got>>

Take ==
  /\ waiting # <<>>
  /\ got' = Head(waiting)
  /\ waiting' = Tail(waiting)
  /\ UNCHANGED dropped

NothingThere ==
  /\ waiting = <<>>
  /\ got' = NoEvent
  /\ UNCHANGED <<waiting, dropped>>

Next == Discard \/ Take \/ NothingThere \/ \E ev \in Events : Accept(ev)

Spec == Init /\ [][Next]_<<waiting, dropped, got>>

(* With a consumer that keeps asking.                                      *)
FairSpec == Spec /\ WF_<<waiting, dropped, got>>(Take)
=============================================================================
