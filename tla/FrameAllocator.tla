--------------------------- MODULE FrameAllocator ---------------------------
(***************************************************************************)
(* What a frame allocator promises: a frame has at most one holder, it is  *)
(* granted only while free, and a request is refused only when no frame is *)
(* free.  Pmm.tla implements it with a bitmap, a counter and addresses.    *)
(***************************************************************************)
CONSTANTS Frames, None

VARIABLES free,   \* the frames nobody holds
          held,   \* the frames somebody holds
          out     \* the last answer

Init == free = {} /\ held = {} /\ out = None

(* The pool is filled before the first request.                            *)
Fill(pool) ==
  /\ free = {} /\ held = {}
  /\ free' = pool
  /\ UNCHANGED <<held, out>>

Grant(f) ==
  /\ f \in free
  /\ free' = free \ {f}
  /\ held' = held \cup {f}
  /\ out' = f

Refuse ==
  /\ free = {}
  /\ out' = None
  /\ UNCHANGED <<free, held>>

Return(f) ==
  /\ f \in held
  /\ held' = held \ {f}
  /\ free' = free \cup {f}
  /\ UNCHANGED out

Next ==
  \/ \E pool \in SUBSET Frames : Fill(pool)
  \/ \E f \in Frames : Grant(f) \/ Return(f)
  \/ Refuse

Spec == Init /\ [][Next]_<<free, held, out>>
=============================================================================
