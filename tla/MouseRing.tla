----------------------------- MODULE MouseRing -----------------------------
(***************************************************************************)
(* The queue of mouse events of drivers/video/vga/vga_gui.c.  The GUI      *)
(* thread fills it and can be preempted between any two stores; user       *)
(* processes empty it from system calls, which run with interrupts off and *)
(* are one step.                                                           *)
(*                                                                         *)
(* g_mouse_head and g_mouse_tail are volatile, the slots are not: the      *)
(* order in which the stores of GuiQueueMouseEvent are carried out is the  *)
(* compiler's choice, StoreOrder.  The slot is addressed through reads of  *)
(* g_mouse_head that precede its update in every build.                    *)
(***************************************************************************)
EXTENDS Integers, Sequences

CONSTANTS
  MOUSE_QUEUE_SIZE,
  Events,      \* positions and buttons the mouse can be in
  Start,       \* what GuiMainLoop starts from
  StoreOrder,  \* the stores of GuiQueueMouseEvent, as the build orders them
  NoEvent      \* the -1 of GuiGetMouseEvent

Fields == {"x", "y", "buttons"}

ASSUME SizeAssumption == MOUSE_QUEUE_SIZE \in Nat \ {0}

ASSUME EventsAssumption ==
  /\ Events \subseteq [Fields -> Int]
  /\ Start \in [Fields -> Int]
  /\ NoEvent \notin Events

ASSUME StoreOrderAssumption ==
  /\ StoreOrder \in Seq(Fields \cup {"head"})
  /\ Len(StoreOrder) = 4
  /\ \A s \in Fields \cup {"head"} : \E i \in 1 .. 4 : StoreOrder[i] = s

VARIABLES
  g_mouse_queue, g_mouse_head, g_mouse_tail,
  prev,     \* prev_x, prev_y, prev_buttons of GuiMainLoop: the event at hand
  slot,     \* the slot being filled
  stores,   \* the stores still to come
  dropped,  \* whether the last event was discarded (an observer's variable)
  got       \* what the last GuiGetMouseEvent delivered

vars == <<g_mouse_queue, g_mouse_head, g_mouse_tail, prev, slot, stores, dropped, got>>

Slots == 0 .. MOUSE_QUEUE_SIZE - 1

(* The statics, which GuiInit sets to the value they have.                 *)
Init ==
  /\ g_mouse_queue = [i \in Slots |-> [f \in Fields |-> 0]]
  /\ g_mouse_head = 0
  /\ g_mouse_tail = 0
  /\ prev = Start
  /\ slot = 0
  /\ stores = <<>>
  /\ dropped = FALSE
  /\ got = NoEvent

After(i) == (i + 1) % MOUSE_QUEUE_SIZE

FullNever == FALSE
Full == After(g_mouse_head) = g_mouse_tail

(* GuiMainLoop queues an event when the mouse has changed.                 *)
Changed(ev) ==
  /\ stores = <<>>
  /\ ev # prev
  /\ prev' = ev
  /\ UNCHANGED <<g_mouse_queue, g_mouse_head, g_mouse_tail, got>>

Discard(ev) ==
  /\ Changed(ev)
  /\ Full
  /\ dropped' = TRUE
  /\ UNCHANGED <<slot, stores>>

Begin(ev) ==
  /\ Changed(ev)
  /\ ~Full
  /\ slot' = g_mouse_head
  /\ stores' = StoreOrder
  /\ UNCHANGED dropped

LastStoreFirst == stores[Len(stores)]
NextStore == Head(stores)

Store ==
  /\ stores # <<>>
  /\ stores' = Tail(stores)
  /\ \/ /\ NextStore = "head"
        /\ g_mouse_head' = After(slot)
        /\ dropped' = FALSE
        /\ UNCHANGED g_mouse_queue
     \/ /\ NextStore # "head"
        /\ g_mouse_queue' = [g_mouse_queue EXCEPT ![slot][NextStore] = prev[NextStore]]
        /\ UNCHANGED <<g_mouse_head, dropped>>
  /\ UNCHANGED <<g_mouse_tail, prev, slot, got>>

(* SYS_GET_MOUSE_EVENT.                                                    *)
GuiGetMouseEvent ==
  /\ \/ /\ g_mouse_head = g_mouse_tail
        /\ got' = NoEvent
        /\ UNCHANGED g_mouse_tail
     \/ /\ g_mouse_head # g_mouse_tail
        /\ got' = g_mouse_queue[g_mouse_tail]
        /\ g_mouse_tail' = After(g_mouse_tail)
  /\ UNCHANGED <<g_mouse_queue, g_mouse_head, prev, slot, stores, dropped>>

Next ==
  \/ \E ev \in Events : Discard(ev) \/ Begin(ev)
  \/ Store
  \/ GuiGetMouseEvent

Spec == Init /\ [][Next]_vars

-----------------------------------------------------------------------------
(* What a process is given is an event the mouse produced, never a mixture *)
(* of two (vga_gui.c:459 "extraer evento").                                *)
WholeEvents == got \in Events \cup {NoEvent}

Count == (g_mouse_head - g_mouse_tail) % MOUSE_QUEUE_SIZE
Waiting == [k \in 1 .. Count |-> g_mouse_queue[(g_mouse_tail + k - 1) % MOUSE_QUEUE_SIZE]]

Promise == INSTANCE LossyQueue WITH Capacity <- MOUSE_QUEUE_SIZE - 1, waiting <- Waiting

(* Events reach the processes in order, each once, whole, and one is lost  *)
(* only when the ring is full.                                             *)
ImplementsLossyQueue == Promise!Spec

-----------------------------------------------------------------------------
(* The inductive invariant behind WholeEvents when the head is stored last *)
(* (the theorem's hypothesis): the slots from tail to head hold events,    *)
(* and the slot being filled is not one of them.                           *)
ProgramOrder == StoreOrder = <<"x", "y", "buttons", "head">>

Published(i) ==
  IF g_mouse_tail <= g_mouse_head THEN g_mouse_tail <= i /\ i < g_mouse_head
  ELSE g_mouse_tail <= i \/ i < g_mouse_head

TypeOK ==
  /\ g_mouse_queue \in [Slots -> [Fields -> Int]]
  /\ g_mouse_head \in Slots
  /\ g_mouse_tail \in Slots
  /\ prev \in Events \cup {Start}
  /\ slot \in Slots
  /\ dropped \in BOOLEAN
  /\ got \in Events \cup {NoEvent}

Filling ==
  /\ stores \in {<<>>, <<"head">>, <<"buttons", "head">>, <<"y", "buttons", "head">>,
                 <<"x", "y", "buttons", "head">>}
  /\ stores # <<>> => slot = g_mouse_head /\ ~Full /\ prev \in Events
  /\ stores # <<>> =>
       \A f \in Fields : (\A i \in 1 .. Len(stores) : stores[i] # f) =>
         g_mouse_queue[slot][f] = prev[f]

IInv ==
  /\ TypeOK
  /\ Filling
  /\ \A i \in Slots : Published(i) => g_mouse_queue[i] \in Events
=============================================================================
