------------------------- MODULE MouseServiceProofs -------------------------
(***************************************************************************)
(* Theorems about the two sides of the mouse: the ring of events, for      *)
(* every size of the queue and every set of events (the hypothesis         *)
(* ProgramOrder is the one the run with the build's order shows to be      *)
(* needed); the packets of the driver; and the trail of the pointer, for   *)
(* every size of the screen, length of the trail and life of a dot.        *)
(***************************************************************************)
EXTENDS MCMouseService, CommonTheorems

-----------------------------------------------------------------------------
(* The ring of events.                                                     *)

(* The index arithmetic wraps once and only once.                          *)
LEMMA AfterCases ==
  ASSUME NEW i \in Slots
  PROVE  /\ After(i) = IF i + 1 = MOUSE_QUEUE_SIZE THEN 0 ELSE i + 1
         /\ After(i) \in Slots
<1>1. After(i) = IF i + 1 = MOUSE_QUEUE_SIZE THEN 0 ELSE i + 1
  BY SuccessorCases, SizeAssumption DEF After, Slots, Successor
<1> QED
  BY <1>1, SizeAssumption DEF Slots

(* No two slots have the same successor.                                   *)
LEMMA AfterInjective ==
  ASSUME NEW i \in Slots, NEW j \in Slots, After(i) = After(j)
  PROVE  i = j
BY AfterCases, SizeAssumption DEF Slots

(* The statics hold no event and nothing is being stored.                  *)
LEMMA InitInv == Init => IInv
<1> SUFFICES ASSUME Init PROVE IInv
  OBVIOUS
<1>1. 0 \in Slots
  BY SizeAssumption DEF Slots
<1>2. TypeOK
  BY <1>1 DEF Init, TypeOK
<1>3. Filling
  BY DEF Init, Filling
<1>4. \A i \in Slots : ~Published(i)
  BY DEF Init, Published, Slots
<1> QED
  BY <1>2, <1>3, <1>4 DEF IInv

(* The start of GuiQueueMouseEvent, with room or without.                  *)
LEMMA BeginInv ==
  ASSUME ProgramOrder, IInv, NEW ev \in Events, Discard(ev) \/ Begin(ev)
  PROVE  IInv'
<1> USE DEF IInv, Changed
<1>1. /\ prev' = ev /\ stores = <<>>
      /\ UNCHANGED <<g_mouse_queue, g_mouse_head, g_mouse_tail, got>>
  BY DEF Discard, Begin
<1>2. TypeOK'
  BY <1>1 DEF Discard, Begin, TypeOK
<1>3. (\A i \in Slots : Published(i) => g_mouse_queue[i] \in Events)'
  BY <1>1 DEF Published
<1>4. CASE Discard(ev)
  BY <1>1, <1>2, <1>3, <1>4 DEF Discard, Filling
<1>5. CASE Begin(ev)
  <2>1. /\ stores' = <<"x", "y", "buttons", "head">> /\ slot' = g_mouse_head' /\ ~Full'
        /\ prev' \in Events
    BY <1>1, <1>5 DEF Begin, ProgramOrder, Full
  <2>2. \A f \in Fields : \E i \in 1 .. Len(stores') : stores'[i] = f
    <3>1. /\ Len(stores') = 4
          /\ stores'[1] = "x" /\ stores'[2] = "y" /\ stores'[3] = "buttons"
      BY <2>1
    <3> QED
      BY <3>1 DEF Fields
  <2> QED
    BY <1>2, <1>3, <2>1, <2>2 DEF Filling
<1> QED
  BY <1>4, <1>5

(* One store of GuiQueueMouseEvent.  The slot it fills is not published    *)
(* before the head moves, and is complete by then.                         *)
LEMMA StoreInv ==
  ASSUME IInv, Store
  PROVE  IInv'
<1>1. /\ stores \in {<<"head">>, <<"buttons", "head">>, <<"y", "buttons", "head">>,
                     <<"x", "y", "buttons", "head">>}
      /\ slot = g_mouse_head /\ ~Full /\ prev \in Events /\ slot \in Slots
      /\ stores' = Tail(stores)
      /\ UNCHANGED <<g_mouse_tail, prev, slot, got>>
  BY DEF IInv, Filling, Store, TypeOK
<1>2. g_mouse_queue \in [Slots -> [Fields -> Int]] /\ g_mouse_tail \in Slots
  BY DEF IInv, TypeOK
<1>3. prev \in [Fields -> Int]
  BY <1>1, EventsAssumption
<1>4. ~Published(slot)
  BY <1>1, <1>2 DEF Published, Slots
<1>5. CASE stores = <<"head">>
  <2>1. stores' = <<>> /\ NextStore = "head"
    BY <1>1, <1>5 DEF NextStore
  <2>2. g_mouse_head' = After(slot) /\ dropped' = FALSE /\ UNCHANGED g_mouse_queue
    BY <2>1 DEF Store
  <2>3. \A f \in Fields : g_mouse_queue[slot][f] = prev[f]
    <3>1. \A i \in 1 .. Len(stores) : stores[i] = "head"
      BY <1>5
    <3>2. \A f \in Fields : f # "head"
      BY DEF Fields
    <3> QED
      BY <1>5, <3>1, <3>2 DEF IInv, Filling
  <2>4. g_mouse_queue[slot] = prev
    BY <1>1, <1>2, <1>3, <2>3
  <2>5. \A i \in Slots : Published(i)' => Published(i) \/ i = slot
    <3>1. /\ g_mouse_head' = IF slot + 1 = MOUSE_QUEUE_SIZE THEN 0 ELSE slot + 1
          /\ g_mouse_head' # g_mouse_tail /\ g_mouse_tail' = g_mouse_tail
      BY <1>1, <2>2, AfterCases DEF Full
    <3> QED
      BY <1>1, <1>2, <3>1, SizeAssumption DEF Published, Slots
  <2>6. TypeOK'
    BY <1>1, <2>2, AfterCases DEF IInv, TypeOK
  <2>7. Filling'
    BY <2>1 DEF Filling
  <2> QED
    BY <1>1, <2>2, <2>4, <2>5, <2>6, <2>7 DEF IInv
<1>6. CASE stores # <<"head">>
  <2> DEFINE f == NextStore
  <2>1. /\ f \in Fields /\ f # "head" /\ f = Head(stores)
        /\ stores' \in {<<"head">>, <<"buttons", "head">>, <<"y", "buttons", "head">>}
        /\ stores' # <<>>
        /\ \A g \in Fields : (\A i \in 1 .. Len(stores') : stores'[i] # g) =>
             g = f \/ \A i \in 1 .. Len(stores) : stores[i] # g
    <3>1. CASE stores = <<"buttons", "head">>
      <4>1. stores' = <<"head">> /\ f = "buttons"
        BY <1>1, <3>1 DEF NextStore
      <4>2. Len(stores) = 2 /\ stores[1] = "buttons" /\ stores[2] = "head" /\ Len(stores') = 1 /\ stores'[1] = "head"
        BY <3>1, <4>1
      <4> QED
        BY <3>1, <4>1, <4>2 DEF Fields
    <3>2. CASE stores = <<"y", "buttons", "head">>
      <4>1. stores' = <<"buttons", "head">> /\ f = "y"
        BY <1>1, <3>2 DEF NextStore
      <4>2. /\ Len(stores) = 3 /\ stores[1] = "y" /\ stores[2] = "buttons" /\ stores[3] = "head"
            /\ Len(stores') = 2 /\ stores'[1] = "buttons" /\ stores'[2] = "head"
        BY <3>2, <4>1
      <4> QED
        BY <3>2, <4>1, <4>2 DEF Fields
    <3>3. CASE stores = <<"x", "y", "buttons", "head">>
      <4>1. stores' = <<"y", "buttons", "head">> /\ f = "x"
        BY <1>1, <3>3 DEF NextStore
      <4>2. /\ Len(stores) = 4 /\ stores[1] = "x" /\ stores[2] = "y" /\ stores[3] = "buttons" /\ stores[4] = "head"
            /\ Len(stores') = 3 /\ stores'[1] = "y" /\ stores'[2] = "buttons" /\ stores'[3] = "head"
        BY <3>3, <4>1
      <4> QED
        BY <3>3, <4>1, <4>2 DEF Fields
    <3> QED
      BY <1>1, <1>6, <3>1, <3>2, <3>3 DEF NextStore
  <2>2. /\ g_mouse_queue' = [g_mouse_queue EXCEPT ![slot][f] = prev[f]]
        /\ UNCHANGED <<g_mouse_head, dropped>>
    BY <2>1 DEF Store
  <2>3. \A i \in Slots \ {slot} : g_mouse_queue'[i] = g_mouse_queue[i]
    BY <1>2, <2>2
  <2>4. /\ g_mouse_queue'[slot][f] = prev[f]
        /\ \A g \in Fields \ {f} : g_mouse_queue'[slot][g] = g_mouse_queue[slot][g]
    BY <1>1, <1>2, <2>1, <2>2
  <2>5. TypeOK'
    BY <1>1, <1>2, <1>3, <2>1, <2>2 DEF IInv, TypeOK
  <2>6. Filling'
    <3>1. \A g \in Fields : (\A i \in 1 .. Len(stores') : stores'[i] # g) =>
            g_mouse_queue'[slot][g] = prev[g]
      BY <1>1, <2>1, <2>4 DEF IInv, Filling
    <3>2. ~Full'
      BY <1>1, <2>2 DEF Full
    <3> QED
      BY <1>1, <2>1, <2>2, <3>1, <3>2 DEF Filling
  <2>7. \A i \in Slots : Published(i)' => Published(i) /\ i # slot
    BY <1>1, <1>4, <2>2 DEF Published
  <2> QED
    BY <2>3, <2>5, <2>6, <2>7 DEF IInv
<1> QED
  BY <1>5, <1>6

(* The system call takes a published slot, and leaves the filling one.     *)
LEMMA GetInv == IInv /\ GuiGetMouseEvent => IInv'
<1> SUFFICES ASSUME IInv, GuiGetMouseEvent PROVE IInv'
  OBVIOUS
<1> USE DEF IInv, GuiGetMouseEvent
<1>1. CASE g_mouse_head = g_mouse_tail
  BY <1>1 DEF TypeOK, Filling, Published, Full
<1>2. CASE g_mouse_head # g_mouse_tail
  <2>1. g_mouse_head \in Slots /\ g_mouse_tail \in Slots /\ g_mouse_tail' \in Slots
    BY <1>2, AfterCases DEF TypeOK
  <2>2. Published(g_mouse_tail)
    BY <1>2, <2>1 DEF Published, Slots
  <2>3. TypeOK'
    BY <1>2, <2>1, <2>2 DEF TypeOK
  <2>4. \A i \in Slots : Published(i)' => Published(i)
    BY <1>2, <2>1, AfterCases, SizeAssumption DEF Published, Slots
  <2>5. ~Full'
    BY <1>2, <2>1, AfterInjective DEF Full
  <2>6. Filling'
    BY <1>2, <2>5 DEF Filling
  <2> QED
    BY <1>2, <2>3, <2>4, <2>6
<1> QED
  BY <1>1, <1>2

(* Every step keeps the inductive invariant.                               *)
LEMMA NextInv == ProgramOrder /\ IInv /\ [Next]_vars => IInv'
<1> SUFFICES ASSUME ProgramOrder, IInv, [Next]_vars PROVE IInv'
  OBVIOUS
<1>1. CASE UNCHANGED vars
  BY <1>1 DEF vars, IInv, TypeOK, Filling, Published, Full
<1>2. CASE Next
  BY <1>2, BeginInv, StoreInv, GetInv DEF Next
<1> QED
  BY <1>1, <1>2

(* If the build stores the head last, a process is only ever given events  *)
(* the mouse produced, whatever the size of the queue and wherever the GUI *)
(* thread is preempted.                                                    *)
THEOREM WholeEventsInProgramOrder == ProgramOrder => (Spec => []WholeEvents)
<1> SUFFICES ASSUME ProgramOrder PROVE Spec => []WholeEvents
  OBVIOUS
<1>1. IInv /\ [Next]_vars => IInv'
  BY NextInv
<1>2. IInv => WholeEvents
  BY DEF IInv, TypeOK, WholeEvents
<1> QED
  BY <1>1, <1>2, InitInv, PTL DEF Spec

-----------------------------------------------------------------------------
(* What waits in the queue, in the terms of CommonTheorems.                *)
LEMMA WaitingContent ==
  /\ Waiting = Content(MOUSE_QUEUE_SIZE, g_mouse_queue, g_mouse_head, g_mouse_tail)
  /\ Waiting' = Content(MOUSE_QUEUE_SIZE, g_mouse_queue', g_mouse_head', g_mouse_tail')
BY DEF Waiting, Count, Content, Span, Place

LEMMA RingFacts ==
  ASSUME IInv
  PROVE  /\ MOUSE_QUEUE_SIZE \in Nat \ {0}
         /\ g_mouse_head \in 0 .. MOUSE_QUEUE_SIZE - 1
         /\ g_mouse_tail \in 0 .. MOUSE_QUEUE_SIZE - 1
         /\ g_mouse_queue \in [0 .. MOUSE_QUEUE_SIZE - 1 -> [Fields -> Int]]
         /\ Len(Waiting) \in 0 .. MOUSE_QUEUE_SIZE - 1
         /\ Len(Waiting) = MOUSE_QUEUE_SIZE - 1 <=> Full
         /\ Waiting = <<>> <=> g_mouse_head = g_mouse_tail
<1>1. /\ MOUSE_QUEUE_SIZE \in Nat \ {0}
      /\ g_mouse_head \in 0 .. MOUSE_QUEUE_SIZE - 1
      /\ g_mouse_tail \in 0 .. MOUSE_QUEUE_SIZE - 1
      /\ g_mouse_queue \in [0 .. MOUSE_QUEUE_SIZE - 1 -> [Fields -> Int]]
  BY SizeAssumption DEF IInv, TypeOK, Slots
<1>2. Len(Waiting) = Span(MOUSE_QUEUE_SIZE, g_mouse_head, g_mouse_tail)
  BY <1>1, WaitingContent, ContentIsSequence
<1>3. Span(MOUSE_QUEUE_SIZE, g_mouse_head, g_mouse_tail) \in 0 .. MOUSE_QUEUE_SIZE - 1
  BY <1>1, SpanBounds
<1>4. Span(MOUSE_QUEUE_SIZE, g_mouse_head, g_mouse_tail) = MOUSE_QUEUE_SIZE - 1 <=> Full
  BY <1>1, SpanBounds DEF Full, After, Successor
<1>5. Waiting = <<>> <=> g_mouse_head = g_mouse_tail
  BY <1>1, WaitingContent, ContentEmpty
<1> QED
  BY <1>1, <1>2, <1>3, <1>4, <1>5

(* An event is discarded when the queue is full, and is not yet in it when *)
(* its stores begin.                                                       *)
LEMMA BeginAccepts ==
  ASSUME IInv, NEW ev \in Events, Discard(ev) \/ Begin(ev)
  PROVE  [Promise!Next]_<<Waiting, dropped, got>>
<1>1. Waiting' = Waiting /\ got' = got
  BY WaitingContent DEF Discard, Begin, Changed
<1>2. CASE Discard(ev)
  <2>1. Promise!Discard
    BY <1>1, <1>2, RingFacts DEF Discard, Promise!Discard
  <2> QED
    BY <2>1 DEF Promise!Next
<1>3. CASE Begin(ev)
  BY <1>1, <1>3 DEF Begin
<1> QED
  BY <1>2, <1>3

(* The event is in the queue, whole, when the head is stored, and the      *)
(* stores before that do not touch what waits.                             *)
LEMMA StoreAccepts ==
  ASSUME IInv, Store
  PROVE  [Promise!Next]_<<Waiting, dropped, got>>
<1>1. /\ stores # <<>> /\ slot = g_mouse_head /\ ~Full /\ prev \in Events
      /\ g_mouse_tail' = g_mouse_tail /\ got' = got
      /\ slot \in 0 .. MOUSE_QUEUE_SIZE - 1
  BY RingFacts DEF IInv, Filling, Store
<1>2. CASE NextStore = "head"
  <2>1. /\ g_mouse_head' = Successor(MOUSE_QUEUE_SIZE, g_mouse_head)
        /\ g_mouse_head' # g_mouse_tail
        /\ dropped' = FALSE /\ g_mouse_queue' = g_mouse_queue
    BY <1>1, <1>2 DEF Store, Full, After, Successor
  <2>2. g_mouse_queue[slot] = prev
    <3>1. stores = <<"head">>
      BY <1>1, <1>2 DEF IInv, Filling, NextStore
    <3>2. \A j \in 1 .. Len(stores) : stores[j] = "head"
      BY <3>1
    <3>3. \A f \in Fields : g_mouse_queue[slot][f] = prev[f]
      BY <3>1, <3>2 DEF Fields, IInv, Filling
    <3>4. g_mouse_queue[slot] \in [Fields -> Int] /\ prev \in [Fields -> Int]
      BY <1>1, RingFacts, EventsAssumption
    <3> QED
      BY <3>3, <3>4
  <2>3. Content(MOUSE_QUEUE_SIZE, g_mouse_queue, g_mouse_head', g_mouse_tail) =
          Append(Content(MOUSE_QUEUE_SIZE, g_mouse_queue, g_mouse_head, g_mouse_tail),
                 g_mouse_queue[g_mouse_head])
    BY <2>1, RingFacts, ContentAppend
  <2>4. Waiting' = Append(Waiting, prev)
    BY <1>1, <2>1, <2>2, <2>3, WaitingContent
  <2>5. Promise!Accept(prev)
    BY <1>1, <2>1, <2>4, RingFacts DEF Promise!Accept
  <2> QED
    BY <1>1, <2>5 DEF Promise!Next
<1>3. CASE NextStore # "head"
  <2>1. /\ g_mouse_queue' = [g_mouse_queue EXCEPT ![slot][NextStore] = prev[NextStore]]
        /\ UNCHANGED <<g_mouse_head, dropped>>
    BY <1>3 DEF Store
  <2>2. SameBut(MOUSE_QUEUE_SIZE, g_mouse_queue', g_mouse_queue, g_mouse_head)
    BY <1>1, <2>1, RingFacts DEF SameBut
  <2>3. Content(MOUSE_QUEUE_SIZE, g_mouse_queue', g_mouse_head, g_mouse_tail) =
          Content(MOUSE_QUEUE_SIZE, g_mouse_queue, g_mouse_head, g_mouse_tail)
    BY <2>2, RingFacts, ContentElsewhere
  <2> QED
    BY <1>1, <2>1, <2>3, WaitingContent
<1> QED
  BY <1>2, <1>3

(* The system call takes the oldest event.                                 *)
LEMMA GetTakes ==
  ASSUME IInv, GuiGetMouseEvent
  PROVE  [Promise!Next]_<<Waiting, dropped, got>>
<1>1. UNCHANGED <<g_mouse_queue, g_mouse_head, dropped>>
  BY DEF GuiGetMouseEvent
<1>2. CASE g_mouse_head = g_mouse_tail
  <2>1. Waiting = <<>> /\ Waiting' = Waiting /\ got' = NoEvent
    BY <1>1, <1>2, RingFacts, WaitingContent DEF GuiGetMouseEvent
  <2>2. Promise!NothingThere
    BY <1>1, <2>1 DEF Promise!NothingThere
  <2> QED
    BY <2>2 DEF Promise!Next
<1>3. CASE g_mouse_head # g_mouse_tail
  <2>1. /\ g_mouse_tail' = Successor(MOUSE_QUEUE_SIZE, g_mouse_tail)
        /\ got' = g_mouse_queue[g_mouse_tail]
    BY <1>3 DEF GuiGetMouseEvent, After, Successor
  <2>2. Head(Waiting) = got' /\ Waiting' = Tail(Waiting)
    BY <1>1, <1>3, <2>1, RingFacts, ContentTail, WaitingContent
  <2>3. Promise!Take
    BY <1>1, <1>3, <2>2, RingFacts DEF Promise!Take
  <2> QED
    BY <2>3 DEF Promise!Next
<1> QED
  BY <1>2, <1>3

(* If the build stores the head last, events reach the processes in order, *)
(* each once, whole, and one is lost only when the queue is full, for      *)
(* every size of the queue.                                                *)
THEOREM MouseRingIsQueue == ProgramOrder => (Spec => ImplementsLossyQueue)
<1> SUFFICES ASSUME ProgramOrder PROVE Spec => ImplementsLossyQueue
  OBVIOUS
<1>1. Init => Promise!Init
  <2> SUFFICES ASSUME Init PROVE Waiting = <<>> /\ dropped = FALSE /\ got = NoEvent
    BY DEF Promise!Init
  <2>1. IInv /\ g_mouse_head = g_mouse_tail
    BY InitInv DEF Init
  <2> QED
    BY <2>1, RingFacts DEF Init
<1>2. IInv /\ [Next]_vars => IInv'
  BY NextInv
<1>3. IInv /\ [Next]_vars => [Promise!Next]_<<Waiting, dropped, got>>
  <2>1. CASE UNCHANGED vars
    BY <2>1, WaitingContent DEF vars
  <2> QED
    BY <2>1, BeginAccepts, StoreAccepts, GetTakes DEF Next
<1> QED
  BY <1>1, <1>2, <1>3, InitInv, PTL DEF Spec, ImplementsLossyQueue, Promise!Spec

-----------------------------------------------------------------------------
(* The packets of the driver.                                              *)

(* Each read of MouseInit empties the buffer of what it waits for.         *)
LEMMA DriverInit == Driver!Init => Driver!PacketInv
<1> SUFFICES ASSUME Driver!Init PROVE Driver!PacketInv
  OBVIOUS
<1>1. Driver!Incoming(<<>>) /\ Driver!Answers["configure"] = <<>>
  BY DEF Driver!Init, Driver!Incoming, Driver!Answers
<1> QED
  BY <1>1 DEF Driver!Init, Driver!packet, Driver!PacketInv, Driver!StreamInv, Driver!InMouseInit

LEMMA BytesAreApart ==
  /\ Driver!Reply # Driver!ScanCode
  /\ \A k \in {1, 2, 3} : Driver!Part(k) # Driver!ScanCode /\ Driver!Part(k) # Driver!Reply
BY DEF Driver!Reply, Driver!ScanCode, Driver!Part

(* What the hardware and IRQ1 do to a stream of bytes nobody has read.     *)
LEMMA IncomingStays ==
  ASSUME NEW bytes, Driver!Incoming(bytes),
         \/ Driver!Deliver
         \/ Driver!KeyPressed
         \/ Driver!Irq1
  PROVE  Driver!Incoming(bytes)'
<1>1. CASE Driver!Deliver
  BY <1>1 DEF Driver!Incoming, Driver!Buffered, Driver!Deliver
<1>2. CASE Driver!KeyPressed
  BY <1>2 DEF Driver!Incoming, Driver!Buffered, Driver!KeyPressed
<1>3. CASE Driver!Irq1
  <2>1. irq1 /\ sending = bytes /\ output' = <<>> /\ ~irq1' /\ sending' = sending
    BY <1>3 DEF Driver!Incoming, Driver!Buffered, Driver!Irq1
  <2> QED
    BY <2>1 DEF Driver!Incoming, Driver!Buffered
<1> QED
  BY <1>1, <1>2, <1>3

(* A poll that finds no key's byte finds the first byte of the stream, and *)
(* the read after it takes that byte: no request of IRQ1 is pending.       *)
LEMMA IncomingFound ==
  ASSUME NEW bytes, Driver!Incoming(bytes), output # <<>>, output # <<Driver!ScanCode>>
  PROVE  Driver!Buffered(bytes)
BY DEF Driver!Incoming

LEMMA BufferedTaken ==
  ASSUME NEW bytes, Driver!Buffered(bytes), output = <<port>>, Head(bytes) # Driver!ScanCode, Driver!Inb
  PROVE  port = Head(bytes) /\ Driver!Incoming(Tail(bytes))'
<1>1. output = <<Head(bytes)>> /\ ~irq1 /\ sending = Tail(bytes)
  BY DEF Driver!Buffered
<1>2. port = Head(bytes)
  <2>1. <<port>>[1] = <<Head(bytes)>>[1]
    BY <1>1
  <2> QED
    BY <2>1
<1>3. output' = <<>> /\ ~irq1' /\ sending' = sending
  <2>1. output # <<Driver!ScanCode>>
    <3>1. <<Head(bytes)>> # <<Driver!ScanCode>>
      OBVIOUS
    <3> QED
      BY <1>1, <3>1
  <2> QED
    BY <1>1, <2>1 DEF Driver!Inb
<1> QED
  BY <1>1, <1>2, <1>3 DEF Driver!Incoming

(* A read of MouseInit, and the byte it got.                               *)
LEMMA ReplyRead ==
  ASSUME NEW bytes, Driver!Incoming(bytes),
         output = <<Driver!Reply>>, Driver!Inb
  PROVE  ~irq1 /\ bytes # <<>> /\ Driver!Incoming(Tail(bytes))'
<1>1. output # <<Driver!ScanCode>>
  BY BytesAreApart
<1>2. output' = <<>> /\ irq1' = irq1 /\ sending' = sending
  BY <1>1 DEF Driver!Inb
<1>3. ~irq1 /\ bytes # <<>> /\ sending = Tail(bytes)
  BY <1>1 DEF Driver!Incoming, Driver!Buffered
<1> QED
  BY <1>2, <1>3 DEF Driver!Incoming

(* A command is answered behind whatever is in the buffer.                 *)
LEMMA CommandAnswered ==
  ASSUME NEW answer, Driver!Incoming(<<>>), sending' = sending \o answer,
         answer \in Seq({Driver!Reply}), UNCHANGED <<output, irq1>>
  PROVE  Driver!Incoming(answer)'
<1>1. sending = <<>> /\ ((output = <<>> /\ ~irq1) \/ (output = <<Driver!ScanCode>> /\ irq1))
  BY DEF Driver!Incoming, Driver!Buffered
<1>2. sending' = answer
  BY <1>1
<1> QED
  BY <1>1, <1>2 DEF Driver!Incoming

LEMMA MouseInitInv ==
  ASSUME Driver!PacketInv, Driver!MouseInit
  PROVE  Driver!PacketInv'
<1> USE DEF Driver!PacketInv, Driver!InMouseInit
<1>1. (Driver!InMouseInit \/ pc \in {"flags", "take_flags", "dx", "take_dx", "dy", "take_dy"})'
  BY DEF Driver!MouseInit, Driver!Command, Driver!MouseRead1
<1>11. output' # <<>> => output' = <<port'>>
  BY DEF Driver!MouseInit, Driver!Command, Driver!MouseRead1, Driver!Inb
<1> SUFFICES ASSUME smooth', ~gaveUp' PROVE Driver!StreamInv'
  BY <1>1, <1>11
<1>2. Driver!StreamInv /\ inPlace /\ inPlace' /\ taken = 0 /\ taken' = 0
  BY DEF Driver!MouseInit, Driver!Command, Driver!MouseRead1, Driver!StreamInv, Driver!packet, Driver!observers
<1>3. ASSUME NEW at \in {"configure", "reset", "enable"}, NEW answer, NEW next,
             Driver!Command(at, answer, next), answer \in Seq({Driver!Reply})
      PROVE  Driver!Incoming(answer)' /\ ~streaming
  <2>1. Driver!Incoming(<<>>) /\ ~streaming
    BY <1>2, <1>3 DEF Driver!StreamInv, Driver!Command, Driver!Answers
  <2> QED
    BY <1>3, <2>1, CommandAnswered DEF Driver!Command
<1>4. ASSUME NEW at, NEW next, NEW bytes, Driver!MouseRead1(at, next), Driver!Incoming(bytes)
      PROVE  ~irq1 /\ bytes # <<>> /\ Driver!Incoming(Tail(bytes))'
  BY <1>2, <1>4, ReplyRead DEF Driver!MouseRead1
<1>5. CASE Driver!Command("configure", <<Driver!Reply>>, "status") /\ UNCHANGED streaming
  <2>1. Driver!Incoming(<<Driver!Reply>>)' /\ ~streaming'
    <3>1. <<Driver!Reply>> \in Seq({Driver!Reply})
      OBVIOUS
    <3> QED
      BY <1>3, <1>5, <3>1
  <2> QED
    BY <1>2, <1>5, <2>1 DEF Driver!Command, Driver!StreamInv, Driver!Answers
<1>6. CASE /\ Driver!Command("reset", <<Driver!Reply, Driver!Reply, Driver!Reply>>, "ack")
           /\ streaming' = FALSE
  <2>1. Driver!Incoming(<<Driver!Reply, Driver!Reply, Driver!Reply>>)'
    <3>1. <<Driver!Reply, Driver!Reply, Driver!Reply>> \in Seq({Driver!Reply})
      OBVIOUS
    <3> QED
      BY <1>3, <1>6, <3>1
  <2> QED
    BY <1>2, <1>6, <2>1 DEF Driver!Command, Driver!StreamInv, Driver!Answers
<1>7. CASE Driver!Command("enable", <<Driver!Reply>>, "enabled") /\ streaming' = TRUE
  <2>1. Driver!Incoming(<<Driver!Reply>>)'
    <3>1. <<Driver!Reply>> \in Seq({Driver!Reply})
      OBVIOUS
    <3> QED
      BY <1>3, <1>7, <3>1
  <2> QED
    BY <1>2, <1>7, <2>1 DEF Driver!Command, Driver!StreamInv, Driver!Answers
<1>8. ASSUME NEW at \in {"status", "ack", "passed", "id"}, NEW next, Driver!MouseRead1(at, next)
      PROVE  Driver!Incoming(Tail(Driver!Answers[at]))' /\ ~streaming'
  <2>1. Driver!Incoming(Driver!Answers[at]) /\ ~streaming
    BY <1>2, <1>8 DEF Driver!StreamInv, Driver!MouseRead1
  <2> QED
    BY <1>4, <1>8, <2>1 DEF Driver!MouseRead1
<1>9. CASE \/ Driver!MouseRead1("status", "reset")
           \/ Driver!MouseRead1("ack", "passed")
           \/ Driver!MouseRead1("passed", "id")
           \/ Driver!MouseRead1("id", "enable")
  <2>1. /\ Tail(Driver!Answers["status"]) = Driver!Answers["reset"]
        /\ Tail(Driver!Answers["ack"]) = Driver!Answers["passed"]
        /\ Tail(Driver!Answers["passed"]) = Driver!Answers["id"]
        /\ Tail(Driver!Answers["id"]) = Driver!Answers["enable"]
    BY DEF Driver!Answers
  <2>2. /\ Driver!Incoming(Driver!Answers[pc])' /\ ~streaming'
        /\ pc' \in {"reset", "passed", "id", "enable"}
    BY <1>8, <1>9, <2>1 DEF Driver!MouseRead1
  <2> QED
    BY <1>2, <2>2 DEF Driver!StreamInv
<1>10. CASE Driver!MouseRead1("enabled", "flags")
  <2>1. CASE Driver!Incoming(<<Driver!Reply>>)
    <3>1. Driver!Incoming(Tail(<<Driver!Reply>>))'
      BY <1>4, <1>10, <2>1
    <3>2. Driver!Incoming(<<>>)'
      BY <3>1
    <3> QED
      BY <1>2, <1>10, <3>2 DEF Driver!MouseRead1, Driver!StreamInv
  <2>2. CASE Driver!NextBehind(Driver!Reply)
    <3>1. Driver!Incoming(Driver!Packet)'
      <4>1. output # <<Driver!ScanCode>>
        BY <2>2, BytesAreApart DEF Driver!NextBehind
      <4> QED
        BY <1>10, <2>2, <4>1 DEF Driver!MouseRead1, Driver!Inb, Driver!Incoming, Driver!NextBehind
    <3> QED
      BY <1>2, <1>10, <3>1 DEF Driver!MouseRead1, Driver!StreamInv
  <2> QED
    BY <1>2, <1>10, <2>1, <2>2 DEF Driver!StreamInv, Driver!MouseRead1
<1> QED
  BY <1>5, <1>6, <1>7, <1>9, <1>10 DEF Driver!MouseInit

(* The mouse sends what it has before it tells the next movement, so that  *)
(* a packet is never behind more than one byte.                            *)
LEMMA MoveInv ==
  ASSUME Driver!PacketInv, Driver!Move
  PROVE  Driver!PacketInv'
<1>1. /\ streaming /\ sending = <<>> /\ sending' = Driver!Packet
      /\ UNCHANGED <<streaming, output, port, irq1, pc, taken, inPlace, smooth, gaveUp>>
  BY DEF Driver!Move, Driver!packet, Driver!observers
<1> SUFFICES ASSUME smooth, ~gaveUp PROVE Driver!StreamInv'
  BY <1>1 DEF Driver!PacketInv, Driver!InMouseInit
<1>2. Driver!StreamInv
  BY DEF Driver!PacketInv
<1>3. /\ ~Driver!Buffered(Driver!Packet) /\ ~Driver!Incoming(Driver!Packet)
      /\ ~Driver!Buffered(<<Driver!Part(2), Driver!Part(3)>>)
      /\ ~Driver!Incoming(<<Driver!Part(2), Driver!Part(3)>>)
      /\ \A part : ~Driver!NextBehind(part)
  BY <1>1 DEF Driver!Buffered, Driver!Incoming, Driver!NextBehind, Driver!Packet
<1>4. ASSUME NEW part, Driver!Incoming(<<part>>) \/ Driver!Buffered(<<part>>)
      PROVE  Driver!NextBehind(part)'
  BY <1>1, <1>4 DEF Driver!Buffered, Driver!Incoming, Driver!NextBehind
<1>5. Driver!Incoming(<<>>) => Driver!Incoming(Driver!Packet)'
  BY <1>1 DEF Driver!Incoming, Driver!Buffered
<1>6. ~Driver!InMouseInit \/ pc = "enabled"
  BY <1>1, <1>2 DEF Driver!StreamInv
<1> QED
  BY <1>1, <1>2, <1>3, <1>4, <1>5, <1>6 DEF Driver!StreamInv, Driver!InMouseInit

(* The byte that enters the buffer, a key and IRQ1 leave the stream as it  *)
(* is.                                                                     *)
LEMMA HardwareInv ==
  ASSUME Driver!PacketInv, Driver!Deliver \/ Driver!KeyPressed \/ Driver!Irq1
  PROVE  Driver!PacketInv'
<1>1. UNCHANGED <<streaming, pc, taken, inPlace, smooth, gaveUp>>
  BY DEF Driver!Deliver, Driver!KeyPressed, Driver!Irq1, Driver!packet, Driver!observers
<1>2. output' # <<>> => output' = <<port'>>
  BY DEF Driver!Deliver, Driver!KeyPressed, Driver!Irq1
<1> SUFFICES ASSUME smooth, ~gaveUp PROVE Driver!StreamInv'
  BY <1>1, <1>2 DEF Driver!PacketInv, Driver!InMouseInit
<1>3. Driver!StreamInv
  BY DEF Driver!PacketInv
<1>4. \A bytes : Driver!Incoming(bytes) => Driver!Incoming(bytes)'
  BY IncomingStays
<1>5. output = <<>> \/ irq1
  BY DEF Driver!Deliver, Driver!KeyPressed, Driver!Irq1
<1>6. (\A bytes : ~Driver!Buffered(bytes)) /\ \A part : ~Driver!NextBehind(part)
  BY <1>5 DEF Driver!Buffered, Driver!NextBehind
<1>7. Driver!InMouseInit' = Driver!InMouseInit
  BY <1>1 DEF Driver!InMouseInit
<1> QED
  BY <1>1, <1>3, <1>4, <1>6, <1>7 DEF Driver!StreamInv

(* A poll finds the next byte of the packet, or none; in the middle of a   *)
(* packet that is giving up.                                               *)
LEMMA PolledInv ==
  ASSUME Driver!PacketInv, NEW at \in {"flags", "dx", "dy"}, NEW next,
         Driver!NothingThere(at) \/ Driver!SomethingThere(at, next),
         next = (CASE at = "flags" -> "take_flags" [] at = "dx" -> "take_dx" [] OTHER -> "take_dy")
  PROVE  Driver!PacketInv'
<1>1. pc = at /\ UNCHANGED <<sending, streaming, output, port, irq1>>
  BY DEF Driver!NothingThere, Driver!SomethingThere
<1>2. /\ pc' \in {"flags", "take_flags", "take_dx", "take_dy"} /\ ~Driver!InMouseInit'
      /\ smooth' => smooth
      /\ ~gaveUp' => ~gaveUp
  <2>1. CASE Driver!NothingThere(at)
    <3>1. pc' = "flags" /\ (smooth' => smooth)
      BY <2>1 DEF Driver!NothingThere
    <3>2. ~gaveUp' => ~gaveUp
      BY <2>1, Zenon DEF Driver!NothingThere
    <3> QED
      BY <3>1, <3>2 DEF Driver!InMouseInit
  <2>2. CASE Driver!SomethingThere(at, next)
    <3>1. pc' = next /\ (~gaveUp' => ~gaveUp)
      BY <2>2 DEF Driver!SomethingThere
    <3>2. smooth' => smooth
      BY <2>2, Zenon DEF Driver!SomethingThere
    <3>3. pc' \in {"take_flags", "take_dx", "take_dy"}
      BY <3>1
    <3> QED
      BY <3>1, <3>2, <3>3 DEF Driver!InMouseInit
  <2> QED
    BY <2>1, <2>2
<1> SUFFICES ASSUME smooth', ~gaveUp' PROVE Driver!StreamInv'
  BY <1>1, <1>2 DEF Driver!PacketInv
<1>3. Driver!StreamInv
  BY <1>2 DEF Driver!PacketInv
<1>4. \A bytes : /\ Driver!Incoming(bytes)' = Driver!Incoming(bytes)
                 /\ Driver!Buffered(bytes)' = Driver!Buffered(bytes)
                 /\ Driver!NextBehind(bytes)' = Driver!NextBehind(bytes)
  BY <1>1 DEF Driver!Incoming, Driver!Buffered, Driver!NextBehind
<1>5. CASE Driver!NothingThere(at)
  <2>1. at = "flags" /\ pc' = "flags" /\ taken' = 0 /\ inPlace'
    BY <1>5 DEF Driver!NothingThere
  <2> QED
    BY <1>1, <1>2, <1>3, <1>4, <2>1 DEF Driver!StreamInv
<1>6. CASE Driver!SomethingThere(at, next)
  <2>1. output # <<>> /\ output # <<Driver!ScanCode>> /\ pc' = next
    BY <1>6 DEF Driver!SomethingThere, Driver!OutputFull
  <2>2. \A bytes : Driver!Incoming(bytes) => Driver!Buffered(bytes)
    BY <2>1, IncomingFound
  <2>3. taken' = (IF at = "flags" THEN 0 ELSE taken) /\ inPlace'
    BY <1>3, <1>6 DEF Driver!SomethingThere, Driver!packet, Driver!StreamInv
  <2>4. ~Driver!Buffered(<<>>)
    BY DEF Driver!Buffered
  <2> QED
    BY <1>1, <1>2, <1>3, <1>4, <2>1, <2>2, <2>3, <2>4 DEF Driver!StreamInv
<1> QED
  BY <1>5, <1>6

(* The read after a poll takes the byte the poll has found.                *)
LEMMA TakeInv ==
  ASSUME Driver!PacketInv, NEW at \in {"take_flags", "take_dx", "take_dy"}, NEW next,
         Driver!Take(at, next),
         next = (CASE at = "take_flags" -> "dx" [] at = "take_dx" -> "dy" [] OTHER -> "flags")
  PROVE  Driver!PacketInv'
<1>1. /\ pc = at /\ pc' = next /\ Driver!Inb
      /\ taken' = taken + 1
      /\ inPlace' = (inPlace /\ port = Driver!Part(taken'))
      /\ UNCHANGED <<streaming, smooth, gaveUp>>
  BY DEF Driver!Take, Driver!observers
<1>2. pc' \in {"flags", "dx", "dy"} /\ ~Driver!InMouseInit' /\ output' = <<>>
  BY <1>1 DEF Driver!InMouseInit, Driver!Inb
<1> SUFFICES ASSUME smooth, ~gaveUp PROVE Driver!StreamInv'
  BY <1>1, <1>2 DEF Driver!PacketInv
<1>3. Driver!StreamInv /\ (output # <<>> => output = <<port>>)
  BY DEF Driver!PacketInv
<1>4. ASSUME NEW bytes, Driver!Buffered(bytes), Head(bytes) # Driver!ScanCode
      PROVE  port = Head(bytes) /\ Driver!Incoming(Tail(bytes))'
  <2>1. output = <<port>>
    BY <1>3, <1>4 DEF Driver!Buffered
  <2> QED
    BY <1>1, <1>4, <2>1, BufferedTaken
<1>5. CASE at = "take_flags"
  <2>1. taken = 0 /\ Driver!Buffered(Driver!Packet) /\ inPlace
    BY <1>1, <1>3, <1>5 DEF Driver!StreamInv
  <2>2. /\ Head(Driver!Packet) = Driver!Part(1)
        /\ Tail(Driver!Packet) = <<Driver!Part(2), Driver!Part(3)>>
    BY DEF Driver!Packet
  <2>3. port = Driver!Part(1) /\ Driver!Incoming(<<Driver!Part(2), Driver!Part(3)>>)'
    <3>1. Head(Driver!Packet) # Driver!ScanCode
      BY <2>2, BytesAreApart
    <3>2. port = Head(Driver!Packet) /\ Driver!Incoming(Tail(Driver!Packet))'
      BY <1>4, <2>1, <3>1
    <3>3. PICK rest : rest = Tail(Driver!Packet) /\ rest = <<Driver!Part(2), Driver!Part(3)>>
      BY <2>2
    <3> QED
      BY <2>2, <3>2, <3>3
  <2>4. taken' = 1 /\ pc' = "dx"
    BY <1>1, <1>5, <2>1
  <2>5. inPlace'
    <3>1. port = Driver!Part(taken')
      BY <2>3, <2>4
    <3> QED
      BY <1>1, <2>1, <3>1, Zenon
  <2> QED
    BY <1>2, <2>3, <2>4, <2>5 DEF Driver!StreamInv
<1>6. CASE at = "take_dx"
  <2>1. taken = 1 /\ Driver!Buffered(<<Driver!Part(2), Driver!Part(3)>>) /\ inPlace
    BY <1>1, <1>3, <1>6 DEF Driver!StreamInv
  <2>2. PICK bytes : bytes = <<Driver!Part(2), Driver!Part(3)>>
    OBVIOUS
  <2>3. Head(bytes) = Driver!Part(2) /\ Tail(bytes) = <<Driver!Part(3)>>
    BY <2>2
  <2>4. Head(bytes) # Driver!ScanCode
    BY <2>3, BytesAreApart
  <2>5. port = Driver!Part(2) /\ Driver!Incoming(<<Driver!Part(3)>>)'
    BY <1>4, <2>1, <2>2, <2>3, <2>4
  <2>6. taken' = 2 /\ pc' = "dy"
    BY <1>1, <1>6, <2>1
  <2>7. inPlace'
    <3>1. port = Driver!Part(taken')
      BY <2>5, <2>6
    <3> QED
      BY <1>1, <2>1, <3>1, Zenon
  <2> QED
    BY <1>2, <2>5, <2>6, <2>7 DEF Driver!StreamInv
<1>7. CASE at = "take_dy"
  <2>1. taken = 2 /\ (Driver!Buffered(<<Driver!Part(3)>>) \/ Driver!NextBehind(Driver!Part(3))) /\ inPlace
    BY <1>1, <1>3, <1>7 DEF Driver!StreamInv
  <2>2. port = Driver!Part(3) /\ (Driver!Incoming(<<>>)' \/ Driver!Incoming(Driver!Packet)')
    <3>1. CASE Driver!Buffered(<<Driver!Part(3)>>)
      <4>1. PICK bytes : bytes = <<Driver!Part(3)>>
        OBVIOUS
      <4>2. Head(bytes) = Driver!Part(3) /\ Tail(bytes) = <<>>
        BY <4>1
      <4>3. Head(bytes) # Driver!ScanCode
        BY <4>2, BytesAreApart
      <4> QED
        BY <1>4, <3>1, <4>1, <4>2, <4>3
    <3>2. CASE Driver!NextBehind(Driver!Part(3))
      <4>1. output = <<Driver!Part(3)>> /\ ~irq1 /\ sending = Driver!Packet
        BY <3>2 DEF Driver!NextBehind
      <4>2. port = Driver!Part(3)
        <5>1. <<port>>[1] = <<Driver!Part(3)>>[1]
          BY <1>3, <4>1
        <5> QED
          BY <5>1
      <4>3. output # <<Driver!ScanCode>>
        BY <4>1, BytesAreApart
      <4>4. ~irq1' /\ sending' = Driver!Packet
        BY <1>1, <4>1, <4>3 DEF Driver!Inb
      <4> QED
        BY <1>2, <4>2, <4>4 DEF Driver!Incoming
    <3> QED
      BY <2>1, <3>1, <3>2
  <2>3. taken' = 3 /\ pc' = "flags"
    BY <1>1, <1>7, <2>1
  <2>4. inPlace'
    <3>1. port = Driver!Part(taken')
      BY <2>2, <2>3
    <3> QED
      BY <1>1, <2>1, <3>1, Zenon
  <2> QED
    BY <1>2, <2>2, <2>3, <2>4 DEF Driver!StreamInv
<1> QED
  BY <1>5, <1>6, <1>7

LEMMA MouseReadInv ==
  ASSUME Driver!PacketInv, Driver!MouseRead
  PROVE  Driver!PacketInv'
<1>1. ASSUME NEW at \in {"flags", "dx", "dy"}, Driver!NothingThere(at) PROVE Driver!PacketInv'
  BY <1>1, PolledInv
<1>2. CASE Driver!SomethingThere("flags", "take_flags")
  BY <1>2, PolledInv
<1>3. CASE Driver!SomethingThere("dx", "take_dx")
  BY <1>3, PolledInv
<1>4. CASE Driver!SomethingThere("dy", "take_dy")
  BY <1>4, PolledInv
<1>5. CASE Driver!Take("take_flags", "dx")
  BY <1>5, TakeInv
<1>6. CASE Driver!Take("take_dx", "dy")
  BY <1>6, TakeInv
<1>7. CASE Driver!Take("take_dy", "flags")
  BY <1>7, TakeInv
<1> QED
  BY <1>1, <1>2, <1>3, <1>4, <1>5, <1>6, <1>7 DEF Driver!MouseRead

LEMMA DriverNext == Driver!PacketInv /\ [ServiceNext]_serviceVars => Driver!PacketInv'
<1> SUFFICES ASSUME Driver!PacketInv, [ServiceNext]_serviceVars PROVE Driver!PacketInv'
  OBVIOUS
<1>1. CASE UNCHANGED driverVars
  BY <1>1 DEF driverVars, Driver!PacketInv, Driver!StreamInv, Driver!InMouseInit, Driver!Incoming,
              Driver!Buffered, Driver!NextBehind
<1>2. CASE Hardware
  BY <1>2, HardwareInv, MoveInv, MouseInitInv DEF Hardware
<1>3. CASE Poll
  BY <1>3, MouseReadInv DEF Poll
<1> QED
  BY <1>1, <1>2, <1>3 DEF ServiceNext, QueueStore, SystemCall, serviceVars

(* Whatever the processes do in between and wherever IRQ1 comes, between a *)
(* poll of MouseRead and its read too, what MouseRead applies is a packet  *)
(* of the mouse, as long as MouseInit got its replies, every packet was    *)
(* there in full when it was polled and no poll found the byte of a key.   *)
THEOREM PromptPacketsWholeAlways == ServiceSpec => []PromptPacketsWhole
<1>1. ServiceInit => Driver!PacketInv
  BY DriverInit DEF ServiceInit
<1>2. Driver!PacketInv => PromptPacketsWhole
  BY DEF PromptPacketsWhole, Driver!PromptPacketsWhole, Driver!Whole, Driver!PacketInv, Driver!StreamInv
<1> QED
  BY <1>1, <1>2, DriverNext, PTL DEF ServiceSpec

-----------------------------------------------------------------------------
(* The trail of the pointer.                                               *)

(* A dot, in the buffer or shifted in it: a place of the screen and the    *)
(* rounds it has left.                                                     *)
Dots == [at : Desk!Screen, life : 0 .. TRAIL_LIFE]

(* A tick takes a round of life from every dot that has one.               *)
LEMMA FadeFacts ==
  ASSUME Desk!DeskTypeOK
  PROVE  /\ Desk!Fade \in [Desk!Places -> Dots]
         /\ \A i \in Desk!Places : Desk!Fade[i].life > 0 =>
              /\ trail[i].life > 0
              /\ Desk!Fade[i].life = trail[i].life - 1
         /\ \A i \in Desk!Places : trail[i].life > 1 =>
              /\ Desk!Fade[i].life > 0
              /\ Desk!Fade[i].at = trail[i].at
<1>1. \A i \in Desk!Places : trail[i] \in Dots
  BY DEF Desk!DeskTypeOK, Dots
<1>2. Desk!Dead \in Dots /\ Desk!Dead.life = 0
  BY TrailAssumption DEF Desk!Dead, Dots, Desk!Screen, Desk!ConstantsOK
<1>3. ASSUME NEW i \in Desk!Places, trail[i].life > 1
      PROVE  /\ Desk!Fade[i] \in Dots
             /\ Desk!Fade[i].life = trail[i].life - 1
             /\ Desk!Fade[i].at = trail[i].at
  <2>1. Desk!Fade[i] = [trail[i] EXCEPT !.life = @ - 1]
    BY <1>3 DEF Desk!Fade
  <2>2. trail[i].life \in 0 .. TRAIL_LIFE /\ trail[i].at \in Desk!Screen
    BY <1>1 DEF Dots
  <2>3. trail[i].life - 1 \in 0 .. TRAIL_LIFE
    BY <1>3, <2>2, TrailAssumption DEF Desk!ConstantsOK
  <2> QED
    BY <1>1, <2>1, <2>2, <2>3 DEF Dots
<1>4. ASSUME NEW i \in Desk!Places, ~(trail[i].life > 1)
      PROVE  Desk!Fade[i] = Desk!Dead
  BY <1>4 DEF Desk!Fade
<1>5. \A i \in Desk!Places : trail[i].life \in Int
  BY <1>1 DEF Dots
<1>6. Desk!Fade \in [Desk!Places -> Dots]
  <2>1. \A i \in Desk!Places : Desk!Fade[i] \in Dots
    BY <1>2, <1>3, <1>4
  <2>2. Desk!Fade = [i \in Desk!Places |-> Desk!Fade[i]]
    BY DEF Desk!Fade
  <2> QED
    BY <2>1, <2>2
<1>7. \A i \in Desk!Places : Desk!Fade[i].life > 0 =>
        /\ trail[i].life > 0
        /\ Desk!Fade[i].life = trail[i].life - 1
  BY <1>2, <1>3, <1>4, <1>5
<1>8. \A i \in Desk!Places : trail[i].life > 1 =>
        /\ Desk!Fade[i].life > 0
        /\ Desk!Fade[i].at = trail[i].at
  BY <1>3, <1>5
<1> QED
  BY <1>6, <1>7, <1>8

(* An event shifts the dots by one place; the last one falls out.          *)
LEMMA PushedFacts ==
  ASSUME NEW dots \in [Desk!Places -> Dots], Desk!DeskTypeOK
  PROVE  /\ Desk!Pushed(dots) \in [Desk!Places -> Dots]
         /\ Desk!Pushed(dots)[1] = Desk!NewDot
         /\ \A i \in Desk!Places : i > 1 => Desk!Pushed(dots)[i] = dots[i - 1]
<1>1. TRAIL_MAX \in Nat \ {0} /\ TRAIL_MAX - 1 \in Nat
  BY TrailAssumption DEF Desk!ConstantsOK
<1>2. Desk!NewDot \in Dots
  BY TrailAssumption DEF Desk!NewDot, Dots, Desk!DeskTypeOK, Desk!ConstantsOK
<1> DEFINE S == SubSeq(dots, 1, TRAIL_MAX - 1)
<1>3. \A i \in 1 .. TRAIL_MAX - 1 : dots[i] \in Dots
  BY <1>1 DEF Desk!Places
<1>4. S \in Seq(Dots) /\ Len(S) = TRAIL_MAX - 1 /\ \A i \in 1 .. TRAIL_MAX - 1 : S[i] = dots[i]
  <2>1. S \in Seq(Dots)
    BY <1>1, <1>3, SubSeqProperties
  <2>2. Len(S) = IF 1 <= TRAIL_MAX - 1 THEN TRAIL_MAX - 1 - 1 + 1 ELSE 0
    BY <1>1, <1>3, SubSeqProperties
  <2>3. \A i \in 1 .. TRAIL_MAX - 1 - 1 + 1 : S[i] = dots[1 + i - 1]
    BY <1>1, <1>3, SubSeqProperties
  <2> QED
    BY <1>1, <2>1, <2>2, <2>3
<1> HIDE DEF S
<1>5. Desk!Pushed(dots) = <<Desk!NewDot>> \o S
  BY DEF Desk!Pushed, S
<1>6. <<Desk!NewDot>> \in Seq(Dots) /\ Len(<<Desk!NewDot>>) = 1
  BY <1>2
<1>7. /\ Desk!Pushed(dots) \in Seq(Dots)
      /\ Len(Desk!Pushed(dots)) = TRAIL_MAX
      /\ \A i \in 1 .. TRAIL_MAX :
           Desk!Pushed(dots)[i] = IF i <= 1 THEN <<Desk!NewDot>>[i] ELSE S[i - 1]
  BY <1>1, <1>4, <1>5, <1>6, ConcatProperties
<1>8. Desk!Pushed(dots) \in [Desk!Places -> Dots]
  BY <1>7, LenProperties DEF Desk!Places
<1>9. Desk!Pushed(dots)[1] = Desk!NewDot
  BY <1>1, <1>7
<1>10. \A i \in Desk!Places : i > 1 => Desk!Pushed(dots)[i] = dots[i - 1]
  <2>1. ASSUME NEW i \in 1 .. TRAIL_MAX, i > 1
        PROVE  Desk!Pushed(dots)[i] = S[i - 1] /\ i - 1 \in 1 .. TRAIL_MAX - 1
    BY <1>1, <1>7, <2>1
  <2> QED
    BY <1>4, <2>1 DEF Desk!Places
<1> QED
  BY <1>8, <1>9, <1>10

(* Of several dots on one point the oldest decides.                        *)
LEMMA OldestIsOneOfThem ==
  ASSUME NEW S \in SUBSET Desk!Places, S # {}
  PROVE  Desk!Max(S) \in S
<1>1. S \in SUBSET Nat /\ TRAIL_MAX \in Nat /\ \A k \in S : k <= TRAIL_MAX
  BY TrailAssumption DEF Desk!Places, Desk!ConstantsOK
<1>2. \E x \in S : \A y \in S : y <= x
  BY <1>1, Largest
<1>3. \E x \in S : \A y \in S : x >= y
  BY <1>1, <1>2
<1> QED
  BY <1>3 DEF Desk!Max

(* The new dot, at the first place with a whole life.                      *)
LEMMA CrowdStart ==
  ASSUME KEY_GAP \in Nat \ {0}, NEW life \in Int, NEW q \in 0 .. KEY_GAP
  PROVE  KEY_GAP * (1 - 1 - (life - life)) <= (life - life) + KEY_GAP - q
<1>1. life - life = 0 /\ 1 - 1 - 0 = 0 /\ KEY_GAP * 0 = 0
  OBVIOUS
<1>2. 0 <= 0 + KEY_GAP - q
  OBVIOUS
<1> QED
  BY <1>1, <1>2

(* How far down the buffer a dot can be, when a tick or a key is counted.  *)
LEMMA CrowdTick ==
  ASSUME NEW K \in Nat \ {0}, NEW i \in Int, NEW age \in Int,
         NEW q \in Int, NEW r \in Int, r <= q + 1,
         K * (i - 1 - age) <= age + K - q
  PROVE  /\ K * (i - 1 - (age + 1)) <= (age + 1) + K - r
         /\ K * ((i + 1) - 1 - (age + 1)) <= (age + 1) + K - r
<1>1. K * ((i + 1) - 1 - (age + 1)) = K * (i - 1 - age)
  OBVIOUS
<1>2. K * (i - 1 - (age + 1)) = K * (i - 1 - age) - K
  OBVIOUS
<1>3. K * (i - 1 - age) \in Int
  OBVIOUS
<1> QED
  BY <1>1, <1>2, <1>3

LEMMA CrowdKey ==
  ASSUME NEW K \in Nat \ {0}, NEW i \in Int, NEW age \in Int,
         K * (i - 1 - age) <= age
  PROVE  /\ K * (i - 1 - age) <= age + K
         /\ K * ((i + 1) - 1 - age) <= age + K
<1>1. K * ((i + 1) - 1 - age) = K * (i - 1 - age) + K
  OBVIOUS
<1>2. K * (i - 1 - age) \in Int
  OBVIOUS
<1> QED
  BY <1>1, <1>2

LEMMA CrowdEnd ==
  ASSUME Desk!LongTrail, NEW age \in Int, age <= TRAIL_LIFE - 1,
         NEW q \in Nat, KEY_GAP * ((TRAIL_MAX + 1) - 1 - age) <= age + KEY_GAP - q
  PROVE  FALSE
<1>1. KEY_GAP \in Nat \ {0} /\ TRAIL_MAX \in Int /\ TRAIL_LIFE \in Int
  BY TrailAssumption DEF Desk!ConstantsOK
<1>2. (KEY_GAP + 1) * (TRAIL_LIFE - 1 - age) >= 0
  <2>1. \A a, b \in Nat : a * b >= 0
    OBVIOUS
  <2>2. KEY_GAP + 1 \in Nat /\ TRAIL_LIFE - 1 - age \in Nat
    BY <1>1
  <2> QED
    BY <2>1, <2>2
<1>3. /\ KEY_GAP * ((TRAIL_MAX + 1) - 1 - age) = KEY_GAP * TRAIL_MAX - KEY_GAP * age
      /\ KEY_GAP * (TRAIL_MAX - 1) = KEY_GAP * TRAIL_MAX - KEY_GAP
      /\ (KEY_GAP + 1) * (TRAIL_LIFE - 1 - age) = (KEY_GAP + 1) * (TRAIL_LIFE - 1) - KEY_GAP * age - age
  BY <1>1
<1>4. /\ KEY_GAP * TRAIL_MAX \in Int /\ KEY_GAP * age \in Int
      /\ (KEY_GAP + 1) * (TRAIL_LIFE - 1) \in Int
  BY <1>1
<1> QED
  BY <1>1, <1>2, <1>3, <1>4 DEF Desk!LongTrail

(* What a step leaves of the trail: the dots it found, shifted by an event *)
(* or not, and the dot of the event.                                       *)
Shifted(dots) == trail' \in {dots, Desk!Pushed(dots)}

LEMMA ShiftedDots ==
  ASSUME NEW dots \in [Desk!Places -> Dots], Desk!DeskTypeOK, Shifted(dots),
         NEW i \in Desk!Places
  PROVE  \/ trail'[i] = dots[i]
         \/ i = 1 /\ trail'[i].life = TRAIL_LIFE
         \/ i - 1 \in Desk!Places /\ trail'[i] = dots[i - 1]
<1>1. Desk!NewDot.life = TRAIL_LIFE
  BY DEF Desk!NewDot
<1>2. i > 1 => i - 1 \in Desk!Places
  BY TrailAssumption DEF Desk!Places, Desk!ConstantsOK
<1>3. i = 1 \/ i > 1
  BY DEF Desk!Places
<1> QED
  BY <1>1, <1>2, <1>3, PushedFacts DEF Shifted

(* No dot that lives is shifted out.                                       *)
LEMMA NoneLost ==
  ASSUME NEW dots \in [Desk!Places -> Dots], Desk!DeskTypeOK, Shifted(dots),
         NEW j \in Desk!Places, dots[j].life > 0,
         j = TRAIL_MAX => trail' = dots
  PROVE  \E i \in Desk!Places : trail'[i] = dots[j]
<1>1. CASE trail' = dots
  BY <1>1
<1>2. CASE trail' = Desk!Pushed(dots) /\ j # TRAIL_MAX
  <2>1. j + 1 \in Desk!Places /\ j + 1 > 1 /\ (j + 1) - 1 = j
    BY <1>2, TrailAssumption DEF Desk!Places, Desk!ConstantsOK
  <2>2. Desk!Pushed(dots)[j + 1] = dots[(j + 1) - 1]
    BY <2>1, PushedFacts
  <2> QED
    BY <1>2, <2>1, <2>2
<1> QED
  BY <1>1, <1>2 DEF Shifted

(* What one iteration does to the places of the screen it remembers.       *)
LEMMA IterateFacts ==
  ASSUME Desk!DeskTypeOK, NEW tick \in BOOLEAN, Desk!Iterate(tick)
  PROVE  /\ pointer' \in Desk!Screen /\ last' \in Desk!Screen
         /\ Shifted(IF tick THEN Desk!Fade ELSE trail)
         /\ painted' = IF tick THEN Desk!FadedPicture ELSE painted
<1>1. \A v \in Int : Desk!Clamp(v, 631) \in Int /\ Desk!Clamp(v, 468) \in Int
  BY DEF Desk!Clamp
<1>2. ASSUME NEW d \in Deltas, NEW b \in Buttons, Desk!MouseRead(d, b)
      PROVE  pointer' \in Desk!Screen
  <2>1. pointer[1] \in Int /\ pointer[2] \in Int /\ d[1] \in Int /\ d[2] \in Int
    BY TrailAssumption DEF Desk!DeskTypeOK, Desk!Screen, Desk!ConstantsOK
  <2>2. aimed' = <<pointer[1] + d[1], pointer[2] - d[2]>>
    BY <1>2 DEF Desk!MouseRead
  <2>3. aimed'[1] \in Int /\ aimed'[2] \in Int
    BY <2>1, <2>2
  <2>4. pointer' = <<Desk!Clamp(aimed'[1], 631), Desk!Clamp(aimed'[2], 468)>>
    BY <1>2 DEF Desk!MouseRead
  <2>5. Desk!Clamp(aimed'[1], 631) \in Int /\ Desk!Clamp(aimed'[2], 468) \in Int
    BY <1>1, <2>3
  <2> QED
    BY <2>4, <2>5 DEF Desk!Screen
<1>3. pointer' \in Desk!Screen
  BY <1>2 DEF Desk!Iterate, Desk!DeskTypeOK
<1>4. last' = pointer' /\ painted' = IF tick THEN Desk!FadedPicture ELSE painted
  BY DEF Desk!Iterate
<1>5. Shifted(IF tick THEN Desk!Fade ELSE trail)
  BY DEF Desk!Iterate, Shifted
<1> QED
  BY <1>3, <1>4, <1>5

(* The ages of the dots after a step, and that none lives at the end of    *)
(* the buffer where the next event would shift it out.                     *)
LEMMA TickAges ==
  ASSUME Desk!TrailInv, Desk!LongTrail, quiet' \in 0 .. KEY_GAP, quiet' <= quiet + 1,
         NEW i \in Desk!Places, Desk!Fade[i].life > 0,
         NEW now, now = TRAIL_LIFE - Desk!Fade[i].life
  PROVE  i # TRAIL_MAX /\ Desk!Crowded(i, now)' /\ Desk!Crowded(i + 1, now)'
<1> DEFINE age == TRAIL_LIFE - trail[i].life
<1>1. /\ KEY_GAP \in Nat \ {0} /\ TRAIL_MAX \in Int /\ TRAIL_LIFE \in Int /\ i \in Int
      /\ quiet \in Int /\ quiet' \in Nat
  BY TrailAssumption DEF Desk!ConstantsOK, Desk!Places, Desk!TrailInv, Desk!DeskTypeOK
<1>2. /\ trail[i].life \in Int /\ trail[i].life > 0
      /\ Desk!Fade[i].life = trail[i].life - 1
  BY FadeFacts DEF Desk!TrailInv, Desk!DeskTypeOK
<1>3. age \in Int /\ now = age + 1 /\ now <= TRAIL_LIFE - 1 /\ now \in Int
  BY <1>1, <1>2
<1>4. KEY_GAP * (i - 1 - age) <= age + KEY_GAP - quiet
  BY <1>2 DEF Desk!TrailInv, Desk!Alive, Desk!Crowded
<1> HIDE DEF age
<1>5. /\ KEY_GAP * (i - 1 - now) <= now + KEY_GAP - quiet'
      /\ KEY_GAP * ((i + 1) - 1 - now) <= now + KEY_GAP - quiet'
  BY <1>1, <1>3, <1>4, CrowdTick
<1>6. i # TRAIL_MAX
  <2>1. ASSUME i = TRAIL_MAX PROVE FALSE
    <3>1. KEY_GAP * ((TRAIL_MAX + 1) - 1 - now) <= now + KEY_GAP - quiet'
      BY <1>5, <2>1
    <3> QED
      BY <1>1, <1>3, <3>1, CrowdEnd
  <2> QED
    BY <2>1
<1> QED
  BY <1>5, <1>6 DEF Desk!Crowded

LEMMA KeyAges ==
  ASSUME Desk!TrailInv, Desk!LongTrail, quiet = KEY_GAP, quiet' = 0,
         NEW i \in Desk!Places, trail[i].life > 0,
         NEW now, now = TRAIL_LIFE - trail[i].life
  PROVE  i # TRAIL_MAX /\ Desk!Crowded(i, now)' /\ Desk!Crowded(i + 1, now)'
<1>1. /\ KEY_GAP \in Nat \ {0} /\ TRAIL_MAX \in Int /\ TRAIL_LIFE \in Int /\ i \in Int
      /\ trail[i].life \in Int
  BY TrailAssumption DEF Desk!ConstantsOK, Desk!Places, Desk!TrailInv, Desk!DeskTypeOK
<1>2. now \in Int /\ now <= TRAIL_LIFE - 1
  BY <1>1
<1>3. KEY_GAP * (i - 1 - now) <= now
  <2>1. KEY_GAP * (i - 1 - now) <= now + KEY_GAP - quiet
    BY DEF Desk!TrailInv, Desk!Alive, Desk!Crowded
  <2> QED
    BY <1>1, <1>2, <2>1
<1>4. /\ KEY_GAP * (i - 1 - now) <= now + KEY_GAP
      /\ KEY_GAP * ((i + 1) - 1 - now) <= now + KEY_GAP
  BY <1>1, <1>2, <1>3, CrowdKey
<1>5. i # TRAIL_MAX
  <2>1. ASSUME i = TRAIL_MAX PROVE FALSE
    <3>1. KEY_GAP * ((TRAIL_MAX + 1) - 1 - now) <= now + KEY_GAP - 0
      BY <1>1, <1>2, <1>4, <2>1
    <3> QED
      BY <1>2, <3>1, CrowdEnd
  <2> QED
    BY <2>1
<1> QED
  BY <1>1, <1>2, <1>4, <1>5 DEF Desk!Crowded

(* A dot that stays on the desktop has a round left in the buffer.         *)
LEMMA FadedPictureKept ==
  ASSUME Desk!TrailInv, NEW p \in Desk!FadedPicture
  PROVE  \E i \in Desk!Places : Desk!Fade[i].life > 0 /\ Desk!Fade[i].at = p
<1> DEFINE There(q) == {i \in Desk!Alive : trail[i].at = q}
           Touched == {trail[i].at : i \in Desk!Alive}
<1>1. Desk!FadedPicture =
        (painted \ Touched)
          \cup {q \in Touched : q[2] < Desk!Taskbar /\ trail[Desk!Max(There(q))].life > 1}
  BY DEF Desk!FadedPicture
<1>2. p \in painted => p \in Touched
  BY DEF Desk!TrailInv, Desk!TrailErased
<1>3. p \in Touched /\ trail[Desk!Max(There(p))].life > 1
  BY <1>1, <1>2
<1>4. Desk!Max(There(p)) \in There(p)
  <2>1. There(p) # {} /\ There(p) \in SUBSET Desk!Places
    BY <1>3 DEF Desk!Alive
  <2> HIDE DEF There
  <2> QED
    BY <2>1, OldestIsOneOfThem
<1> DEFINE i == Desk!Max(There(p))
<1>5. i \in Desk!Places /\ trail[i].life > 1 /\ trail[i].at = p
  BY <1>3, <1>4 DEF Desk!Alive
<1> HIDE DEF i
<1> QED
  BY <1>5, FadeFacts DEF Desk!TrailInv

(* The heart: after an iteration the dots that live are the ones that did, *)
(* a place on or where they were, and the new one.                         *)
LEMMA IterateInv ==
  ASSUME Desk!TrailInv, NEW dots \in [Desk!Places -> Dots], Shifted(dots),
         quiet' \in 0 .. KEY_GAP, pointer' \in Desk!Screen, last' \in Desk!Screen,
         \A i \in Desk!Places : dots[i].life > 0 => i # TRAIL_MAX,
         \A i \in Desk!Places : dots[i].life > 0 =>
           /\ KEY_GAP * (i - 1 - (TRAIL_LIFE - dots[i].life))
                <= (TRAIL_LIFE - dots[i].life) + KEY_GAP - quiet'
           /\ KEY_GAP * ((i + 1) - 1 - (TRAIL_LIFE - dots[i].life))
                <= (TRAIL_LIFE - dots[i].life) + KEY_GAP - quiet',
         \A p \in painted' : \E i \in Desk!Places : dots[i].life > 0 /\ dots[i].at = p
  PROVE  Desk!TrailInv'
<1> USE DEF Desk!TrailInv
<1>1. Desk!DeskTypeOK'
  BY PushedFacts DEF Shifted, Desk!DeskTypeOK, Dots
<1>2. Desk!TrailErased'
  <2> SUFFICES ASSUME NEW p \in painted'
               PROVE  \E i \in Desk!Places : trail'[i].life > 0 /\ trail'[i].at = p
    BY DEF Desk!TrailErased, Desk!Alive
  <2>1. PICK j \in Desk!Places : dots[j].life > 0 /\ dots[j].at = p
    OBVIOUS
  <2>2. PICK i \in Desk!Places : trail'[i] = dots[j]
    BY <2>1, NoneLost
  <2> QED
    BY <2>1, <2>2
<1>3. ASSUME NEW i \in Desk!Places, trail'[i].life > 0
      PROVE  KEY_GAP * (i - 1 - (TRAIL_LIFE - trail'[i].life))
               <= (TRAIL_LIFE - trail'[i].life) + KEY_GAP - quiet'
  <2>1. KEY_GAP \in Nat \ {0} /\ TRAIL_LIFE \in Int /\ quiet' \in 0 .. KEY_GAP /\ i \in Int
    BY TrailAssumption DEF Desk!ConstantsOK, Desk!Places
  <2>2. CASE trail'[i] = dots[i]
    <3>1. PICK d : d = trail'[i]
      OBVIOUS
    <3>2. d = dots[i] /\ d.life > 0
      BY <1>3, <2>2, <3>1
    <3>3. KEY_GAP * (i - 1 - (TRAIL_LIFE - dots[i].life))
            <= (TRAIL_LIFE - dots[i].life) + KEY_GAP - quiet'
      BY <3>2
    <3>4. KEY_GAP * (i - 1 - (TRAIL_LIFE - d.life)) <= (TRAIL_LIFE - d.life) + KEY_GAP - quiet'
      BY <3>2, <3>3
    <3> HIDE DEF Desk!TrailInv
    <3> QED
      BY <3>1, <3>4
  <2>3. CASE i = 1 /\ trail'[i].life = TRAIL_LIFE
    <3>1. KEY_GAP * (1 - 1 - (TRAIL_LIFE - TRAIL_LIFE))
            <= (TRAIL_LIFE - TRAIL_LIFE) + KEY_GAP - quiet'
      <4> HIDE DEF Desk!TrailInv
      <4> QED
        BY <2>1, CrowdStart
    <3>2. PICK life : life = trail'[i].life
      OBVIOUS
    <3>3. i = 1 /\ life = TRAIL_LIFE
      BY <2>3, <3>2
    <3> HIDE DEF Desk!TrailInv
    <3>4. KEY_GAP * (i - 1 - (TRAIL_LIFE - life)) <= (TRAIL_LIFE - life) + KEY_GAP - quiet'
      BY <3>1, <3>3
    <3> QED
      BY <3>2, <3>4
  <2>4. CASE i - 1 \in Desk!Places /\ trail'[i] = dots[i - 1]
    <3>1. PICK j \in Desk!Places : i = j + 1 /\ trail'[i] = dots[j]
      <4>1. i = (i - 1) + 1
        BY <2>1
      <4> QED
        BY <2>4, <4>1
    <3>2. KEY_GAP * ((j + 1) - 1 - (TRAIL_LIFE - dots[j].life))
            <= (TRAIL_LIFE - dots[j].life) + KEY_GAP - quiet'
      BY <1>3, <3>1
    <3> QED
      BY <3>1, <3>2
  <2> QED
    BY <2>2, <2>3, <2>4, ShiftedDots
<1> QED
  BY <1>1, <1>2, <1>3 DEF Desk!Alive, Desk!Crowded

LEMMA DeskStepInv ==
  ASSUME Desk!LongTrail, Desk!TrailInv, [Desk!DeskNext]_(Desk!deskVars)
  PROVE  Desk!TrailInv'
<1>1. CASE UNCHANGED Desk!deskVars
  BY <1>1 DEF Desk!deskVars, Desk!mouseVars, Desk!TrailInv, Desk!DeskTypeOK, Desk!Alive, Desk!Crowded, Desk!TrailErased
<1>2. KEY_GAP \in Nat \ {0} /\ quiet \in 0 .. KEY_GAP /\ Desk!DeskTypeOK
  BY TrailAssumption DEF Desk!TrailInv, Desk!DeskTypeOK, Desk!ConstantsOK
<1>3. CASE Desk!AfterTick
  <2>1. quiet' \in 0 .. KEY_GAP /\ quiet' <= quiet + 1 /\ Desk!Iterate(TRUE)
    <3>1. Desk!Iterate(TRUE) /\ quiet' = IF quiet < KEY_GAP THEN quiet + 1 ELSE quiet
      BY <1>3 DEF Desk!AfterTick
    <3>2. quiet' \in 0 .. KEY_GAP /\ quiet' <= quiet + 1
      BY <1>2, <3>1
    <3> QED
      BY <3>1, <3>2
  <2>2. /\ pointer' \in Desk!Screen /\ last' \in Desk!Screen /\ Shifted(Desk!Fade)
        /\ painted' = Desk!FadedPicture
    BY <1>2, <2>1, IterateFacts
  <2>3. Desk!Fade \in [Desk!Places -> Dots]
    BY <1>2, FadeFacts
  <2>4. \A i \in Desk!Places : Desk!Fade[i].life > 0 =>
          /\ i # TRAIL_MAX
          /\ KEY_GAP * (i - 1 - (TRAIL_LIFE - Desk!Fade[i].life))
               <= (TRAIL_LIFE - Desk!Fade[i].life) + KEY_GAP - quiet'
          /\ KEY_GAP * ((i + 1) - 1 - (TRAIL_LIFE - Desk!Fade[i].life))
               <= (TRAIL_LIFE - Desk!Fade[i].life) + KEY_GAP - quiet'
    BY <2>1, TickAges DEF Desk!Crowded
  <2>5. \A p \in painted' : \E i \in Desk!Places : Desk!Fade[i].life > 0 /\ Desk!Fade[i].at = p
    BY <2>2, FadedPictureKept
  <2> QED
    BY <2>1, <2>2, <2>3, <2>4, <2>5, IterateInv
<1>4. CASE Desk!AfterKey
  <2>1. quiet = KEY_GAP /\ quiet' = 0 /\ quiet' \in 0 .. KEY_GAP /\ Desk!Iterate(FALSE)
    <3>1. Desk!Iterate(FALSE) /\ quiet = KEY_GAP /\ quiet' = 0
      BY <1>4 DEF Desk!AfterKey
    <3>2. quiet' \in 0 .. KEY_GAP
      BY <1>2, <3>1
    <3> QED
      BY <3>1, <3>2
  <2>2. /\ pointer' \in Desk!Screen /\ last' \in Desk!Screen /\ Shifted(trail)
        /\ painted' = painted
    BY <1>2, <2>1, IterateFacts
  <2>3. trail \in [Desk!Places -> Dots]
    BY <1>2 DEF Desk!DeskTypeOK, Dots
  <2>4. \A i \in Desk!Places : trail[i].life > 0 =>
          /\ i # TRAIL_MAX
          /\ KEY_GAP * (i - 1 - (TRAIL_LIFE - trail[i].life))
               <= (TRAIL_LIFE - trail[i].life) + KEY_GAP - quiet'
          /\ KEY_GAP * ((i + 1) - 1 - (TRAIL_LIFE - trail[i].life))
               <= (TRAIL_LIFE - trail[i].life) + KEY_GAP - quiet'
    BY <2>1, KeyAges DEF Desk!Crowded
  <2>5. \A p \in painted' : \E i \in Desk!Places : trail[i].life > 0 /\ trail[i].at = p
    BY <2>2 DEF Desk!TrailInv, Desk!TrailErased, Desk!Alive
  <2> QED
    BY <2>1, <2>2, <2>3, <2>4, <2>5, IterateInv
<1> QED
  BY <1>1, <1>3, <1>4 DEF Desk!DeskNext

(* The trail fades out, whatever the mouse and the buttons do: with        *)
(* KEY_GAP ticks between two packets that follow a key, TRAIL_MAX places   *)
(* are enough for TRAIL_LIFE rounds when LongTrail holds, as it does for   *)
(* the eight and the five of the source.                                   *)
THEOREM TrailErasedAlways == Desk!LongTrail => (Desk!DeskSpec => []TrailErased)
<1> SUFFICES ASSUME Desk!LongTrail PROVE Desk!DeskSpec => []TrailErased
  OBVIOUS
<1>1. Desk!DeskInit => Desk!TrailInv
  <2> SUFFICES ASSUME Desk!DeskInit PROVE Desk!TrailInv
    OBVIOUS
  <2>1. /\ Desk!Dead \in Dots /\ Desk!Dead.life = 0
        /\ <<320, 240>> \in Desk!Screen
    BY TrailAssumption DEF Desk!Dead, Dots, Desk!Screen, Desk!ConstantsOK
  <2>2. Desk!DeskTypeOK
    BY <2>1, TrailAssumption DEF Desk!DeskInit, Desk!DeskTypeOK, Dots, Desk!ConstantsOK
  <2>3. \A i \in Desk!Places : ~(trail[i].life > 0)
    BY <2>1 DEF Desk!DeskInit
  <2> QED
    BY <2>2, <2>3 DEF Desk!TrailInv, Desk!Alive, Desk!TrailErased, Desk!DeskInit
<1>2. Desk!TrailInv /\ [Desk!DeskNext]_(Desk!deskVars) => Desk!TrailInv'
  BY DeskStepInv
<1>3. Desk!TrailInv => TrailErased
  BY DEF Desk!TrailInv, TrailErased
<1> QED
  BY <1>1, <1>2, <1>3, PTL DEF Desk!DeskSpec
=============================================================================
