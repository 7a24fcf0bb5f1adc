---------------------------- MODULE KeyboardRing ----------------------------
(***************************************************************************)
(* The keyboard buffer of drivers/video/vga/vga_gui.c.  IRQ1 fills it, in  *)
(* one step (its gate clears the interrupt flag), between any two accesses *)
(* of the GUI thread, which empties it from ConsoleProcess.  IRQ1 is       *)
(* unmasked before the GUI thread runs GuiInit.                            *)
(*                                                                         *)
(* A key is a code of scancode_to_ascii; releases and unmapped scancodes   *)
(* are ignored by GuiKeyboardHandler and left out.                         *)
(***************************************************************************)
EXTENDS Integers, Sequences

CONSTANTS KBD_BUF_SIZE, Keys, NoKey

ASSUME SizeAssumption == KBD_BUF_SIZE \in Nat \ {0}
ASSUME KeysAssumption == NoKey \notin Keys

VARIABLES
  kbd_buf, kbd_head, kbd_tail,
  pc,       \* where the GUI thread is
  c,        \* the local variable of kbd_getchar
  dropped,  \* whether the last key since GuiInit was discarded (an observer)
  got       \* what kbd_getchar returned last; NoKey is its -1

vars == <<kbd_buf, kbd_head, kbd_tail, pc, c, dropped, got>>

Slots == 0 .. KBD_BUF_SIZE - 1

Init ==
  /\ kbd_buf = [i \in Slots |-> NoKey]
  /\ kbd_head = 0
  /\ kbd_tail = 0
  /\ pc = "boot"
  /\ c = NoKey
  /\ dropped = FALSE
  /\ got = NoKey

After(i) == (i + 1) % KBD_BUF_SIZE
Booting == pc \in {"boot", "GuiInit"}

(* kbd_put, called by GuiKeyboardHandler from irq1_keyboard_handler.       *)
FullNever == FALSE
Full == After(kbd_head) = kbd_tail

Put(key) ==
  /\ \/ Full /\ UNCHANGED <<kbd_buf, kbd_head>>
     \/ /\ ~Full
        /\ kbd_buf' = [kbd_buf EXCEPT ![kbd_head] = key]
        /\ kbd_head' = After(kbd_head)
  /\ dropped' = (Full /\ ~Booting)
  /\ UNCHANGED <<kbd_tail, pc, c, got>>

(* GuiInit: kbd_head = kbd_tail = 0 is two stores.                         *)
ResetTail ==
  /\ pc = "boot"
  /\ pc' = "GuiInit"
  /\ kbd_tail' = 0
  /\ UNCHANGED <<kbd_buf, kbd_head, c, dropped, got>>

ResetHead ==
  /\ pc = "GuiInit"
  /\ pc' = "loop"
  /\ kbd_head' = 0
  /\ UNCHANGED <<kbd_buf, kbd_tail, c, dropped, got>>

(* kbd_getchar: the comparison and the load, then the store of the tail.   *)
GetNothing ==
  /\ pc = "loop"
  /\ kbd_head = kbd_tail
  /\ got' = NoKey
  /\ UNCHANGED <<kbd_buf, kbd_head, kbd_tail, pc, c, dropped>>

Load ==
  /\ pc = "loop"
  /\ kbd_head # kbd_tail
  /\ c' = kbd_buf[kbd_tail]
  /\ pc' = "advance"
  /\ UNCHANGED <<kbd_buf, kbd_head, kbd_tail, dropped, got>>

AdvanceReread == got' = kbd_buf[After(kbd_tail)]
Return == got' = c

Advance ==
  /\ pc = "advance"
  /\ kbd_tail' = After(kbd_tail)
  /\ Return
  /\ pc' = "loop"
  /\ UNCHANGED <<kbd_buf, kbd_head, c, dropped>>

GuiThread == ResetTail \/ ResetHead \/ GetNothing \/ Load \/ Advance

Next == GuiThread \/ \E key \in Keys : Put(key)

Spec == Init /\ [][Next]_vars

(* GuiMainLoop wakes at every tick and drains the buffer.                  *)
FairSpec == Spec /\ WF_vars(GuiThread)

-----------------------------------------------------------------------------
Count == (kbd_head - kbd_tail) % KBD_BUF_SIZE
Waiting ==
  IF Booting THEN <<>>
  ELSE [k \in 1 .. Count |-> kbd_buf[(kbd_tail + k - 1) % KBD_BUF_SIZE]]

Promise == INSTANCE LossyQueue
  WITH Capacity <- KBD_BUF_SIZE - 1, Events <- Keys, NoEvent <- NoKey, waiting <- Waiting

(* From GuiInit on, the console gets the keys in the order they were       *)
(* pressed, each once, loses one only when the buffer is full, and gets    *)
(* every other one in the end, wherever IRQ1 strikes.                      *)
ImplementsLossyQueue == Promise!FairSpec

(* The key kbd_getchar has loaded is still the one in the slot: IRQ1 never *)
(* overwrites it, and never makes the buffer look empty meanwhile.         *)
LoadedKeyStays ==
  pc = "advance" => kbd_head # kbd_tail /\ c = kbd_buf[kbd_tail] /\ c \in Keys

-----------------------------------------------------------------------------
(* The inductive invariant behind LoadedKeyStays.                          *)
Published(i) ==
  IF kbd_tail <= kbd_head THEN kbd_tail <= i /\ i < kbd_head
  ELSE kbd_tail <= i \/ i < kbd_head

TypeOK ==
  /\ kbd_buf \in [Slots -> Keys \cup {NoKey}]
  /\ kbd_head \in Slots
  /\ kbd_tail \in Slots
  /\ pc \in {"boot", "GuiInit", "loop", "advance"}
  /\ c \in Keys \cup {NoKey}
  /\ dropped \in BOOLEAN
  /\ got \in Keys \cup {NoKey}

TailReset == pc = "GuiInit" => kbd_tail = 0

IInv ==
  /\ TypeOK
  /\ TailReset
  /\ LoadedKeyStays
  /\ ~Booting => \A i \in Slots : Published(i) => kbd_buf[i] \in Keys
=============================================================================
