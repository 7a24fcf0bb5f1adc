------------------------------ MODULE Ps2Mouse ------------------------------
(***************************************************************************)
(* The mouse driver, drivers/input/ps2mouse.c: a mouse and a keyboard      *)
(* share the one-byte output buffer of the 8042 at port 0x60.  The mouse   *)
(* is polled by the GUI thread, with interrupts on; the keyboard is read   *)
(* by IRQ1, which may come between any two accesses of the GUI thread.     *)
(*                                                                         *)
(* A byte is known by where it comes from and its place in the packet;     *)
(* the code sees neither.  The movement the three bytes stand for is left  *)
(* out.  Requests of the mouse (IRQ12) stay masked at the 8259.            *)
(***************************************************************************)
EXTENDS Naturals, Sequences

Reply == [from |-> "reply", place |-> 0]
Part(k) == [from |-> "mouse", place |-> k]
ScanCode == [from |-> "keyboard", place |-> 0]
Packet == <<Part(1), Part(2), Part(3)>>

VARIABLES
  sending,   \* bytes the mouse has still to send, oldest first
  streaming, \* the mouse sends packets
  output,    \* the output buffer: empty or one byte
  port,      \* the last byte there was
  irq1,      \* latched by the 8259
  pc,        \* MouseInit, MouseRead or the rest of GuiMainLoop
  taken,     \* bytes MouseRead has taken; three of them it has applied
  inPlace,   \* each was the byte of the mouse that belongs there (an observer)
  smooth,    \* MouseInit got its replies, MouseRead met no key's byte (an observer)
  gaveUp     \* MouseRead has returned in the middle of a packet (an observer)

observers == <<smooth, gaveUp>>
packet == <<taken, inPlace>>
vars == <<sending, streaming, output, port, irq1, pc, packet, observers>>

(* kernel_main calls MouseInit with interrupts off.                        *)
InMouseInit == pc \in {"configure", "status", "reset", "ack", "passed", "id", "enable", "enabled"}

Init ==
  /\ sending = <<>>
  /\ streaming = FALSE
  /\ output = <<>>
  /\ port = Reply
  /\ irq1 = FALSE
  /\ pc = "configure"
  /\ taken = 0
  /\ inPlace = TRUE
  /\ smooth = TRUE
  /\ gaveUp = FALSE

-----------------------------------------------------------------------------
(* The hardware.  A byte enters the buffer when it is empty; the mouse     *)
(* sends a packet whenever it is moved.                                    *)
Deliver ==
  /\ output = <<>> /\ sending # <<>>
  /\ output' = <<Head(sending)>>
  /\ port' = Head(sending)
  /\ sending' = Tail(sending)
  /\ UNCHANGED <<streaming, irq1, pc, packet, observers>>

Move ==
  /\ streaming /\ sending = <<>>
  /\ sending' = Packet
  /\ UNCHANGED <<streaming, output, port, irq1, pc, packet, observers>>

KeyPressed ==
  /\ output = <<>>
  /\ output' = <<ScanCode>>
  /\ port' = ScanCode
  /\ irq1' = TRUE
  /\ UNCHANGED <<sending, streaming, pc, packet, observers>>

(* irq1_keyboard_handler reads the port, whatever is there, at any time    *)
(* after the request.                                                      *)
Irq1 ==
  /\ irq1 /\ ~InMouseInit
  /\ irq1' = FALSE
  /\ output' = <<>>
  /\ UNCHANGED <<sending, streaming, port, pc, packet, observers>>

-----------------------------------------------------------------------------
(* MouseInit: a command, or waiting for its answer and reading the port,   *)
(* after the timeout also when there is none.                              *)
Command(at, answer, next) ==
  /\ pc = at
  /\ sending' = sending \o answer
  /\ pc' = next
  /\ UNCHANGED <<output, port, irq1, packet, observers>>

(* inb(0x60) empties the buffer.  When it takes the byte of a key before   *)
(* IRQ1, the 8042 withdraws its request; an 8259 that keeps the edge still *)
(* delivers it.                                                            *)
Inb ==
  /\ output' = <<>>
  /\ irq1' \in IF output = <<ScanCode>> THEN {FALSE, irq1} ELSE {irq1}
  /\ UNCHANGED <<sending, port>>

MouseRead1(at, next) ==
  /\ pc = at
  /\ Inb
  /\ smooth' = (smooth /\ output = <<Reply>>)
  /\ pc' = next
  /\ UNCHANGED <<streaming, packet, gaveUp>>

MouseInit ==
  \/ Command("configure", <<Reply>>, "status") /\ UNCHANGED streaming
  \/ MouseRead1("status", "reset")
  \/ Command("reset", <<Reply, Reply, Reply>>, "ack") /\ streaming' = FALSE
  \/ MouseRead1("ack", "passed")
  \/ MouseRead1("passed", "id")
  \/ MouseRead1("id", "enable")
  \/ Command("enable", <<Reply>>, "enabled") /\ streaming' = TRUE
  \/ MouseRead1("enabled", "flags")

(* MouseRead, access by access: the status before each byte, and then the  *)
(* byte, or the last one there was when the buffer is empty by then.       *)
OutputFullOnce(at) == at # "flags" \/ output # <<>>
OutputFull(at) == output # <<>>

NothingThere(at) ==
  /\ pc = at
  /\ ~OutputFull(at)
  /\ pc' = "flags"
  /\ taken' = 0 /\ inPlace' = TRUE
  /\ gaveUp' = (gaveUp \/ at # "flags")
  /\ UNCHANGED <<sending, streaming, output, port, irq1, smooth>>

SomethingThere(at, next) ==
  /\ pc = at
  /\ OutputFull(at)
  /\ IF at = "flags" THEN taken' = 0 /\ inPlace' = TRUE ELSE UNCHANGED packet
  /\ smooth' = (smooth /\ output # <<ScanCode>>)
  /\ pc' = next
  /\ UNCHANGED <<sending, streaming, output, port, irq1, gaveUp>>

Take(at, next) ==
  /\ pc = at
  /\ Inb
  /\ taken' = taken + 1
  /\ inPlace' = (inPlace /\ port = Part(taken'))
  /\ pc' = next
  /\ UNCHANGED <<streaming, observers>>

MouseRead ==
  \/ \E at \in {"flags", "dx", "dy"} : NothingThere(at)
  \/ SomethingThere("flags", "take_flags") \/ Take("take_flags", "dx")
  \/ SomethingThere("dx", "take_dx") \/ Take("take_dx", "dy")
  \/ SomethingThere("dy", "take_dy") \/ Take("take_dy", "flags")

Next == Deliver \/ Move \/ KeyPressed \/ Irq1 \/ MouseInit \/ MouseRead

Spec == Init /\ [][Next]_vars

-----------------------------------------------------------------------------
Whole == taken = 3 => inPlace

(* Between the polls of MouseRead, its reads and IRQ1 at the shared port   *)
(* no byte of the mouse is lost, taken twice or taken by IRQ1: every three *)
(* bytes applied are a packet.  Excepted is what the code cannot tell: a   *)
(* MouseInit that did not get its replies, a packet that was not there in  *)
(* full, and a poll that found the byte of a key.                          *)
PromptPacketsWhole == smooth /\ ~gaveUp => Whole

(* The inductive invariant behind PromptPacketsWhole: what the mouse has   *)
(* still to send and the driver still to read, for every place of the      *)
(* driver.  The request of IRQ1 is pending as long as a scan code is in    *)
(* the buffer, and no longer: there is none between a poll that found a    *)
(* byte of the mouse and the read of that byte.                            *)
Buffered(bytes) == bytes # <<>> /\ output = <<Head(bytes)>> /\ ~irq1 /\ sending = Tail(bytes)

Incoming(bytes) ==
  \/ Buffered(bytes)
  \/ sending = bytes /\ output = <<>> /\ ~irq1
  \/ sending = bytes /\ output = <<ScanCode>> /\ irq1

Answers ==
  [configure |-> <<>>, status |-> <<Reply>>, reset |-> <<>>,
   ack |-> <<Reply, Reply, Reply>>, passed |-> <<Reply, Reply>>, id |-> <<Reply>>,
   enable |-> <<>>]

(* The mouse may have moved again when the last byte is in the buffer.     *)
NextBehind(last) == output = <<last>> /\ ~irq1 /\ sending = Packet

StreamInv ==
  /\ inPlace
  /\ InMouseInit => taken = 0
  /\ InMouseInit /\ pc # "enabled" => ~streaming /\ Incoming(Answers[pc])
  /\ pc = "enabled" => Incoming(<<Reply>>) \/ NextBehind(Reply)
  /\ pc = "flags" => taken \in {0, 3} /\ (Incoming(<<>>) \/ Incoming(Packet))
  /\ pc = "take_flags" => taken = 0 /\ Buffered(Packet)
  /\ pc = "dx" => taken = 1 /\ Incoming(<<Part(2), Part(3)>>)
  /\ pc = "take_dx" => taken = 1 /\ Buffered(<<Part(2), Part(3)>>)
  /\ pc = "dy" => taken = 2 /\ (Incoming(<<Part(3)>>) \/ NextBehind(Part(3)))
  /\ pc = "take_dy" => taken = 2 /\ (Buffered(<<Part(3)>>) \/ NextBehind(Part(3)))

PacketInv ==
  /\ InMouseInit \/ pc \in {"flags", "take_flags", "dx", "take_dx", "dy", "take_dy"}
  /\ output # <<>> => output = <<port>>
  /\ smooth /\ ~gaveUp => StreamInv

(* ps2mouse.c:95: what MouseRead applies is a packet of the mouse.  Stated *)
(* for a MouseInit that got its replies and without keys; the mouse and    *)
(* MouseRead alone can break it.                                           *)
PacketsWhole == smooth => Whole
=============================================================================
