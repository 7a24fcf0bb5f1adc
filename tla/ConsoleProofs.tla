--------------------------- MODULE ConsoleProofs ---------------------------
(***************************************************************************)
(* Theorems about KeyboardRing and about Console, which works behind it,   *)
(* for every size of the buffer and of the console, and every text.        *)
(***************************************************************************)
EXTENDS Console, CommonTheorems

(* The index arithmetic wraps once and only once.                          *)
LEMMA AfterCases ==
  ASSUME NEW i \in Slots
  PROVE  /\ After(i) = IF i + 1 = KBD_BUF_SIZE THEN 0 ELSE i + 1
         /\ After(i) \in Slots
<1>1. After(i) = IF i + 1 = KBD_BUF_SIZE THEN 0 ELSE i + 1
  BY SuccessorCases, SizeAssumption DEF After, Slots, Successor
<1> QED
  BY <1>1, SizeAssumption DEF Slots

(* Before GuiInit nothing is claimed about the buffer.                     *)
LEMMA InitInv == Init => IInv
<1> SUFFICES ASSUME Init PROVE IInv
  OBVIOUS
<1>1. 0 \in Slots
  BY SizeAssumption DEF Slots
<1>2. TypeOK
  BY <1>1 DEF Init, TypeOK
<1>3. LoadedKeyStays /\ TailReset /\ Booting
  BY DEF Init, LoadedKeyStays, TailReset, Booting
<1> QED
  BY <1>2, <1>3 DEF IInv

(* IRQ1, at any time: it writes a slot that is not published, and moves    *)
(* the head past that slot only.                                           *)
LEMMA PutInv ==
  ASSUME IInv, NEW key \in Keys, Put(key)
  PROVE  IInv'
<1> USE DEF IInv, Put
<1>1. /\ kbd_head \in Slots /\ kbd_tail \in Slots /\ kbd_buf \in [Slots -> Keys \cup {NoKey}]
      /\ UNCHANGED <<kbd_tail, pc, c, got>> /\ Booting' = Booting
  BY DEF TypeOK, Booting
<1>2. dropped' \in BOOLEAN
  BY DEF Booting
<1>3. CASE Full /\ UNCHANGED <<kbd_buf, kbd_head>>
  BY <1>1, <1>2, <1>3 DEF TypeOK, LoadedKeyStays, TailReset, Published
<1>4. CASE /\ ~Full
           /\ kbd_buf' = [kbd_buf EXCEPT ![kbd_head] = key]
           /\ kbd_head' = After(kbd_head)
  <2>1. /\ kbd_head' = IF kbd_head + 1 = KBD_BUF_SIZE THEN 0 ELSE kbd_head + 1
        /\ kbd_head' \in Slots /\ kbd_head' # kbd_tail
    BY <1>1, <1>4, AfterCases DEF Full
  <2>2. TypeOK'
    BY <1>1, <1>2, <1>4, <2>1 DEF TypeOK
  <2>3. LoadedKeyStays' /\ TailReset'
    BY <1>1, <1>4, <2>1 DEF LoadedKeyStays, TailReset
  <2>4. \A i \in Slots : Published(i)' => Published(i) \/ i = kbd_head
    BY <1>1, <2>1, SizeAssumption DEF Published, Slots
  <2>5. \A i \in Slots : i # kbd_head => kbd_buf'[i] = kbd_buf[i]
    BY <1>1, <1>4
  <2>6. kbd_buf'[kbd_head] = key
    BY <1>1, <1>4
  <2> QED
    BY <1>1, <2>2, <2>3, <2>4, <2>5, <2>6
<1> QED
  BY <1>3, <1>4

(* The GUI thread: GuiInit leaves the buffer empty, kbd_getchar loads a    *)
(* published slot and gives up no other.                                   *)
LEMMA GuiThreadInv == IInv /\ GuiThread => IInv'
<1> SUFFICES ASSUME IInv, GuiThread PROVE IInv'
  OBVIOUS
<1> USE DEF IInv
<1>1. /\ kbd_head \in Slots /\ kbd_tail \in Slots /\ kbd_buf \in [Slots -> Keys \cup {NoKey}]
      /\ 0 \in Slots
  BY SizeAssumption DEF TypeOK, Slots
<1>2. CASE ResetTail
  BY <1>1, <1>2 DEF ResetTail, TypeOK, LoadedKeyStays, TailReset, Booting
<1>3. CASE ResetHead
  <2>1. kbd_tail = 0 => \A i \in Slots : ~Published(i)'
    BY <1>3 DEF ResetHead, Published, Slots
  <2>2. kbd_tail = 0
    BY <1>3 DEF ResetHead, TailReset
  <2> QED
    BY <1>1, <1>3, <2>1, <2>2 DEF ResetHead, TypeOK, LoadedKeyStays, TailReset, Booting
<1>4. CASE GetNothing
  BY <1>1, <1>4 DEF GetNothing, TypeOK, LoadedKeyStays, TailReset, Booting, Published
<1>5. CASE Load
  <2>1. Published(kbd_tail) /\ ~Booting
    BY <1>1, <1>5 DEF Load, Published, Booting, Slots
  <2> QED
    BY <1>1, <1>5, <2>1 DEF Load, TypeOK, LoadedKeyStays, TailReset, Booting, Published
<1>6. CASE Advance
  <2>1. /\ kbd_tail' = IF kbd_tail + 1 = KBD_BUF_SIZE THEN 0 ELSE kbd_tail + 1
        /\ kbd_tail' \in Slots /\ kbd_head # kbd_tail
    BY <1>1, <1>6, AfterCases DEF Advance, LoadedKeyStays
  <2>2. \A i \in Slots : Published(i)' => Published(i)
    BY <1>1, <1>6, <2>1, SizeAssumption DEF Advance, Published, Slots
  <2> QED
    BY <1>1, <1>6, <2>1, <2>2 DEF Advance, Return, TypeOK, LoadedKeyStays, TailReset, Booting
<1> QED
  BY <1>2, <1>3, <1>4, <1>5, <1>6 DEF GuiThread

(* Every step keeps the inductive invariant.                               *)
LEMMA NextInv == IInv /\ [Next]_vars => IInv'
<1> SUFFICES ASSUME IInv, [Next]_vars PROVE IInv'
  OBVIOUS
<1>1. CASE UNCHANGED vars
  BY <1>1 DEF vars, IInv, TypeOK, LoadedKeyStays, TailReset, Booting, Published
<1>2. CASE Next
  BY <1>2, PutInv, GuiThreadInv DEF Next
<1> QED
  BY <1>1, <1>2

(* Between the load of a key and the store of the tail, IRQ1 may strike    *)
(* any number of times: the key stays in its slot and the buffer does not  *)
(* come to look empty, for every size of the buffer.                       *)
THEOREM LoadedKeyStaysAlways == Spec => []LoadedKeyStays
<1>1. IInv => LoadedKeyStays
  BY DEF IInv
<1> QED
  BY <1>1, InitInv, NextInv, PTL DEF Spec

-----------------------------------------------------------------------------
(* What waits in the buffer, in the terms of CommonTheorems.               *)
LEMMA WaitingContent ==
  /\ Waiting = IF Booting THEN <<>> ELSE Content(KBD_BUF_SIZE, kbd_buf, kbd_head, kbd_tail)
  /\ Waiting' = IF Booting' THEN <<>> ELSE Content(KBD_BUF_SIZE, kbd_buf', kbd_head', kbd_tail')
BY DEF Waiting, Count, Content, Span, Place

(* Nothing is reported lost before GuiInit.                                *)
NothingDropped == Booting => dropped = FALSE

LEMMA NothingDroppedAlways == Spec => []NothingDropped
<1>1. Init => NothingDropped
  BY DEF Init, NothingDropped
<1>2. NothingDropped /\ [Next]_vars => NothingDropped'
  BY DEF NothingDropped, Next, vars, Put, Booting, GuiThread, ResetTail, ResetHead,
         GetNothing, Load, Advance
<1> QED
  BY <1>1, <1>2, PTL DEF Spec

(* IRQ1 accepts the key, or discards it if the buffer is full.             *)
LEMMA PutAccepts ==
  ASSUME IInv, NothingDropped, NEW key \in Keys, Put(key)
  PROVE  [Promise!Next]_<<Waiting, dropped, got>>
<1>1. /\ KBD_BUF_SIZE \in Nat \ {0} /\ kbd_head \in 0 .. KBD_BUF_SIZE - 1
      /\ kbd_tail \in 0 .. KBD_BUF_SIZE - 1
      /\ kbd_buf \in [0 .. KBD_BUF_SIZE - 1 -> Keys \cup {NoKey}]
      /\ kbd_tail' = kbd_tail /\ got' = got /\ (Booting' <=> Booting)
  BY SizeAssumption DEF IInv, TypeOK, Slots, Put, Booting
<1>2. CASE Booting
  BY <1>1, <1>2, WaitingContent DEF NothingDropped, Put
<1>3. CASE ~Booting
  <2>1. /\ Len(Waiting) = Span(KBD_BUF_SIZE, kbd_head, kbd_tail)
    BY <1>1, <1>3, WaitingContent, ContentIsSequence
  <2>2. Span(KBD_BUF_SIZE, kbd_head, kbd_tail) \in 0 .. KBD_BUF_SIZE - 1
    BY <1>1, SpanBounds
  <2>3. Span(KBD_BUF_SIZE, kbd_head, kbd_tail) = KBD_BUF_SIZE - 1 <=> Full
    BY <1>1, SpanBounds DEF Full, After, Successor
  <2>4. CASE Full
    <3>1. kbd_buf' = kbd_buf /\ kbd_head' = kbd_head /\ dropped' = TRUE
      BY <1>3, <2>4 DEF Put
    <3>2. Waiting' = Waiting
      BY <1>1, <3>1, WaitingContent
    <3>3. Promise!Discard
      BY <1>1, <2>1, <2>3, <2>4, <3>1, <3>2 DEF Promise!Discard
    <3> QED
      BY <3>3 DEF Promise!Next
  <2>5. CASE ~Full
    <3>1. /\ kbd_head' = Successor(KBD_BUF_SIZE, kbd_head) /\ kbd_head' # kbd_tail
          /\ dropped' = FALSE
      BY <2>5 DEF Put, Full, After, Successor
    <3>2. kbd_buf'[kbd_head] = key /\ SameBut(KBD_BUF_SIZE, kbd_buf', kbd_buf, kbd_head)
      BY <1>1, <2>5 DEF Put, SameBut
    <3>3. Content(KBD_BUF_SIZE, kbd_buf', kbd_head', kbd_tail) =
            Append(Content(KBD_BUF_SIZE, kbd_buf', kbd_head, kbd_tail), kbd_buf'[kbd_head])
      BY <1>1, <3>1, ContentAppend
    <3>4. Content(KBD_BUF_SIZE, kbd_buf', kbd_head, kbd_tail) =
            Content(KBD_BUF_SIZE, kbd_buf, kbd_head, kbd_tail)
      BY <1>1, <3>2, ContentElsewhere
    <3>5. Waiting' = Append(Waiting, key)
      BY <1>1, <1>3, <3>2, <3>3, <3>4, WaitingContent
    <3>6. Len(Waiting) < KBD_BUF_SIZE - 1
      BY <1>1, <2>1, <2>2, <2>3, <2>5
    <3>7. Promise!Accept(key)
      BY <1>1, <3>1, <3>5, <3>6 DEF Promise!Accept
    <3> QED
      BY <3>7 DEF Promise!Next
  <2> QED
    BY <2>4, <2>5
<1> QED
  BY <1>2, <1>3

(* The GUI thread takes the oldest key when it stores the tail; GuiInit    *)
(* starts with an empty queue.                                             *)
LEMMA GuiThreadTakes ==
  ASSUME IInv, GuiThread
  PROVE  [Promise!Next]_<<Waiting, dropped, got>>
<1>1. /\ KBD_BUF_SIZE \in Nat \ {0} /\ kbd_head \in 0 .. KBD_BUF_SIZE - 1
      /\ kbd_tail \in 0 .. KBD_BUF_SIZE - 1 /\ 0 \in 0 .. KBD_BUF_SIZE - 1
      /\ kbd_buf \in [0 .. KBD_BUF_SIZE - 1 -> Keys \cup {NoKey}]
  BY SizeAssumption DEF IInv, TypeOK, Slots
<1>2. CASE ResetTail
  BY <1>2, WaitingContent DEF ResetTail, Booting
<1>3. CASE ResetHead
  <2>1. Booting /\ ~Booting' /\ kbd_head' = 0 /\ kbd_tail' = 0 /\ UNCHANGED <<kbd_buf, dropped, got>>
    BY <1>3 DEF ResetHead, IInv, TailReset, Booting
  <2>2. Content(KBD_BUF_SIZE, kbd_buf, 0, 0) = <<>>
    BY <1>1, ContentEmpty
  <2> QED
    BY <2>1, <2>2, WaitingContent
<1>4. CASE GetNothing
  <2>1. /\ ~Booting /\ ~Booting' /\ kbd_head = kbd_tail /\ got' = NoKey
        /\ UNCHANGED <<kbd_buf, kbd_head, kbd_tail, dropped>>
    BY <1>4 DEF GetNothing, Booting
  <2>2. Waiting = <<>> /\ Waiting' = Waiting
    BY <1>1, <2>1, ContentEmpty, WaitingContent
  <2>3. Promise!NothingThere
    BY <2>1, <2>2 DEF Promise!NothingThere
  <2> QED
    BY <2>3 DEF Promise!Next
<1>5. CASE Load
  BY <1>5, WaitingContent DEF Load, Booting
<1>6. CASE Advance
  <2>1. /\ ~Booting /\ ~Booting' /\ kbd_tail' = Successor(KBD_BUF_SIZE, kbd_tail)
        /\ kbd_head # kbd_tail /\ got' = kbd_buf[kbd_tail]
        /\ UNCHANGED <<kbd_buf, kbd_head, dropped>>
    BY <1>6 DEF Advance, Return, After, Successor, Booting, IInv, LoadedKeyStays
  <2>2. Waiting # <<>>
    BY <1>1, <2>1, ContentEmpty, WaitingContent
  <2>3. Head(Waiting) = got' /\ Waiting' = Tail(Waiting)
    BY <1>1, <2>1, ContentTail, WaitingContent
  <2>4. Promise!Take
    BY <2>1, <2>2, <2>3 DEF Promise!Take
  <2> QED
    BY <2>4 DEF Promise!Next
<1> QED
  BY <1>2, <1>3, <1>4, <1>5, <1>6 DEF GuiThread

(* The safety part of ImplementsLossyQueue, for every size of the buffer:  *)
(* the console gets the keys in the order they were pressed, each once,    *)
(* and one is lost only when the buffer is full.                           *)
THEOREM KeyboardRingIsQueue == Spec => Promise!Spec
<1>1. Init => Promise!Init
  BY WaitingContent DEF Init, Booting, Promise!Init
<1>2. IInv /\ NothingDropped /\ [Next]_vars => [Promise!Next]_<<Waiting, dropped, got>>
  <2>1. CASE UNCHANGED vars
    BY <2>1, WaitingContent DEF vars, Booting
  <2> QED
    BY <2>1, PutAccepts, GuiThreadTakes DEF Next
<1> QED
  BY <1>1, <1>2, InitInv, NextInv, NothingDroppedAlways, PTL DEF Spec, Promise!Spec

-----------------------------------------------------------------------------
(* The last rows of a text, one by one.                                    *)
LEMMA LastRowsFacts ==
  ASSUME NEW S, NEW x \in Seq(S)
  PROVE  /\ User!LastRows(x) \in Seq(S)
         /\ Len(User!LastRows(x)) = IF Len(x) > CONS_ROWS THEN CONS_ROWS ELSE Len(x)
         /\ \A k \in 1 .. Len(User!LastRows(x)) :
              User!LastRows(x)[k] = x[Len(x) - Len(User!LastRows(x)) + k]
<1> DEFINE m == IF Len(x) > CONS_ROWS THEN Len(x) - CONS_ROWS + 1 ELSE 1
           w == SubSeq(x, m, Len(x))
<1>1. CONS_ROWS \in Nat \ {0} /\ Len(x) \in Nat
  BY ConsoleAssumption
<1>2. m \in 1 .. Len(x) + 1
  BY <1>1
<1>3. w \in Seq(S) /\ Len(w) = (IF m <= Len(x) THEN Len(x) - m + 1 ELSE 0)
  BY <1>1, <1>2, SubSeqProperties
<1>4. \A k \in 1 .. Len(x) - m + 1 : w[k] = x[m + k - 1]
  BY <1>1, <1>2, SubSeqProperties
<1>5. m = IF Len(x) > CONS_ROWS THEN Len(x) - CONS_ROWS + 1 ELSE 1
  OBVIOUS
<1>6. w = User!LastRows(x)
  BY DEF User!LastRows
<1> HIDE DEF m, w
<1>7. Len(w) = Len(x) - m + 1 /\ Len(w) = IF Len(x) > CONS_ROWS THEN CONS_ROWS ELSE Len(x)
  <2>2. PICK l \in Nat, n \in Nat : l = Len(x) /\ n = CONS_ROWS /\ n > 0
    BY <1>1
  <2>3. m \in 1 .. l + 1 /\ m = IF l > n THEN l - n + 1 ELSE 1
    BY <1>2, <1>5, <2>2
  <2>4. Len(w) = IF m <= l THEN l - m + 1 ELSE 0
    BY <1>3, <2>2
  <2>5. Len(w) = l - m + 1 /\ Len(w) = IF l > n THEN n ELSE l
    <3>1. CASE l > n
      <4>1. m = l - n + 1 /\ m <= l
        BY <2>2, <2>3, <3>1
      <4>2. Len(w) = l - m + 1 /\ l - m + 1 = n
        BY <2>2, <2>4, <4>1
      <4> QED
        BY <3>1, <4>2
    <3>2. CASE ~(l > n)
      <4>1. m = 1
        BY <2>3, <3>2
      <4>2. Len(w) = IF 1 <= l THEN l ELSE 0
        BY <2>2, <2>4, <4>1
      <4>3. Len(w) = l /\ l - m + 1 = l
        BY <2>2, <4>1, <4>2
      <4> QED
        BY <3>2, <4>3
    <3> QED
      BY <3>1, <3>2
  <2> QED
    BY <2>2, <2>5
<1>8. ASSUME NEW k \in 1 .. Len(w) PROVE w[k] = x[Len(x) - Len(w) + k]
  <2>1. m + k - 1 = Len(x) - Len(w) + k
    BY <1>1, <1>2, <1>7
  <2> QED
    BY <1>4, <1>7, <2>1
<1> QED
  BY <1>3, <1>6, <1>7, <1>8

(* A text that fits is kept whole.                                         *)
LEMMA LastRowsShort ==
  ASSUME NEW S, NEW x \in Seq(S), Len(x) <= CONS_ROWS
  PROVE  User!LastRows(x) = x
<1> DEFINE u == User!LastRows(x)
<1>1. /\ u \in Seq(S)
      /\ Len(u) = IF Len(x) > CONS_ROWS THEN CONS_ROWS ELSE Len(x)
      /\ \A k \in 1 .. Len(u) : u[k] = x[Len(x) - Len(u) + k]
  BY LastRowsFacts
<1> HIDE DEF u
<1>2. Len(u) = Len(x) /\ Len(x) \in Nat /\ CONS_ROWS \in Nat
  BY <1>1, ConsoleAssumption
<1>3. ASSUME NEW k \in 1 .. Len(u) PROVE u[k] = x[k]
  <2>1. Len(x) - Len(u) + k = k
    BY <1>2
  <2> QED
    BY <1>1, <2>1
<1> QED
  BY <1>1, <1>2, <1>3, SeqEqual DEF u

(* What has scrolled away never comes back.                                *)
LEMMA LastRowsConcat ==
  ASSUME NEW S, NEW x \in Seq(S), NEW y \in Seq(S)
  PROVE  User!LastRows(User!LastRows(x) \o y) = User!LastRows(x \o y)
<1> DEFINE r == User!LastRows(x)
           u == User!LastRows(r \o y)
           v == User!LastRows(x \o y)
<1>1. /\ r \in Seq(S)
      /\ Len(r) = IF Len(x) > CONS_ROWS THEN CONS_ROWS ELSE Len(x)
      /\ \A k \in 1 .. Len(r) : r[k] = x[Len(x) - Len(r) + k]
  BY LastRowsFacts
<1>2. CONS_ROWS \in Nat \ {0} /\ Len(x) \in Nat /\ Len(y) \in Nat /\ Len(r) \in Nat
  BY <1>1, ConsoleAssumption
<1> HIDE DEF r
<1>3. /\ x \o y \in Seq(S) /\ Len(x \o y) = Len(x) + Len(y)
      /\ \A k \in 1 .. Len(x) : (x \o y)[k] = x[k]
      /\ \A k \in 1 .. Len(y) : (x \o y)[Len(x) + k] = y[k]
  BY ConcatParts
<1>4. /\ r \o y \in Seq(S) /\ Len(r \o y) = Len(r) + Len(y)
      /\ \A k \in 1 .. Len(r) : (r \o y)[k] = r[k]
      /\ \A k \in 1 .. Len(y) : (r \o y)[Len(r) + k] = y[k]
  <2>1. r \in Seq(S)
    BY <1>1
  <2> QED
    BY <2>1, ConcatParts
<1>5. /\ u \in Seq(S)
      /\ Len(u) = IF Len(r \o y) > CONS_ROWS THEN CONS_ROWS ELSE Len(r \o y)
      /\ \A k \in 1 .. Len(u) : u[k] = (r \o y)[Len(r \o y) - Len(u) + k]
  BY <1>4, LastRowsFacts
<1>6. /\ v \in Seq(S)
      /\ Len(v) = IF Len(x \o y) > CONS_ROWS THEN CONS_ROWS ELSE Len(x \o y)
      /\ \A k \in 1 .. Len(v) : v[k] = (x \o y)[Len(x \o y) - Len(v) + k]
  BY <1>3, LastRowsFacts
<1> HIDE DEF u, v
<1>7. /\ Len(u) = Len(v) /\ Len(u) \in Nat
      /\ Len(u) <= Len(r) + Len(y) /\ Len(u) <= Len(x) + Len(y) /\ Len(r) <= Len(x)
  BY <1>1, <1>2, <1>3, <1>4, <1>5, <1>6
<1>8. ASSUME NEW k \in 1 .. Len(u) PROVE u[k] = v[k]
  <2> DEFINE i == Len(r) + Len(y) - Len(u) + k
             j == Len(x) + Len(y) - Len(u) + k
  <2>1. u[k] = (r \o y)[i] /\ v[k] = (x \o y)[j]
    <3>1. Len(r \o y) - Len(u) + k = i /\ Len(x \o y) - Len(v) + k = j
      BY <1>3, <1>4, <1>7
    <3>2. k \in 1 .. Len(v)
      BY <1>7
    <3> HIDE DEF i, j
    <3> QED
      BY <1>5, <1>6, <3>1, <3>2
  <2>2. /\ i \in 1 .. Len(r) + Len(y) /\ j = i + Len(x) - Len(r)
    BY <1>2, <1>7
  <2> HIDE DEF i, j
  <2>3. CASE i <= Len(r)
    <3>1. i \in 1 .. Len(r) /\ j \in 1 .. Len(x) /\ Len(x) - Len(r) + i = j
      BY <1>2, <1>7, <2>2, <2>3
    <3>2. (r \o y)[i] = r[i] /\ r[i] = x[Len(x) - Len(r) + i] /\ (x \o y)[j] = x[j]
      BY <1>1, <1>3, <1>4, <3>1
    <3> QED
      BY <2>1, <3>1, <3>2
  <2>4. CASE i > Len(r)
    <3>1. PICK n \in 1 .. Len(y) : i = Len(r) + n /\ j = Len(x) + n
      <4>1. i - Len(r) \in 1 .. Len(y) /\ i = Len(r) + (i - Len(r)) /\ j = Len(x) + (i - Len(r))
        BY <1>2, <1>7, <2>2, <2>4
      <4> QED
        BY <4>1
    <3> QED
      BY <1>3, <1>4, <2>1, <3>1
  <2> QED
    BY <1>2, <2>2, <2>3, <2>4
<1> QED
  BY <1>5, <1>6, <1>7, <1>8, SeqEqual DEF u, v, r

(* Cutting a text.                                                         *)
LEMMA CutFacts ==
  ASSUME NEW S, NEW x \in Seq(S), NEW n \in Nat
  PROVE  /\ Cut(x, n) \in Seq(S)
         /\ Len(Cut(x, n)) = IF Len(x) < n THEN Len(x) ELSE n
         /\ Len(x) <= n => Cut(x, n) = x
<1> DEFINE m == IF Len(x) < n THEN Len(x) ELSE n
           w == SubSeq(x, 1, m)
<1>1. Len(x) \in Nat /\ m \in 0 .. Len(x) /\ (Len(x) <= n => m = Len(x))
  OBVIOUS
<1> HIDE DEF m
<1>2. /\ w \in Seq(S) /\ Len(w) = m
      /\ \A i \in 1 .. m : w[i] = x[i]
  <2>1. /\ w \in Seq(S) /\ Len(w) = (IF 1 <= m THEN m - 1 + 1 ELSE 0)
        /\ \A i \in 1 .. m - 1 + 1 : w[i] = x[1 + i - 1]
    BY <1>1, SubSeqProperties
  <2> QED
    BY <1>1, <2>1
<1> HIDE DEF w
<1>3. m = Len(x) => w = x
  BY <1>1, <1>2, SeqEqual
<1> QED
  BY <1>1, <1>2, <1>3 DEF Cut, m, w

(* A line cut to the width ConsolePrint leaves it is not cut again.        *)
LEMMA CutTwice ==
  ASSUME NEW S, NEW x \in Seq(S)
  PROVE  Cut(Cut(x, CONS_COLS - 1), CONS_COLS) = Cut(x, CONS_COLS - 1)
<1>1. CONS_COLS \in Nat \ {0} /\ CONS_COLS - 1 \in Nat /\ Len(x) \in Nat
  BY ConsoleAssumption
<1>2. /\ Cut(x, CONS_COLS - 1) \in Seq(S)
      /\ Len(Cut(x, CONS_COLS - 1)) = IF Len(x) < CONS_COLS - 1 THEN Len(x) ELSE CONS_COLS - 1
  BY <1>1, CutFacts
<1>3. Len(Cut(x, CONS_COLS - 1)) <= CONS_COLS
  BY <1>1, <1>2
<1> QED
  BY <1>1, <1>2, <1>3, CutFacts

-----------------------------------------------------------------------------
(* The console and its window, whatever the console has been given.        *)
Consoles ==
  [history : [Rows -> Seq(Chars)], start : Rows, count : 0 .. CONS_ROWS,
   input : Seq(Chars), active : BOOLEAN,
   window : [lines : Seq(Seq(Chars)), prompt : Seq(Chars)]]

Current(s) ==
  IF s.active
  THEN /\ s.window.lines = Lines(s)
       /\ s.input # <<>> => s.window.prompt = s.input
  ELSE s.window = Closed

(* The fields of a console.                                                *)
LEMMA ConsoleFields ==
  ASSUME NEW s
  PROVE  s \in Consoles =>
         /\ s.history \in [Rows -> Seq(Chars)] /\ s.start \in Rows
         /\ s.count \in 0 .. CONS_ROWS /\ s.input \in Seq(Chars) /\ s.active \in BOOLEAN
         /\ s.window \in [lines : Seq(Seq(Chars)), prompt : Seq(Chars)]
BY DEF Consoles

(* The lines are the rows of the ring from the oldest on.                  *)
LEMMA LinesFacts ==
  ASSUME NEW s \in Consoles
  PROVE  /\ Lines(s) \in Seq(Seq(Chars)) /\ Len(Lines(s)) = s.count
         /\ \A k \in 1 .. s.count : Lines(s)[k] = s.history[Place(CONS_ROWS, s.start, k)]
<1>1. /\ CONS_ROWS \in Nat \ {0} /\ s.start \in 0 .. CONS_ROWS - 1 /\ s.count \in 0 .. CONS_ROWS
      /\ s.history \in [0 .. CONS_ROWS - 1 -> Seq(Chars)]
  BY ConsoleAssumption, ConsoleFields DEF Rows
<1>2. ASSUME NEW k \in 1 .. s.count
      PROVE  /\ (s.start + k - 1) % CONS_ROWS = Place(CONS_ROWS, s.start, k)
             /\ s.history[(s.start + k - 1) % CONS_ROWS] \in Seq(Chars)
  <2>1. (s.start + k - 1) % CONS_ROWS \in 0 .. CONS_ROWS - 1
    BY <1>1
  <2> QED
    BY <1>1, <2>1 DEF Place
<1>3. Lines(s) = [k \in 1 .. s.count |-> s.history[(s.start + k - 1) % CONS_ROWS]]
  BY DEF Lines
<1>4. s.count \in Nat
  BY <1>1
<1>5. Lines(s) \in Seq(Seq(Chars))
  BY <1>2, <1>3, <1>4, IsASeq
<1>6. Lines(s) \in [1 .. s.count -> Seq(Chars)]
  BY <1>2, <1>3
<1>7. Len(Lines(s)) = s.count
  BY <1>4, <1>5, <1>6, LenProperties
<1> QED
  BY <1>2, <1>3, <1>5, <1>7

(* Redrawing changes the window only, and makes it current.                *)
LEMMA RedrawnFacts ==
  ASSUME NEW s \in Consoles
  PROVE  /\ Redrawn(s) \in Consoles
         /\ Redrawn(s).active = s.active /\ Redrawn(s).input = s.input
         /\ Lines(Redrawn(s)) = Lines(s)
         /\ s.active \/ Current(s) => Current(Redrawn(s))
<1>1. CASE ~s.active
  BY <1>1 DEF Redrawn
<1>2. CASE s.active
  <2> DEFINE w == [lines |-> Lines(s), prompt |-> s.input]
  <2>1. w \in [lines : Seq(Seq(Chars)), prompt : Seq(Chars)]
    BY LinesFacts, ConsoleFields
  <2>2. w.lines = Lines(s) /\ w.prompt = s.input
    OBVIOUS
  <2>3. Redrawn(s) = [s EXCEPT !.window = w]
    BY <1>2 DEF Redrawn
  <2> HIDE DEF w
  <2>4. PICK t : t = [s EXCEPT !.window = w]
    OBVIOUS
  <2>5. t \in Consoles
    BY <2>1, <2>4 DEF Consoles
  <2>6. /\ t.active = s.active /\ t.input = s.input /\ t.history = s.history
        /\ t.start = s.start /\ t.count = s.count /\ t.window = w
    BY <2>4 DEF Consoles
  <2>7. Lines(t) = Lines(s)
    BY <2>6 DEF Lines
  <2>8. Current(t)
    BY <1>2, <2>2, <2>6, <2>7 DEF Current
  <2> QED
    BY <2>3, <2>4, <2>5, <2>6, <2>7, <2>8
<1> QED
  BY <1>1, <1>2, ConsoleFields

(* Two rows of the ring are two places.                                    *)
LEMMA PlacesDiffer ==
  ASSUME NEW N \in Nat \ {0}, NEW t \in 0 .. N - 1, NEW k \in 1 .. N, NEW j \in 1 .. N
  PROVE  /\ Place(N, t, k) \in 0 .. N - 1
         /\ Place(N, t, k) = Place(N, t, j) => k = j
<1>1. Place(N, t, k) = IF t + k - 1 < N THEN t + k - 1 ELSE t + k - 1 - N
  BY PlaceCases
<1>2. Place(N, t, j) = IF t + j - 1 < N THEN t + j - 1 ELSE t + j - 1 - N
  BY PlaceCases
<1> QED
  BY <1>1, <1>2

LEMMA PlaceAfterSuccessor ==
  ASSUME NEW N \in Nat \ {0}, NEW t \in 0 .. N - 1, NEW k \in 1 .. N
  PROVE  /\ Successor(N, t) \in 0 .. N - 1
         /\ k < N => Place(N, Successor(N, t), k) = Place(N, t, k + 1)
         /\ k = N => Place(N, Successor(N, t), k) = t
         /\ Place(N, t, 1) = t
<1> DEFINE g == Successor(N, t)
<1>1. g = IF t + 1 = N THEN 0 ELSE t + 1
  BY SuccessorCases
<1> HIDE DEF g
<1>2. g \in 0 .. N - 1
  BY <1>1
<1>3. Place(N, g, k) = IF g + k - 1 < N THEN g + k - 1 ELSE g + k - 1 - N
  BY <1>2, PlaceCases
<1>4. k < N => Place(N, t, k + 1) = IF t + k < N THEN t + k ELSE t + k - N
  <2>1. k < N => k + 1 \in 1 .. N /\ t + (k + 1) - 1 = t + k
    OBVIOUS
  <2>2. ASSUME k < N PROVE Place(N, t, k + 1) = IF t + (k + 1) - 1 < N THEN t + (k + 1) - 1 ELSE t + (k + 1) - 1 - N
    BY <2>1, <2>2, PlaceCases
  <2> QED
    BY <2>1, <2>2
<1>5. Place(N, t, 1) = t
  <2>1. 1 \in 1 .. N /\ t + 1 - 1 = t
    OBVIOUS
  <2>2. Place(N, t, 1) = IF t + 1 - 1 < N THEN t + 1 - 1 ELSE t + 1 - 1 - N
    BY <2>1, PlaceCases
  <2> QED
    BY <2>1, <2>2
<1>6. k < N => Place(N, g, k) = Place(N, t, k + 1)
  BY <1>1, <1>2, <1>3, <1>4
<1>7. k = N => Place(N, g, k) = t
  BY <1>1, <1>2, <1>3
<1> QED
  BY <1>2, <1>5, <1>6, <1>7 DEF g

(* A line that fits takes the next free row.                               *)
LEMMA FreeRow ==
  ASSUME NEW s \in Consoles, s.count < CONS_ROWS, NEW text \in Seq(Chars), NEW t,
         t = [s EXCEPT !.history[(s.start + s.count) % CONS_ROWS] = text, !.count = @ + 1]
  PROVE  /\ t \in Consoles /\ t.active = s.active /\ t.input = s.input /\ t.window = s.window
         /\ Lines(t) = Append(Lines(s), text)
<1> DEFINE idx == (s.start + s.count) % CONS_ROWS
<1>1. /\ CONS_ROWS \in Nat \ {0} /\ s.start \in 0 .. CONS_ROWS - 1 /\ s.count \in 0 .. CONS_ROWS
      /\ s.history \in [0 .. CONS_ROWS - 1 -> Seq(Chars)] /\ Rows = 0 .. CONS_ROWS - 1
  BY ConsoleAssumption, ConsoleFields DEF Rows
<1>2. s.count + 1 \in 1 .. CONS_ROWS /\ idx = Place(CONS_ROWS, s.start, s.count + 1)
  <2>1. s.start + (s.count + 1) - 1 = s.start + s.count /\ s.count + 1 \in 1 .. CONS_ROWS
    BY <1>1
  <2> QED
    BY <2>1 DEF Place
<1>3. idx \in 0 .. CONS_ROWS - 1
  BY <1>1, <1>2, PlacesDiffer
<1>4. t = [s EXCEPT !.history[idx] = text, !.count = @ + 1]
  OBVIOUS
<1> HIDE DEF idx
<1>5. PICK h : h = [s.history EXCEPT ![idx] = text]
  OBVIOUS
<1>6. /\ h \in [0 .. CONS_ROWS - 1 -> Seq(Chars)] /\ h[idx] = text
      /\ \A i \in 0 .. CONS_ROWS - 1 : i # idx => h[i] = s.history[i]
  BY <1>1, <1>3, <1>5
<1>7. /\ t.history = h /\ t.count = s.count + 1 /\ t.start = s.start
      /\ t.active = s.active /\ t.input = s.input /\ t.window = s.window
  BY <1>4, <1>5 DEF Consoles
<1>8. t \in Consoles
  <2>1. h \in [Rows -> Seq(Chars)] /\ s.count + 1 \in 0 .. CONS_ROWS
    BY <1>1, <1>2, <1>6
  <2>2. t = [[s EXCEPT !.history = h] EXCEPT !.count = s.count + 1]
    BY <1>4, <1>5 DEF Consoles
  <2> QED
    BY <2>1, <2>2 DEF Consoles
<1> DEFINE x == Lines(s)
           y == Lines(t)
           z == Append(x, text)
<1>9. /\ x \in Seq(Seq(Chars)) /\ Len(x) = s.count
      /\ \A k \in 1 .. s.count : x[k] = s.history[Place(CONS_ROWS, s.start, k)]
  BY LinesFacts
<1>10. /\ y \in Seq(Seq(Chars)) /\ Len(y) = t.count
       /\ \A k \in 1 .. t.count : y[k] = t.history[Place(CONS_ROWS, t.start, k)]
  BY <1>8, LinesFacts
<1> HIDE DEF x, y
<1>11. /\ z \in Seq(Seq(Chars)) /\ Len(z) = s.count + 1 /\ z[s.count + 1] = text
       /\ \A k \in 1 .. s.count : z[k] = x[k]
  BY <1>9, AppendProperties
<1> HIDE DEF z
<1>12. ASSUME NEW k \in 1 .. s.count + 1 PROVE y[k] = z[k]
  <2>1. y[k] = h[Place(CONS_ROWS, s.start, k)]
    BY <1>7, <1>10
  <2>2. CASE k = s.count + 1
    BY <1>2, <1>6, <1>11, <2>1, <2>2
  <2>3. CASE k # s.count + 1
    <3>1. k \in 1 .. s.count /\ k \in 1 .. CONS_ROWS
      BY <1>1, <2>3
    <3>2. Place(CONS_ROWS, s.start, k) # idx /\ Place(CONS_ROWS, s.start, k) \in 0 .. CONS_ROWS - 1
      BY <1>1, <1>2, <2>3, <3>1, PlacesDiffer
    <3> QED
      BY <1>6, <1>9, <1>11, <2>1, <3>1, <3>2
  <2> QED
    BY <2>2, <2>3
<1>13. Len(y) = s.count + 1 /\ Len(z) = s.count + 1
  BY <1>7, <1>10, <1>11
<1>14. y = z
  BY <1>10, <1>11, <1>12, <1>13, SeqEqual
<1> QED
  BY <1>7, <1>8, <1>14 DEF x, y, z

(* A line too many takes the row of the oldest.                            *)
LEMMA OldestRow ==
  ASSUME NEW s \in Consoles, s.count = CONS_ROWS, NEW text \in Seq(Chars), NEW t,
         t = [s EXCEPT !.history[s.start] = text, !.start = OldestAfter(s)]
  PROVE  /\ t \in Consoles /\ t.active = s.active /\ t.input = s.input /\ t.window = s.window
         /\ Lines(t) = User!LastRows(Append(Lines(s), text))
<1> DEFINE g == Successor(CONS_ROWS, s.start)
<1>1. /\ CONS_ROWS \in Nat \ {0} /\ s.start \in 0 .. CONS_ROWS - 1
      /\ s.history \in [0 .. CONS_ROWS - 1 -> Seq(Chars)] /\ Rows = 0 .. CONS_ROWS - 1
  BY ConsoleAssumption, ConsoleFields DEF Rows
<1>2. g \in 0 .. CONS_ROWS - 1 /\ Place(CONS_ROWS, s.start, 1) = s.start
  <2>1. 1 \in 1 .. CONS_ROWS
    BY <1>1
  <2> QED
    BY <1>1, <2>1, PlaceAfterSuccessor
<1>3. t = [s EXCEPT !.history[s.start] = text, !.start = g]
  BY DEF OldestAfter, Successor
<1> HIDE DEF g
<1>4. PICK h : h = [s.history EXCEPT ![s.start] = text]
  OBVIOUS
<1>5. /\ h \in [0 .. CONS_ROWS - 1 -> Seq(Chars)] /\ h[s.start] = text
      /\ \A i \in 0 .. CONS_ROWS - 1 : i # s.start => h[i] = s.history[i]
  BY <1>1, <1>4
<1>6. /\ t.history = h /\ t.start = g /\ t.count = CONS_ROWS
      /\ t.active = s.active /\ t.input = s.input /\ t.window = s.window
  BY <1>3, <1>4 DEF Consoles
<1>7. t \in Consoles
  <2>1. h \in [Rows -> Seq(Chars)] /\ g \in Rows
    BY <1>1, <1>2, <1>5
  <2>2. t = [[s EXCEPT !.history = h] EXCEPT !.start = g]
    BY <1>3, <1>4 DEF Consoles
  <2> QED
    BY <2>1, <2>2 DEF Consoles
<1> DEFINE x == Lines(s)
           y == Lines(t)
           z == Append(x, text)
           w == User!LastRows(z)
<1>8. /\ x \in Seq(Seq(Chars)) /\ Len(x) = CONS_ROWS
      /\ \A k \in 1 .. CONS_ROWS : x[k] = s.history[Place(CONS_ROWS, s.start, k)]
  BY LinesFacts
<1>9. /\ y \in Seq(Seq(Chars)) /\ Len(y) = CONS_ROWS
      /\ \A k \in 1 .. CONS_ROWS : y[k] = h[Place(CONS_ROWS, g, k)]
  BY <1>6, <1>7, LinesFacts
<1> HIDE DEF x, y
<1>10. /\ z \in Seq(Seq(Chars)) /\ Len(z) = CONS_ROWS + 1 /\ z[CONS_ROWS + 1] = text
       /\ \A k \in 1 .. CONS_ROWS : z[k] = x[k]
  BY <1>8, AppendProperties
<1> HIDE DEF z
<1>11. /\ w \in Seq(Seq(Chars))
       /\ Len(w) = IF Len(z) > CONS_ROWS THEN CONS_ROWS ELSE Len(z)
       /\ \A k \in 1 .. Len(w) : w[k] = z[Len(z) - Len(w) + k]
  BY <1>10, LastRowsFacts
<1> HIDE DEF w
<1>12. Len(w) = CONS_ROWS
  BY <1>1, <1>10, <1>11
<1>13. ASSUME NEW k \in 1 .. CONS_ROWS PROVE y[k] = w[k]
  <2>1. y[k] = h[Place(CONS_ROWS, g, k)]
    BY <1>9
  <2>2. w[k] = z[k + 1]
    <3>1. Len(z) - Len(w) + k = k + 1
      BY <1>1, <1>10, <1>12
    <3> QED
      BY <1>11, <1>12, <3>1
  <2>3. CASE k = CONS_ROWS
    <3>1. Place(CONS_ROWS, g, k) = s.start
      BY <1>1, <2>3, PlaceAfterSuccessor DEF g
    <3> QED
      BY <1>5, <1>10, <2>1, <2>2, <2>3, <3>1
  <2>4. CASE k # CONS_ROWS
    <3>1. k + 1 \in 1 .. CONS_ROWS /\ 1 \in 1 .. CONS_ROWS /\ k + 1 # 1 /\ k < CONS_ROWS
      BY <1>1, <2>4
    <3>2. Place(CONS_ROWS, g, k) = Place(CONS_ROWS, s.start, k + 1)
      BY <1>1, <3>1, PlaceAfterSuccessor DEF g
    <3>3. /\ Place(CONS_ROWS, s.start, k + 1) # s.start
          /\ Place(CONS_ROWS, s.start, k + 1) \in 0 .. CONS_ROWS - 1
      <4>1. PICK i \in 0 .. CONS_ROWS - 1, j \in 1 .. CONS_ROWS : i = s.start /\ j = k + 1
        BY <1>1, <3>1
      <4>2. Place(CONS_ROWS, i, j) = Place(CONS_ROWS, i, 1) => j = 1
        BY <1>1, <3>1, PlacesDiffer
      <4>3. Place(CONS_ROWS, i, j) \in 0 .. CONS_ROWS - 1
        BY <1>1, <3>1, PlacesDiffer
      <4> QED
        BY <1>2, <3>1, <4>1, <4>2, <4>3
    <3> QED
      BY <1>5, <1>8, <1>10, <2>1, <2>2, <3>1, <3>2, <3>3
  <2> QED
    BY <2>3, <2>4
<1>14. y = w
  <2>1. Len(y) = Len(w) /\ \A k \in 1 .. Len(y) : y[k] = w[k]
    BY <1>9, <1>12, <1>13
  <2>2. y \in Seq(Seq(Chars)) /\ w \in Seq(Seq(Chars))
    BY <1>9, <1>11
  <2> QED
    BY <2>1, <2>2, SeqEqual
<1> QED
  BY <1>6, <1>7, <1>14 DEF x, y, z, w

(* ConsoleAddLine scrolls the dialogue by one line.                        *)
LEMMA AddLineFacts ==
  ASSUME NEW s \in Consoles, NEW text \in Seq(Chars)
  PROVE  /\ AddLine(s, text) \in Consoles
         /\ AddLine(s, text).active = s.active /\ AddLine(s, text).input = s.input
         /\ Lines(AddLine(s, text)) = User!LastRows(Append(Lines(s), Cut(text, CONS_COLS)))
         /\ s.active => Current(AddLine(s, text))
<1>1. CONS_ROWS \in Nat \ {0} /\ CONS_COLS \in Nat /\ s.count \in 0 .. CONS_ROWS
  BY ConsoleAssumption, ConsoleFields
<1>2. Cut(text, CONS_COLS) \in Seq(Chars)
  BY <1>1, CutFacts
<1>3. Lines(s) \in Seq(Seq(Chars)) /\ Len(Lines(s)) = s.count
  BY LinesFacts
<1>4. CASE s.count < CONS_ROWS
  <2>1. PICK t : t = [s EXCEPT !.history[(s.start + s.count) % CONS_ROWS] = Cut(text, CONS_COLS),
                               !.count = @ + 1]
    OBVIOUS
  <2>2. /\ t \in Consoles /\ t.active = s.active /\ t.input = s.input
        /\ Lines(t) = Append(Lines(s), Cut(text, CONS_COLS))
    BY <1>2, <1>4, <2>1, FreeRow
  <2>3. AddLine(s, text) = Redrawn(t)
    BY <1>4, <2>1 DEF AddLine
  <2>4. /\ Append(Lines(s), Cut(text, CONS_COLS)) \in Seq(Seq(Chars))
        /\ Len(Append(Lines(s), Cut(text, CONS_COLS))) = s.count + 1
    BY <1>2, <1>3, AppendProperties
  <2>5. s.count + 1 <= CONS_ROWS
    BY <1>1, <1>4
  <2>6. Lines(t) = User!LastRows(Append(Lines(s), Cut(text, CONS_COLS)))
    BY <2>2, <2>4, <2>5, LastRowsShort
  <2> QED
    BY <2>2, <2>3, <2>6, RedrawnFacts
<1>5. CASE ~(s.count < CONS_ROWS)
  <2>1. s.count = CONS_ROWS
    BY <1>1, <1>5
  <2>2. PICK t : t = [s EXCEPT !.history[s.start] = Cut(text, CONS_COLS), !.start = OldestAfter(s)]
    OBVIOUS
  <2>3. /\ t \in Consoles /\ t.active = s.active /\ t.input = s.input
        /\ Lines(t) = User!LastRows(Append(Lines(s), Cut(text, CONS_COLS)))
    BY <1>2, <2>1, <2>2, OldestRow
  <2>4. AddLine(s, text) = Redrawn(t)
    BY <1>5, <2>2 DEF AddLine
  <2> QED
    BY <2>3, <2>4, RedrawnFacts
<1> QED
  BY <1>4, <1>5

-----------------------------------------------------------------------------
(* What ConsolePrint goes through exists: it is built line by line.        *)
IsRun(f, s, text, n) ==
  f = [k \in 0 .. n |-> IF k = 0 THEN s ELSE AddLine(f[k - 1], Cut(text[k], CONS_COLS - 1))]

HasRun(s, text, n) == \E f : IsRun(f, s, text, n)

LEMMA RunExists ==
  ASSUME NEW s, NEW text, NEW m \in Nat
  PROVE  HasRun(s, text, m)
<1> DEFINE S == {n \in Nat : HasRun(s, text, n)}
<1>1. 0 \in S
  <2>1. PICK f : f = [k \in 0 .. 0 |-> s]
    OBVIOUS
  <2>2. f = [k \in 0 .. 0 |-> IF k = 0 THEN s ELSE AddLine(f[k - 1], Cut(text[k], CONS_COLS - 1))]
    BY <2>1
  <2> QED
    BY <2>2 DEF HasRun, IsRun
<1>2. ASSUME NEW n \in Nat, n \in S PROVE n + 1 \in S
  <2>1. PICK f : IsRun(f, s, text, n)
    BY <1>2 DEF HasRun
  <2>2. \A k \in 0 .. n : f[k] = IF k = 0 THEN s ELSE AddLine(f[k - 1], Cut(text[k], CONS_COLS - 1))
    BY <2>1 DEF IsRun
  <2>3. PICK g : g = [k \in 0 .. n + 1 |->
                        IF k = n + 1 THEN AddLine(f[n], Cut(text[n + 1], CONS_COLS - 1)) ELSE f[k]]
    OBVIOUS
  <2>4. /\ \A k \in 0 .. n : g[k] = f[k]
        /\ g[n + 1] = AddLine(f[n], Cut(text[n + 1], CONS_COLS - 1))
        /\ DOMAIN g = 0 .. n + 1 /\ g = [k \in 0 .. n + 1 |-> g[k]]
    BY <2>3
  <2>5. ASSUME NEW k \in 0 .. n + 1
        PROVE  g[k] = IF k = 0 THEN s ELSE AddLine(g[k - 1], Cut(text[k], CONS_COLS - 1))
    <3>1. CASE k = 0
      <4>1. 0 \in 0 .. n
        OBVIOUS
      <4> QED
        BY <2>2, <2>4, <3>1, <4>1
    <3>2. CASE k = n + 1
      <4>1. n \in 0 .. n /\ k # 0 /\ k - 1 = n
        BY <3>2
      <4> QED
        BY <2>4, <3>2, <4>1
    <3>3. CASE k # 0 /\ k # n + 1
      <4>1. k \in 0 .. n /\ k - 1 \in 0 .. n
        BY <3>3
      <4> QED
        BY <2>2, <2>4, <3>3, <4>1
    <3> QED
      BY <3>1, <3>2, <3>3
  <2>6. IsRun(g, s, text, n + 1)
    BY <2>4, <2>5 DEF IsRun
  <2> QED
    BY <2>6 DEF HasRun
<1> HIDE DEF S
<1>3. Nat \subseteq S
  BY <1>1, <1>2, SetInduction
<1> QED
  BY <1>3 DEF S

(* ConsolePrint adds the lines of its text, one after the other.           *)
LEMMA PrintStepsRun ==
  ASSUME NEW s, NEW text \in Seq(Seq(Chars))
  PROVE  /\ PrintSteps(s, text)[0] = s
         /\ \A k \in 1 .. Len(text) :
              PrintSteps(s, text)[k]
                = AddLine(PrintSteps(s, text)[k - 1], Cut(text[k], CONS_COLS - 1))
<1>1. Len(text) \in Nat
  OBVIOUS
<1>2. \E f : IsRun(f, s, text, Len(text))
  BY <1>1, RunExists DEF HasRun
<1>3. IsRun(PrintSteps(s, text), s, text, Len(text))
  <2>1. PrintSteps(s, text) = CHOOSE f : IsRun(f, s, text, Len(text))
    BY DEF PrintSteps, IsRun
  <2> QED
    BY <1>2, <2>1
<1>4. PICK g : g = PrintSteps(s, text) /\ IsRun(g, s, text, Len(text))
  BY <1>3
<1>5. \A k \in 0 .. Len(text) :
        g[k] = IF k = 0 THEN s ELSE AddLine(g[k - 1], Cut(text[k], CONS_COLS - 1))
  BY <1>4 DEF IsRun
<1>6. 0 \in 0 .. Len(text) /\ \A k \in 1 .. Len(text) : k \in 0 .. Len(text) /\ k # 0
  BY <1>1
<1> QED
  BY <1>4, <1>5, <1>6

(* The lines of a text as ConsolePrint cuts them.                          *)
LEMMA PrintedFacts ==
  ASSUME NEW text \in Seq(Seq(Chars))
  PROVE  /\ Printed(text) \in Seq(Seq(Chars)) /\ Len(Printed(text)) = Len(text)
         /\ \A k \in 1 .. Len(text) : /\ text[k] \in Seq(Chars)
                                      /\ Cut(text[k], CONS_COLS - 1) \in Seq(Chars)
                                      /\ Printed(text)[k] = Cut(text[k], CONS_COLS - 1)
<1>1. DOMAIN text = 1 .. Len(text) /\ Len(text) \in Nat /\ CONS_COLS - 1 \in Nat
  BY ConsoleAssumption
<1>2. ASSUME NEW k \in 1 .. Len(text)
      PROVE  text[k] \in Seq(Chars) /\ Cut(text[k], CONS_COLS - 1) \in Seq(Chars)
  <2>1. text[k] \in Seq(Chars)
    BY <1>1, ElementOfSeq
  <2> QED
    BY <1>1, <2>1, CutFacts
<1>3. Printed(text) = [k \in 1 .. Len(text) |-> Cut(text[k], CONS_COLS - 1)]
  BY <1>1 DEF Printed
<1>4. Printed(text) \in Seq(Seq(Chars))
  BY <1>1, <1>2, <1>3, IsASeq
<1>5. Printed(text) \in [1 .. Len(text) -> Seq(Chars)]
  BY <1>2, <1>3
<1>6. Len(Printed(text)) = Len(text)
  BY <1>1, <1>4, <1>5, LenProperties
<1> QED
  BY <1>2, <1>3, <1>4, <1>6

(* After n lines of its text, ConsolePrint has scrolled by these n lines.  *)
Scrolled(s, text, n) ==
  LET t == PrintSteps(s, text)[n] IN
  /\ t \in Consoles /\ t.active = s.active /\ t.input = s.input
  /\ Lines(t) = User!LastRows(Lines(s) \o SubSeq(Printed(text), 1, n))
  /\ s.active /\ (n > 0 \/ Current(s)) => Current(t)

LEMMA ScrolledAlways ==
  ASSUME NEW s \in Consoles, NEW text \in Seq(Seq(Chars)), NEW m \in 0 .. Len(text)
  PROVE  Scrolled(s, text, m)
<1> DEFINE S == {n \in Nat : n <= Len(text) => Scrolled(s, text, n)}
           p == Printed(text)
           x == Lines(s)
<1>1. p \in Seq(Seq(Chars)) /\ Len(p) = Len(text) /\ Len(text) \in Nat
  BY PrintedFacts
<1>2. x \in Seq(Seq(Chars)) /\ Len(x) = s.count /\ s.count \in 0 .. CONS_ROWS /\ CONS_ROWS \in Nat
  BY LinesFacts, ConsoleFields, ConsoleAssumption
<1> HIDE DEF p, x
<1>3. 0 \in S
  <2>1. PrintSteps(s, text)[0] = s
    BY PrintStepsRun
  <2>2. SubSeq(p, 1, 0) = <<>>
    BY <1>1, SubSeqEmpty
  <2>3. x \o SubSeq(p, 1, 0) = x
    BY <1>2, <2>2, ConcatEmptySeq
  <2>4. User!LastRows(x) = x
    BY <1>2, LastRowsShort
  <2>5. Lines(s) = User!LastRows(Lines(s) \o SubSeq(Printed(text), 1, 0))
    BY <2>3, <2>4 DEF p, x
  <2>6. Scrolled(s, text, 0)
    BY <2>1, <2>5 DEF Scrolled
  <2> QED
    BY <2>6
<1>4. ASSUME NEW n \in Nat, n \in S PROVE n + 1 \in S
  <2> SUFFICES ASSUME n + 1 <= Len(text) PROVE Scrolled(s, text, n + 1)
    OBVIOUS
  <2>1. n <= Len(text) /\ n + 1 \in 1 .. Len(text) /\ (n + 1) - 1 = n
    BY <1>1
  <2>2. PICK t : t = PrintSteps(s, text)[n]
    OBVIOUS
  <2>3. /\ t \in Consoles /\ t.active = s.active /\ t.input = s.input
        /\ Lines(t) = User!LastRows(x \o SubSeq(p, 1, n))
    BY <1>4, <2>1, <2>2 DEF Scrolled, p, x
  <2> DEFINE l == Cut(text[n + 1], CONS_COLS - 1)
             b == x \o SubSeq(p, 1, n)
  <2>4. PrintSteps(s, text)[n + 1] = AddLine(t, l)
    BY <2>1, <2>2, PrintStepsRun
  <2>5. l \in Seq(Chars) /\ p[n + 1] = l
    BY <2>1, PrintedFacts DEF p
  <2>6. Cut(l, CONS_COLS) = l
    <3>1. text[n + 1] \in Seq(Chars)
      BY <2>1, PrintedFacts
    <3> QED
      BY <3>1, CutTwice
  <2>7. SubSeq(p, 1, n) \in Seq(Seq(Chars))
    BY <1>1, <2>1, SubSeqProperties
  <2>8. SubSeq(p, 1, n + 1) = Append(SubSeq(p, 1, n), p[n + 1])
    <3>1. 1 \in 1 .. Len(p) /\ n + 1 \in 1 .. Len(p)
      BY <1>1, <2>1
    <3> QED
      BY <1>1, <2>1, <3>1, SubSeqProperties, SeqEqual, AppendProperties
  <2> HIDE DEF l
  <2>9. b \in Seq(Seq(Chars)) /\ <<l>> \in Seq(Seq(Chars))
    <3>1. b \in Seq(Seq(Chars))
      BY <1>2, <2>7, ConcatProperties
    <3> QED
      BY <2>5, <3>1
  <2>10. x \o SubSeq(p, 1, n + 1) = b \o <<l>>
    <3>1. Append(SubSeq(p, 1, n), l) = SubSeq(p, 1, n) \o <<l>>
      BY <2>5, <2>7, AppendIsConcat
    <3>2. x \o (SubSeq(p, 1, n) \o <<l>>) = (x \o SubSeq(p, 1, n)) \o <<l>>
      <4>1. \A u, v, w \in Seq(Seq(Chars)) : u \o (v \o w) = (u \o v) \o w
        <5>1. Associative(Seq(Chars))
          BY ConcatRegroup
        <5> QED
          BY <5>1, Zenon DEF Associative
      <4>2. /\ x \in Seq(Seq(Chars)) /\ SubSeq(p, 1, n) \in Seq(Seq(Chars))
            /\ <<l>> \in Seq(Seq(Chars))
        BY <1>2, <2>7, <2>9
      <4> QED
        BY <4>1, <4>2, Zenon
    <3> QED
      BY <2>5, <2>8, <3>1, <3>2
  <2> HIDE DEF b
  <2>11. Append(User!LastRows(b), l) = User!LastRows(b) \o <<l>>
    <3>1. User!LastRows(b) \in Seq(Seq(Chars))
      BY <2>9, LastRowsFacts
    <3> QED
      BY <2>5, <3>1, AppendIsConcat
  <2>12. User!LastRows(User!LastRows(b) \o <<l>>) = User!LastRows(b \o <<l>>)
    BY <2>9, LastRowsConcat
  <2>13. /\ AddLine(t, l) \in Consoles /\ AddLine(t, l).active = t.active
         /\ AddLine(t, l).input = t.input
         /\ Lines(AddLine(t, l)) = User!LastRows(Append(Lines(t), l))
         /\ t.active => Current(AddLine(t, l))
    BY <2>3, <2>5, <2>6, AddLineFacts
  <2>14. Lines(AddLine(t, l)) = User!LastRows(x \o SubSeq(p, 1, n + 1))
    BY <2>3, <2>10, <2>11, <2>12, <2>13 DEF b
  <2> QED
    BY <2>3, <2>4, <2>13, <2>14 DEF Scrolled, p, x
<1> HIDE DEF S
<1>5. Nat \subseteq S
  BY <1>3, <1>4, SetInduction
<1>6. m \in Nat /\ m <= Len(text)
  BY <1>1
<1> QED
  BY <1>5, <1>6 DEF S

(* ConsolePrint scrolls the dialogue by its text.                          *)
LEMMA ConsolePrintFacts ==
  ASSUME NEW s \in Consoles, NEW text \in Seq(Seq(Chars))
  PROVE  /\ ConsolePrint(s, text) \in Consoles
         /\ ConsolePrint(s, text).active = s.active /\ ConsolePrint(s, text).input = s.input
         /\ Lines(ConsolePrint(s, text)) = User!LastRows(Lines(s) \o Printed(text))
         /\ s.active /\ Current(s) => Current(ConsolePrint(s, text))
<1>1. Len(text) \in 0 .. Len(text)
  OBVIOUS
<1>2. Scrolled(s, text, Len(text))
  BY <1>1, ScrolledAlways
<1>3. SubSeq(Printed(text), 1, Len(text)) = Printed(text)
  BY PrintedFacts, SubSeqFull
<1> QED
  BY <1>2, <1>3 DEF Scrolled, ConsolePrint

(* A console is sound when it is current and its input line leaves room    *)
(* for the terminating zero.                                               *)
Sound(s) == s \in Consoles /\ Len(s.input) < CONS_COLS /\ Current(s)

LEMMA Edited ==
  ASSUME NEW s \in Consoles, NEW x \in Seq(Chars)
  PROVE  /\ [s EXCEPT !.input = x] \in Consoles
         /\ [s EXCEPT !.input = x].active = s.active
         /\ [s EXCEPT !.input = x].input = x
         /\ [s EXCEPT !.input = x].window = s.window
         /\ Lines([s EXCEPT !.input = x]) = Lines(s)
<1> DEFINE t == [s EXCEPT !.input = x]
<1>1. /\ t \in Consoles /\ t.active = s.active /\ t.input = x /\ t.window = s.window
      /\ t.history = s.history /\ t.start = s.start /\ t.count = s.count
  BY DEF Consoles
<1> QED
  BY <1>1 DEF Lines

(* ConsoleClear.                                                           *)
LEMMA ClearedFacts ==
  ASSUME NEW s \in Consoles
  PROVE  /\ Cleared(s) \in Consoles /\ Cleared(s).active = s.active
         /\ Cleared(s).input = <<>> /\ Lines(Cleared(s)) = <<>>
         /\ s.active \/ s.window = Closed => Current(Cleared(s))
<1>1. PICK h : h = [i \in Rows |-> <<>>]
  OBVIOUS
<1>2. PICK q : q = [s EXCEPT !.history = h, !.start = 0, !.count = 0, !.input = <<>>]
  OBVIOUS
<1>3. /\ h \in [Rows -> Seq(Chars)] /\ 0 \in Rows /\ 0 \in 0 .. CONS_ROWS
      /\ <<>> \in Seq(Chars)
  BY <1>1, ConsoleAssumption DEF Rows
<1>4. q \in Consoles
  BY <1>2, <1>3 DEF Consoles
<1>5. q.active = s.active /\ q.window = s.window /\ q.count = 0 /\ q.input = <<>>
  BY <1>2 DEF Consoles
<1>6. Lines(q) = <<>>
  BY <1>4, <1>5, LinesFacts
<1>7. s.window = Closed /\ ~s.active => Current(q)
  BY <1>5 DEF Current
<1>8. Cleared(s) = Redrawn(q)
  BY <1>1, <1>2 DEF Cleared
<1> QED
  BY <1>4, <1>5, <1>6, <1>7, <1>8, RedrawnFacts

(* F1 closes the console.                                                  *)
LEMMA ToggledOff ==
  ASSUME NEW s, Sound(s), s.active
  PROVE  Sound(Toggled(s)) /\ Toggled(s).active = FALSE
<1>1. PICK t : t = [s EXCEPT !.active = FALSE, !.window = Closed]
  OBVIOUS
<1>2. Closed \in [lines : Seq(Seq(Chars)), prompt : Seq(Chars)]
  BY DEF Closed
<1>3. t \in Consoles /\ t.active = FALSE /\ t.window = Closed /\ t.input = s.input
  BY <1>1, <1>2 DEF Sound, Consoles
<1>4. Toggled(s) = t
  BY <1>1 DEF Toggled
<1> QED
  BY <1>3, <1>4 DEF Sound, Current

(* F1 opens it, empty but for the banner.                                  *)
LEMMA ToggledOn ==
  ASSUME NEW s, Sound(s), ~s.active
  PROVE  /\ Sound(Toggled(s)) /\ Toggled(s).active = TRUE /\ Toggled(s).input = <<>>
         /\ Lines(Toggled(s)) = User!LastRows(Printed(Banner))
<1>1. PICK t : t = [s EXCEPT !.active = TRUE]
  OBVIOUS
<1>2. t \in Consoles /\ t.active = TRUE
  BY <1>1 DEF Sound, Consoles
<1>3. PICK u : u = Cleared(t)
  OBVIOUS
<1>4. /\ u \in Consoles /\ u.active = TRUE /\ u.input = <<>> /\ Lines(u) = <<>>
      /\ Current(u)
  BY <1>2, <1>3, ClearedFacts
<1>5. PICK v : v = ConsolePrint(u, Banner)
  OBVIOUS
<1>6. Banner \in Seq(Seq(Chars))
  BY ConsoleAssumption
<1>7. /\ v \in Consoles /\ v.active = u.active /\ v.input = u.input /\ Current(v)
      /\ Lines(v) = User!LastRows(Lines(u) \o Printed(Banner))
  BY <1>4, <1>5, <1>6, ConsolePrintFacts
<1>8. Lines(u) \o Printed(Banner) = Printed(Banner)
  <2>1. Printed(Banner) \in Seq(Seq(Chars))
    BY <1>6, PrintedFacts
  <2> QED
    BY <1>4, <2>1, ConcatEmptySeq
<1>9. Toggled(s) = v
  BY <1>1, <1>3, <1>5 DEF Toggled
<1>10. Len(v.input) < CONS_COLS
  BY <1>4, <1>7, ConsoleAssumption
<1> QED
  BY <1>4, <1>7, <1>8, <1>9, <1>10 DEF Sound

(* A command answers below the line it was typed on.                       *)
LEMMA ExecuteFacts ==
  ASSUME NEW s \in Consoles, s.active, Current(s), NEW cmd \in Seq(Chars)
  PROVE  /\ Execute(s, cmd) \in Consoles /\ Execute(s, cmd).active = TRUE
         /\ Current(Execute(s, cmd))
         /\ Lines(Execute(s, cmd)) = IF cmd = ClearCommand THEN <<>>
                                     ELSE User!LastRows(Lines(s) \o AnswerTo(cmd))
         /\ AnswerTo(cmd) \in Seq(Seq(Chars))
<1>1. /\ HelpText \in Seq(Seq(Chars)) /\ Prefix \in Seq(Chars) /\ HelpCommand # ClearCommand
      /\ CONS_COLS \in Nat
  BY ConsoleAssumption
<1>2. s.active = TRUE
  BY ConsoleFields
<1> DEFINE r == Cut(Prefix \o cmd, CONS_COLS)
<1>3. /\ r \in Seq(Chars)
      /\ Cut(r, CONS_COLS) = r
  <2>1. Prefix \o cmd \in Seq(Chars)
    BY <1>1, ConcatProperties
  <2>2. /\ r \in Seq(Chars)
        /\ Len(r) = IF Len(Prefix \o cmd) < CONS_COLS THEN Len(Prefix \o cmd) ELSE CONS_COLS
    BY <1>1, <2>1, CutFacts
  <2> HIDE DEF r
  <2>3. Len(r) <= CONS_COLS
    BY <1>1, <2>1, <2>2
  <2>4. Cut(r, CONS_COLS) = r
    BY <1>1, <2>2, <2>3, CutFacts
  <2> QED
    BY <2>2, <2>4
<1>4. CASE cmd = HelpCommand
  <2>1. /\ Execute(s, cmd) = ConsolePrint(s, HelpText) /\ AnswerTo(cmd) = Printed(HelpText)
        /\ cmd # ClearCommand
    BY <1>1, <1>4 DEF Execute, AnswerTo
  <2> QED
    BY <1>1, <1>2, <2>1, ConsolePrintFacts, PrintedFacts
<1>5. CASE cmd = ClearCommand
  <2>1. Execute(s, cmd) = Cleared(s)
    BY <1>1, <1>5 DEF Execute
  <2>2. AnswerTo(cmd) = <<r>> /\ <<r>> \in Seq(Seq(Chars))
    BY <1>1, <1>3, <1>5 DEF AnswerTo
  <2> QED
    BY <1>2, <1>5, <2>1, <2>2, ClearedFacts
<1>6. CASE cmd # HelpCommand /\ cmd # ClearCommand
  <2>1. Execute(s, cmd) = AddLine(s, r)
    BY <1>6 DEF Execute
  <2>2. AnswerTo(cmd) = <<r>>
    BY <1>6 DEF AnswerTo
  <2> HIDE DEF r
  <2>3. <<r>> \in Seq(Seq(Chars))
    BY <1>3
  <2>4. /\ AddLine(s, r) \in Consoles /\ AddLine(s, r).active = s.active
        /\ Lines(AddLine(s, r)) = User!LastRows(Append(Lines(s), r))
        /\ s.active => Current(AddLine(s, r))
    BY <1>3, AddLineFacts
  <2>5. Append(Lines(s), r) = Lines(s) \o <<r>>
    BY <1>3, LinesFacts, AppendIsConcat
  <2> QED
    BY <1>2, <1>6, <2>1, <2>2, <2>3, <2>4, <2>5
<1> QED
  BY <1>4, <1>5, <1>6

(* Enter.                                                                  *)
LEMMA EnteredFacts ==
  ASSUME NEW s, Sound(s), s.active
  PROVE  /\ Sound(Entered(s)) /\ Entered(s).active = TRUE /\ Entered(s).input = <<>>
         /\ Lines(Entered(s)) =
              IF s.input = ClearCommand THEN <<>>
              ELSE User!LastRows(Lines(s) \o <<s.input>> \o AnswerTo(s.input))
<1>1. /\ s \in Consoles /\ s.input \in Seq(Chars) /\ Current(s) /\ Len(s.input) < CONS_COLS
      /\ CONS_COLS \in Nat \ {0}
  BY ConsoleFields, ConsoleAssumption DEF Sound
<1>2. Cut(s.input, CONS_COLS) = s.input
  <2>1. Len(s.input) <= CONS_COLS
    BY <1>1
  <2> QED
    BY <1>1, <2>1, CutFacts
<1>3. PICK t : t = AddLine(s, s.input)
  OBVIOUS
<1>4. /\ t \in Consoles /\ t.active = s.active /\ Current(t)
      /\ Lines(t) = User!LastRows(Append(Lines(s), s.input))
  BY <1>1, <1>2, <1>3, AddLineFacts
<1>5. PICK u : u = Execute(t, s.input)
  OBVIOUS
<1>6. /\ u \in Consoles /\ u.active = TRUE /\ Current(u)
      /\ Lines(u) = IF s.input = ClearCommand THEN <<>>
                    ELSE User!LastRows(Lines(t) \o AnswerTo(s.input))
      /\ AnswerTo(s.input) \in Seq(Seq(Chars))
  BY <1>1, <1>4, <1>5, ExecuteFacts
<1>7. PICK e : e \in Seq(Chars) /\ e = <<>>
  <2>1. <<>> \in Seq(Chars)
    BY EmptySeq
  <2> QED
    BY <2>1
<1>8. PICK v : v = [u EXCEPT !.input = e]
  OBVIOUS
<1>9. Entered(s) = v
  BY <1>3, <1>5, <1>7, <1>8 DEF Entered
<1>10. /\ v \in Consoles /\ v.active = TRUE /\ v.input = <<>> /\ v.window = u.window
       /\ Lines(v) = Lines(u)
  <2>1. u \in Consoles /\ u.active = TRUE
    BY <1>6
  <2>2. /\ v \in Consoles /\ v.active = u.active /\ v.input = e /\ v.window = u.window
        /\ Lines(v) = Lines(u)
    BY <1>7, <1>8, <2>1, Edited
  <2> QED
    BY <1>7, <2>1, <2>2
<1>11. Sound(v)
  BY <1>1, <1>6, <1>10 DEF Sound, Current
<1>12. User!LastRows(Lines(t) \o AnswerTo(s.input))
         = User!LastRows(Lines(s) \o <<s.input>> \o AnswerTo(s.input))
  <2>1. PICK T : T = Seq(Chars)
    OBVIOUS
  <2>2. PICK x \in Seq(T), y \in Seq(T), z \in Seq(T) :
          x = Lines(s) /\ y = <<s.input>> /\ z = AnswerTo(s.input)
    <3>1. Lines(s) \in Seq(T)
      BY <1>1, <2>1, LinesFacts
    <3>2. <<s.input>> \in Seq(T)
      BY <1>1, <2>1
    <3>3. AnswerTo(s.input) \in Seq(T)
      BY <1>6, <2>1
    <3> QED
      BY <3>1, <3>2, <3>3
  <2>3. Append(x, s.input) = x \o y
    BY <1>1, <2>1, <2>2, AppendIsConcat
  <2>4. x \o y \in Seq(T)
    BY ConcatProperties
  <2>5. User!LastRows(User!LastRows(x \o y) \o z) = User!LastRows((x \o y) \o z)
    BY <2>4, LastRowsConcat
  <2> QED
    BY <1>4, <2>2, <2>3, <2>5
<1> QED
  BY <1>6, <1>9, <1>10, <1>11, <1>12

(* Backspace and letters.                                                  *)
LEMMA ErasedFacts ==
  ASSUME NEW s, Sound(s), s.active, s.input # <<>>
  PROVE  /\ Sound(Erased(s)) /\ Erased(s).active = TRUE /\ Lines(Erased(s)) = Lines(s)
         /\ Erased(s).input = SubSeq(s.input, 1, Len(s.input) - 1)
<1>1. /\ s \in Consoles /\ s.input \in Seq(Chars) /\ Len(s.input) < CONS_COLS
      /\ CONS_COLS \in Nat /\ s.active = TRUE
  BY ConsoleFields, ConsoleAssumption DEF Sound
<1>2. PICK x : x = SubSeq(s.input, 1, Len(s.input) - 1)
  OBVIOUS
<1>3. x \in Seq(Chars) /\ Len(x) < CONS_COLS
  <2>1. Len(s.input) \in Nat \ {0}
    BY <1>1, EmptySeq
  <2>2. 1 \in 1 .. Len(s.input) + 1 /\ Len(s.input) - 1 \in 0 .. Len(s.input)
    BY <2>1
  <2>3. x \in Seq(Chars)
    BY <1>1, <1>2, <2>2, SubSeqProperties
  <2>4. Len(x) = IF 1 <= Len(s.input) - 1 THEN Len(s.input) - 1 - 1 + 1 ELSE 0
    BY <1>1, <1>2, <2>2, SubSeqProperties
  <2>5. Len(x) = Len(s.input) - 1
    BY <2>1, <2>4
  <2> QED
    BY <1>1, <2>1, <2>3, <2>5
<1>4. PICK t : t = [s EXCEPT !.input = x]
  OBVIOUS
<1>5. /\ t \in Consoles /\ t.active = TRUE /\ t.input = x /\ Lines(t) = Lines(s)
  BY <1>1, <1>3, <1>4, Edited
<1>6. Erased(s) = Redrawn(t)
  <2>1. t = [s EXCEPT !.input = Front(@)]
    BY <1>2, <1>4 DEF Front
  <2> QED
    BY <2>1 DEF Erased
<1> QED
  BY <1>2, <1>3, <1>5, <1>6, RedrawnFacts DEF Sound

LEMMA TypedFacts ==
  ASSUME NEW s, Sound(s), s.active, NEW ch \in Chars, HasRoom(s)
  PROVE  /\ Sound(Typed(s, ch)) /\ Typed(s, ch).active = TRUE
         /\ Lines(Typed(s, ch)) = Lines(s) /\ Typed(s, ch).input = Append(s.input, ch)
<1>1. /\ s \in Consoles /\ s.input \in Seq(Chars) /\ Len(s.input) < CONS_COLS - 1
      /\ CONS_COLS \in Nat /\ s.active = TRUE
  BY ConsoleFields, ConsoleAssumption DEF Sound, HasRoom
<1>2. PICK x : x = Append(s.input, ch)
  OBVIOUS
<1>3. x \in Seq(Chars) /\ Len(x) < CONS_COLS
  <2>1. x \in Seq(Chars) /\ Len(x) = Len(s.input) + 1 /\ Len(s.input) \in Nat
    BY <1>1, <1>2, AppendProperties
  <2> QED
    BY <1>1, <2>1
<1>4. PICK t : t = [s EXCEPT !.input = x]
  OBVIOUS
<1>5. /\ t \in Consoles /\ t.active = TRUE /\ t.input = x /\ Lines(t) = Lines(s)
  BY <1>1, <1>3, <1>4, Edited
<1>6. Typed(s, ch) = Redrawn(t)
  BY <1>2, <1>4 DEF Typed
<1> QED
  BY <1>2, <1>3, <1>5, <1>6, RedrawnFacts DEF Sound

-----------------------------------------------------------------------------
(* Steps of the system: the console before GuiInit is closed.              *)
ConsoleInv == Sound(console) /\ (Booting => ~console.active)

LEMMA CurrentIsWindowCurrent == Current(console) <=> WindowCurrent
BY DEF Current, WindowCurrent

LEMMA ConsoleInitInv == ConsoleInit => ConsoleInv /\ User!Init
<1> SUFFICES ASSUME ConsoleInit PROVE ConsoleInv /\ User!Init
  OBVIOUS
<1>1. PICK h : h = [i \in Rows |-> <<>>]
  OBVIOUS
<1>2. /\ h \in [Rows -> Seq(Chars)] /\ 0 \in Rows /\ 0 \in 0 .. CONS_ROWS
      /\ <<>> \in Seq(Chars) /\ Len(<<>>) < CONS_COLS
  BY <1>1, ConsoleAssumption DEF Rows
<1>3. Closed \in [lines : Seq(Seq(Chars)), prompt : Seq(Chars)]
  BY DEF Closed
<1>4. console = [history |-> h, start |-> 0, count |-> 0, input |-> <<>>,
                 active |-> FALSE, window |-> Closed]
  BY <1>1 DEF ConsoleInit
<1>5. console \in Consoles
  BY <1>2, <1>3, <1>4 DEF Consoles
<1>6. console.active = FALSE /\ console.window = Closed /\ console.input = <<>>
  BY <1>4
<1> QED
  BY <1>2, <1>5, <1>6 DEF ConsoleInv, Sound, Current, User!Init

(* A key is one thing the user does to the terminal, or nothing: a letter  *)
(* on a full line, Backspace on an empty one, a key while it is closed.    *)
LEMMA KeyStep ==
  ASSUME Sound(console), NEW ch \in Keys, console' = ConsoleProcessChar(console, ch)
  PROVE  Sound(console') /\ [User!Next]_User!vars
<1>1. /\ console.active \in BOOLEAN /\ console.input \in Seq(Chars)
      /\ Len(console.input) \in Nat /\ CONS_COLS \in Nat
  BY ConsoleFields, ConsoleAssumption DEF Sound
<1>2. CASE ch = F1 /\ console.active
  <2>1. console' = Toggled(console)
    BY <1>2, ConsoleAssumption DEF ConsoleProcessChar
  <2>2. Sound(console') /\ console'.active = FALSE
    BY <1>2, <2>1, ToggledOff
  <2>3. User!Close
    BY <1>2, <2>2 DEF User!Close
  <2> QED
    BY <2>2, <2>3 DEF User!Next
<1>3. CASE ch = F1 /\ ~console.active
  <2>1. console' = Toggled(console)
    BY <1>3 DEF ConsoleProcessChar
  <2>2. /\ Sound(console') /\ console'.active = TRUE /\ console'.input = <<>>
        /\ Lines(console') = User!LastRows(Printed(Banner))
    BY <1>3, <2>1, ToggledOn
  <2>3. User!Open
    BY <1>3, <2>2 DEF User!Open
  <2> QED
    BY <2>2, <2>3 DEF User!Next
<1>4. CASE ch # F1 /\ ~console.active
  <2>1. console' = console
    BY <1>4, ConsoleAssumption DEF ConsoleProcessChar
  <2> QED
    BY <2>1 DEF User!vars
<1>5. CASE ch = ENTER /\ console.active
  <2>1. console' = Entered(console)
    BY <1>5, ConsoleAssumption DEF ConsoleProcessChar
  <2>2. /\ Sound(console') /\ console'.active = TRUE /\ console'.input = <<>>
        /\ Lines(console') =
             IF console.input = ClearCommand THEN <<>>
             ELSE User!LastRows(Lines(console) \o <<console.input>> \o AnswerTo(console.input))
    BY <1>5, <2>1, EnteredFacts
  <2>3. User!Enter
    BY <1>1, <1>5, <2>2 DEF User!Enter
  <2> QED
    BY <2>2, <2>3 DEF User!Next
<1>6. CASE ch = BACKSPACE /\ console.active
  <2>1. console' = Erased(console)
    BY <1>6, ConsoleAssumption DEF ConsoleProcessChar
  <2>2. CASE console.input = <<>>
    BY <2>1, <2>2 DEF Erased, User!vars
  <2>3. CASE console.input # <<>>
    <3>1. /\ Sound(console') /\ console'.active = TRUE /\ Lines(console') = Lines(console)
          /\ console'.input = SubSeq(console.input, 1, Len(console.input) - 1)
      BY <1>6, <2>1, <2>3, ErasedFacts
    <3>2. User!Erase
      BY <1>1, <1>6, <2>3, <3>1 DEF User!Erase
    <3> QED
      BY <3>1, <3>2 DEF User!Next
  <2> QED
    BY <2>2, <2>3
<1>7. CASE ch \notin {F1, ENTER, BACKSPACE} /\ console.active
  <2>1. console' = Typed(console, ch)
    BY <1>7 DEF ConsoleProcessChar
  <2>2. CASE ~HasRoom(console)
    BY <2>1, <2>2 DEF Typed, User!vars
  <2>3. CASE HasRoom(console)
    <3>1. ch \in Chars
      BY ConsoleAssumption
    <3>2. /\ Sound(console') /\ console'.active = TRUE /\ Lines(console') = Lines(console)
          /\ console'.input = Append(console.input, ch)
      BY <1>7, <2>1, <2>3, <3>1, TypedFacts
    <3>3. ch \in Keys \ {F1, ENTER, BACKSPACE} /\ Len(console.input) < CONS_COLS - 1
      BY <1>7, <2>3 DEF HasRoom
    <3>4. User!Type
      BY <1>1, <1>7, <3>2, <3>3 DEF User!Type
    <3> QED
      BY <3>2, <3>4 DEF User!Next
  <2> QED
    BY <2>2, <2>3
<1> QED
  BY <1>2, <1>3, <1>4, <1>5, <1>6, <1>7

(* GuiInit clears a console that is still closed.                          *)
LEMMA GuiInitStep ==
  ASSUME ConsoleInv, GuiInit
  PROVE  ConsoleInv' /\ [User!Next]_User!vars
<1>1. /\ Sound(console) /\ ~console.active /\ console' = Cleared(console)
      /\ console \in Consoles /\ console.window = Closed /\ CONS_COLS \in Nat \ {0}
  BY ConsoleAssumption DEF ConsoleInv, GuiInit, ResetHead, Booting, Sound, Current
<1>2. /\ console' \in Consoles /\ console'.active = console.active
      /\ console'.input = <<>> /\ Current(console')
  BY <1>1, ClearedFacts
<1>3. Sound(console')
  BY <1>1, <1>2 DEF Sound
<1>4. ConsoleInv'
  BY <1>1, <1>2, <1>3 DEF ConsoleInv
<1>5. UNCHANGED User!vars
  BY <1>1, <1>2 DEF User!vars
<1> QED
  BY <1>4, <1>5

LEMMA ConsoleStep ==
  ASSUME IInv, ConsoleInv, [ConsoleNext]_consoleVars
  PROVE  ConsoleInv' /\ [User!Next]_User!vars
<1>1. ASSUME UNCHANGED console, Booting' => Booting
      PROVE  ConsoleInv' /\ [User!Next]_User!vars
  BY <1>1 DEF ConsoleInv, User!vars
<1>2. CASE UNCHANGED consoleVars
  BY <1>1, <1>2 DEF consoleVars, vars, Booting
<1>3. CASE Irq1
  BY <1>1, <1>3 DEF Irq1, Put, Booting
<1>4. CASE (ResetTail \/ GetNothing \/ Load) /\ UNCHANGED console
  BY <1>1, <1>4 DEF ResetTail, GetNothing, Load, Booting
<1>5. CASE GuiInit
  BY <1>5, GuiInitStep
<1>6. CASE ProcessKey
  <2>1. c \in Keys /\ ~Booting' /\ console' = ConsoleProcessChar(console, c)
    BY <1>6 DEF ProcessKey, Advance, IInv, LoadedKeyStays, Booting
  <2>2. Sound(console') /\ [User!Next]_User!vars
    BY <2>1, KeyStep DEF ConsoleInv
  <2> QED
    BY <2>1, <2>2 DEF ConsoleInv
<1> QED
  BY <1>2, <1>3, <1>4, <1>5, <1>6 DEF ConsoleNext, GuiStep

(* Behind the console the buffer is as it is on its own.                   *)
LEMMA ConsoleKeepsBuffer ==
  /\ ConsoleInit => Init
  /\ [ConsoleNext]_consoleVars => [Next]_vars
<1>1. ConsoleInit => Init
  BY DEF ConsoleInit
<1>2. ConsoleNext => Next
  BY DEF ConsoleNext, GuiStep, GuiInit, ProcessKey, Irq1, Next, GuiThread
<1>3. UNCHANGED consoleVars => UNCHANGED vars
  BY DEF consoleVars
<1> QED
  BY <1>1, <1>2, <1>3

LEMMA ConsoleIInv == ConsoleSpec => [](IInv /\ ConsoleInv)
<1>1. ConsoleInit => IInv /\ ConsoleInv
  BY ConsoleKeepsBuffer, InitInv, ConsoleInitInv
<1>2. IInv /\ ConsoleInv /\ [ConsoleNext]_consoleVars => IInv' /\ ConsoleInv'
  BY ConsoleKeepsBuffer, NextInv, ConsoleStep
<1> QED
  BY <1>1, <1>2, PTL DEF ConsoleSpec

(* The window shows the dialogue and the text being typed after every key, *)
(* for every size of the console and of the buffer, and every text.        *)
THEOREM WindowCurrentAlways == ConsoleSpec => []WindowCurrent
<1>1. ConsoleInv => WindowCurrent
  BY CurrentIsWindowCurrent DEF ConsoleInv, Sound
<1> QED
  BY <1>1, ConsoleIInv, PTL

(* ConsoleAddLine, ConsolePrint, ConsoleClear and console_execute on the   *)
(* ring of rows are a terminal that keeps the last CONS_ROWS lines of the  *)
(* dialogue: whatever is typed, whatever the texts, for every size.        *)
THEOREM ConsoleImplementsTerminal == ConsoleSpec => ImplementsTerminal
<1>1. ConsoleInit => User!Init
  BY ConsoleInitInv
<1>2. IInv /\ ConsoleInv /\ [ConsoleNext]_consoleVars => [User!Next]_User!vars
  BY ConsoleStep
<1> QED
  BY <1>1, <1>2, ConsoleIInv, PTL DEF ConsoleSpec, ImplementsTerminal, User!Spec

(* The key being fetched stays in its slot with the console behind it too. *)
THEOREM ConsoleLoadedKeyStays == ConsoleSpec => []LoadedKeyStays
<1>1. IInv => LoadedKeyStays
  BY DEF IInv
<1> QED
  BY <1>1, ConsoleIInv, PTL

(* And the console is given the keys in the order they were pressed.       *)
THEOREM ConsoleBufferIsQueue == ConsoleSpec => Promise!Spec
<1>1. ConsoleSpec => Spec
  BY ConsoleKeepsBuffer, PTL DEF ConsoleSpec, Spec
<1> QED
  BY <1>1, KeyboardRingIsQueue
=============================================================================
