--------------------------- MODULE DrawingProofs ---------------------------
(***************************************************************************)
(* The drawing of Drawing, for every screen, every bitmap of the cursor    *)
(* and every set of calls, at whatever access the drawing system calls     *)
(* preempt the GUI thread: the cursor leaves no trace, every call leaves   *)
(* its bytes showing the shadow, and what a preemption damages is confined *)
(* to the call it interrupted.                                             *)
(*                                                                         *)
(* Calls are sequences of accesses built row by row, byte by byte and      *)
(* plane by plane. The first part says of each part of a call which stores *)
(* to the shadow it makes, and that all else it does is quiet.             *)
(*                                                                         *)
(* The second part is about the moves of the cursor: a move first erases,  *)
(* then saves, then draws the arrow, and the invariant IInv says for every *)
(* pixel which of its accesses are still to come.                          *)
(*                                                                         *)
(* The third part is about the frame buffer. Claim(P, c, D, M) is what is  *)
(* known of a screen: the pixels of P have the colour c in the shadow, the *)
(* planes of bytes in D show the shadow, and the planes selected are among *)
(* M. Leads(u, K, L) says that the accesses of u lead from every screen    *)
(* that fits K to one that fits L, and is shown of a plane, a byte, a row, *)
(* VgaPutPixel, VgaFillRect and a move in turn. DrawInv says that the      *)
(* accesses left make the bytes of the call right.                         *)
(*                                                                         *)
(* The last part is about which bytes accesses store to: TouchInv says     *)
(* that those left store only to bytes of the call and of its overrun.     *)
(***************************************************************************)
EXTENDS Drawing, CommonTheorems

(* Values computed one after the other exist.                              *)
Computes(f, V, n, b, step) ==
  /\ f \in [0 .. n -> V]
  /\ f[0] = b
  /\ \A k \in 1 .. n : f[k] = step[<<f[k - 1], k>>]

Computable(V, n, b, step) == \E f : Computes(f, V, n, b, step)

(* A value computed step by step from b exists, for every number of steps. *)
LEMMA Computation ==
  ASSUME NEW V, NEW b \in V, NEW step \in [V \X Nat -> V], NEW n \in Nat
  PROVE  Computable(V, n, b, step)
<1> DEFINE S == {m \in Nat : Computable(V, m, b, step)}
<1>1. 0 \in S
  <2>1. PICK f : f = [k \in 0 .. 0 |-> b]
    OBVIOUS
  <2>2. Computes(f, V, 0, b, step)
    BY <2>1 DEF Computes
  <2> QED
    BY <2>2 DEF Computable
<1>2. ASSUME NEW m \in Nat, m \in S PROVE m + 1 \in S
  <2>1. PICK f : Computes(f, V, m, b, step)
    BY <1>2 DEF Computable
  <2>2. f \in [0 .. m -> V] /\ f[0] = b /\ \A k \in 1 .. m : f[k] = step[<<f[k - 1], k>>]
    BY <2>1 DEF Computes
  <2>3. PICK v \in V : v = step[<<f[m], m + 1>>]
    <3>1. f[m] \in V /\ <<f[m], m + 1>> \in V \X Nat
      BY <2>2
    <3> QED
      BY <3>1
  <2>4. PICK g \in [0 .. m + 1 -> V] : g = [k \in 0 .. m + 1 |-> IF k = m + 1 THEN v ELSE f[k]]
    <3>1. \A k \in 0 .. m + 1 : k # m + 1 => k \in 0 .. m
      OBVIOUS
    <3> QED
      BY <2>2, <3>1
  <2>5. g[m + 1] = v /\ \A k \in 0 .. m : g[k] = f[k]
    BY <2>4
  <2>6. ASSUME NEW k \in 1 .. m + 1 PROVE g[k] = step[<<g[k - 1], k>>]
    <3>1. CASE k = m + 1
      <4>1. k - 1 = m /\ m \in 0 .. m
        BY <3>1
      <4> QED
        BY <2>3, <2>5, <3>1, <4>1
    <3>2. CASE k # m + 1
      <4>1. k \in 1 .. m /\ k \in 0 .. m /\ k - 1 \in 0 .. m
        BY <3>2
      <4> QED
        BY <2>2, <2>5, <4>1
    <3> QED
      BY <3>1, <3>2
  <2>7. g[0] = b
    BY <2>2, <2>5
  <2> QED
    BY <2>6, <2>7 DEF Computable, Computes
<1> HIDE DEF S
<1>3. Nat \subseteq S
  BY <1>1, <1>2, SetInduction
<1> QED
  BY <1>3 DEF S

-----------------------------------------------------------------------------
(* FlattenSeq concatenates its sequences, one after the other.             *)
Concatenates(f, seqs) ==
  f = [i \in 1 .. Len(seqs) |-> IF i = 1 THEN seqs[i] ELSE f[i - 1] \o seqs[i]]

Parts(g, S, seqs) ==
  /\ g \in [0 .. Len(seqs) -> Seq(S)]
  /\ g[0] = <<>>
  /\ \A k \in 1 .. Len(seqs) : g[k] = g[k - 1] \o seqs[k]

(* The values of a concatenation after each of its sequences.              *)
LEMMA PartsExist ==
  ASSUME NEW S, NEW seqs \in Seq(Seq(S))
  PROVE  \E g : Parts(g, S, seqs)
<1>1. PICK V : V = Seq(S)
  OBVIOUS
<1>2. PICK n \in Nat : n = Len(seqs)
  OBVIOUS
<1>3. \A k \in 1 .. n : seqs[k] \in V
  BY <1>1, <1>2
<1>4. \A p \in V \X Nat : p[1] \in V /\ (p[2] \in 1 .. n => p[1] \o seqs[p[2]] \in V)
  <2>1. \A v, w \in V : v \o w \in V
    BY <1>1, ConcatProperties
  <2> QED
    BY <1>3, <2>1
<1>5. PICK step \in [V \X Nat -> V] :
        step = [p \in V \X Nat |-> IF p[2] \in 1 .. n THEN p[1] \o seqs[p[2]] ELSE p[1]]
  BY <1>4
<1>6. PICK b \in V : b = <<>>
  <2>1. <<>> \in Seq(S)
    BY EmptySeq
  <2> QED
    BY <1>1, <2>1
<1>7. PICK g : Computes(g, V, n, b, step)
  BY Computation DEF Computable
<1>8. g \in [0 .. n -> V] /\ g[0] = b /\ \A k \in 1 .. n : g[k] = step[<<g[k - 1], k>>]
  BY <1>7 DEF Computes
<1>9. ASSUME NEW k \in 1 .. n PROVE g[k] = g[k - 1] \o seqs[k]
  <2>1. k - 1 \in 0 .. n /\ k \in Nat
    BY <1>2
  <2>2. <<g[k - 1], k>> \in V \X Nat
    BY <1>8, <2>1
  <2> QED
    BY <1>5, <1>8, <2>2
<1> QED
  BY <1>1, <1>2, <1>6, <1>8, <1>9 DEF Parts

(* So FlattenSeq is the last of them.                                      *)
LEMMA FlattenIs ==
  ASSUME NEW S, NEW seqs \in Seq(Seq(S))
  PROVE  \E g : Parts(g, S, seqs) /\ FlattenSeq(seqs) = g[Len(seqs)]
<1>1. PICK n \in Nat : n = Len(seqs)
  OBVIOUS
<1>2. PICK g : Parts(g, S, seqs)
  BY PartsExist
<1>3. g \in [0 .. n -> Seq(S)] /\ g[0] = <<>> /\ \A k \in 1 .. n : g[k] = g[k - 1] \o seqs[k]
  BY <1>1, <1>2 DEF Parts
<1>4. CASE n = 0
  <2>1. FlattenSeq(seqs) = seqs /\ seqs = <<>>
    BY <1>1, <1>4, EmptySeq DEF FlattenSeq
  <2> QED
    BY <1>1, <1>2, <1>3, <1>4, <2>1
<1>5. CASE n # 0
  <2>1. FlattenSeq(seqs) = (CHOOSE f : Concatenates(f, seqs))[n]
    BY <1>1, <1>5 DEF FlattenSeq, Concatenates
  <2>2. PICK f : f = [i \in 1 .. n |-> g[i]]
    OBVIOUS
  <2>3. ASSUME NEW i \in 1 .. n PROVE f[i] = IF i = 1 THEN seqs[i] ELSE f[i - 1] \o seqs[i]
    <3>1. CASE i = 1
      <4>1. seqs[1] \in Seq(S) /\ i - 1 = 0
        BY <1>1, <3>1
      <4>2. <<>> \o seqs[1] = seqs[1]
        BY <4>1, ConcatEmptySeq
      <4> QED
        BY <1>3, <2>2, <3>1, <4>1, <4>2
    <3>2. CASE i # 1
      <4>1. i - 1 \in 1 .. n
        BY <3>2
      <4> QED
        BY <1>3, <2>2, <3>2, <4>1
    <3> QED
      BY <3>1, <3>2
  <2>4. Concatenates(f, seqs)
    BY <1>1, <2>2, <2>3 DEF Concatenates
  <2>5. PICK h : h = CHOOSE e : Concatenates(e, seqs)
    OBVIOUS
  <2>6. h = [i \in 1 .. n |-> IF i = 1 THEN seqs[i] ELSE h[i - 1] \o seqs[i]]
    BY <1>1, <2>4, <2>5 DEF Concatenates
  <2>11. \A i \in 1 .. n : h[i] = IF i = 1 THEN seqs[i] ELSE h[i - 1] \o seqs[i]
    BY <2>6
  <2> DEFINE T == {m \in Nat : m \in 1 .. n => h[m] = g[m]}
  <2>7. 0 \in T
    OBVIOUS
  <2>8. ASSUME NEW m \in Nat, m \in T PROVE m + 1 \in T
    <3> SUFFICES ASSUME m + 1 \in 1 .. n PROVE h[m + 1] = g[m + 1]
      OBVIOUS
    <3>1. CASE m = 0
      <4>1. h[1] = f[1] /\ f[1] = g[1]
        BY <2>2, <2>3, <2>6, <3>1
      <4> QED
        BY <3>1, <4>1
    <3>2. CASE m # 0
      <4>1. PICK i \in 1 .. n : i = m + 1 /\ i # 1 /\ i - 1 = m /\ m \in 1 .. n
        BY <3>2
      <4>2. h[m] = g[m]
        BY <2>8, <4>1
      <4>3. h[i] = h[m] \o seqs[i]
        BY <2>11, <4>1
      <4>4. g[i] = g[m] \o seqs[i]
        BY <1>3, <4>1
      <4> QED
        BY <4>1, <4>2, <4>3, <4>4
    <3> QED
      BY <3>1, <3>2
  <2> HIDE DEF T
  <2>9. Nat \subseteq T
    BY <2>7, <2>8, SetInduction
  <2>10. h[n] = g[n]
    BY <1>5, <2>9 DEF T
  <2> QED
    BY <1>1, <1>2, <2>1, <2>5, <2>10
<1> QED
  BY <1>4, <1>5

-----------------------------------------------------------------------------
Has(u, a) == \E i \in DOMAIN u : u[i] = a

(* A concatenation has the elements of both its parts.                     *)
LEMMA ConcatHas ==
  ASSUME NEW S, NEW u \in Seq(S), NEW v \in Seq(S), NEW a, Has(u, a) \/ Has(v, a)
  PROVE  Has(u \o v, a)
<1>1. PICK w : w = u \o v
  OBVIOUS
<1>2. /\ w \in Seq(S) /\ Len(w) = Len(u) + Len(v)
      /\ \A k \in 1 .. Len(u) : w[k] = u[k]
      /\ \A k \in 1 .. Len(v) : w[Len(u) + k] = v[k]
  BY <1>1, ConcatParts
<1>3. Len(u) \in Nat /\ Len(v) \in Nat
  OBVIOUS
<1>4. CASE Has(u, a)
  <2>1. PICK k \in 1 .. Len(u) : u[k] = a
    BY <1>4 DEF Has
  <2>2. k \in 1 .. Len(w) /\ w[k] = a
    BY <1>2, <1>3, <2>1
  <2> QED
    BY <1>1, <1>2, <2>2 DEF Has
<1>5. CASE Has(v, a)
  <2>1. PICK k \in 1 .. Len(v) : v[k] = a
    BY <1>5 DEF Has
  <2>2. Len(u) + k \in 1 .. Len(w) /\ w[Len(u) + k] = a
    BY <1>2, <1>3, <2>1
  <2> QED
    BY <1>1, <1>2, <2>2 DEF Has
<1> QED
  BY <1>4, <1>5

(* FlattenSeq has elements of the same set as its parts, and all of them.  *)
LEMMA FlattenTyped ==
  ASSUME NEW S, NEW seqs \in Seq(Seq(S))
  PROVE  FlattenSeq(seqs) \in Seq(S)
<1>1. PICK n \in Nat : n = Len(seqs) /\ n \in 0 .. n
  OBVIOUS
<1>2. PICK g : Parts(g, S, seqs) /\ FlattenSeq(seqs) = g[n]
  BY <1>1, FlattenIs
<1> QED
  BY <1>1, <1>2 DEF Parts

(* An element of a concatenation is one of a part, and each part           *)
(* contributes its own.                                                    *)
LEMMA FlattenHas ==
  ASSUME NEW S, NEW seqs \in Seq(Seq(S)), NEW j \in 1 .. Len(seqs), NEW a, Has(seqs[j], a)
  PROVE  Has(FlattenSeq(seqs), a)
<1>1. PICK n \in Nat : n = Len(seqs) /\ j \in 1 .. n
  OBVIOUS
<1>2. PICK g : Parts(g, S, seqs) /\ FlattenSeq(seqs) = g[n]
  BY <1>1, FlattenIs
<1>3. g \in [0 .. n -> Seq(S)] /\ \A k \in 1 .. n : g[k] = g[k - 1] \o seqs[k]
  BY <1>1, <1>2 DEF Parts
<1> DEFINE T == {m \in Nat : m \in j .. n => Has(g[m], a)}
<1>4. 0 \in T
  BY <1>1
<1>5. ASSUME NEW m \in Nat, m \in T PROVE m + 1 \in T
  <2> SUFFICES ASSUME m + 1 \in j .. n PROVE Has(g[m + 1], a)
    OBVIOUS
  <2>1. PICK k \in 1 .. n : k = m + 1 /\ k - 1 = m /\ m \in 0 .. n /\ (k = j \/ m \in j .. n)
    BY <1>1
  <2>5. seqs[k] \in Seq(S)
    BY <1>1, <2>1
  <2>2. g[k] = g[m] \o seqs[k] /\ g[m] \in Seq(S)
    BY <1>3, <2>1
  <2>3. Has(g[m], a) \/ Has(seqs[k], a)
    BY <1>5, <2>1
  <2>4. Has(g[m] \o seqs[k], a)
    BY <2>2, <2>3, <2>5, ConcatHas
  <2> QED
    BY <2>1, <2>2, <2>4
<1> HIDE DEF T
<1>6. Nat \subseteq T
  BY <1>4, <1>5, SetInduction
<1> QED
  BY <1>1, <1>2, <1>6 DEF T

-----------------------------------------------------------------------------
(* Accesses that change neither the shadow nor what is saved, and those    *)
(* that paint: u paints the pixels stored by W, and no others.             *)
Quiet ==
  {Gather(x, y, p) : x \in Nat, y \in Nat, p \in Planes} \cup {Select(ps) : ps \in Colors}
    \cup {Write(b) : b \in Nat} \cup {Fill(b, c, p) : b \in Nat, c \in Colors, p \in Planes}

Paints(u, W) == u \in Seq(Quiet \cup W) /\ \A a \in W : Has(u, a)

(* A sequence over a set is one over every larger set.                     *)
LEMMA SeqWider ==
  ASSUME NEW S, NEW T, S \subseteq T, NEW u \in Seq(S)
  PROVE  u \in Seq(T)
OBVIOUS

(* The empty sequence paints nothing.                                      *)
LEMMA PaintsNothing == Paints(<<>>, {})
<1>1. <<>> \in Seq(Quiet \cup {})
  BY EmptySeq
<1> QED
  BY <1>1 DEF Paints

(* What two parts of a call paint, one after the other.                    *)
LEMMA PaintsConcat ==
  ASSUME NEW u, NEW v, NEW W, NEW Z, Paints(u, W), Paints(v, Z)
  PROVE  Paints(u \o v, W \cup Z)
<1>1. PICK S : S = Quiet \cup (W \cup Z)
  OBVIOUS
<1>2. u \in Seq(S)
  <2>1. u \in Seq(Quiet \cup W) /\ Quiet \cup W \subseteq S
    BY <1>1 DEF Paints
  <2> QED
    BY <2>1, SeqWider
<1>3. v \in Seq(S)
  <2>1. v \in Seq(Quiet \cup Z) /\ Quiet \cup Z \subseteq S
    BY <1>1 DEF Paints
  <2> QED
    BY <2>1, SeqWider
<1>4. u \o v \in Seq(S)
  BY <1>2, <1>3, ConcatProperties
<1>5. \A a \in W \cup Z : Has(u, a) \/ Has(v, a)
  BY DEF Paints
<1>6. \A a \in W \cup Z : Has(u \o v, a)
  BY <1>2, <1>3, <1>5, ConcatHas
<1> QED
  BY <1>1, <1>4, <1>6 DEF Paints

(* What many parts paint.                                                  *)
LEMMA PaintsFlatten ==
  ASSUME NEW n \in Nat, NEW seqs, seqs = [k \in 1 .. n |-> seqs[k]], NEW W,
         \A k \in 1 .. n : Paints(seqs[k], W[k])
  PROVE  Paints(FlattenSeq(seqs), UNION {W[k] : k \in 1 .. n})
<1>1. PICK Z : Z = UNION {W[k] : k \in 1 .. n}
  OBVIOUS
<1>2. PICK S : S = Quiet \cup Z
  OBVIOUS
<1>3. ASSUME NEW k \in 1 .. n PROVE seqs[k] \in Seq(S)
  <2>1. seqs[k] \in Seq(Quiet \cup W[k]) /\ Quiet \cup W[k] \subseteq S
    BY <1>1, <1>2 DEF Paints
  <2> QED
    BY <2>1, SeqWider
<1>4. seqs \in Seq(Seq(S)) /\ Len(seqs) = n
  BY <1>3
<1>5. FlattenSeq(seqs) \in Seq(S)
  BY <1>4, FlattenTyped
<1>6. ASSUME NEW a \in Z PROVE Has(FlattenSeq(seqs), a)
  <2>1. PICK k \in 1 .. n : a \in W[k]
    BY <1>1
  <2>2. Has(seqs[k], a)
    BY <2>1 DEF Paints
  <2> QED
    BY <1>4, <2>2, FlattenHas
<1> QED
  BY <1>1, <1>2, <1>5, <1>6 DEF Paints

-----------------------------------------------------------------------------
(* What the two functions paint.                                           *)
Pixels == Xs \X Ys
StoresOf(P, c) == {Store(q[1], q[2], c) : q \in P}

(* The sizes of the screen.                                                *)
LEMMA Sizes ==
  /\ {PLANES, BITS, ROW_BYTES, HEIGHT, VRAM} \subseteq Nat \ {0}
  /\ Planes = 1 .. PLANES /\ Width \in Nat
  /\ \A x \in Nat : x \div BITS \in Nat
  /\ \A x, y \in Nat : ByteOf(x, y) \in Nat
  /\ \A x, y \in Nat : x * y \in Nat
<1>1. {PLANES, BITS, ROW_BYTES, HEIGHT, VRAM} \subseteq Nat \ {0}
  BY ScreenAssumption
<1>2. \A x, y \in Nat : x * y \in Nat
  OBVIOUS
<1>3. \A x \in Nat : x \div BITS \in Nat
  BY <1>1
<1>4. Width \in Nat
  BY <1>1, <1>2 DEF Width
<1>5. \A x, y \in Nat : ByteOf(x, y) \in Nat
  BY <1>1, <1>2, <1>3 DEF ByteOf
<1> QED
  BY <1>1, <1>2, <1>3, <1>4, <1>5 DEF Planes

(* The accesses that rebuild a byte.                                       *)
LEMMA RebuildOver ==
  ASSUME NEW x, NEW y, NEW S, NEW b, b = ByteOf(x, y), Write(b) \in S, Select(Planes) \in S,
         \A p \in Planes : Gather(x, y, p) \in S /\ Select({p}) \in S
  PROVE  Rebuild(x, y) \in Seq(S)
<1>1. \A p \in Planes : <<Gather(x, y, p), Select({p}), Write(b)>> \in Seq(S)
  OBVIOUS
<1>2. PICK seqs : seqs = [p \in Planes |-> <<Gather(x, y, p), Select({p}), Write(b)>>]
  OBVIOUS
<1>3. seqs \in Seq(Seq(S))
  <2>1. PICK n \in Nat : n = PLANES /\ Planes = 1 .. n
    BY Sizes
  <2>2. PICK T : T = Seq(S)
    OBVIOUS
  <2>3. \A p \in 1 .. n : seqs[p] \in T
    BY <1>1, <1>2, <2>1, <2>2
  <2>4. seqs = [p \in 1 .. n |-> seqs[p]]
    BY <1>2, <2>1
  <2> QED
    BY <2>2, <2>3, <2>4
<1>4. PlaneByPlane(x, y) = FlattenSeq(seqs)
  BY <1>2 DEF PlaneByPlane
<1>5. FlattenSeq(seqs) \in Seq(S)
  BY <1>3, FlattenTyped
<1>6. <<Select(Planes)>> \in Seq(S)
  OBVIOUS
<1> QED
  BY <1>4, <1>5, <1>6, ConcatProperties DEF Rebuild

(* Rebuilding a byte leaves the shadow alone.                              *)
LEMMA RebuildQuiet ==
  ASSUME NEW x \in Nat, NEW y \in Nat
  PROVE  Rebuild(x, y) \in Seq(Quiet)
<1>1. PICK b \in Nat : b = ByteOf(x, y)
  BY Sizes
<1>2. \A p \in Planes : Gather(x, y, p) \in Quiet /\ Select({p}) \in Quiet
  BY DEF Quiet, Colors
<1>3. Write(b) \in Quiet /\ Select(Planes) \in Quiet
  BY DEF Quiet, Colors
<1> QED
  BY <1>1, <1>2, <1>3, RebuildOver

(* VgaPutPixel stores the colour of its pixel, when that is on the screen. *)
LEMMA PutPixelPaints ==
  ASSUME NEW x \in Nat, NEW y \in Nat, NEW c
  PROVE  Paints(PutPixel(x, y, c), StoresOf({<<x, y>>} \cap Pixels, c))
<1>1. CASE OnScreen(x, y)
  <2>1. StoresOf({<<x, y>>} \cap Pixels, c) = {Store(x, y, c)}
    <3>1. {<<x, y>>} \cap Pixels = {<<x, y>>}
      BY <1>1 DEF Pixels, OnScreen
    <3>2. StoresOf({<<x, y>>}, c) = {Store(x, y, c)}
      BY DEF StoresOf
    <3> QED
      BY <3>1, <3>2
  <2>2. Paints(<<Store(x, y, c)>>, {Store(x, y, c)})
    <3>1. PICK a : a = Store(x, y, c)
      OBVIOUS
    <3>2. <<a>> \in Seq(Quiet \cup {a}) /\ Has(<<a>>, a)
      BY DEF Has
    <3> QED
      BY <3>1, <3>2 DEF Paints
  <2>3. Paints(Rebuild(x, y), {})
    <3>1. Rebuild(x, y) \in Seq(Quiet \cup {})
      BY RebuildQuiet, SeqWider
    <3> QED
      BY <3>1 DEF Paints
  <2>4. Paints(<<Store(x, y, c)>> \o Rebuild(x, y), {Store(x, y, c)} \cup {})
    BY <2>2, <2>3, PaintsConcat
  <2>5. {Store(x, y, c)} \cup {} = {Store(x, y, c)}
    OBVIOUS
  <2> QED
    BY <1>1, <2>1, <2>4, <2>5 DEF PutPixel
<1>2. CASE ~OnScreen(x, y)
  <2>1. StoresOf({<<x, y>>} \cap Pixels, c) = {}
    BY <1>2 DEF StoresOf, Pixels, OnScreen
  <2> QED
    BY <1>2, <2>1, PaintsNothing DEF PutPixel
<1> QED
  BY <1>1, <1>2

-----------------------------------------------------------------------------
Call == {Start} \cup GuiCalls \cup UserCalls

(* What is assumed of a call.                                              *)
LEMMA CallFacts ==
  ASSUME NEW c \in Call
  PROVE  /\ {c.x, c.y, c.w, c.h} \subseteq Nat /\ c.c \in Colors
         /\ c.op \in {"put", "fill", "move"}
         /\ c.op = "put" => c.w = 1 /\ c.h = 1
         /\ c.op = "move" => c.h = Len(CURSOR) /\ \A i \in DOMAIN CURSOR : Len(CURSOR[i]) = c.w
BY ScreenAssumption DEF Call

(* The pixels before, among and after the whole bytes of a row.            *)
LEMMA Alignment ==
  ASSUME NEW b \in Nat \ {0}, NEW x \in Nat
  PROVE  x <= ((x + b - 1) \div b) * b
<1>1. PICK m \in Nat : m = x + b - 1
  OBVIOUS
<1>2. m \div b \in Nat /\ m < (m \div b) * b + b
  BY <1>1
<1>3. PICK k \in Nat : k = (m \div b) * b
  BY <1>2
<1> QED
  BY <1>1, <1>2, <1>3

(* The head of a row and its tail lie within the rectangle.                *)
LEMMA WholeParts ==
  ASSUME NEW b \in Nat \ {0}, NEW m \in Nat
  PROVE  m \div b \in Nat /\ (m \div b) * b \in 0 .. m
<1>1. m \div b \in Nat /\ (m \div b) * b <= m
  OBVIOUS
<1>2. (m \div b) * b \in Nat
  BY <1>1
<1> QED
  BY <1>1, <1>2

(* A row of a rectangle stores to the pixels of that row.                  *)
LEMMA RowParts ==
  ASSUME NEW r \in Call
  PROVE  /\ HeadEnd(r) \in r.x .. r.x + r.w
         /\ FullCount(r) \in Nat /\ HeadEnd(r) \div BITS \in Nat
         /\ TailStart(r) \in HeadEnd(r) .. r.x + r.w
<1>1. r.x \in Nat /\ r.w \in Nat /\ BITS \in Nat \ {0}
  BY CallFacts, Sizes
<1>2. PICK x \in Nat, w \in Nat : x = r.x /\ w = r.w
  BY <1>1
<1>3. x <= Aligned(r) /\ Aligned(r) \in Int
  <2>1. PICK b \in Nat \ {0} : b = BITS
    BY <1>1
  <2>2. PICK m \in Nat : m = x + b - 1
    BY <2>1
  <2>3. PICK k \in Nat : k = (m \div b) * b
    BY WholeParts
  <2>4. x <= (m \div b) * b
    BY <2>2, Alignment
  <2> QED
    BY <1>2, <2>1, <2>2, <2>3, <2>4 DEF Aligned
<1>4. PICK h \in Nat : h = HeadEnd(r) /\ x <= h /\ h <= x + w
  BY <1>2, <1>3 DEF HeadEnd
<1>5. PICK m \in Nat : m = x + w - h
  BY <1>4
<1>6. FullCount(r) = m \div BITS
  BY <1>2, <1>4, <1>5 DEF FullCount
<1>7. m \div BITS \in Nat /\ (m \div BITS) * BITS \in 0 .. m
  BY <1>1, WholeParts
<1>8. PICK k \in 0 .. m : k = (m \div BITS) * BITS
  BY <1>7
<1>9. TailStart(r) = h + k
  BY <1>4, <1>6, <1>8 DEF TailStart
<1>10. h \div BITS \in Nat
  BY <1>1, <1>4, Sizes
<1> QED
  BY <1>2, <1>4, <1>5, <1>6, <1>7, <1>8, <1>9, <1>10

-----------------------------------------------------------------------------
(* One store paints its pixel.                                             *)
LEMMA StorePaints ==
  ASSUME NEW x, NEW y, NEW c
  PROVE  Paints(IF OnScreen(x, y) THEN <<Store(x, y, c)>> ELSE <<>>,
                StoresOf({<<x, y>>} \cap Pixels, c))
<1>1. CASE OnScreen(x, y)
  <2>1. StoresOf({<<x, y>>} \cap Pixels, c) = {Store(x, y, c)}
    <3>1. {<<x, y>>} \cap Pixels = {<<x, y>>}
      BY <1>1 DEF Pixels, OnScreen
    <3>2. StoresOf({<<x, y>>}, c) = {Store(x, y, c)}
      BY DEF StoresOf
    <3> QED
      BY <3>1, <3>2
  <2>2. PICK a : a = Store(x, y, c)
    OBVIOUS
  <2>3. <<a>> \in Seq(Quiet \cup {a}) /\ Has(<<a>>, a)
    BY DEF Has
  <2> QED
    BY <1>1, <2>1, <2>2, <2>3 DEF Paints
<1>2. CASE ~OnScreen(x, y)
  <2>1. StoresOf({<<x, y>>} \cap Pixels, c) = {}
    BY <1>2 DEF StoresOf, Pixels, OnScreen
  <2> QED
    BY <1>2, <2>1, PaintsNothing
<1> QED
  BY <1>1, <1>2

(* The stores of VgaFillRect, row after row, paint the rectangle as far as *)
(* it is on the screen.                                                    *)
LEMMA StoresPaint ==
  ASSUME NEW r \in Call
  PROVE  Paints(Stores(r), StoresOf(PixelsOf(r), r.c))
<1>1. PICK x \in Nat, y \in Nat : x = r.x /\ y = r.y
  BY CallFacts
<1>2. PICK w \in Nat, h \in Nat : w = r.w /\ h = r.h
  BY CallFacts
<1>3. PICK P : P = [i \in 1 .. h |-> [k \in 1 .. w |-> {<<x + k - 1, y + i - 1>>} \cap Pixels]]
  OBVIOUS
<1>4. PICK W : W = [i \in 1 .. h |-> [k \in 1 .. w |-> StoresOf(P[i][k], r.c)]]
  OBVIOUS
<1>5. PICK V : V = [i \in 1 .. h |-> UNION {W[i][k] : k \in 1 .. w}]
  OBVIOUS
<1>6. ASSUME NEW i \in 1 .. h PROVE Paints(StoreRow(r, y + i - 1), V[i])
  <2>1. PICK seqs : seqs = [k \in 1 .. w |->
                              IF OnScreen(x + k - 1, y + i - 1)
                              THEN <<Store(x + k - 1, y + i - 1, r.c)>> ELSE <<>>]
    OBVIOUS
  <2>2. ASSUME NEW k \in 1 .. w PROVE Paints(seqs[k], W[i][k])
    <3>1. Paints(IF OnScreen(x + k - 1, y + i - 1)
                 THEN <<Store(x + k - 1, y + i - 1, r.c)>> ELSE <<>>,
                 StoresOf({<<x + k - 1, y + i - 1>>} \cap Pixels, r.c))
      BY StorePaints
    <3>2. W[i][k] = StoresOf({<<x + k - 1, y + i - 1>>} \cap Pixels, r.c)
      BY <1>3, <1>4
    <3> QED
      BY <2>1, <3>1, <3>2
  <2>3. seqs = [k \in 1 .. w |-> seqs[k]]
    BY <2>1
  <2>4. PICK Z : Z = W[i]
    OBVIOUS
  <2>5. Paints(FlattenSeq(seqs), UNION {Z[k] : k \in 1 .. w})
    <3>1. \A k \in 1 .. w : Paints(seqs[k], Z[k])
      BY <2>2, <2>4
    <3> QED
      BY <2>3, <3>1, PaintsFlatten
  <2>6. StoreRow(r, y + i - 1) = FlattenSeq(seqs)
    BY <1>1, <1>2, <2>1 DEF StoreRow
  <2> QED
    BY <1>5, <2>4, <2>5, <2>6
<1>7. Paints(Stores(r), UNION {V[i] : i \in 1 .. h})
  <2>1. PICK seqs : seqs = [i \in 1 .. h |-> StoreRow(r, y + i - 1)]
    OBVIOUS
  <2>2. seqs = [i \in 1 .. h |-> seqs[i]] /\ \A i \in 1 .. h : Paints(seqs[i], V[i])
    BY <1>6, <2>1
  <2>3. Paints(FlattenSeq(seqs), UNION {V[i] : i \in 1 .. h})
    BY <2>2, PaintsFlatten
  <2> QED
    BY <1>1, <1>2, <2>1, <2>3 DEF Stores
<1>8. \A a : a \in UNION {V[i] : i \in 1 .. h} <=>
             \E i \in 1 .. h, k \in 1 .. w : a \in StoresOf(P[i][k], r.c)
  BY <1>4, <1>5
<1>9. \A q : q \in PixelsOf(r) <=> \E i \in 1 .. h, k \in 1 .. w : q \in P[i][k]
  <2>1. \A q : q \in PixelsOf(r) <=> q \in Pixels /\ q[1] \in x .. x + w - 1 /\ q[2] \in y .. y + h - 1
    BY <1>1, <1>2 DEF PixelsOf, Pixels
  <2>2. ASSUME NEW q, q \in PixelsOf(r) PROVE \E i \in 1 .. h, k \in 1 .. w : q \in P[i][k]
    <3>1. q \in Pixels /\ q[1] \in x .. x + w - 1 /\ q[2] \in y .. y + h - 1 /\ q = <<q[1], q[2]>>
      BY <2>1, <2>2 DEF Pixels
    <3>2. PICK i \in 1 .. h : q[2] = y + i - 1
      <4>1. q[2] - y + 1 \in 1 .. h /\ q[2] = y + (q[2] - y + 1) - 1
        BY <3>1
      <4> QED
        BY <4>1
    <3>3. PICK k \in 1 .. w : q[1] = x + k - 1
      <4>1. q[1] - x + 1 \in 1 .. w /\ q[1] = x + (q[1] - x + 1) - 1
        BY <3>1
      <4> QED
        BY <4>1
    <3>4. q \in P[i][k]
      BY <1>3, <3>1, <3>2, <3>3
    <3> QED
      BY <3>4
  <2>3. ASSUME NEW q, NEW i \in 1 .. h, NEW k \in 1 .. w, q \in P[i][k] PROVE q \in PixelsOf(r)
    <3>1. q = <<x + k - 1, y + i - 1>> /\ q \in Pixels
      BY <1>3, <2>3
    <3>2. q[1] = x + k - 1 /\ q[2] = y + i - 1
      BY <3>1
    <3> QED
      BY <2>1, <3>1, <3>2
  <2> QED
    BY <2>2, <2>3
<1>10. UNION {V[i] : i \in 1 .. h} = StoresOf(PixelsOf(r), r.c)
  <2>1. \A Q, a : a \in StoresOf(Q, r.c) <=> \E q \in Q : a = Store(q[1], q[2], r.c)
    BY DEF StoresOf
  <2>2. ASSUME NEW a PROVE a \in UNION {V[i] : i \in 1 .. h} <=> a \in StoresOf(PixelsOf(r), r.c)
    <3>1. a \in UNION {V[i] : i \in 1 .. h}
            <=> \E i \in 1 .. h, k \in 1 .. w : \E q \in P[i][k] : a = Store(q[1], q[2], r.c)
      <4>1. ASSUME NEW Q PROVE a \in StoresOf(Q, r.c) <=> \E q \in Q : a = Store(q[1], q[2], r.c)
        BY <2>1, Zenon
      <4>2. \A i \in 1 .. h, k \in 1 .. w :
              a \in StoresOf(P[i][k], r.c) <=> \E q \in P[i][k] : a = Store(q[1], q[2], r.c)
        BY <4>1
      <4> QED
        BY <1>8, <4>2
    <3>2. a \in StoresOf(PixelsOf(r), r.c) <=> \E q \in PixelsOf(r) : a = Store(q[1], q[2], r.c)
      BY <2>1, Zenon
    <3> HIDE DEF Store
    <3> QED
      BY <1>9, <3>1, <3>2, Zenon
  <2> QED
    BY <2>2
<1> QED
  BY <1>7, <1>10

-----------------------------------------------------------------------------
(* A rectangle paints its pixels: what the rows do beside is among them.   *)
LEMMA PutPixelsWithin ==
  ASSUME NEW r \in Call, NEW first \in r.x .. r.x + r.w, NEW last \in first - 1 .. r.x + r.w - 1,
         NEW y \in r.y .. r.y + r.h - 1
  PROVE  PutPixels(first, last, y, r.c) \in Seq(Quiet \cup StoresOf(PixelsOf(r), r.c))
<1>1. PICK S : S = Quiet \cup StoresOf(PixelsOf(r), r.c)
  OBVIOUS
<1>2. r.x \in Nat /\ r.w \in Nat /\ r.y \in Nat /\ r.h \in Nat
  BY CallFacts
<1>3. PICK n \in Nat : n = last - first + 1
  BY <1>2
<1>4. PICK seqs : seqs = [k \in 1 .. n |-> PutPixel(first + k - 1, y, r.c)]
  OBVIOUS
<1>5. ASSUME NEW k \in 1 .. n PROVE seqs[k] \in Seq(S)
  <2>1. PICK x \in Nat : x = first + k - 1 /\ x \in r.x .. r.x + r.w - 1
    BY <1>2, <1>3
  <2>2. y \in Nat
    BY <1>2
  <2>3. PutPixel(x, y, r.c) \in Seq(Quiet \cup StoresOf({<<x, y>>} \cap Pixels, r.c))
    BY <2>2, PutPixelPaints DEF Paints
  <2>4. {<<x, y>>} \cap Pixels \subseteq PixelsOf(r)
    BY <2>1 DEF PixelsOf, Pixels
  <2>5. StoresOf({<<x, y>>} \cap Pixels, r.c) \subseteq StoresOf(PixelsOf(r), r.c)
    BY <2>4 DEF StoresOf
  <2>6. Quiet \cup StoresOf({<<x, y>>} \cap Pixels, r.c) \subseteq S
    BY <1>1, <2>5
  <2> QED
    BY <1>4, <2>1, <2>3, <2>6, SeqWider
<1>6. seqs \in Seq(Seq(S))
  <2>1. seqs = [k \in 1 .. n |-> seqs[k]]
    BY <1>4
  <2> QED
    BY <1>5, <2>1
<1>7. PutPixels(first, last, y, r.c) = FlattenSeq(seqs)
  BY <1>3, <1>4 DEF PutPixels
<1> QED
  BY <1>1, <1>6, <1>7, FlattenTyped

(* Whole bytes are filled without a store to the shadow.                   *)
LEMMA FullBytesOver ==
  ASSUME NEW first \in Nat, NEW n \in Nat, NEW y \in Nat, NEW c, NEW S,
         NEW b, b = y * ROW_BYTES + first, Select(Planes) \in S,
         \A p \in Planes : Select({p}) \in S /\ \A k \in 1 .. n : Fill(b + k - 1, c, p) \in S
  PROVE  FullBytes(first, n, y, c) \in Seq(S)
<1>1. CASE n = 0
  BY <1>1, EmptySeq DEF FullBytes
<1>2. CASE n # 0
  <2>1. PICK fills : fills = [p \in Planes |-> [k \in 1 .. n |-> Fill(y * ROW_BYTES + first + k - 1, c, p)]]
    OBVIOUS
  <2>2. PICK seqs : seqs = [p \in Planes |-> <<Select({p})>> \o fills[p]]
    OBVIOUS
  <2>3. ASSUME NEW p \in Planes PROVE seqs[p] \in Seq(S)
    <3>1. \A k \in 1 .. n : fills[p][k] \in S
      BY <2>1
    <3>2. fills[p] = [k \in 1 .. n |-> fills[p][k]]
      BY <2>1
    <3>3. fills[p] \in Seq(S)
      BY <3>1, <3>2
    <3>4. <<Select({p})>> \in Seq(S)
      OBVIOUS
    <3> QED
      BY <2>2, <3>3, <3>4, ConcatProperties
  <2>4. seqs \in Seq(Seq(S))
    <3>1. PICK m \in Nat : m = PLANES /\ Planes = 1 .. m
      BY Sizes
    <3>2. PICK T : T = Seq(S)
      OBVIOUS
    <3>3. \A p \in 1 .. m : seqs[p] \in T
      BY <2>3, <3>1, <3>2
    <3>4. seqs = [p \in 1 .. m |-> seqs[p]]
      BY <2>2, <3>1
    <3> QED
      BY <3>2, <3>3, <3>4
  <2>5. FlattenSeq(seqs) \in Seq(S)
    BY <2>4, FlattenTyped
  <2>6. <<Select(Planes)>> \in Seq(S)
    OBVIOUS
  <2>7. FullBytes(first, n, y, c) = FlattenSeq(seqs) \o <<Select(Planes)>>
    <3>1. \A p \in Planes : seqs[p] = <<Select({p})>> \o [k \in 1 .. n |-> Fill(y * ROW_BYTES + first + k - 1, c, p)]
      BY <2>1, <2>2
    <3>2. seqs = [p \in Planes |-> <<Select({p})>> \o [k \in 1 .. n |-> Fill(y * ROW_BYTES + first + k - 1, c, p)]]
      BY <2>2, <3>1
    <3> QED
      BY <1>2, <3>2 DEF FullBytes
  <2> QED
    BY <2>5, <2>6, <2>7, ConcatProperties
<1> QED
  BY <1>1, <1>2

(* They leave the shadow alone.                                            *)
LEMMA FullBytesQuiet ==
  ASSUME NEW first \in Nat, NEW n \in Nat, NEW y \in Nat, NEW c \in Colors
  PROVE  FullBytes(first, n, y, c) \in Seq(Quiet)
<1>1. PICK b \in Nat : b = y * ROW_BYTES + first
  <2>1. PICK d \in Nat : d = y * ROW_BYTES
    BY Sizes
  <2> QED
    BY <2>1
<1>2. ASSUME NEW p \in Planes, NEW k \in 1 .. n PROVE Fill(b + k - 1, c, p) \in Quiet
  <2>1. PICK a \in Nat : a = b + k - 1
    OBVIOUS
  <2> QED
    BY <2>1 DEF Quiet
<1>3. Select(Planes) \in Quiet /\ \A p \in Planes : Select({p}) \in Quiet
  BY DEF Quiet, Colors
<1> QED
  BY <1>1, <1>2, <1>3, FullBytesOver

(* VgaFillRect stores the colour of all its pixels on the screen, and of   *)
(* no other.                                                               *)
LEMMA FillRectPaints ==
  ASSUME NEW r \in Call
  PROVE  Paints(FillRect(r), StoresOf(PixelsOf(r), r.c))
<1>1. PICK S : S = Quiet \cup StoresOf(PixelsOf(r), r.c)
  OBVIOUS
<1>2. r.x \in Nat /\ r.w \in Nat /\ r.y \in Nat /\ r.h \in Nat /\ r.c \in Colors
  BY CallFacts
<1>3. CASE r.w = 0 \/ r.h = 0
  <2>1. PixelsOf(r) = {}
    BY <1>2, <1>3 DEF PixelsOf
  <2>2. StoresOf(PixelsOf(r), r.c) = {}
    BY <2>1 DEF StoresOf
  <2> QED
    BY <1>3, <2>2, PaintsNothing DEF FillRect
<1>4. CASE ~(r.w = 0 \/ r.h = 0)
  <2>1. ASSUME NEW y \in r.y .. r.y + r.h - 1 PROVE FillRow(r, y) \in Seq(S)
    <3>1. CASE y \notin Ys
      BY <3>1, EmptySeq DEF FillRow
    <3>2. CASE y \in Ys
      <4>1. PutPixels(r.x, HeadEnd(r) - 1, y, r.c) \in Seq(S)
        <5>1. r.x \in r.x .. r.x + r.w /\ HeadEnd(r) - 1 \in r.x - 1 .. r.x + r.w - 1
          BY <1>2, RowParts
        <5> QED
          BY <1>1, <5>1, PutPixelsWithin
      <4>2. PutPixels(TailStart(r), r.x + r.w - 1, y, r.c) \in Seq(S)
        <5>1. TailStart(r) \in r.x .. r.x + r.w /\ r.x + r.w - 1 \in TailStart(r) - 1 .. r.x + r.w - 1
          BY <1>2, RowParts
        <5> QED
          BY <1>1, <5>1, PutPixelsWithin
      <4>3. FullBytes(HeadEnd(r) \div BITS, FullCount(r), y, r.c) \in Seq(S)
        <5>1. HeadEnd(r) \div BITS \in Nat /\ FullCount(r) \in Nat /\ y \in Nat
          BY <1>2, RowParts
        <5>2. FullBytes(HeadEnd(r) \div BITS, FullCount(r), y, r.c) \in Seq(Quiet)
          BY <1>2, <5>1, FullBytesQuiet
        <5> QED
          BY <1>1, <5>2, SeqWider
      <4> QED
        BY <3>2, <4>1, <4>2, <4>3, ConcatProperties DEF FillRow
    <3> QED
      BY <3>1, <3>2
  <2>2. PICK n \in Nat : n = r.h
    BY <1>2
  <2>3. PICK seqs : seqs = [k \in 1 .. n |-> FillRow(r, r.y + k - 1)]
    OBVIOUS
  <2>4. seqs \in Seq(Seq(S))
    <3>1. ASSUME NEW k \in 1 .. n PROVE seqs[k] \in Seq(S)
      <4>1. r.y + k - 1 \in r.y .. r.y + r.h - 1
        BY <1>2, <2>2
      <4> QED
        BY <2>1, <2>3, <4>1
    <3>2. seqs = [k \in 1 .. n |-> seqs[k]]
      BY <2>3
    <3> QED
      BY <3>1, <3>2
  <2>5. FlattenSeq(seqs) \in Seq(S)
    BY <2>4, FlattenTyped
  <2>6. Stores(r) \in Seq(S) /\ \A a \in StoresOf(PixelsOf(r), r.c) : Has(Stores(r), a)
    BY <1>1, StoresPaint DEF Paints
  <2>7. FillRect(r) = Stores(r) \o FlattenSeq(seqs)
    BY <1>4, <2>2, <2>3 DEF FillRect
  <2>8. PICK u \in Seq(S), v \in Seq(S) : u = Stores(r) /\ v = FlattenSeq(seqs)
    BY <2>5, <2>6
  <2>9. u \o v \in Seq(S)
    BY ConcatProperties
  <2>10. \A a \in StoresOf(PixelsOf(r), r.c) : Has(u \o v, a)
    BY <2>6, <2>8, ConcatHas
  <2> QED
    BY <1>1, <2>7, <2>8, <2>9, <2>10 DEF Paints
<1> QED
  BY <1>3, <1>4

(* So does every drawing call.                                             *)
LEMMA DrawAccessesPaint ==
  ASSUME NEW c \in GuiCalls \cup UserCalls, c.op # "move"
  PROVE  Paints(DrawAccesses[c], StoresOf(PixelsOf(c), c.c))
<1>1. c \in Call
  BY DEF Call
<1>2. CASE c.op = "put"
  <2>1. DrawAccesses[c] = PutPixel(c.x, c.y, c.c)
    BY <1>2 DEF DrawAccesses
  <2>2. c.x \in Nat /\ c.y \in Nat /\ c.w = 1 /\ c.h = 1
    BY <1>1, <1>2, CallFacts
  <2>3. PixelsOf(c) = {<<c.x, c.y>>} \cap Pixels
    <3>1. ASSUME NEW q \in Pixels PROVE q \in PixelsOf(c) <=> q = <<c.x, c.y>>
      <4>1. q = <<q[1], q[2]>> /\ q \in Xs \X Ys
        BY DEF Pixels
      <4>2. c.x .. c.x + c.w - 1 = {c.x} /\ c.y .. c.y + c.h - 1 = {c.y}
        BY <2>2
      <4> QED
        BY <4>1, <4>2 DEF PixelsOf
    <3>2. PixelsOf(c) \subseteq Pixels
      BY DEF PixelsOf, Pixels
    <3> QED
      BY <3>1, <3>2
  <2> QED
    BY <2>1, <2>2, <2>3, PutPixelPaints
<1>3. CASE c.op # "put"
  <2>1. DrawAccesses[c] = FillRect(c)
    BY <1>3 DEF DrawAccesses
  <2> QED
    BY <1>1, <2>1, FillRectPaints
<1> QED
  BY <1>2, <1>3

-----------------------------------------------------------------------------
(* The cells of the cursor are the pixels it covers.                       *)
CellSet == {cell \in [row : DOMAIN CURSOR, col : Nat] : cell.col \in DOMAIN CURSOR[cell.row]}
Moves == {c \in {Start} \cup GuiCalls : c.op = "move"}
CellOf(c, q) == [row |-> q[2] - c.y + 1, col |-> q[1] - c.x + 1]

(* Cells lists every place of the bitmap.                                  *)
LEMMA CellsFacts == Cells \in Seq(CellSet) /\ \A cell \in CellSet : Has(Cells, cell)
<1>1. PICK n \in Nat : n = Len(CURSOR) /\ DOMAIN CURSOR = 1 .. n
  BY ScreenAssumption
<1>2. PICK row : row = [i \in 1 .. n |-> [j \in DOMAIN CURSOR[i] |-> [row |-> i, col |-> j]]]
  OBVIOUS
<1>3. ASSUME NEW i \in 1 .. n
      PROVE  row[i] \in Seq(CellSet) /\ DOMAIN row[i] = DOMAIN CURSOR[i]
  <2>1. CURSOR[i] \in Seq(0 .. 2)
    BY <1>1, ScreenAssumption
  <2>2. PICK m \in Nat : DOMAIN CURSOR[i] = 1 .. m
    BY <2>1
  <2>3. row[i] = [j \in 1 .. m |-> [row |-> i, col |-> j]]
    BY <1>2, <2>2
  <2>4. \A j \in 1 .. m : [row |-> i, col |-> j] \in CellSet
    BY <1>1, <2>2 DEF CellSet
  <2> QED
    BY <2>2, <2>3, <2>4
<1>4. row \in Seq(Seq(CellSet)) /\ Len(row) = n
  <2>1. row = [i \in 1 .. n |-> row[i]]
    BY <1>2
  <2>2. PICK S : S = Seq(CellSet)
    OBVIOUS
  <2>3. \A i \in 1 .. n : row[i] \in S
    BY <1>3, <2>2
  <2> QED
    BY <2>1, <2>2, <2>3
<1>5. Cells = FlattenSeq(row)
  BY <1>1, <1>2 DEF Cells
<1>6. ASSUME NEW cell \in CellSet PROVE Has(Cells, cell)
  <2>1. PICK i \in 1 .. n : i = cell.row
    BY <1>1 DEF CellSet
  <2>2. PICK j \in DOMAIN CURSOR[i] : j = cell.col
    BY <2>1 DEF CellSet
  <2>3. cell = [row |-> i, col |-> j]
    BY <2>1, <2>2 DEF CellSet
  <2>4. j \in DOMAIN row[i] /\ row[i][j] = cell
    BY <1>2, <1>3, <2>3
  <2>5. Has(row[i], cell)
    BY <2>4 DEF Has
  <2> QED
    BY <1>4, <1>5, <2>1, <2>5, FlattenHas
<1> QED
  BY <1>4, <1>5, <1>6, FlattenTyped

(* A pixel of the cursor is one of its cells, and the other way round.     *)
LEMMA CellIs ==
  ASSUME NEW c \in Moves
  PROVE  /\ \A q \in PixelsOf(c) :
              /\ CellOf(c, q) \in CellSet /\ q = <<q[1], q[2]>> /\ q \in Pixels
              /\ X(c, CellOf(c, q)) = q[1] /\ Y(c, CellOf(c, q)) = q[2]
         /\ \A cell \in CellSet :
              /\ X(c, cell) \in Nat /\ Y(c, cell) \in Nat
              /\ <<X(c, cell), Y(c, cell)>> \in Pixels =>
                   /\ <<X(c, cell), Y(c, cell)>> \in PixelsOf(c)
                   /\ CellOf(c, <<X(c, cell), Y(c, cell)>>) = cell
<1>1. c \in Call /\ c.op = "move"
  BY DEF Moves, Call
<1>2. PICK x \in Nat, y \in Nat : x = c.x /\ y = c.y
  BY <1>1, CallFacts
<1>3. PICK w \in Nat, h \in Nat : w = c.w /\ h = c.h
  BY <1>1, CallFacts
<1>4. /\ DOMAIN CURSOR = 1 .. h
      /\ \A i \in 1 .. h : DOMAIN CURSOR[i] = 1 .. w
  <2>1. h = Len(CURSOR) /\ \A i \in DOMAIN CURSOR : Len(CURSOR[i]) = w
    BY <1>1, <1>3, CallFacts
  <2>2. DOMAIN CURSOR = 1 .. h /\ \A i \in 1 .. h : CURSOR[i] \in Seq(0 .. 2)
    BY <2>1, ScreenAssumption
  <2> QED
    BY <2>1, <2>2
<1>5. \A cell : cell \in CellSet <=> cell \in [row : 1 .. h, col : 1 .. w]
  <2>1. 1 .. w \subseteq Nat
    OBVIOUS
  <2> QED
    BY <1>4, <2>1 DEF CellSet
<1>6. ASSUME NEW q \in PixelsOf(c)
      PROVE  /\ CellOf(c, q) \in CellSet /\ q = <<q[1], q[2]>> /\ q \in Pixels
             /\ X(c, CellOf(c, q)) = q[1] /\ Y(c, CellOf(c, q)) = q[2]
  <2>1. q \in Pixels /\ q = <<q[1], q[2]>> /\ q[1] \in x .. x + w - 1 /\ q[2] \in y .. y + h - 1
    BY <1>2, <1>3 DEF PixelsOf, Pixels
  <2>2. PICK i, j : i = q[2] - y + 1 /\ j = q[1] - x + 1
    OBVIOUS
  <2>3. i \in 1 .. h /\ j \in 1 .. w /\ x + j - 1 = q[1] /\ y + i - 1 = q[2]
    BY <2>1, <2>2
  <2>4. CellOf(c, q) = [row |-> i, col |-> j]
    BY <1>2, <2>2 DEF CellOf
  <2> QED
    BY <1>2, <1>5, <2>1, <2>3, <2>4 DEF X, Y
<1>7. ASSUME NEW cell \in CellSet
      PROVE  /\ X(c, cell) \in Nat /\ Y(c, cell) \in Nat
             /\ <<X(c, cell), Y(c, cell)>> \in Pixels =>
                  /\ <<X(c, cell), Y(c, cell)>> \in PixelsOf(c)
                  /\ CellOf(c, <<X(c, cell), Y(c, cell)>>) = cell
  <2>1. cell \in [row : 1 .. h, col : 1 .. w]
    BY <1>5
  <2>2. PICK i \in 1 .. h, j \in 1 .. w : cell = [row |-> i, col |-> j]
    <3>1. cell.row \in 1 .. h /\ cell.col \in 1 .. w /\ cell = [row |-> cell.row, col |-> cell.col]
      BY <2>1
    <3> QED
      BY <3>1
  <2>3. X(c, cell) = x + j - 1 /\ Y(c, cell) = y + i - 1
    BY <1>2, <2>2 DEF X, Y
  <2>4. x + j - 1 \in Nat /\ y + i - 1 \in Nat
    OBVIOUS
  <2>5. PICK q : q = <<x + j - 1, y + i - 1>>
    OBVIOUS
  <2>6. q[1] = x + j - 1 /\ q[2] = y + i - 1
    BY <2>5
  <2>7. q[1] \in x .. x + w - 1 /\ q[2] \in y .. y + h - 1 /\ q[2] - y + 1 = i /\ q[1] - x + 1 = j
    BY <2>6
  <2>8. q \in Pixels => q \in PixelsOf(c)
    BY <1>2, <1>3, <2>7 DEF PixelsOf, Pixels
  <2>9. CellOf(c, q) = cell
    BY <1>2, <2>2, <2>7 DEF CellOf
  <2> QED
    BY <2>3, <2>4, <2>5, <2>8, <2>9
<1> QED
  BY <1>6, <1>7

-----------------------------------------------------------------------------
(* What a move does: stores of what was saved, then saves, then stores of  *)
(* the arrow.                                                              *)
Bg(c, q) == g_cursor_bg[q[2] - c.y + 1][q[1] - c.x + 1]

Restores(c) == {Store(q[1], q[2], Bg(c, q)) : q \in PixelsOf(c)}
SavesOf(c) == {Save(X(c, cell), Y(c, cell), cell) : cell \in CellSet}
ArrowStores(c) == {Store(q[1], q[2], col) : q \in ArrowAt(c), col \in Colors}

(* CursorErase stores what was saved of every pixel.                       *)
LEMMA CursorErasePaints ==
  ASSUME NEW c \in Moves
  PROVE  Paints(CursorErase(c), Restores(c))
<1>1. PICK n \in Nat : n = Len(Cells) /\ DOMAIN Cells = 1 .. n /\ \A k \in 1 .. n : Cells[k] \in CellSet
  BY CellsFacts
<1>2. PICK bg : bg = g_cursor_bg
  OBVIOUS
<1>3. PICK seqs : seqs = [k \in 1 .. n |-> PutPixel(X(c, Cells[k]), Y(c, Cells[k]), bg[Cells[k].row][Cells[k].col])]
  OBVIOUS
<1>4. PICK W : W = [k \in 1 .. n |-> StoresOf({<<X(c, Cells[k]), Y(c, Cells[k])>>} \cap Pixels, bg[Cells[k].row][Cells[k].col])]
  OBVIOUS
<1>5. ASSUME NEW k \in 1 .. n PROVE Paints(seqs[k], W[k])
  <2>1. X(c, Cells[k]) \in Nat /\ Y(c, Cells[k]) \in Nat
    BY <1>1, CellIs
  <2> QED
    BY <1>3, <1>4, <2>1, PutPixelPaints
<1>6. seqs = [k \in 1 .. n |-> seqs[k]]
  BY <1>3
<1>7. Paints(FlattenSeq(seqs), UNION {W[k] : k \in 1 .. n})
  BY <1>5, <1>6, PaintsFlatten
<1>8. CursorErase(c) = FlattenSeq(seqs)
  BY <1>1, <1>2, <1>3 DEF CursorErase
<1>9. ASSUME NEW k \in 1 .. n, NEW a \in W[k] PROVE a \in Restores(c)
  <2>1. PICK q \in {<<X(c, Cells[k]), Y(c, Cells[k])>>} \cap Pixels :
          a = Store(q[1], q[2], bg[Cells[k].row][Cells[k].col])
    BY <1>4, <1>9 DEF StoresOf
  <2>2. q \in PixelsOf(c) /\ CellOf(c, q) = Cells[k]
    BY <1>1, <2>1, CellIs
  <2>3. Bg(c, q) = bg[Cells[k].row][Cells[k].col]
    <3>1. Cells[k].row = q[2] - c.y + 1 /\ Cells[k].col = q[1] - c.x + 1
      BY <2>2 DEF CellOf
    <3> QED
      BY <1>2, <3>1 DEF Bg
  <2> QED
    BY <2>1, <2>2, <2>3 DEF Restores
<1>10. ASSUME NEW a \in Restores(c) PROVE \E k \in 1 .. n : a \in W[k]
  <2>1. PICK q \in PixelsOf(c) : a = Store(q[1], q[2], Bg(c, q))
    BY DEF Restores
  <2>2. PICK k \in 1 .. n : Cells[k] = CellOf(c, q)
    BY <1>1, CellIs, CellsFacts DEF Has
  <2>3. q \in {<<X(c, Cells[k]), Y(c, Cells[k])>>} \cap Pixels
    BY <2>2, CellIs
  <2>4. Bg(c, q) = bg[Cells[k].row][Cells[k].col]
    <3>1. Cells[k].row = q[2] - c.y + 1 /\ Cells[k].col = q[1] - c.x + 1
      BY <2>2 DEF CellOf
    <3> QED
      BY <1>2, <3>1 DEF Bg
  <2>5. a \in W[k]
    BY <1>4, <2>1, <2>3, <2>4 DEF StoresOf
  <2> QED
    BY <2>5
<1>11. UNION {W[k] : k \in 1 .. n} = Restores(c)
  BY <1>9, <1>10
<1> QED
  BY <1>7, <1>8, <1>11

(* All cells are saved.                                                    *)
LEMMA SaveAllFacts ==
  ASSUME NEW c \in Moves
  PROVE  SaveAll(c) \in Seq(SavesOf(c)) /\ \A a \in SavesOf(c) : Has(SaveAll(c), a)
<1>1. PICK n \in Nat : n = Len(Cells) /\ DOMAIN Cells = 1 .. n /\ \A k \in 1 .. n : Cells[k] \in CellSet
  BY CellsFacts
<1>2. PICK u : u = SaveAll(c)
  OBVIOUS
<1>3. u = [k \in 1 .. n |-> Save(X(c, Cells[k]), Y(c, Cells[k]), Cells[k])]
  BY <1>1, <1>2 DEF SaveAll
<1>4. \A k \in 1 .. n : u[k] \in SavesOf(c)
  BY <1>1, <1>3 DEF SavesOf
<1>5. u \in Seq(SavesOf(c)) /\ DOMAIN u = 1 .. n
  BY <1>3, <1>4
<1>6. ASSUME NEW a \in SavesOf(c) PROVE Has(u, a)
  <2>1. PICK cell \in CellSet : a = Save(X(c, cell), Y(c, cell), cell)
    BY DEF SavesOf
  <2>2. PICK k \in 1 .. n : Cells[k] = cell
    BY <1>1, CellsFacts DEF Has
  <2> QED
    BY <1>3, <1>5, <2>1, <2>2 DEF Has
<1> QED
  BY <1>2, <1>5, <1>6

(* The arrow stores only to the pixels of the arrow.                       *)
LEMMA ArrowTyped ==
  ASSUME NEW c \in Moves
  PROVE  Arrow(c) \in Seq(Quiet \cup ArrowStores(c))
<1>1. PICK n \in Nat : n = Len(Cells) /\ DOMAIN Cells = 1 .. n /\ \A k \in 1 .. n : Cells[k] \in CellSet
  BY CellsFacts
<1>2. PICK S : S = Quiet \cup ArrowStores(c)
  OBVIOUS
<1>3. PICK color : color = [k \in 1 .. n |-> IF CURSOR[Cells[k].row][Cells[k].col] = 1 THEN c.c ELSE Planes \ c.c]
  OBVIOUS
<1>4. \A k \in 1 .. n : color[k] \in Colors
  <2>1. c.c \in Colors
    BY CallFacts DEF Moves, Call
  <2> QED
    BY <1>3, <2>1 DEF Colors
<1>5. PICK seqs : seqs = [k \in 1 .. n |-> IF Opaque(Cells[k])
                            THEN PutPixel(X(c, Cells[k]), Y(c, Cells[k]), color[k]) ELSE <<>>]
  OBVIOUS
<1>6. ASSUME NEW k \in 1 .. n PROVE seqs[k] \in Seq(S)
  <2>1. CASE ~Opaque(Cells[k])
    <3>1. seqs[k] = <<>>
      BY <1>5, <2>1
    <3>2. <<>> \in Seq(S)
      BY EmptySeq
    <3> QED
      BY <3>1, <3>2, Zenon
  <2>2. CASE Opaque(Cells[k])
    <3>1. PICK q : q = <<X(c, Cells[k]), Y(c, Cells[k])>>
      OBVIOUS
    <3>2. PutPixel(X(c, Cells[k]), Y(c, Cells[k]), color[k]) \in Seq(Quiet \cup StoresOf({q} \cap Pixels, color[k]))
      BY <1>1, <3>1, CellIs, PutPixelPaints DEF Paints
    <3>3. {q} \cap Pixels \subseteq ArrowAt(c)
      <4> SUFFICES ASSUME q \in Pixels PROVE q \in ArrowAt(c)
        OBVIOUS
      <4>1. q \in PixelsOf(c) /\ CellOf(c, q) = Cells[k]
        BY <1>1, <3>1, CellIs
      <4>2. Cells[k].row = q[2] - c.y + 1 /\ Cells[k].col = q[1] - c.x + 1
        BY <4>1 DEF CellOf
      <4> QED
        BY <2>2, <4>1, <4>2 DEF ArrowAt, Opaque
    <3>4. StoresOf({q} \cap Pixels, color[k]) \subseteq ArrowStores(c)
      BY <1>4, <3>3 DEF StoresOf, ArrowStores
    <3>5. Quiet \cup StoresOf({q} \cap Pixels, color[k]) \subseteq S
      BY <1>2, <3>4
    <3>6. seqs[k] = PutPixel(X(c, Cells[k]), Y(c, Cells[k]), color[k])
      BY <1>5, <2>2
    <3>7. PICK w : w = PutPixel(X(c, Cells[k]), Y(c, Cells[k]), color[k])
      OBVIOUS
    <3>9. PICK T : T = Quiet \cup StoresOf({q} \cap Pixels, color[k])
      OBVIOUS
    <3>10. w \in Seq(T) /\ T \subseteq S
      BY <3>2, <3>5, <3>7, <3>9
    <3>8. w \in Seq(S)
      BY <3>10, SeqWider
    <3> QED
      BY <3>6, <3>7, <3>8
  <2> QED
    BY <2>1, <2>2
<1>7. seqs \in Seq(Seq(S))
  <2>1. seqs = [k \in 1 .. n |-> seqs[k]]
    BY <1>5
  <2> QED
    BY <1>6, <2>1
<1>8. Arrow(c) = FlattenSeq(seqs)
  <2>1. seqs = [k \in 1 .. n |-> IF Opaque(Cells[k])
                  THEN PutPixel(X(c, Cells[k]), Y(c, Cells[k]),
                                IF CURSOR[Cells[k].row][Cells[k].col] = 1 THEN c.c ELSE Planes \ c.c)
                  ELSE <<>>]
    BY <1>3, <1>5
  <2> QED
    BY <1>1, <2>1 DEF Arrow
<1> QED
  BY <1>2, <1>7, <1>8, FlattenTyped

-----------------------------------------------------------------------------
AllStores == {Store(x, y, c) : x \in Xs, y \in Ys, c \in Colors}
AllSaves == {Save(x, y, cell) : x \in Nat, y \in Nat, cell \in CellSet}
Access == Quiet \cup AllStores \cup AllSaves

(* The kinds of accesses do not overlap.                                   *)
LEMMA AccessOps ==
  /\ \A a \in Quiet : a.op \in {"gather", "select", "write", "fill"}
  /\ \A a \in AllStores :
       a.op = "store" /\ a.x \in Xs /\ a.y \in Ys /\ a.c \in Colors /\ a = Store(a.x, a.y, a.c)
  /\ \A a \in AllSaves :
       a.op = "save" /\ a.x \in Nat /\ a.y \in Nat /\ a.cell \in CellSet /\ a = Save(a.x, a.y, a.cell)
  /\ \A a \in Access : a.op \notin {"store", "save"} => a \in Quiet
  /\ \A a \in Access : (a.op = "store" => a \in AllStores) /\ (a.op = "save" => a \in AllSaves)
<1>1. \A a \in Quiet : a.op \in {"gather", "select", "write", "fill"}
  BY DEF Quiet, Gather, Select, Write, Fill
<1>2. \A a \in AllStores :
        a.op = "store" /\ a.x \in Xs /\ a.y \in Ys /\ a.c \in Colors /\ a = Store(a.x, a.y, a.c)
  BY DEF AllStores, Store
<1>3. \A a \in AllSaves :
        a.op = "save" /\ a.x \in Nat /\ a.y \in Nat /\ a.cell \in CellSet /\ a = Save(a.x, a.y, a.cell)
  BY DEF AllSaves, Save
<1> QED
  BY <1>1, <1>2, <1>3 DEF Access

SavesIn(u) == {i \in DOMAIN u : u[i].op = "save"}
StoresIn(u) == {i \in DOMAIN u : u[i].op = "store"}
Erases(u, i) == i \in StoresIn(u) /\ \E j \in SavesIn(u) : i < j

Erasing(u, a) == \E i \in DOMAIN u : Erases(u, i) /\ u[i] = a
SaveLeft(u, a) == \E i \in SavesIn(u) : u[i] = a

(* No store between two saves; every save is one of c's cells; the stores  *)
(* before a save are in Z, the others draw the arrow of c.                 *)
Ordered(u) == \A i \in SavesIn(u), j \in StoresIn(u), k \in SavesIn(u) : ~(i < j /\ j < k)

MoveShape(u, Z, c) ==
  /\ Ordered(u)
  /\ \A i \in SavesIn(u) : u[i] \in SavesOf(c)
  /\ \A i \in StoresIn(u) : u[i] \in IF Erases(u, i) THEN Z ELSE ArrowStores(c)

(* The saves and the stores of a move are accesses.                        *)
LEMMA SavesTyped == ASSUME NEW c \in Moves PROVE SavesOf(c) \subseteq AllSaves
<1> SUFFICES ASSUME NEW cell \in CellSet PROVE Save(X(c, cell), Y(c, cell), cell) \in AllSaves
  BY DEF SavesOf
<1>1. X(c, cell) \in Nat /\ Y(c, cell) \in Nat
  BY CellIs
<1> QED
  BY <1>1 DEF AllSaves

(* Stores of the arrow are stores to pixels of the screen.                 *)
LEMMA ArrowStoresTyped == ASSUME NEW c \in Moves PROVE ArrowStores(c) \subseteq AllStores
BY DEF ArrowStores, AllStores, ArrowAt, PixelsOf

(* What a move does, after e has stored Z: Z before the saves, all saves,  *)
(* and then the arrow.                                                     *)
LEMMA MoveFacts ==
  ASSUME NEW c \in Moves, NEW Z \in SUBSET AllStores, Z # {} => CellSet # {},
         NEW e, Paints(e, Z), NEW u, u = e \o CursorDraw(c)
  PROVE  /\ u \in Seq(Access) /\ MoveShape(u, Z, c)
         /\ \A a \in Z : Erasing(u, a)
         /\ \A a \in SavesOf(c) : Has(u, a)
<1>1. PICK s : s = SaveAll(c)
  OBVIOUS
<1>2. PICK r : r = Arrow(c)
  OBVIOUS
<1>3. s \in Seq(Access) /\ s \in Seq(SavesOf(c))
  <2>1. SavesOf(c) \subseteq Access
    BY SavesTyped DEF Access
  <2> QED
    BY <1>1, <2>1, SaveAllFacts, SeqWider
<1>4. r \in Seq(Access) /\ r \in Seq(Quiet \cup ArrowStores(c))
  <2>1. Quiet \cup ArrowStores(c) \subseteq Access
    BY ArrowStoresTyped DEF Access
  <2> QED
    BY <1>2, <2>1, ArrowTyped, SeqWider
<1>5. e \in Seq(Access) /\ e \in Seq(Quiet \cup Z)
  <2>1. Quiet \cup Z \subseteq Access
    BY DEF Access
  <2>2. e \in Seq(Quiet \cup Z)
    BY DEF Paints
  <2> QED
    BY <2>1, <2>2, SeqWider
<1>6. PICK v : v = s \o r
  OBVIOUS
<1>7. u = e \o v
  BY <1>1, <1>2, <1>6 DEF CursorDraw
<1>8. PICK m \in Nat, n \in Nat, p \in Nat : m = Len(e) /\ n = Len(s) /\ p = Len(r)
  BY <1>3, <1>4, <1>5
<1>9. /\ v \in Seq(Access) /\ Len(v) = n + p
      /\ \A k \in 1 .. n : v[k] = s[k]
      /\ \A k \in 1 .. p : v[n + k] = r[k]
  BY <1>3, <1>4, <1>6, <1>8, ConcatParts
<1>10. /\ u \in Seq(Access) /\ Len(u) = m + (n + p)
       /\ \A k \in 1 .. m : u[k] = e[k]
       /\ \A k \in 1 .. n + p : u[m + k] = v[k]
  <2>1. /\ e \o v \in Seq(Access) /\ Len(e \o v) = Len(e) + Len(v)
        /\ \A k \in 1 .. Len(e) : (e \o v)[k] = e[k]
        /\ \A k \in 1 .. Len(v) : (e \o v)[Len(e) + k] = v[k]
    <3>1. PICK A : A = Access /\ e \in Seq(A) /\ v \in Seq(A)
      BY <1>5, <1>9
    <3>2. /\ e \o v \in Seq(A) /\ Len(e \o v) = Len(e) + Len(v)
          /\ \A k \in 1 .. Len(e) : (e \o v)[k] = e[k]
      BY <3>1, ConcatParts
    <3>3. \A k \in 1 .. Len(v) : (e \o v)[Len(e) + k] = v[k]
      BY <3>1, ConcatParts
    <3> QED
      BY <3>1, <3>2, <3>3
  <2>2. Len(e) = m /\ Len(v) = n + p
    BY <1>8, <1>9
  <2> QED
    BY <1>7, <2>1, <2>2
<1>11. DOMAIN u = 1 .. m + (n + p)
  BY <1>10
<1>12. \A k \in 1 .. m : u[k] = e[k] /\ u[k] \in Quiet \cup Z /\ u[k].op # "save" /\ k \in DOMAIN u
  <2>1. \A k \in 1 .. m : e[k] \in Quiet \cup Z
    BY <1>5, <1>8
  <2>2. \A a \in Quiet \cup Z : a.op # "save"
    BY AccessOps
  <2>3. \A k \in 1 .. m : u[k] = e[k] /\ k \in DOMAIN u
    BY <1>10, <1>11
  <2> QED
    BY <2>1, <2>2, <2>3
<1>13. \A k \in 1 .. n : u[m + k] = s[k] /\ u[m + k] \in SavesOf(c) /\ u[m + k].op = "save" /\ m + k \in DOMAIN u
  <2>1. \A k \in 1 .. n : s[k] \in SavesOf(c) /\ k \in 1 .. n + p
    BY <1>3, <1>8
  <2>2. \A k \in 1 .. n : u[m + k] = s[k]
    BY <1>9, <1>10, <2>1
  <2>3. \A k \in 1 .. n : m + k \in DOMAIN u
    BY <1>11
  <2> QED
    BY <2>1, <2>2, <2>3, AccessOps, SavesTyped
<1>14. \A k \in 1 .. p : u[m + (n + k)] \in Quiet \cup ArrowStores(c) /\ u[m + (n + k)].op # "save"
  <2>1. \A k \in 1 .. p : r[k] \in Quiet \cup ArrowStores(c) /\ n + k \in 1 .. n + p
    BY <1>4, <1>8
  <2>2. \A k \in 1 .. p : u[m + (n + k)] = r[k]
    BY <1>9, <1>10, <2>1
  <2> QED
    BY <2>1, <2>2, AccessOps, ArrowStoresTyped
<1>15. \A i \in DOMAIN u : \/ i \in 1 .. m
                           \/ \E k \in 1 .. n : i = m + k
                           \/ \E k \in 1 .. p : i = m + (n + k)
  <2> SUFFICES ASSUME NEW i \in DOMAIN u, i \notin 1 .. m
               PROVE  \/ \E k \in 1 .. n : i = m + k
                      \/ \E k \in 1 .. p : i = m + (n + k)
    OBVIOUS
  <2>1. CASE i <= m + n
    <3>1. i - m \in 1 .. n /\ i = m + (i - m)
      BY <1>11, <2>1
    <3> QED
      BY <3>1
  <2>2. CASE ~(i <= m + n)
    <3>1. i - m - n \in 1 .. p /\ i = m + (n + (i - m - n))
      BY <1>11, <2>2
    <3> QED
      BY <3>1
  <2> QED
    BY <2>1, <2>2
<1>16. SavesIn(u) = {i \in Nat : m < i /\ i <= m + n}
  <2>1. ASSUME NEW i \in SavesIn(u) PROVE i \in Nat /\ m < i /\ i <= m + n
    <3>1. i \in DOMAIN u /\ u[i].op = "save"
      BY DEF SavesIn
    <3>2. PICK k \in 1 .. n : i = m + k
      BY <1>12, <1>14, <1>15, <3>1
    <3> QED
      BY <3>2
  <2>2. ASSUME NEW i \in Nat, m < i, i <= m + n PROVE i \in SavesIn(u)
    <3>1. i - m \in 1 .. n /\ i = m + (i - m)
      BY <2>2
    <3> QED
      BY <1>13, <3>1 DEF SavesIn
  <2> QED
    BY <2>1, <2>2
<1>17. \A i \in StoresIn(u) : i \in DOMAIN u /\ u[i].op = "store" /\ i \notin SavesIn(u) /\ i \in Nat
  BY <1>11 DEF StoresIn, SavesIn
<1>18. Ordered(u)
  <2>1. \A i, j, k \in Nat : m < i /\ i < j /\ j < k /\ k <= m + n => m < j /\ j <= m + n
    OBVIOUS
  <2> QED
    BY <1>16, <1>17, <2>1 DEF Ordered
<1>19. \A i \in SavesIn(u) : u[i] \in SavesOf(c)
  <2> SUFFICES ASSUME NEW i \in SavesIn(u) PROVE u[i] \in SavesOf(c)
    OBVIOUS
  <2>1. i - m \in 1 .. n /\ i = m + (i - m)
    BY <1>16
  <2> QED
    BY <1>13, <2>1
<1>20. n = 0 => Z = {}
  <2> SUFFICES ASSUME n = 0 PROVE CellSet = {}
    OBVIOUS
  <2>1. \A a \in SavesOf(c) : FALSE
    BY <1>1, <1>3, <1>8, SaveAllFacts DEF Has
  <2> QED
    BY <2>1 DEF SavesOf
<1>21. ASSUME NEW i \in StoresIn(u) PROVE u[i] \in IF Erases(u, i) THEN Z ELSE ArrowStores(c)
  <2>1. CASE i \in 1 .. m
    <3>1. u[i] \in Z
      BY <1>12, <1>17, <2>1, AccessOps
    <3>2. n # 0
      BY <1>20, <3>1
    <3>3. m + n \in SavesIn(u) /\ i < m + n
      BY <1>16, <2>1, <3>2
    <3> QED
      BY <3>1, <3>3 DEF Erases
  <2>2. CASE i \notin 1 .. m
    <3>1. PICK k \in 1 .. p : i = m + (n + k)
      <4>1. \A k \in 1 .. n : i # m + k
        BY <1>13, <1>17
      <4> QED
        BY <1>15, <1>17, <2>2, <4>1
    <3>2. u[i] \in ArrowStores(c)
      BY <1>14, <1>17, <3>1, AccessOps
    <3>3. \A j \in SavesIn(u) : ~(i < j)
      BY <1>16, <3>1
    <3> QED
      BY <3>2, <3>3 DEF Erases
  <2> QED
    BY <2>1, <2>2
<1>22. ASSUME NEW a \in Z PROVE Erasing(u, a)
  <2>1. Has(e, a)
    BY DEF Paints
  <2>2. PICK i \in 1 .. m : e[i] = a
    BY <1>5, <1>8, <2>1 DEF Has
  <2>3. i \in DOMAIN u /\ u[i] = a /\ a.op = "store"
    BY <1>12, <2>2, AccessOps
  <2>4. m + n \in SavesIn(u) /\ i < m + n
    BY <1>16, <1>20
  <2> QED
    BY <2>3, <2>4 DEF Erases, StoresIn, Erasing
<1>23. ASSUME NEW a \in SavesOf(c) PROVE Has(u, a)
  <2>1. PICK k \in 1 .. n : s[k] = a
    BY <1>1, <1>3, <1>8, SaveAllFacts DEF Has
  <2> QED
    BY <1>13, <2>1 DEF Has
<1> QED
  BY <1>10, <1>18, <1>19, <1>21, <1>22, <1>23 DEF MoveShape

-----------------------------------------------------------------------------
(* What an access does to the shadow and to what is saved.                 *)
IsScreen(s) ==
  s = [shadow |-> s.shadow, vram |-> s.vram, mask |-> s.mask, value |-> s.value, bg |-> s.bg]

ShadowAfter(sh, a) == IF a.op = "store" THEN [sh EXCEPT ![a.y][a.x] = a.c] ELSE sh
BgAfter(bg, sh, a) ==
  IF a.op # "save" THEN bg
  ELSE [bg EXCEPT ![a.cell.row][a.cell.col] = IF OnScreen(a.x, a.y) THEN sh[a.y][a.x] ELSE {}]
Written(v, b, m, value) ==
  [v EXCEPT ![b] = [i \in Bits |-> (v[b][i] \ m) \cup (IF i \in value THEN m ELSE {})]]

VramAfter(s, a) ==
  CASE a.op = "write" -> Written(s.vram, a.byte, s.mask, s.value)
    [] a.op = "fill" -> Written(s.vram, a.byte, s.mask, IF a.set THEN Bits ELSE {})
    [] OTHER -> s.vram

(* All that is left of an access.                                          *)
IsEffect(t, s, a) ==
  /\ IsScreen(t)
  /\ t.shadow = ShadowAfter(s.shadow, a)
  /\ t.vram = VramAfter(s, a)
  /\ t.mask = (IF a.op = "select" THEN a.planes ELSE s.mask)
  /\ t.value = (CASE a.op = "gather" -> Gathered(s, a) [] a.op = "write" -> {} [] OTHER -> s.value)
  /\ t.bg = BgAfter(s.bg, s.shadow, a)

(* Only a store changes the shadow, only a save what is saved, only a      *)
(* write or a fill the frame buffer.                                       *)
LEMMA EffectFacts ==
  ASSUME NEW s, IsScreen(s), NEW a \in Access
  PROVE  IsEffect(Effect(s, a), s, a)
<1> USE DEF IsEffect, ShadowAfter, BgAfter, VramAfter
<1>1. PICK sh, v, m, x, bg : s = [shadow |-> sh, vram |-> v, mask |-> m, value |-> x, bg |-> bg]
  BY DEF IsScreen
<1>2. s.shadow = sh /\ s.vram = v /\ s.mask = m /\ s.value = x /\ s.bg = bg
  BY <1>1
<1>3. CASE a.op = "store"
  <2>1. Effect(s, a) = [shadow |-> [sh EXCEPT ![a.y][a.x] = a.c], vram |-> v, mask |-> m, value |-> x, bg |-> bg]
    BY <1>1, <1>3 DEF Effect
  <2> QED
    BY <1>2, <1>3, <2>1 DEF IsScreen
<1>4. CASE a.op = "save"
  <2>1. PICK c : c = IF OnScreen(a.x, a.y) THEN s.shadow[a.y][a.x] ELSE {}
    OBVIOUS
  <2>2. Effect(s, a) = [s EXCEPT !.bg[a.cell.row][a.cell.col] = c]
    BY <1>4, <2>1 DEF Effect
  <2>3. Effect(s, a) = [shadow |-> sh, vram |-> v, mask |-> m, value |-> x,
                        bg |-> [bg EXCEPT ![a.cell.row][a.cell.col] = c]]
    BY <1>1, <2>2
  <2> QED
    BY <1>2, <1>4, <2>1, <2>3 DEF IsScreen
<1>5. CASE a.op = "gather"
  <2>1. PICK g : g = Gathered(s, a)
    OBVIOUS
  <2>2. Effect(s, a) = [s EXCEPT !.value = g]
    BY <1>5, <2>1 DEF Effect
  <2>3. Effect(s, a) = [shadow |-> sh, vram |-> v, mask |-> m, value |-> g, bg |-> bg]
    BY <1>1, <2>2
  <2> QED
    BY <1>2, <1>5, <2>1, <2>3 DEF IsScreen
<1>6. CASE a.op = "select"
  <2>1. Effect(s, a) = [shadow |-> sh, vram |-> v, mask |-> a.planes, value |-> x, bg |-> bg]
    BY <1>1, <1>6 DEF Effect
  <2> QED
    BY <1>2, <1>6, <2>1 DEF IsScreen
<1>7. ASSUME NEW value, NEW b
      PROVE  Stored(s, value, b) = [shadow |-> sh, vram |-> Written(v, b, m, value), mask |-> m, value |-> x, bg |-> bg]
  <2>1. PICK e : e = [i \in Bits |-> (v[b][i] \ m) \cup (IF i \in value THEN m ELSE {})]
    OBVIOUS
  <2>2. Stored(s, value, b) = [s EXCEPT !.vram[b] = e]
    BY <1>1, <1>2, <2>1 DEF Stored
  <2>3. Stored(s, value, b) = [shadow |-> sh, vram |-> [v EXCEPT ![b] = e], mask |-> m, value |-> x, bg |-> bg]
    BY <1>1, <2>2
  <2> QED
    BY <2>1, <2>3 DEF Written
<1>8. CASE a.op = "write"
  <2>1. PICK w : w = Written(v, a.byte, m, s.value)
    OBVIOUS
  <2>2. Effect(s, a) = [Stored(s, s.value, a.byte) EXCEPT !.value = {}]
    BY <1>8 DEF Effect
  <2>3. Stored(s, s.value, a.byte) = [shadow |-> sh, vram |-> w, mask |-> m, value |-> x, bg |-> bg]
    BY <1>7, <2>1
  <2>4. Effect(s, a) = [shadow |-> sh, vram |-> w, mask |-> m, value |-> {}, bg |-> bg]
    BY <2>2, <2>3
  <2> QED
    BY <1>2, <1>8, <2>1, <2>4 DEF IsScreen
<1>9. CASE a.op = "fill"
  <2>1. PICK f : f = IF a.set THEN Bits ELSE {}
    OBVIOUS
  <2>2. PICK w : w = Written(v, a.byte, m, f)
    OBVIOUS
  <2>3. Stored(s, f, a.byte) = [shadow |-> sh, vram |-> w, mask |-> m, value |-> x, bg |-> bg]
    BY <1>7, <2>2
  <2>4. Effect(s, a) = Stored(s, f, a.byte)
    BY <1>9, <2>1 DEF Effect
  <2> QED
    BY <1>2, <1>9, <2>1, <2>2, <2>3, <2>4 DEF IsScreen
<1>10. a.op \in {"store", "save", "gather", "select", "write", "fill"}
  BY AccessOps
<1> QED
  BY <1>3, <1>4, <1>5, <1>6, <1>8, <1>9, <1>10

-----------------------------------------------------------------------------
(* The accesses of a whole call.                                           *)
IsRun(f, s, u, n) == f = [k \in 0 .. n |-> IF k = 0 THEN s ELSE Effect(f[k - 1], u[k])]
HasRun(s, u, n) == \E f : IsRun(f, s, u, n)

(* The states between the accesses of a call exist, so that Run is the     *)
(* last.                                                                   *)
LEMMA RunExists ==
  ASSUME NEW s, NEW u, NEW m \in Nat
  PROVE  HasRun(s, u, m)
<1> DEFINE S == {n \in Nat : HasRun(s, u, n)}
<1>1. 0 \in S
  <2>1. PICK f : f = [k \in 0 .. 0 |-> s]
    OBVIOUS
  <2>2. f = [k \in 0 .. 0 |-> IF k = 0 THEN s ELSE Effect(f[k - 1], u[k])]
    BY <2>1
  <2> QED
    BY <2>2 DEF HasRun, IsRun
<1>2. ASSUME NEW n \in Nat, n \in S PROVE n + 1 \in S
  <2>1. PICK f : IsRun(f, s, u, n)
    BY <1>2 DEF HasRun
  <2>2. \A k \in 0 .. n : f[k] = IF k = 0 THEN s ELSE Effect(f[k - 1], u[k])
    BY <2>1 DEF IsRun
  <2>3. PICK g : g = [k \in 0 .. n + 1 |-> IF k = n + 1 THEN Effect(f[n], u[n + 1]) ELSE f[k]]
    OBVIOUS
  <2>4. /\ \A k \in 0 .. n : g[k] = f[k]
        /\ g[n + 1] = Effect(f[n], u[n + 1])
        /\ g = [k \in 0 .. n + 1 |-> g[k]]
    BY <2>3
  <2>5. ASSUME NEW k \in 0 .. n + 1 PROVE g[k] = IF k = 0 THEN s ELSE Effect(g[k - 1], u[k])
    <3>1. CASE k = 0
      <4>1. 0 \in 0 .. n
        OBVIOUS
      <4> QED
        BY <2>2, <2>4, <3>1, <4>1
    <3>2. CASE k = n + 1
      <4>1. n \in 0 .. n /\ k # 0 /\ k - 1 = n
        BY <3>2
      <4> QED
        BY <2>4, <3>2, <4>1
    <3>3. CASE k # 0 /\ k # n + 1
      <4>1. k \in 0 .. n /\ k - 1 \in 0 .. n
        BY <3>3
      <4> QED
        BY <2>2, <2>4, <3>3, <4>1
    <3> QED
      BY <3>1, <3>2, <3>3
  <2>6. IsRun(g, s, u, n + 1)
    BY <2>4, <2>5 DEF IsRun
  <2> QED
    BY <2>6 DEF HasRun
<1> HIDE DEF S
<1>3. Nat \subseteq S
  BY <1>1, <1>2, SetInduction
<1> QED
  BY <1>3 DEF S

(* And each is the effect of an access on the one before.                  *)
LEMMA RunIs ==
  ASSUME NEW s, NEW S, NEW u \in Seq(S)
  PROVE  \E f : /\ f[0] = s /\ Run(s, u) = f[Len(u)]
                /\ \A k \in 1 .. Len(u) : f[k] = Effect(f[k - 1], u[k])
<1>1. PICK n \in Nat : n = Len(u)
  OBVIOUS
<1>2. PICK f : f = CHOOSE g : IsRun(g, s, u, n)
  OBVIOUS
<1>3. IsRun(f, s, u, n)
  BY <1>2, RunExists DEF HasRun
<1>4. Run(s, u) = f[n]
  BY <1>1, <1>2 DEF Run, IsRun
<1>5. \A k \in 0 .. n : f[k] = IF k = 0 THEN s ELSE Effect(f[k - 1], u[k])
  BY <1>3 DEF IsRun
<1>6. 0 \in 0 .. n /\ \A k \in 1 .. n : k \in 0 .. n /\ k # 0
  OBVIOUS
<1> QED
  BY <1>1, <1>4, <1>5, <1>6

Shadows == [Ys -> [Xs -> Colors]]
Painted(sh, P, c) == [y \in Ys |-> [x \in Xs |-> IF <<x, y>> \in P THEN c ELSE sh[y][x]]]

(* A call that paints P with c leaves P in that colour, and all else as it *)
(* was.                                                                    *)
LEMMA RunPaints ==
  ASSUME NEW s, IsScreen(s), s.shadow \in Shadows, NEW P \in SUBSET Pixels, NEW c \in Colors,
         NEW u, Paints(u, StoresOf(P, c))
  PROVE  Run(s, u).shadow = Painted(s.shadow, P, c) /\ Run(s, u).bg = s.bg
<1>1. PICK W : W = StoresOf(P, c)
  OBVIOUS
<1>2. /\ W \subseteq AllStores
      /\ \A a \in W : a.op = "store" /\ <<a.x, a.y>> \in P /\ a.x \in Xs /\ a.y \in Ys /\ a.c = c
      /\ \A x, y : <<x, y>> \in P => Store(x, y, c) \in W
  <2>1. \A q \in P : q = <<q[1], q[2]>> /\ q[1] \in Xs /\ q[2] \in Ys
    BY DEF Pixels
  <2>2. \A a \in W : \E q \in P : a = Store(q[1], q[2], c)
    BY <1>1 DEF StoresOf
  <2>3. \A q \in P : Store(q[1], q[2], c) \in W
    BY <1>1 DEF StoresOf
  <2>4. ASSUME NEW x, NEW y, <<x, y>> \in P PROVE Store(x, y, c) \in W
    <3>1. PICK q \in P : q = <<x, y>>
      BY <2>4
    <3>2. q[1] = x /\ q[2] = y
      BY <3>1
    <3> QED
      BY <2>3, <3>2
  <2>5. ASSUME NEW a \in W
        PROVE  a \in AllStores /\ a.op = "store" /\ <<a.x, a.y>> \in P /\ a.x \in Xs /\ a.y \in Ys /\ a.c = c
    <3>1. PICK q \in P : a = Store(q[1], q[2], c)
      BY <2>2
    <3>2. a \in AllStores
      BY <2>1, <3>1 DEF AllStores
    <3>3. a.op = "store" /\ a.x = q[1] /\ a.y = q[2] /\ a.c = c
      BY <3>1 DEF Store
    <3> QED
      BY <2>1, <3>2, <3>3
  <2> QED
    BY <2>4, <2>5
<1>3. u \in Seq(Quiet \cup W) /\ \A a \in W : Has(u, a)
  BY <1>1 DEF Paints
<1>4. PICK n \in Nat : n = Len(u) /\ DOMAIN u = 1 .. n
  BY <1>3
<1>5. PICK f : /\ f[0] = s /\ Run(s, u) = f[n]
               /\ \A k \in 1 .. n : f[k] = Effect(f[k - 1], u[k])
  BY <1>3, <1>4, RunIs
<1>6. \A k \in 1 .. n : u[k] \in Access /\ u[k].op # "save" /\ (u[k].op = "store" => u[k] \in W)
  <2>1. \A k \in 1 .. n : u[k] \in Quiet \cup W
    BY <1>3, <1>4
  <2> QED
    BY <1>2, <2>1, AccessOps DEF Access
<1> DEFINE StoredBy(k, x, y) == \E j \in 1 .. k : u[j].op = "store" /\ u[j].x = x /\ u[j].y = y
           Good(k) == /\ IsScreen(f[k]) /\ f[k].shadow \in Shadows /\ f[k].bg = s.bg
                      /\ \A x \in Xs, y \in Ys :
                           f[k].shadow[y][x] = IF StoredBy(k, x, y) THEN c ELSE s.shadow[y][x]
           T == {k \in Nat : k \in 0 .. n => Good(k)}
<1>7. 0 \in T
  <2>1. \A x \in Xs, y \in Ys : ~StoredBy(0, x, y)
    OBVIOUS
  <2> QED
    BY <1>5, <2>1
<1>8. ASSUME NEW m \in Nat, m \in T PROVE m + 1 \in T
  <2> SUFFICES ASSUME m + 1 \in 0 .. n PROVE Good(m + 1)
    OBVIOUS
  <2>1. PICK k \in 1 .. n : k = m + 1 /\ k - 1 = m /\ m \in 0 .. n
    OBVIOUS
  <2>2. Good(m)
    BY <1>8, <2>1
  <2>3. PICK a \in Access : a = u[k] /\ a.op # "save" /\ (a.op = "store" => a \in W)
    BY <1>6
  <2>4. f[k] = Effect(f[m], a)
    BY <1>5, <2>1, <2>3
  <2>5. PICK g, t : g = f[m] /\ t = f[k]
    OBVIOUS
  <2>6. /\ IsScreen(t) /\ t.bg = g.bg
        /\ t.shadow = IF a.op = "store" THEN [g.shadow EXCEPT ![a.y][a.x] = a.c] ELSE g.shadow
    <3>1. IsScreen(g) /\ t = Effect(g, a)
      BY <2>1, <2>2, <2>4, <2>5
    <3>2. IsEffect(t, g, a)
      BY <2>3, <3>1, EffectFacts
    <3> QED
      BY <2>3, <3>2 DEF IsEffect, ShadowAfter, BgAfter
  <2>7. g.shadow \in Shadows /\ g.bg = s.bg
    BY <2>2, <2>5
  <2>8. ASSUME NEW x \in Xs, NEW y \in Ys
        PROVE  StoredBy(k, x, y) <=> StoredBy(m, x, y) \/ (a.op = "store" /\ a.x = x /\ a.y = y)
    <3>1. \A j : j \in 1 .. k <=> j \in 1 .. m \/ j = k
      BY <2>1
    <3> QED
      BY <2>3, <3>1
  <2>9. CASE a.op = "store"
    <3>1. a.x \in Xs /\ a.y \in Ys /\ a.c = c
      BY <1>2, <2>3, <2>9
    <3>2. PICK sh \in Shadows : sh = g.shadow
      BY <2>7
    <3>3. t.shadow = [sh EXCEPT ![a.y][a.x] = c]
      BY <2>6, <2>9, <3>1, <3>2
    <3>4. t.shadow \in Shadows
      BY <3>1, <3>2, <3>3 DEF Shadows
    <3>5. \A x \in Xs, y \in Ys : t.shadow[y][x] = IF a.x = x /\ a.y = y THEN c ELSE sh[y][x]
      BY <3>1, <3>2, <3>3 DEF Shadows
    <3>6. \A x \in Xs, y \in Ys : sh[y][x] = IF StoredBy(m, x, y) THEN c ELSE s.shadow[y][x]
      BY <2>2, <2>5, <3>2
    <3>7. \A x \in Xs, y \in Ys : t.shadow[y][x] = IF StoredBy(k, x, y) THEN c ELSE s.shadow[y][x]
      <4> HIDE DEF StoredBy
      <4> QED
        BY <2>8, <2>9, <3>5, <3>6
    <3> HIDE DEF StoredBy
    <3> QED
      BY <2>1, <2>5, <2>6, <2>7, <3>4, <3>7
  <2>10. CASE a.op # "store"
    <3>1. t.shadow = g.shadow
      BY <2>6, <2>10
    <3>2. \A x \in Xs, y \in Ys : t.shadow[y][x] = IF StoredBy(k, x, y) THEN c ELSE s.shadow[y][x]
      <4>1. \A x \in Xs, y \in Ys : g.shadow[y][x] = IF StoredBy(m, x, y) THEN c ELSE s.shadow[y][x]
        BY <2>2, <2>5
      <4> HIDE DEF StoredBy
      <4> QED
        BY <2>8, <2>10, <3>1, <4>1
    <3> HIDE DEF StoredBy
    <3> QED
      BY <2>1, <2>5, <2>6, <2>7, <3>1, <3>2
  <2> QED
    BY <2>9, <2>10
<1> HIDE DEF T
<1>9. Nat \subseteq T
  BY <1>7, <1>8, SetInduction
<1>10. Good(n)
  BY <1>9 DEF T
<1>11. ASSUME NEW x \in Xs, NEW y \in Ys PROVE StoredBy(n, x, y) <=> <<x, y>> \in P
  <2>1. ASSUME StoredBy(n, x, y) PROVE <<x, y>> \in P
    <3>1. PICK j \in 1 .. n : u[j].op = "store" /\ u[j].x = x /\ u[j].y = y
      BY <2>1
    <3> QED
      BY <1>2, <1>6, <3>1
  <2>2. ASSUME <<x, y>> \in P PROVE StoredBy(n, x, y)
    <3>1. Has(u, Store(x, y, c))
      BY <1>2, <1>3, <2>2
    <3>2. PICK j \in 1 .. n : u[j] = Store(x, y, c)
      BY <1>4, <3>1 DEF Has
    <3> QED
      BY <3>2 DEF Store
  <2> QED
    BY <2>1, <2>2
<1>12. PICK t : t = f[n].shadow /\ t \in Shadows
  BY <1>10
<1>13. \A x \in Xs, y \in Ys : t[y][x] = IF <<x, y>> \in P THEN c ELSE s.shadow[y][x]
  <2>1. \A x \in Xs, y \in Ys : t[y][x] = IF StoredBy(n, x, y) THEN c ELSE s.shadow[y][x]
    BY <1>10, <1>12
  <2> HIDE DEF StoredBy
  <2> QED
    BY <1>11, <2>1
<1>14. t = Painted(s.shadow, P, c)
  <2>1. t = [y \in Ys |-> t[y]] /\ \A y \in Ys : t[y] = [x \in Xs |-> t[y][x]]
    BY <1>12 DEF Shadows
  <2>2. PICK r : r = Painted(s.shadow, P, c)
    OBVIOUS
  <2>3. /\ r = [y \in Ys |-> r[y]]
        /\ \A y \in Ys : r[y] = [x \in Xs |-> IF <<x, y>> \in P THEN c ELSE s.shadow[y][x]]
    BY <2>2 DEF Painted
  <2>4. \A y \in Ys : t[y] = r[y]
    <3> SUFFICES ASSUME NEW y \in Ys PROVE t[y] = r[y]
      OBVIOUS
    <3>1. \A x \in Xs : t[y][x] = IF <<x, y>> \in P THEN c ELSE s.shadow[y][x]
      BY <1>13
    <3>2. [x \in Xs |-> t[y][x]] = [x \in Xs |-> IF <<x, y>> \in P THEN c ELSE s.shadow[y][x]]
      BY <3>1, Zenon
    <3> QED
      BY <2>1, <2>3, <3>2, Zenon
  <2> QED
    BY <2>1, <2>2, <2>3, <2>4
<1> QED
  BY <1>5, <1>10, <1>12, <1>14

-----------------------------------------------------------------------------
(* What is left after one access.                                          *)
LEMMA TailIndices ==
  ASSUME NEW u \in Seq(Access), u # <<>>, NEW t, t = Tail(u)
  PROVE  /\ t \in Seq(Access) /\ 1 \in DOMAIN u
         /\ \A i \in DOMAIN t : i \in Nat /\ i >= 1 /\ i + 1 \in DOMAIN u /\ t[i] = u[i + 1]
         /\ \A i \in DOMAIN u : i = 1 \/ \E j \in DOMAIN t : i = j + 1 /\ t[j] = u[i]
         /\ \A i \in DOMAIN u : i \in Nat /\ i >= 1
<1>1. PICK n \in Nat : n = Len(u) /\ DOMAIN u = 1 .. n
  OBVIOUS
<1>2. n >= 1 /\ 1 \in DOMAIN u
  BY <1>1
<1>3. t \in Seq(Access) /\ DOMAIN t = 1 .. n - 1 /\ \A i \in 1 .. n - 1 : t[i] = u[i + 1]
  BY <1>1, <1>2
<1>4. \A i \in DOMAIN t : i \in Nat /\ i >= 1 /\ i + 1 \in DOMAIN u /\ t[i] = u[i + 1]
  BY <1>1, <1>3
<1>5. ASSUME NEW i \in DOMAIN u PROVE i = 1 \/ \E j \in DOMAIN t : i = j + 1 /\ t[j] = u[i]
  <2> SUFFICES ASSUME i # 1 PROVE \E j \in DOMAIN t : i = j + 1 /\ t[j] = u[i]
    OBVIOUS
  <2>1. PICK j \in Nat : i = j + 1 /\ j \in 1 .. n - 1
    <3>1. i - 1 \in Nat /\ i = (i - 1) + 1 /\ i - 1 \in 1 .. n - 1
      BY <1>1
    <3> QED
      BY <3>1
  <2>2. j \in DOMAIN t /\ t[j] = u[i]
    BY <1>3, <2>1
  <2> QED
    BY <2>1, <2>2
<1>6. \A i \in DOMAIN u : i \in Nat /\ i >= 1
  BY <1>1
<1> QED
  BY <1>2, <1>3, <1>4, <1>5, <1>6

(* After one access of a move, what is left is the same kind of move; what *)
(* is not left is that access.                                             *)
LEMMA TailFacts ==
  ASSUME NEW u \in Seq(Access), u # <<>>, NEW t, t = Tail(u), NEW a, a = u[1],
         NEW Z, NEW c, MoveShape(u, Z, c)
  PROVE  /\ MoveShape(t, Z, c)
         /\ \A b : Erasing(u, b) => Erasing(t, b) \/ (a = b /\ a.op = "store")
         /\ \A b : SaveLeft(u, b) => SaveLeft(t, b) \/ (a = b /\ a.op = "save")
         /\ SavesIn(u) = {} => SavesIn(t) = {} /\ a.op # "save"
         /\ a.op = "store" => \/ a \in Z
                              \/ a \in ArrowStores(c) /\ SavesIn(t) = {}
         /\ a.op = "save" => a \in SavesOf(c) /\ \A b : ~Erasing(u, b)
<1>1. /\ \A i \in DOMAIN t : i \in Nat /\ i >= 1 /\ i + 1 \in DOMAIN u /\ t[i] = u[i + 1]
      /\ \A i \in DOMAIN u : i = 1 \/ \E j \in DOMAIN t : i = j + 1 /\ t[j] = u[i]
      /\ \A i \in DOMAIN u : i \in Nat /\ i >= 1
      /\ 1 \in DOMAIN u
  BY TailIndices
<1>2. \A i : i \in SavesIn(t) <=> i \in DOMAIN t /\ i + 1 \in SavesIn(u)
  BY <1>1 DEF SavesIn
<1>3. \A i : i \in StoresIn(t) <=> i \in DOMAIN t /\ i + 1 \in StoresIn(u)
  BY <1>1 DEF StoresIn
<1>4. ASSUME NEW i \in DOMAIN t PROVE Erases(t, i) <=> Erases(u, i + 1)
  <2>1. ASSUME Erases(t, i) PROVE Erases(u, i + 1)
    <3>1. PICK j \in SavesIn(t) : i < j
      BY <2>1 DEF Erases
    <3>2. j + 1 \in SavesIn(u) /\ i + 1 < j + 1
      BY <1>1, <1>2, <3>1
    <3> QED
      BY <1>3, <2>1, <3>2 DEF Erases
  <2>2. ASSUME Erases(u, i + 1) PROVE Erases(t, i)
    <3>1. PICK k \in SavesIn(u) : i + 1 < k
      BY <2>2 DEF Erases
    <3>2. k \in DOMAIN u
      BY DEF SavesIn
    <3>3. PICK j \in DOMAIN t : k = j + 1
      BY <1>1, <3>1, <3>2
    <3>4. j \in SavesIn(t) /\ i < j
      BY <1>1, <1>2, <3>1, <3>3
    <3> QED
      BY <1>3, <2>2, <3>4 DEF Erases
  <2> QED
    BY <2>1, <2>2
<1>5. MoveShape(t, Z, c)
  <2>1. Ordered(t)
    <3> SUFFICES ASSUME NEW i \in SavesIn(t), NEW j \in StoresIn(t), NEW k \in SavesIn(t), i < j /\ j < k
                 PROVE  FALSE
      BY DEF Ordered
    <3>1. i + 1 \in SavesIn(u) /\ j + 1 \in StoresIn(u) /\ k + 1 \in SavesIn(u)
      BY <1>2, <1>3
    <3>2. i \in Nat /\ j \in Nat /\ k \in Nat
      BY <1>1, <1>2, <1>3
    <3>3. i + 1 < j + 1 /\ j + 1 < k + 1
      BY <3>2
    <3> QED
      BY <3>1, <3>3 DEF MoveShape, Ordered
  <2>2. \A i \in SavesIn(t) : t[i] \in SavesOf(c)
    BY <1>1, <1>2 DEF MoveShape
  <2>3. \A i \in StoresIn(t) : t[i] \in IF Erases(t, i) THEN Z ELSE ArrowStores(c)
    BY <1>1, <1>3, <1>4 DEF MoveShape
  <2> QED
    BY <2>1, <2>2, <2>3 DEF MoveShape
<1>6. ASSUME NEW b, Erasing(u, b) PROVE Erasing(t, b) \/ (a = b /\ a.op = "store")
  <2>1. PICK i \in DOMAIN u : Erases(u, i) /\ u[i] = b
    BY <1>6 DEF Erasing
  <2>2. u[i].op = "store"
    BY <2>1 DEF Erases, StoresIn
  <2>3. ASSUME i # 1 PROVE Erasing(t, b)
    BY <1>1, <1>4, <2>1, <2>3 DEF Erasing
  <2> QED
    BY <2>1, <2>2, <2>3
<1>7. ASSUME NEW b, SaveLeft(u, b) PROVE SaveLeft(t, b) \/ (a = b /\ a.op = "save")
  <2>1. PICK i \in SavesIn(u) : u[i] = b
    BY <1>7 DEF SaveLeft
  <2>2. u[i].op = "save" /\ i \in DOMAIN u
    BY DEF SavesIn
  <2>3. ASSUME i # 1 PROVE SaveLeft(t, b)
    BY <1>1, <1>2, <2>1, <2>2, <2>3 DEF SaveLeft
  <2> QED
    BY <2>1, <2>2, <2>3
<1>8. SavesIn(u) = {} => SavesIn(t) = {} /\ a.op # "save"
  <2>1. a.op = "save" => 1 \in SavesIn(u)
    BY <1>1 DEF SavesIn
  <2> QED
    BY <1>2, <2>1
<1>9. ASSUME a.op = "store" PROVE a \in Z \/ (a \in ArrowStores(c) /\ SavesIn(t) = {})
  <2>1. 1 \in StoresIn(u)
    BY <1>1, <1>9 DEF StoresIn
  <2>2. CASE Erases(u, 1)
    BY <2>1, <2>2 DEF MoveShape
  <2>3. CASE ~Erases(u, 1)
    <3>1. a \in ArrowStores(c)
      BY <2>1, <2>3 DEF MoveShape
    <3>2. ASSUME NEW i \in SavesIn(t) PROVE FALSE
      <4>1. i \in DOMAIN t /\ i + 1 \in SavesIn(u)
        BY <1>2
      <4>2. 1 < i + 1
        BY <1>1, <4>1
      <4> QED
        BY <2>1, <2>3, <4>1, <4>2 DEF Erases
    <3> QED
      BY <3>1, <3>2
  <2> QED
    BY <2>2, <2>3
<1>10. ASSUME a.op = "save" PROVE a \in SavesOf(c) /\ \A b : ~Erasing(u, b)
  <2>1. 1 \in SavesIn(u)
    BY <1>1, <1>10 DEF SavesIn
  <2>2. a \in SavesOf(c)
    BY <2>1 DEF MoveShape
  <2>3. ASSUME NEW b, Erasing(u, b) PROVE FALSE
    <3>1. PICK i \in DOMAIN u : Erases(u, i)
      BY <2>3 DEF Erasing
    <3>2. PICK k \in SavesIn(u) : i < k
      BY <3>1 DEF Erases
    <3>3. i \in StoresIn(u)
      BY <3>1 DEF Erases
    <3>4. i # 1
      BY <2>1, <3>3 DEF SavesIn, StoresIn
    <3>5. 1 < i
      BY <1>1, <3>4
    <3> QED
      BY <2>1, <3>2, <3>3, <3>5 DEF MoveShape, Ordered
  <2> QED
    BY <2>2, <2>3
<1> QED
  BY <1>5, <1>6, <1>7, <1>8, <1>9, <1>10

-----------------------------------------------------------------------------
(* One access, pixel by pixel and cell by cell.                            *)
At(sh, q) == sh[q[2]][q[1]]
PixelOf(a) == <<a.x, a.y>>
BgTyped(bg) ==
  /\ DOMAIN bg = DOMAIN CURSOR
  /\ \A cell \in CellSet :
       cell.col \in DOMAIN bg[cell.row] /\ bg[cell.row][cell.col] \in Colors

(* A pixel is a column and a row of the screen.                            *)
LEMMA PixelIs == \A q \in Pixels : q = <<q[1], q[2]>> /\ q[1] \in Xs /\ q[2] \in Ys
BY DEF Pixels

(* Pixels have colours.                                                    *)
LEMMA AtTyped == ASSUME NEW sh \in Shadows PROVE \A q \in Pixels : At(sh, q) \in Colors
BY PixelIs DEF At, Shadows

(* An access changes at most the pixel it stores to.                       *)
LEMMA ShadowStep ==
  ASSUME NEW sh \in Shadows, NEW a \in Access
  PROVE  /\ ShadowAfter(sh, a) \in Shadows
         /\ a.op = "store" => PixelOf(a) \in Pixels /\ a.c \in Colors
         /\ \A q \in Pixels :
              At(ShadowAfter(sh, a), q) = IF a.op = "store" /\ PixelOf(a) = q THEN a.c ELSE At(sh, q)
<1>1. CASE a.op # "store"
  BY <1>1 DEF ShadowAfter
<1>2. CASE a.op = "store"
  <2>1. PICK x \in Xs, y \in Ys, c \in Colors : x = a.x /\ y = a.y /\ c = a.c
    BY <1>2, AccessOps
  <2>2. PICK t : t = [sh EXCEPT ![y][x] = c] /\ t = ShadowAfter(sh, a)
    BY <1>2, <2>1 DEF ShadowAfter
  <2>3. t \in Shadows
    BY <2>2 DEF Shadows
  <2>4. \A q1 \in Xs, q2 \in Ys : t[q2][q1] = IF x = q1 /\ y = q2 THEN c ELSE sh[q2][q1]
    BY <2>2 DEF Shadows
  <2>5. PixelOf(a) = <<x, y>> /\ <<x, y>> \in Pixels
    BY <2>1 DEF PixelOf, Pixels
  <2>6. ASSUME NEW q \in Pixels PROVE At(t, q) = IF <<x, y>> = q THEN c ELSE At(sh, q)
    <3>1. q[1] \in Xs /\ q[2] \in Ys /\ (<<x, y>> = q <=> x = q[1] /\ y = q[2])
      BY PixelIs
    <3> QED
      BY <2>4, <3>1 DEF At
  <2> QED
    BY <1>2, <2>1, <2>2, <2>3, <2>5, <2>6
<1> QED
  BY <1>1, <1>2

(* An access changes at most the cell it saves.                            *)
LEMMA BgStep ==
  ASSUME NEW bg, BgTyped(bg), NEW sh \in Shadows, NEW a \in Access
  PROVE  /\ BgTyped(BgAfter(bg, sh, a))
         /\ \A cell \in CellSet :
              BgAfter(bg, sh, a)[cell.row][cell.col] =
                IF a.op = "save" /\ a.cell = cell
                THEN IF OnScreen(a.x, a.y) THEN sh[a.y][a.x] ELSE {}
                ELSE bg[cell.row][cell.col]
<1>1. CASE a.op # "save"
  BY <1>1 DEF BgAfter
<1>2. CASE a.op = "save"
  <2>1. PICK v : v = IF OnScreen(a.x, a.y) THEN sh[a.y][a.x] ELSE {}
    OBVIOUS
  <2>2. v \in Colors
    BY <2>1 DEF OnScreen, Shadows, Colors
  <2>3. PICK r, k : r = a.cell.row /\ k = a.cell.col
    OBVIOUS
  <2>4. a.cell \in CellSet /\ a.cell = [row |-> r, col |-> k]
    BY <1>2, <2>3, AccessOps DEF CellSet
  <2>5. r \in DOMAIN bg /\ k \in DOMAIN bg[r]
    BY <2>3, <2>4 DEF BgTyped, CellSet
  <2>6. PICK t : t = [bg EXCEPT ![r][k] = v] /\ t = BgAfter(bg, sh, a)
    BY <1>2, <2>1, <2>3 DEF BgAfter
  <2>7. DOMAIN t = DOMAIN bg /\ \A i \in DOMAIN bg : DOMAIN t[i] = DOMAIN bg[i]
    BY <2>5, <2>6
  <2>8. \A i \in DOMAIN bg : \A j \in DOMAIN bg[i] : t[i][j] = IF i = r /\ j = k THEN v ELSE bg[i][j]
    BY <2>5, <2>6
  <2>9. ASSUME NEW cell \in CellSet
        PROVE  /\ t[cell.row][cell.col] = IF a.cell = cell THEN v ELSE bg[cell.row][cell.col]
               /\ cell.col \in DOMAIN t[cell.row] /\ t[cell.row][cell.col] \in Colors
    <3>1. PICK i, j : i = cell.row /\ j = cell.col
      OBVIOUS
    <3>2. i \in DOMAIN bg /\ j \in DOMAIN bg[i] /\ bg[i][j] \in Colors
      BY <3>1 DEF BgTyped, CellSet
    <3>3. cell = [row |-> i, col |-> j]
      BY <3>1 DEF CellSet
    <3>4. a.cell = cell <=> i = r /\ j = k
      BY <2>4, <3>3
    <3> QED
      BY <2>2, <2>7, <2>8, <3>1, <3>2, <3>4
  <2>10. DOMAIN t = DOMAIN CURSOR
    BY <2>7 DEF BgTyped
  <2> QED
    BY <1>2, <2>1, <2>6, <2>9, <2>10 DEF BgTyped
<1> QED
  BY <1>1, <1>2
-----------------------------------------------------------------------------
(* The invariant.  Between moves, and while the GUI thread moves the       *)
(* cursor with the accesses of u left.                                     *)
Shown(sh, pic, q) == At(sh, q) = At(pic, q)
Saved(bg, pic, c, q) == bg[q[2] - c.y + 1][q[1] - c.x + 1] = At(pic, q)

AtRest(sh, bg, pic, sp, p) ==
  \A q \in Pixels \ sp :
    /\ q \in ArrowAt(p) \/ Shown(sh, pic, q)
    /\ q \in PixelsOf(p) => Saved(bg, pic, p, q)

Mends(pic, sp, p) ==
  {a \in AllStores : PixelOf(a) \in PixelsOf(p) /\ (PixelOf(a) \in sp \/ a.c = At(pic, PixelOf(a)))}

ShowsSoon(u, sh, pic, c, q) ==
  \/ Shown(sh, pic, q)
  \/ Erasing(u, Store(q[1], q[2], At(pic, q)))
  \/ SavesIn(u) = {} /\ q \in ArrowAt(c)
SavedSoon(u, bg, pic, c, q) ==
  Saved(bg, pic, c, q) \/ SaveLeft(u, Save(q[1], q[2], CellOf(c, q)))

InMove(u, sh, bg, pic, sp, c, p) ==
  /\ MoveShape(u, Mends(pic, sp, p), c)
  /\ \A q \in Pixels \ sp :
       /\ ShowsSoon(u, sh, pic, c, q)
       /\ q \in PixelsOf(c) => SavedSoon(u, bg, pic, c, q)

(* When nothing is left of a move, the cursor is at rest at its new place. *)
LEMMA MoveEnds ==
  ASSUME NEW sh, NEW bg, NEW pic, NEW sp, NEW c, NEW p, InMove(<<>>, sh, bg, pic, sp, c, p)
  PROVE  AtRest(sh, bg, pic, sp, c)
<1>1. PICK u : u = <<>>
  OBVIOUS
<1>2. DOMAIN u = {}
  BY <1>1
<1>3. (\A a : ~Erasing(u, a)) /\ \A a : ~SaveLeft(u, a)
  BY <1>2 DEF Erasing, SaveLeft, SavesIn
<1>4. \A q \in Pixels \ sp : ShowsSoon(u, sh, pic, c, q) /\ (q \in PixelsOf(c) => SavedSoon(u, bg, pic, c, q))
  BY <1>1 DEF InMove
<1> QED
  BY <1>3, <1>4 DEF AtRest, ShowsSoon, SavedSoon

(* Every access of a move keeps the invariant: a pixel stored before the   *)
(* saves shows the picture again; a pixel is saved when nothing is left to *)
(* be erased.                                                              *)
LEMMA MoveStep ==
  ASSUME NEW sh \in Shadows, NEW bg, BgTyped(bg), NEW pic \in Shadows, NEW sp,
         NEW c \in Moves, NEW p \in Moves,
         NEW u \in Seq(Access), u # <<>>, InMove(u, sh, bg, pic, sp, c, p),
         NEW a \in Access, a = u[1]
  PROVE  InMove(Tail(u), ShadowAfter(sh, a), BgAfter(bg, sh, a), pic, sp, c, p)
<1>1. PICK t : t = Tail(u)
  OBVIOUS
<1>2. PICK Z : Z = Mends(pic, sp, p)
  OBVIOUS
<1>3. PICK sh2, bg2 : sh2 = ShadowAfter(sh, a) /\ bg2 = BgAfter(bg, sh, a)
  OBVIOUS
<1>4. /\ MoveShape(t, Z, c)
      /\ \A b : Erasing(u, b) => Erasing(t, b) \/ (a = b /\ a.op = "store")
      /\ \A b : SaveLeft(u, b) => SaveLeft(t, b) \/ (a = b /\ a.op = "save")
      /\ SavesIn(u) = {} => SavesIn(t) = {} /\ a.op # "save"
      /\ a.op = "store" => \/ a \in Z
                           \/ a \in ArrowStores(c) /\ SavesIn(t) = {}
      /\ a.op = "save" => a \in SavesOf(c) /\ \A b : ~Erasing(u, b)
  BY <1>1, <1>2, TailFacts DEF InMove
<1>5. ASSUME NEW q \in Pixels \ sp PROVE ShowsSoon(t, sh2, pic, c, q)
  <2>1. ShowsSoon(u, sh, pic, c, q)
    BY DEF InMove
  <2>2. At(sh2, q) = IF a.op = "store" /\ PixelOf(a) = q THEN a.c ELSE At(sh, q)
    BY <1>3, ShadowStep
  <2>3. CASE a.op = "store" /\ PixelOf(a) = q
    <3>1. CASE a \in Z
      BY <1>2, <2>2, <2>3, <3>1 DEF Mends, ShowsSoon, Shown
    <3>2. CASE a \in ArrowStores(c) /\ SavesIn(t) = {}
      <4>1. PICK r \in ArrowAt(c), col \in Colors : a = Store(r[1], r[2], col)
        BY <3>2 DEF ArrowStores
      <4>2. r \in Pixels
        BY DEF ArrowAt, PixelsOf, Pixels
      <4>3. r = q
        <5>1. a.x = r[1] /\ a.y = r[2]
          BY <4>1 DEF Store
        <5> QED
          BY <2>3, <4>2, <5>1, PixelIs DEF PixelOf
      <4> QED
        BY <3>2, <4>3 DEF ShowsSoon
    <3> QED
      BY <1>4, <2>3, <3>1, <3>2
  <2>4. CASE ~(a.op = "store" /\ PixelOf(a) = q)
    <3>1. CASE Shown(sh, pic, q)
      BY <2>2, <2>4, <3>1 DEF ShowsSoon, Shown
    <3>2. CASE Erasing(u, Store(q[1], q[2], At(pic, q)))
      <4>1. PICK b : b = Store(q[1], q[2], At(pic, q))
        OBVIOUS
      <4>2. PixelOf(b) = q
        BY <4>1, PixelIs DEF Store, PixelOf
      <4>3. Erasing(t, b)
        BY <1>4, <2>4, <3>2, <4>1, <4>2
      <4> QED
        BY <4>1, <4>3 DEF ShowsSoon
    <3>3. CASE SavesIn(u) = {} /\ q \in ArrowAt(c)
      BY <1>4, <3>3 DEF ShowsSoon
    <3> QED
      BY <2>1, <3>1, <3>2, <3>3 DEF ShowsSoon
  <2> QED
    BY <2>3, <2>4
<1>6. ASSUME NEW q \in Pixels \ sp, q \in PixelsOf(c) PROVE SavedSoon(t, bg2, pic, c, q)
  <2>1. SavedSoon(u, bg, pic, c, q) /\ ShowsSoon(u, sh, pic, c, q)
    BY <1>6 DEF InMove
  <2>2. PICK cell : cell = CellOf(c, q)
    OBVIOUS
  <2>3. cell \in CellSet /\ X(c, cell) = q[1] /\ Y(c, cell) = q[2]
    BY <1>6, <2>2, CellIs
  <2>4. cell.row = q[2] - c.y + 1 /\ cell.col = q[1] - c.x + 1
    BY <2>2 DEF CellOf
  <2>5. bg2[cell.row][cell.col] =
          IF a.op = "save" /\ a.cell = cell
          THEN IF OnScreen(a.x, a.y) THEN sh[a.y][a.x] ELSE {}
          ELSE bg[cell.row][cell.col]
    BY <1>3, <2>3, BgStep
  <2>6. CASE a.op = "save" /\ a.cell = cell
    <3>1. PICK k \in CellSet : a = Save(X(c, k), Y(c, k), k)
      BY <1>4, <2>6 DEF SavesOf
    <3>2. a.x = q[1] /\ a.y = q[2]
      BY <2>3, <2>6, <3>1 DEF Save
    <3>3. OnScreen(a.x, a.y) /\ sh[a.y][a.x] = At(sh, q)
      BY <3>2, PixelIs DEF OnScreen, At
    <3>4. Shown(sh, pic, q)
      BY <1>4, <2>1, <2>6 DEF ShowsSoon
    <3> QED
      BY <2>4, <2>5, <2>6, <3>3, <3>4 DEF SavedSoon, Saved, Shown
  <2>7. CASE ~(a.op = "save" /\ a.cell = cell)
    <3>1. CASE Saved(bg, pic, c, q)
      BY <2>4, <2>5, <2>7, <3>1 DEF SavedSoon, Saved
    <3>2. CASE SaveLeft(u, Save(q[1], q[2], cell))
      <4>1. PICK b : b = Save(q[1], q[2], cell)
        OBVIOUS
      <4>2. b.cell = cell
        BY <4>1 DEF Save
      <4>3. SaveLeft(t, b)
        BY <1>4, <2>7, <3>2, <4>1, <4>2
      <4> QED
        BY <2>2, <4>1, <4>3 DEF SavedSoon
    <3> QED
      BY <2>1, <2>2, <3>1, <3>2 DEF SavedSoon
  <2> QED
    BY <2>6, <2>7
<1> QED
  BY <1>1, <1>2, <1>3, <1>4, <1>5, <1>6 DEF InMove

-----------------------------------------------------------------------------
(* The first cursor, and the next one: what a move starts from.            *)
LEMMA MoveBegins ==
  ASSUME NEW sh, NEW bg, NEW pic, NEW sp, NEW c \in Moves, NEW p \in Moves,
         NEW Z, Z \subseteq Mends(pic, sp, p), NEW e, Paints(e, Z),
         \A q \in Pixels \ sp : Shown(sh, pic, q) \/ Store(q[1], q[2], At(pic, q)) \in Z
  PROVE  e \o CursorDraw(c) \in Seq(Access) /\ InMove(e \o CursorDraw(c), sh, bg, pic, sp, c, p)
<1>1. PICK u : u = e \o CursorDraw(c)
  OBVIOUS
<1>2. PICK M : M = Mends(pic, sp, p) /\ M \subseteq AllStores /\ Z \subseteq M
  BY DEF Mends
<1>3. Z # {} => CellSet # {}
  <2> SUFFICES ASSUME NEW a \in Z PROVE CellSet # {}
    OBVIOUS
  <2>1. PixelOf(a) \in PixelsOf(p)
    BY DEF Mends
  <2>2. CellOf(p, PixelOf(a)) \in CellSet
    BY <2>1, CellIs
  <2> QED
    BY <2>2
<1>4. /\ u \in Seq(Access) /\ MoveShape(u, Z, c)
      /\ \A a \in Z : Erasing(u, a)
      /\ \A a \in SavesOf(c) : Has(u, a)
  <2>1. Z \in SUBSET AllStores
    BY <1>2
  <2>2. u \in Seq(Access) /\ MoveShape(u, Z, c)
    BY <1>1, <1>3, <2>1, MoveFacts
  <2>3. \A a \in Z : Erasing(u, a)
    BY <1>1, <1>3, <2>1, MoveFacts
  <2>4. \A a \in SavesOf(c) : Has(u, a)
    BY <1>1, <1>3, <2>1, MoveFacts
  <2> QED
    BY <2>2, <2>3, <2>4
<1>5. MoveShape(u, M, c)
  BY <1>2, <1>4 DEF MoveShape
<1>6. ASSUME NEW q \in Pixels \ sp PROVE ShowsSoon(u, sh, pic, c, q)
  BY <1>4 DEF ShowsSoon
<1>7. ASSUME NEW q \in Pixels \ sp, q \in PixelsOf(c) PROVE SavedSoon(u, bg, pic, c, q)
  <2>1. PICK a, cell : cell = CellOf(c, q) /\ a = Save(q[1], q[2], cell)
    OBVIOUS
  <2>2. a \in SavesOf(c)
    <3>1. cell \in CellSet /\ X(c, cell) = q[1] /\ Y(c, cell) = q[2]
      BY <1>7, <2>1, CellIs
    <3> QED
      BY <2>1, <3>1 DEF SavesOf
  <2>3. PICK i \in DOMAIN u : u[i] = a
    BY <1>4, <2>2 DEF Has
  <2>4. i \in SavesIn(u)
    BY <2>1, <2>3 DEF SavesIn, Save
  <2>5. SaveLeft(u, a)
    BY <2>3, <2>4 DEF SaveLeft
  <2> QED
    BY <2>1, <2>5 DEF SavedSoon
<1> QED
  BY <1>1, <1>2, <1>4, <1>5, <1>6, <1>7 DEF InMove

(* A place of the cursor and what is saved for it.                         *)
LEMMA BgAt ==
  ASSUME NEW bg, BgTyped(bg), NEW p \in Moves
  PROVE  \A q \in PixelsOf(p) : bg[q[2] - p.y + 1][q[1] - p.x + 1] \in Colors
<1> SUFFICES ASSUME NEW q \in PixelsOf(p) PROVE bg[q[2] - p.y + 1][q[1] - p.x + 1] \in Colors
  OBVIOUS
<1>1. PICK cell \in CellSet : cell = CellOf(p, q)
  BY CellIs
<1>2. bg[cell.row][cell.col] \in Colors
  BY DEF BgTyped
<1>3. cell.row = q[2] - p.y + 1 /\ cell.col = q[1] - p.x + 1
  BY <1>1 DEF CellOf
<1> QED
  BY <1>2, <1>3

(* A move that starts when the cursor is at rest puts back the picture,    *)
(* for that is what is saved.                                              *)
LEMMA NextMoveBegins ==
  ASSUME NEW sh, NEW pic, NEW sp, NEW c \in Moves, prev \in Moves,
         BgTyped(g_cursor_bg), AtRest(sh, g_cursor_bg, pic, sp, prev)
  PROVE  MoveCursor(c) \in Seq(Access) /\ InMove(MoveCursor(c), sh, g_cursor_bg, pic, sp, c, prev)
<1>1. PICK p, bg : p = prev /\ bg = g_cursor_bg /\ p \in Moves
  OBVIOUS
<1>2. PICK e : e = CursorErase(prev)
  OBVIOUS
<1>3. PICK Z : Z = Restores(p)
  OBVIOUS
<1>4. Paints(e, Z)
  BY <1>1, <1>2, <1>3, CursorErasePaints
<1>5. \A q \in PixelsOf(p) : Bg(p, q) \in Colors /\ Bg(p, q) = bg[q[2] - p.y + 1][q[1] - p.x + 1]
  BY <1>1, BgAt DEF Bg
<1>6. Z \subseteq Mends(pic, sp, p)
  <2> SUFFICES ASSUME NEW a \in Z PROVE a \in Mends(pic, sp, p)
    OBVIOUS
  <2>1. PICK q \in PixelsOf(p) : a = Store(q[1], q[2], Bg(p, q))
    BY <1>3 DEF Restores
  <2>2. q \in Pixels
    BY DEF PixelsOf, Pixels
  <2>3. a.x = q[1] /\ a.y = q[2] /\ a.c = Bg(p, q)
    BY <2>1 DEF Store
  <2>4. PixelOf(a) = q
    BY <2>2, <2>3, PixelIs DEF PixelOf
  <2>5. a \in AllStores
    BY <1>5, <2>1, <2>2, PixelIs DEF AllStores
  <2>6. q \in sp \/ a.c = At(pic, q)
    BY <1>1, <1>5, <2>2, <2>3 DEF AtRest, Saved
  <2> QED
    BY <2>4, <2>5, <2>6 DEF Mends
<1>7. ASSUME NEW q \in Pixels \ sp
      PROVE  Shown(sh, pic, q) \/ Store(q[1], q[2], At(pic, q)) \in Z
  <2>1. CASE q \in PixelsOf(p)
    <3>1. Bg(p, q) = At(pic, q)
      BY <1>1, <1>5, <2>1 DEF AtRest, Saved
    <3> QED
      BY <1>3, <2>1, <3>1 DEF Restores
  <2>2. CASE q \notin PixelsOf(p)
    BY <1>1, <2>2 DEF AtRest, ArrowAt
  <2> QED
    BY <2>1, <2>2
<1>8. PICK u : u = e \o CursorDraw(c)
  OBVIOUS
<1>9. u \in Seq(Access) /\ InMove(u, sh, bg, pic, sp, c, p)
  BY <1>1, <1>4, <1>6, <1>7, <1>8, MoveBegins
<1> QED
  BY <1>1, <1>2, <1>8, <1>9 DEF MoveCursor

(* And the first move has nothing to put back.                             *)
LEMMA FirstMoveBegins ==
  ASSUME NEW sh, NEW bg
  PROVE  CursorDraw(Start) \in Seq(Access) /\ InMove(CursorDraw(Start), sh, bg, sh, {}, Start, Start)
<1>1. Start \in Moves
  BY ScreenAssumption DEF Moves
<1>2. PICK d : d = CursorDraw(Start)
  OBVIOUS
<1>3. <<>> \o d \in Seq(Access) /\ InMove(<<>> \o d, sh, bg, sh, {}, Start, Start)
  <2>1. PICK e, Z : e = <<>> /\ Z = {}
    OBVIOUS
  <2>2. Paints(e, Z)
    BY <2>1, PaintsNothing
  <2>3. Z \subseteq Mends(sh, {}, Start) /\ \A q \in Pixels \ {} : Shown(sh, sh, q)
    BY <2>1 DEF Shown
  <2> QED
    BY <1>1, <1>2, <2>1, <2>2, <2>3, MoveBegins
<1>4. <<>> \o d = d
  <2>1. SaveAll(Start) \in Seq(Access) /\ Arrow(Start) \in Seq(Access)
    <3>1. SavesOf(Start) \subseteq Access
      BY <1>1, SavesTyped DEF Access
    <3>2. Quiet \cup ArrowStores(Start) \subseteq Access
      BY <1>1, ArrowStoresTyped DEF Access
    <3> QED
      BY <1>1, <3>1, <3>2, SaveAllFacts, ArrowTyped, SeqWider
  <2>2. PICK v, w, A : v = SaveAll(Start) /\ w = Arrow(Start) /\ A = Access
    OBVIOUS
  <2>3. d = v \o w /\ v \in Seq(A) /\ w \in Seq(A)
    BY <1>2, <2>1, <2>2 DEF CursorDraw
  <2>4. d \in Seq(A)
    BY <2>3
  <2> QED
    BY <2>4
<1> QED
  BY <1>2, <1>3, <1>4

-----------------------------------------------------------------------------
(* Somebody draws P with a colour, while the pixels of U are under the     *)
(* cursor.                                                                 *)
Drawn(pic, P, U, c) ==
  [y \in Ys |-> [x \in Xs |->
     IF <<x, y>> \notin P THEN pic[y][x] ELSE IF <<x, y>> \in U THEN {} ELSE c]]
SpoiledBy(sp, P, U) == (sp \ P) \cup (P \cap U)

(* The picture after somebody drew.                                        *)
LEMMA DrawnAt ==
  ASSUME NEW pic \in Shadows, NEW P, NEW U, NEW c \in Colors
  PROVE  /\ Drawn(pic, P, U, c) \in Shadows
         /\ \A q \in Pixels : At(Drawn(pic, P, U, c), q) =
              IF q \notin P THEN At(pic, q) ELSE IF q \in U THEN {} ELSE c
<1>1. {} \in Colors
  BY DEF Colors
<1>2. Drawn(pic, P, U, c) \in Shadows
  BY <1>1 DEF Drawn, Shadows
<1>3. ASSUME NEW q \in Pixels
      PROVE  At(Drawn(pic, P, U, c), q) = IF q \notin P THEN At(pic, q) ELSE IF q \in U THEN {} ELSE c
  <2>1. PICK x \in Xs, y \in Ys : q = <<x, y>> /\ q[1] = x /\ q[2] = y
    BY PixelIs
  <2>2. At(Drawn(pic, P, U, c), q) = IF <<x, y>> \notin P THEN pic[y][x] ELSE IF <<x, y>> \in U THEN {} ELSE c
    BY <2>1 DEF At, Drawn
  <2> QED
    BY <2>1, <2>2 DEF At
<1> QED
  BY <1>2, <1>3

(* Drawing, while the cursor is at rest, keeps the invariant: what is      *)
(* drawn under the cursor is spoiled.                                      *)
LEMMA DrawnAtRest ==
  ASSUME NEW sh, NEW bg, NEW pic \in Shadows, NEW sp, NEW p \in Moves, NEW P, NEW U,
         PixelsOf(p) \subseteq U, NEW c \in Colors, AtRest(sh, bg, pic, sp, p),
         NEW sh2, \A q \in Pixels : At(sh2, q) = IF q \in P THEN c ELSE At(sh, q)
  PROVE  AtRest(sh2, bg, Drawn(pic, P, U, c), SpoiledBy(sp, P, U), p)
<1>1. PICK pic2 : pic2 = Drawn(pic, P, U, c)
  OBVIOUS
<1>2. \A q \in Pixels : At(pic2, q) = IF q \notin P THEN At(pic, q) ELSE IF q \in U THEN {} ELSE c
  BY <1>1, DrawnAt
<1>3. ASSUME NEW q \in Pixels \ SpoiledBy(sp, P, U)
      PROVE  /\ q \in ArrowAt(p) \/ Shown(sh2, pic2, q)
             /\ q \in PixelsOf(p) => Saved(bg, pic2, p, q)
  <2>1. CASE q \in P
    <3>1. q \notin U
      BY <2>1 DEF SpoiledBy
    <3> QED
      BY <1>2, <2>1, <3>1 DEF Shown
  <2>2. CASE q \notin P
    <3>1. q \notin sp
      BY <2>2 DEF SpoiledBy
    <3> QED
      BY <1>2, <2>2, <3>1 DEF AtRest, Shown, Saved
  <2> QED
    BY <2>1, <2>2
<1> QED
  BY <1>1, <1>3 DEF AtRest

(* So does drawing while the cursor moves, when both its places count as   *)
(* under it.                                                               *)
LEMMA DrawnInMove ==
  ASSUME NEW u, NEW sh, NEW bg, NEW pic \in Shadows, NEW sp, NEW d \in Moves, NEW p \in Moves,
         NEW P, NEW U, PixelsOf(p) \subseteq U, PixelsOf(d) \subseteq U,
         NEW c \in Colors, InMove(u, sh, bg, pic, sp, d, p),
         NEW sh2, \A q \in Pixels : At(sh2, q) = IF q \in P THEN c ELSE At(sh, q)
  PROVE  InMove(u, sh2, bg, Drawn(pic, P, U, c), SpoiledBy(sp, P, U), d, p)
<1>1. PICK pic2 : pic2 = Drawn(pic, P, U, c)
  OBVIOUS
<1>2. \A q \in Pixels : At(pic2, q) = IF q \notin P THEN At(pic, q) ELSE IF q \in U THEN {} ELSE c
  BY <1>1, DrawnAt
<1>3. PICK sp2 : sp2 = SpoiledBy(sp, P, U)
  OBVIOUS
<1>4. Mends(pic, sp, p) \subseteq Mends(pic2, sp2, p)
  <2> SUFFICES ASSUME NEW a \in Mends(pic, sp, p), PixelOf(a) \notin sp2 PROVE a.c = At(pic2, PixelOf(a))
    BY DEF Mends
  <2>1. PICK q \in PixelsOf(p) : q = PixelOf(a)
    BY DEF Mends
  <2>2. q \in Pixels /\ q \in U
    BY DEF PixelsOf, Pixels
  <2>3. q \notin P /\ q \notin sp
    BY <1>3, <2>1, <2>2 DEF SpoiledBy
  <2>4. a.c = At(pic, q)
    BY <2>1, <2>3 DEF Mends
  <2> QED
    BY <1>2, <2>1, <2>2, <2>3, <2>4
<1>5. MoveShape(u, Mends(pic2, sp2, p), d)
  BY <1>4 DEF InMove, MoveShape
<1>6. ASSUME NEW q \in Pixels \ sp2
      PROVE  /\ ShowsSoon(u, sh2, pic2, d, q)
             /\ q \in PixelsOf(d) => SavedSoon(u, bg, pic2, d, q)
  <2>1. CASE q \in P
    <3>1. q \notin U
      BY <1>3, <2>1 DEF SpoiledBy
    <3> QED
      BY <1>2, <2>1, <3>1 DEF ShowsSoon, Shown
  <2>2. CASE q \notin P
    <3>1. q \notin sp
      BY <1>3, <2>2 DEF SpoiledBy
    <3>2. ShowsSoon(u, sh, pic, d, q) /\ (q \in PixelsOf(d) => SavedSoon(u, bg, pic, d, q))
      BY <3>1 DEF InMove
    <3>3. At(pic2, q) = At(pic, q) /\ At(sh2, q) = At(sh, q)
      BY <1>2, <2>2
    <3> QED
      BY <3>2, <3>3 DEF ShowsSoon, Shown, SavedSoon, Saved
  <2> QED
    BY <2>1, <2>2
<1> QED
  BY <1>1, <1>3, <1>5, <1>6 DEF InMove

-----------------------------------------------------------------------------
TypeInv ==
  /\ g_shadow \in Shadows /\ picture \in Shadows /\ BgTyped(g_cursor_bg)
  /\ todo \in Seq(Access) /\ call \in {Start} \cup GuiCalls /\ prev \in Moves

CursorInv ==
  IF Moving THEN InMove(todo, g_shadow, g_cursor_bg, picture, spoiled, call, prev)
  ELSE SavesIn(todo) = {} /\ AtRest(g_shadow, g_cursor_bg, picture, spoiled, prev)

IInv == TypeInv /\ CursorInv

(* At the start the GUI thread is about to draw the first cursor.          *)
LEMMA InitCursor == Init => IInv
<1> SUFFICES ASSUME Init PROVE IInv
  OBVIOUS
<1>1. Start \in Moves
  BY ScreenAssumption DEF Moves
<1>2. CursorDraw(Start) \in Seq(Access) /\ InMove(CursorDraw(Start), g_shadow, g_cursor_bg, g_shadow, {}, Start, Start)
  BY FirstMoveBegins
<1>3. TypeInv
  <2>1. g_shadow \in Shadows
    BY DEF Init, Shadows, Colors
  <2>2. BgTyped(g_cursor_bg)
    BY DEF Init, BgTyped, CellSet, Colors
  <2> QED
    BY <1>1, <1>2, <2>1, <2>2 DEF Init, TypeInv, Moves
<1>4. InMove(todo, g_shadow, g_cursor_bg, picture, spoiled, call, prev)
  BY <1>2 DEF Init
<1>5. CASE todo = <<>>
  <2>1. AtRest(g_shadow, g_cursor_bg, picture, spoiled, prev)
    <3>1. call = prev
      BY DEF Init
    <3> QED
      BY <1>4, <1>5, <3>1, MoveEnds
  <2>2. SavesIn(todo) = {} /\ ~Moving
    BY <1>5 DEF SavesIn, Moving
  <2> QED
    BY <1>3, <2>1, <2>2 DEF IInv, CursorInv
<1>6. CASE todo # <<>>
  <2>1. Moving
    BY <1>1, <1>6 DEF Init, Moving, Moves
  <2> QED
    BY <1>3, <1>4, <2>1 DEF IInv, CursorInv
<1> QED
  BY <1>5, <1>6

(* Calls that are not moves save nothing, and are made of accesses.        *)
LEMMA PaintsHasNoSave ==
  ASSUME NEW W, W \subseteq AllStores, NEW u, Paints(u, W)
  PROVE  u \in Seq(Access) /\ SavesIn(u) = {}
<1>1. u \in Seq(Quiet \cup W)
  BY DEF Paints
<1>2. Quiet \cup W \subseteq Access
  BY DEF Access
<1>3. u \in Seq(Access)
  BY <1>1, <1>2, SeqWider
<1>4. \A i \in DOMAIN u : u[i] \in Quiet \cup W
  BY <1>1
<1>5. \A a \in Quiet \cup W : a.op # "save"
  BY AccessOps
<1> QED
  BY <1>3, <1>4, <1>5 DEF SavesIn

(* A call of the system calls that draw is made of quiet accesses and of   *)
(* stores to its own pixels.                                               *)
LEMMA CallPaints ==
  ASSUME NEW c \in Call, c.op # "move", c # Start
  PROVE  /\ Paints(DrawAccesses[c], StoresOf(PixelsOf(c), c.c))
         /\ StoresOf(PixelsOf(c), c.c) \subseteq AllStores
         /\ c.c \in Colors /\ PixelsOf(c) \subseteq Pixels
<1>1. c \in GuiCalls \cup UserCalls /\ c.c \in Colors
  BY CallFacts DEF Call
<1>2. PixelsOf(c) \subseteq Pixels
  BY DEF PixelsOf, Pixels
<1>3. StoresOf(PixelsOf(c), c.c) \subseteq AllStores
  BY <1>1, <1>2, PixelIs DEF StoresOf, AllStores
<1> QED
  BY <1>1, <1>2, <1>3, DrawAccessesPaint

(* A call begins.                                                          *)
LEMMA GuiCallKeeps == IInv /\ GuiCall => IInv'
<1> SUFFICES ASSUME IInv, GuiCall PROVE IInv'
  OBVIOUS
<1>1. /\ todo = <<>> /\ call' \in GuiCalls /\ todo' = Accesses(call')
      /\ UNCHANGED <<g_shadow, g_cursor_bg, prev, picture, spoiled>>
  BY DEF GuiCall, screen
<1>2. AtRest(g_shadow, g_cursor_bg, picture, spoiled, prev)
  BY <1>1 DEF IInv, CursorInv, Moving
<1>3. CASE call'.op = "move"
  <2>1. PICK c \in Moves : c = call'
    BY <1>1, <1>3 DEF Moves
  <2>2. MoveCursor(c) \in Seq(Access) /\ InMove(MoveCursor(c), g_shadow, g_cursor_bg, picture, spoiled, c, prev)
    BY <1>2, NextMoveBegins DEF IInv, TypeInv
  <2>3. todo' = MoveCursor(c)
    BY <1>1, <1>3, <2>1 DEF Accesses
  <2>4. todo' \in Seq(Access) /\ InMove(todo', g_shadow', g_cursor_bg', picture', spoiled', call', prev')
    BY <1>1, <2>1, <2>2, <2>3
  <2>5. TypeInv'
    BY <1>1, <2>4 DEF IInv, TypeInv
  <2>6. ~Moving' => SavesIn(todo') = {}
    BY <1>3 DEF Moving, SavesIn
  <2>7. AtRest(g_shadow', g_cursor_bg', picture', spoiled', prev')
    BY <1>1, <1>2
  <2> QED
    BY <2>4, <2>5, <2>6, <2>7 DEF IInv, CursorInv
<1>4. CASE call'.op # "move"
  <2>1. PICK c \in Call : c = call' /\ c # Start /\ c.op # "move"
    BY <1>1, <1>4, ScreenAssumption DEF Call
  <2>2. todo' = DrawAccesses[c]
    BY <1>1, <1>4, <2>1 DEF Accesses
  <2>3. todo' \in Seq(Access) /\ SavesIn(todo') = {}
    BY <2>1, <2>2, CallPaints, PaintsHasNoSave
  <2>4. TypeInv'
    BY <1>1, <2>3 DEF IInv, TypeInv
  <2>5. ~Moving' /\ AtRest(g_shadow', g_cursor_bg', picture', spoiled', prev')
    BY <1>1, <1>2, <1>4 DEF Moving
  <2> QED
    BY <2>3, <2>4, <2>5 DEF IInv, CursorInv
<1> QED
  BY <1>3, <1>4

(* An access of the GUI thread.                                            *)
LEMMA AccessIs ==
  ASSUME GuiAccess, TypeInv
  PROVE  \E a \in Access :
           /\ a = todo[1] /\ a = Head(todo)
           /\ g_shadow' = ShadowAfter(g_shadow, a)
           /\ g_cursor_bg' = BgAfter(g_cursor_bg, g_shadow, a)
<1>1. PICK a \in Access : a = Head(todo) /\ a = todo[1]
  <2>1. todo \in Seq(Access) /\ todo # <<>>
    BY DEF GuiAccess, TypeInv
  <2>2. todo[1] \in Access /\ Head(todo) = todo[1]
    BY <2>1
  <2> QED
    BY <2>2
<1>2. PICK s, t : s = Screen(planeValue) /\ t = Effect(s, a)
  OBVIOUS
<1>3. IsScreen(s) /\ s.shadow = g_shadow /\ s.bg = g_cursor_bg
  BY <1>2 DEF Screen, IsScreen
<1>4. IsEffect(t, s, a)
  BY <1>2, <1>3, EffectFacts
<1>5. g_shadow' = t.shadow /\ g_cursor_bg' = t.bg
  BY <1>1, <1>2 DEF GuiAccess, ScreenBecomes
<1> QED
  BY <1>1, <1>3, <1>4, <1>5 DEF IsEffect

(* An access of a move, the last one included, or of a drawing call.       *)
LEMMA GuiAccessKeeps == IInv /\ GuiAccess => IInv'
<1> SUFFICES ASSUME IInv, GuiAccess PROVE IInv'
  OBVIOUS
<1> USE DEF IInv
<1>1. PICK a \in Access : /\ a = todo[1] /\ a = Head(todo)
                          /\ g_shadow' = ShadowAfter(g_shadow, a)
                          /\ g_cursor_bg' = BgAfter(g_cursor_bg, g_shadow, a)
  BY AccessIs
<1>2. /\ todo # <<>> /\ todo' = Tail(todo) /\ call' = call
      /\ prev' = IF call.op = "move" /\ todo' = <<>> THEN call ELSE prev
  BY DEF GuiAccess
<1>3. /\ IF a.op = "store" /\ call.op # "move" THEN Draws({PixelOf(a)}, a.c)
         ELSE UNCHANGED <<picture, spoiled>>
  BY <1>1 DEF GuiAccess, PixelOf
<1>4. /\ g_shadow' \in Shadows /\ BgTyped(g_cursor_bg') /\ todo' \in Seq(Access)
      /\ call' \in {Start} \cup GuiCalls
  <2>1. todo' \in Seq(Access)
    BY <1>2, TailIndices DEF TypeInv
  <2> QED
    BY <1>1, <1>2, <2>1, ShadowStep, BgStep DEF TypeInv
<1>5. CASE call.op = "move"
  <2>1. call \in Moves
    BY <1>5 DEF TypeInv, Moves
  <2>2. InMove(todo, g_shadow, g_cursor_bg, picture, spoiled, call, prev)
    BY <1>2, <1>5 DEF CursorInv, Moving
  <2>3. UNCHANGED <<picture, spoiled>>
    BY <1>3, <1>5
  <2>4. InMove(todo', g_shadow', g_cursor_bg', picture, spoiled, call, prev)
    BY <1>1, <1>2, <2>1, <2>2, MoveStep DEF TypeInv
  <2>5. TypeInv'
    BY <1>2, <1>4, <2>1, <2>3 DEF TypeInv
  <2>6. CASE todo' # <<>>
    <3>1. Moving' /\ prev' = prev
      BY <1>2, <1>5, <2>6 DEF Moving
    <3> QED
      BY <1>2, <2>3, <2>4, <2>5, <3>1 DEF CursorInv
  <2>7. CASE todo' = <<>>
    <3>1. ~Moving' /\ prev' = call /\ SavesIn(todo') = {}
      BY <1>2, <1>5, <2>7 DEF Moving, SavesIn
    <3>2. AtRest(g_shadow', g_cursor_bg', picture, spoiled, call)
      BY <2>4, <2>7, MoveEnds
    <3> QED
      BY <2>3, <2>5, <3>1, <3>2 DEF CursorInv
  <2> QED
    BY <2>6, <2>7
<1>6. CASE call.op # "move"
  <2>1. SavesIn(todo) = {} /\ AtRest(g_shadow, g_cursor_bg, picture, spoiled, prev)
    BY <1>6 DEF CursorInv, Moving
  <2>2. prev' = prev /\ ~Moving'
    BY <1>2, <1>6 DEF Moving
  <2>3. SavesIn(todo') = {} /\ a.op # "save"
    <3>1. PICK u, t : u = todo /\ t = todo'
      OBVIOUS
    <3>2. u \in Seq(Access) /\ u # <<>> /\ t = Tail(u)
      BY <1>2, <3>1 DEF TypeInv
    <3>3. /\ \A i \in DOMAIN t : i + 1 \in DOMAIN u /\ t[i] = u[i + 1]
          /\ 1 \in DOMAIN u
      BY <3>2, TailIndices
    <3>4. \A i \in DOMAIN u : u[i].op # "save"
      BY <2>1, <3>1 DEF SavesIn
    <3>5. \A i \in DOMAIN t : t[i].op # "save"
      BY <3>3, <3>4
    <3>6. a = u[1]
      BY <1>1, <3>1
    <3>7. a.op # "save"
      BY <3>3, <3>4, <3>6
    <3> QED
      BY <3>1, <3>5, <3>7 DEF SavesIn
  <2>4. g_cursor_bg' = g_cursor_bg
    BY <1>1, <2>3 DEF BgAfter
  <2>5. CASE a.op = "store"
    <3>1. PICK U, P : U = UnderCursor /\ P = {PixelOf(a)}
      OBVIOUS
    <3>2. PICK c : c = a.c
      OBVIOUS
    <3>3. picture' = Drawn(picture, P, U, c) /\ spoiled' = SpoiledBy(spoiled, P, U)
      BY <1>3, <1>6, <2>5, <3>1, <3>2 DEF Draws, Drawn, SpoiledBy
    <3>4. PixelsOf(prev) \subseteq U
      BY <3>1 DEF UnderCursor
    <3>5. c \in Colors /\ \A q \in Pixels : At(g_shadow', q) = IF q \in P THEN c ELSE At(g_shadow, q)
      <4>1. \A q : q \in P <=> PixelOf(a) = q
        BY <3>1
      <4>2. c \in Colors
        BY <2>5, <3>2, ShadowStep DEF TypeInv
      <4>3. \A q \in Pixels : At(g_shadow', q) = IF PixelOf(a) = q THEN c ELSE At(g_shadow, q)
        BY <1>1, <2>5, <3>2, ShadowStep DEF TypeInv
      <4> QED
        BY <4>1, <4>2, <4>3
    <3>6. AtRest(g_shadow', g_cursor_bg, picture', spoiled', prev)
      BY <2>1, <3>3, <3>4, <3>5, DrawnAtRest DEF TypeInv
    <3>7. picture' \in Shadows
      BY <3>3, <3>5, DrawnAt DEF TypeInv
    <3>8. TypeInv'
      BY <1>4, <2>2, <3>7 DEF TypeInv
    <3> QED
      BY <2>2, <2>3, <2>4, <3>6, <3>8 DEF CursorInv
  <2>6. CASE a.op # "store"
    <3>1. UNCHANGED <<picture, spoiled, g_shadow, prev>>
      BY <1>1, <1>3, <2>2, <2>6 DEF ShadowAfter
    <3>2. TypeInv'
      BY <1>4, <3>1 DEF TypeInv
    <3> QED
      BY <2>1, <2>2, <2>3, <2>4, <3>1, <3>2 DEF CursorInv
  <2> QED
    BY <2>5, <2>6
<1> QED
  BY <1>5, <1>6

(* A system call, whatever the GUI thread is doing.                        *)
LEMMA SystemCallKeeps == ASSUME NEW c \in UserCalls PROVE IInv /\ SystemCall(c) => IInv'
<1> SUFFICES ASSUME IInv, SystemCall(c) PROVE IInv'
  OBVIOUS
<1> USE DEF IInv
<1>1. PICK s, u, t : s = Screen({}) /\ u = DrawAccesses[c] /\ t = Run(s, u)
  OBVIOUS
<1>2. IsScreen(s) /\ s.shadow = g_shadow /\ s.bg = g_cursor_bg
  BY <1>1 DEF Screen, IsScreen
<1>3. PICK P, col : P = PixelsOf(c) /\ col = c.c
  OBVIOUS
<1>4. c \in Call /\ c.op # "move" /\ c # Start
  BY ScreenAssumption DEF Call
<1>5. Paints(u, StoresOf(P, col)) /\ col \in Colors /\ P \in SUBSET Pixels
  BY <1>1, <1>3, <1>4, CallPaints
<1>6. t.shadow = Painted(g_shadow, P, col) /\ t.bg = g_cursor_bg
  BY <1>1, <1>2, <1>5, RunPaints DEF TypeInv
<1>7. g_shadow' = Painted(g_shadow, P, col) /\ g_cursor_bg' = g_cursor_bg
  BY <1>1, <1>6 DEF SystemCall, ScreenBecomes
<1>8. UNCHANGED <<call, todo, prev>> /\ Draws(P, col)
  BY <1>3 DEF SystemCall
<1>9. PICK U : U = UnderCursor
  OBVIOUS
<1>10. picture' = Drawn(picture, P, U, col) /\ spoiled' = SpoiledBy(spoiled, P, U)
  BY <1>8, <1>9 DEF Draws, Drawn, SpoiledBy
<1>11. g_shadow' \in Shadows /\ \A q \in Pixels : At(g_shadow', q) = IF q \in P THEN col ELSE At(g_shadow, q)
  <2>1. PICK sh \in Shadows : sh = g_shadow
    BY DEF TypeInv
  <2>2. Painted(sh, P, col) \in Shadows
    BY <1>5 DEF Painted, Shadows
  <2>3. ASSUME NEW q \in Pixels PROVE At(Painted(sh, P, col), q) = IF q \in P THEN col ELSE At(sh, q)
    <3>1. PICK x \in Xs, y \in Ys : q = <<x, y>> /\ q[1] = x /\ q[2] = y
      BY PixelIs
    <3> QED
      BY <3>1 DEF At, Painted
  <2> QED
    BY <1>7, <2>1, <2>2, <2>3
<1>12. TypeInv'
  <2>1. picture' \in Shadows
    BY <1>5, <1>10, DrawnAt DEF TypeInv
  <2> QED
    BY <1>7, <1>8, <1>11, <2>1 DEF TypeInv
<1>13. PixelsOf(prev) \subseteq U
  BY <1>9 DEF UnderCursor
<1>14. Moving' = Moving
  BY <1>8 DEF Moving
<1>15. CASE Moving
  <2>1. PixelsOf(call) \subseteq U
    BY <1>9, <1>15 DEF UnderCursor
  <2>2. call \in Moves
    BY <1>15 DEF TypeInv, Moving, Moves
  <2>3. InMove(todo, g_shadow, g_cursor_bg, picture, spoiled, call, prev)
    BY <1>15 DEF CursorInv
  <2>4. InMove(todo, g_shadow', g_cursor_bg, picture', spoiled', call, prev)
    BY <1>5, <1>10, <1>11, <1>13, <2>1, <2>2, <2>3, DrawnInMove DEF TypeInv
  <2> QED
    BY <1>7, <1>8, <1>12, <1>14, <1>15, <2>4 DEF CursorInv
<1>16. CASE ~Moving
  <2>1. SavesIn(todo) = {} /\ AtRest(g_shadow, g_cursor_bg, picture, spoiled, prev)
    BY <1>16 DEF CursorInv
  <2>2. AtRest(g_shadow', g_cursor_bg, picture', spoiled', prev)
    BY <1>5, <1>10, <1>11, <1>13, <2>1, DrawnAtRest DEF TypeInv
  <2> QED
    BY <1>7, <1>8, <1>12, <1>14, <1>16, <2>1, <2>2 DEF CursorInv
<1> QED
  BY <1>15, <1>16

(* Between calls the invariant is the property.                            *)
LEMMA InvShows == IInv => CursorLeavesNoTrace
<1> SUFFICES ASSUME IInv, todo = <<>>,
                    NEW q \in (Xs \X Ys) \ (ArrowAt(prev) \cup spoiled)
             PROVE  g_shadow[q[2]][q[1]] = picture[q[2]][q[1]]
  BY DEF CursorLeavesNoTrace
<1>1. AtRest(g_shadow, g_cursor_bg, picture, spoiled, prev)
  BY DEF IInv, CursorInv, Moving
<1> QED
  BY <1>1 DEF AtRest, Shown, At, Pixels

(* The cursor leaves no trace: between the calls of the GUI thread,        *)
(* wherever the arrow is not, g_shadow holds what was drawn, but for the   *)
(* pixels drawn while the cursor was over them. CursorErase, CursorDraw    *)
(* and the saved background of vga_cursor.c, for moves that overlap, reach *)
(* over the border, and are preempted by system calls that draw.           *)
THEOREM CursorLeavesNoTraceAlways == Spec => []CursorLeavesNoTrace
<1>1. IInv /\ [Next]_vars => IInv'
  <2> SUFFICES ASSUME IInv, [Next]_vars PROVE IInv'
    OBVIOUS
  <2>1. CASE GuiCall
    BY <2>1, GuiCallKeeps
  <2>2. CASE GuiAccess
    BY <2>2, GuiAccessKeeps
  <2>3. ASSUME NEW c \in UserCalls, SystemCall(c) PROVE IInv'
    BY <2>3, SystemCallKeeps
  <2>4. CASE UNCHANGED vars
    BY <2>4 DEF vars, screen, IInv, TypeInv, CursorInv, Moving
  <2> QED
    BY <2>1, <2>2, <2>3, <2>4 DEF Next
<1> QED
  BY InitCursor, <1>1, InvShows, PTL DEF Spec

(* Quotients and remainders.                                               *)
LEMMA Quotient ==
  ASSUME NEW R \in Nat \ {0}, NEW b \in Nat
  PROVE  /\ b \div R \in Nat /\ b % R \in 0 .. R - 1
         /\ (b \div R) * R \in Nat /\ b = (b \div R) * R + (b % R)
<1>1. b \div R \in Nat /\ b % R \in 0 .. R - 1
  OBVIOUS
<1>2. b = R * (b \div R) + (b % R)
  OBVIOUS
<1>3. PICK k \in Nat : k = b \div R
  BY <1>1
<1>4. k * R \in Nat /\ R * k = k * R
  OBVIOUS
<1> QED
  BY <1>1, <1>2, <1>3, <1>4

(* Multiplication keeps the order.                                         *)
LEMMA TimesMonotone ==
  ASSUME NEW R \in Nat, NEW m \in Nat, NEW n \in Nat, m <= n
  PROVE  m * R \in Nat /\ n * R \in Nat /\ m * R <= n * R
<1>1. PICK d \in Nat : n = m + d
  <2>1. n - m \in Nat /\ n = m + (n - m)
    OBVIOUS
  <2> QED
    BY <2>1
<1>2. (m + d) * R = m * R + d * R /\ d * R \in Nat /\ m * R \in Nat
  OBVIOUS
<1> QED
  BY <1>1, <1>2

(* One factor more.                                                        *)
LEMMA TimesStep ==
  ASSUME NEW R \in Nat, NEW n \in Nat
  PROVE  n * R \in Nat /\ (n + 1) * R = n * R + R
OBVIOUS

(* Quotient and remainder of a row-major offset are the row and the place  *)
(* in it.                                                                  *)
LEMMA QuotientIs ==
  ASSUME NEW R \in Nat \ {0}, NEW y \in Nat, NEW j \in 0 .. R - 1, NEW b, b = y * R + j
  PROVE  b \in Nat /\ b \div R = y /\ b % R = j
<1>1. y * R \in Nat
  OBVIOUS
<1>2. b \in Nat
  BY <1>1
<1>3. PICK q \in Nat, r \in 0 .. R - 1 : q = b \div R /\ r = b % R /\ b = q * R + r
  BY <1>2, Quotient
<1>4. q = y
  <2>1. ASSUME q < y PROVE FALSE
    <3>1. q + 1 <= y
      BY <2>1
    <3>2. (q + 1) * R <= y * R /\ (q + 1) * R = q * R + R /\ q * R \in Nat
      BY <3>1, TimesMonotone, TimesStep
    <3> QED
      BY <1>1, <1>3, <3>2
  <2>2. ASSUME y < q PROVE FALSE
    <3>1. y + 1 <= q
      BY <2>2
    <3>2. (y + 1) * R <= q * R /\ (y + 1) * R = y * R + R /\ q * R \in Nat
      BY <3>1, TimesMonotone, TimesStep
    <3> QED
      BY <1>1, <1>3, <3>2
  <2> QED
    BY <2>1, <2>2
<1>5. r = j
  BY <1>1, <1>3, <1>4
<1> QED
  BY <1>2, <1>3, <1>4, <1>5

-----------------------------------------------------------------------------
(* The bytes of the screen and the pixels they hold.                       *)
ColumnOf(b, i) == (b % ROW_BYTES) * BITS + i
PixelAt(b, i) == <<ColumnOf(b, i), b \div ROW_BYTES>>

(* The offset the code computes for a pixel, y * ROW_BYTES + x / BITS,     *)
(* tells its row and its byte column, and the bit tells the pixel.         *)
LEMMA ByteOfPixel ==
  ASSUME NEW x \in Nat, NEW y \in Nat, x \in Xs
  PROVE  /\ x \div BITS \in 0 .. ROW_BYTES - 1 /\ x % BITS \in Bits
         /\ y * ROW_BYTES \in Nat
         /\ ByteOf(x, y) = y * ROW_BYTES + x \div BITS
         /\ ByteOf(x, y) \div ROW_BYTES = y /\ ByteOf(x, y) % ROW_BYTES = x \div BITS
         /\ ColumnOf(ByteOf(x, y), x % BITS) = x
<1>1. PICK R \in Nat \ {0}, n \in Nat \ {0} : R = ROW_BYTES /\ n = BITS
  BY Sizes
<1>2. PICK q \in Nat, r \in 0 .. n - 1 : q = x \div n /\ r = x % n /\ x = q * n + r
  BY Quotient
<1>3. q <= R - 1
  <2> SUFFICES ASSUME R <= q PROVE FALSE
    OBVIOUS
  <2>1. R * n <= q * n /\ q * n \in Nat /\ R * n \in Nat
    BY TimesMonotone
  <2>2. x <= R * n - 1
    BY <1>1, <2>1 DEF Xs, Width
  <2> QED
    BY <1>2, <2>1, <2>2
<1>4. PICK b : b = y * R + q
  OBVIOUS
<1>5. b \in Nat /\ b \div R = y /\ b % R = q
  BY <1>3, <1>4, QuotientIs
<1>6. ByteOf(x, y) = b
  BY <1>1, <1>2, <1>4 DEF ByteOf
<1>7. y * R \in Nat
  OBVIOUS
<1>8. x \div BITS \in 0 .. ROW_BYTES - 1 /\ x % BITS \in Bits /\ y * ROW_BYTES \in Nat
  BY <1>1, <1>2, <1>3, <1>7 DEF Bits
<1>9. ByteOf(x, y) \div ROW_BYTES = y /\ ByteOf(x, y) % ROW_BYTES = x \div BITS
  BY <1>1, <1>2, <1>5, <1>6
<1>10. ColumnOf(ByteOf(x, y), x % BITS) = x
  <2>1. (b % R) * n + r = x
    BY <1>2, <1>5
  <2> QED
    BY <1>1, <1>2, <1>6, <2>1 DEF ColumnOf
<1> QED
  BY <1>8, <1>9, <1>10 DEF ByteOf

(* The byte of a pixel of the screen is one of the frame buffer of the     *)
(* screen.                                                                 *)
LEMMA ByteOfScreen ==
  ASSUME NEW q \in Pixels
  PROVE  /\ ByteOf(q[1], q[2]) \in ScreenBytes
         /\ q[1] \in Nat /\ q[2] \in Nat
<1>1. PICK R \in Nat \ {0}, h \in Nat \ {0} : R = ROW_BYTES /\ h = HEIGHT
  BY Sizes
<1>2. PICK x \in Xs, y \in Ys : x = q[1] /\ y = q[2]
  BY PixelIs
<1>3. x \in Nat /\ y \in Nat /\ y + 1 <= h
  BY <1>1, Sizes DEF Xs, Ys
<1>4. PICK j \in 0 .. R - 1 : ByteOf(x, y) = y * R + j
  BY <1>1, <1>3, ByteOfPixel
<1>5. y * R \in Nat /\ (y + 1) * R = y * R + R
  BY <1>3, TimesStep
<1>6. y * R + R <= h * R /\ h * R \in Nat
  BY <1>3, <1>5, TimesMonotone
<1>7. R * h = h * R
  OBVIOUS
<1>8. ByteOf(x, y) \in 0 .. R * h - 1
  BY <1>4, <1>5, <1>6, <1>7
<1> QED
  BY <1>1, <1>2, <1>3, <1>8 DEF ScreenBytes

(* And the pixel of a bit of such a byte is on the screen and has its byte *)
(* there.                                                                  *)
LEMMA PixelAtScreen ==
  ASSUME NEW b \in ScreenBytes, NEW i \in Bits
  PROVE  /\ PixelAt(b, i) \in Pixels /\ ColumnOf(b, i) \in Xs /\ b \div ROW_BYTES \in Ys
         /\ ColumnOf(b, i) \in Nat /\ b \div ROW_BYTES \in Nat
         /\ ByteOf(ColumnOf(b, i), b \div ROW_BYTES) = b
         /\ (b % ROW_BYTES) * BITS \in Nat
         /\ ColumnOf(b, i) \div BITS = b % ROW_BYTES
<1>1. PICK R \in Nat \ {0}, n \in Nat \ {0}, h \in Nat \ {0} : R = ROW_BYTES /\ n = BITS /\ h = HEIGHT
  BY Sizes
<1>2. b \in Nat /\ b <= R * h - 1 /\ i \in 0 .. n - 1
  <2>1. R * h \in Nat
    OBVIOUS
  <2> QED
    BY <1>1, <2>1 DEF ScreenBytes, Bits
<1>3. PICK y \in Nat, j \in 0 .. R - 1 : y = b \div R /\ j = b % R /\ b = y * R + j
  BY <1>2, Quotient
<1>4. y <= h - 1
  <2> SUFFICES ASSUME h <= y PROVE FALSE
    OBVIOUS
  <2>1. h * R <= y * R /\ y * R \in Nat /\ h * R \in Nat /\ R * h = h * R
    BY TimesMonotone
  <2> QED
    BY <1>2, <1>3, <2>1
<1>5. PICK x : x = j * n + i
  OBVIOUS
<1>6. x \in Nat /\ x \div n = j
  <2>1. j \in Nat /\ i \in 0 .. n - 1
    BY <1>2
  <2> QED
    BY <1>5, <2>1, QuotientIs
<1>7. x <= R * n - 1
  <2>1. j * n \in Nat /\ (j + 1) * n = j * n + n
    BY TimesStep
  <2>2. (j + 1) * n <= R * n /\ R * n \in Nat
    BY TimesMonotone
  <2> QED
    BY <1>2, <1>5, <2>1, <2>2
<1>8. ColumnOf(b, i) = x
  BY <1>1, <1>3, <1>5 DEF ColumnOf
<1>9. x \in Xs /\ y \in Ys
  <2>1. R * n \in Nat
    OBVIOUS
  <2> QED
    BY <1>1, <1>4, <1>6, <1>7, <2>1 DEF Xs, Ys, Width
<1>10. ByteOf(x, y) = b
  BY <1>1, <1>3, <1>6 DEF ByteOf
<1>11. j * n \in Nat
  OBVIOUS
<1> QED
  BY <1>1, <1>3, <1>6, <1>8, <1>9, <1>10, <1>11 DEF PixelAt, Pixels

-----------------------------------------------------------------------------
(* What an access does to the adapter.                                     *)
Frames == [0 .. VRAM - 1 -> [Bits -> Colors]]
Typed(s) ==
  /\ IsScreen(s) /\ s.shadow \in Shadows /\ s.vram \in Frames
  /\ s.mask \in Colors /\ s.value \in SUBSET Bits

(* A store to the frame buffer, byte by byte and bit by bit.               *)
IsWritten(w, v, b, m, value) == w = Written(v, b, m, value)
Reaches(w, v, b, m, value) ==
  /\ \A k \in 0 .. VRAM - 1 : k # b => w[k] = v[k]
  /\ b \in 0 .. VRAM - 1 =>
       \A i \in Bits : w[b][i] = (v[b][i] \ m) \cup (IF i \in value THEN m ELSE {})

(* A write reaches the byte it names, in the planes of the map mask only.  *)
LEMMA WrittenAt ==
  ASSUME NEW v \in Frames, NEW b, NEW m \in Colors, NEW value, NEW w, IsWritten(w, v, b, m, value)
  PROVE  w \in Frames /\ Reaches(w, v, b, m, value)
<1>1. PICK e : e = [i \in Bits |-> (v[b][i] \ m) \cup (IF i \in value THEN m ELSE {})]
  OBVIOUS
<1>2. w = [v EXCEPT ![b] = e]
  BY <1>1 DEF Written, IsWritten
<1>3. \A k \in 0 .. VRAM - 1 : w[k] = IF k = b THEN e ELSE v[k]
  BY <1>2 DEF Frames
<1>4. b \in 0 .. VRAM - 1 => e \in [Bits -> Colors]
  BY <1>1 DEF Frames, Colors
<1>5. w \in Frames
  BY <1>2, <1>3, <1>4 DEF Frames
<1> QED
  BY <1>1, <1>3, <1>5 DEF Reaches

(* An access keeps a screen a screen.                                      *)
LEMMA EffectTyped ==
  ASSUME NEW s, Typed(s), NEW a \in Access, NEW t, t = Effect(s, a)
  PROVE  Typed(t) /\ IsEffect(t, s, a)
<1>1. IsEffect(t, s, a)
  BY EffectFacts DEF Typed
<1>2. t.shadow \in Shadows
  BY <1>1, ShadowStep DEF IsEffect, Typed
<1>3. t.vram \in Frames
  <2>1. t.vram = VramAfter(s, a) /\ s.vram \in Frames /\ s.mask \in Colors
    BY <1>1 DEF IsEffect, Typed
  <2>2. \A b, value : Written(s.vram, b, s.mask, value) \in Frames
    <3> SUFFICES ASSUME NEW b, NEW value PROVE Written(s.vram, b, s.mask, value) \in Frames
      OBVIOUS
    <3>1. PICK v \in Frames : v = s.vram
      BY <2>1
    <3>2. PICK m \in Colors : m = s.mask
      BY <2>1
    <3>3. PICK w : w = Written(v, b, m, value)
      OBVIOUS
    <3>4. w \in Frames
      BY <3>3, WrittenAt DEF IsWritten
    <3> QED
      BY <3>1, <3>2, <3>3, <3>4
  <2>3. VramAfter(s, a) \in Frames
    BY <2>1, <2>2 DEF VramAfter
  <2> QED
    BY <2>1, <2>3
<1>4. t.mask \in Colors
  <2>1. a.op = "select" => a.planes \in Colors
    <3>1. a.op = "select" => a \in Quiet
      BY AccessOps
    <3>2. \A q \in Quiet : q.op = "select" => q.planes \in Colors
      BY DEF Quiet, Select, Gather, Write, Fill
    <3> QED
      BY <3>1, <3>2
  <2> QED
    BY <1>1, <2>1 DEF IsEffect, Typed
<1>5. t.value \in SUBSET Bits
  BY <1>1 DEF IsEffect, Typed, Gathered
<1> QED
  BY <1>1, <1>2, <1>3, <1>4, <1>5 DEF IsEffect, Typed

-----------------------------------------------------------------------------
(* The accesses of two calls are those of the first, then of the second.   *)
States(f, s, u, n) ==
  f[0] = s /\ Run(s, u) = f[n] /\ \A k \in 1 .. n : f[k] = Effect(f[k - 1], u[k])

(* A run has a state after each access.                                    *)
LEMMA StatesExist ==
  ASSUME NEW s, NEW S, NEW u \in Seq(S), NEW n, n = Len(u)
  PROVE  \E f : States(f, s, u, n)
<1>1. PICK f : /\ f[0] = s /\ Run(s, u) = f[Len(u)]
               /\ \A k \in 1 .. Len(u) : f[k] = Effect(f[k - 1], u[k])
  BY RunIs
<1> QED
  BY <1>1 DEF States

(* No access, no change.                                                   *)
LEMMA RunNothing == ASSUME NEW s PROVE Run(s, <<>>) = s
<1>1. PICK u : u = <<>>
  OBVIOUS
<1>2. u \in Seq({}) /\ 0 = Len(u)
  BY <1>1
<1>3. PICK f : States(f, s, u, 0)
  BY <1>2, StatesExist
<1> QED
  BY <1>1, <1>3 DEF States

(* A run of one access is its effect.                                      *)
LEMMA RunOne == ASSUME NEW s, NEW a PROVE Run(s, <<a>>) = Effect(s, a)
<1>1. PICK u : u = <<a>>
  OBVIOUS
<1>2. u \in Seq({a}) /\ Len(u) = 1 /\ u[1] = a
  BY <1>1
<1>3. PICK f : /\ f[0] = s /\ Run(s, u) = f[Len(u)]
               /\ \A k \in 1 .. Len(u) : f[k] = Effect(f[k - 1], u[k])
  BY <1>2, RunIs
<1>4. 1 \in 1 .. 1 /\ 1 - 1 = 0
  OBVIOUS
<1>5. f[1] = Effect(f[0], a)
  BY <1>2, <1>3, <1>4
<1> QED
  BY <1>1, <1>2, <1>3, <1>5

Joined(w, u, v) == w = u \o v
Resumes(s, w, u, v) == Run(s, w) = Run(Run(s, u), v)

(* A run of two parts is the run of the second from where the first ended. *)
LEMMA RunConcat ==
  ASSUME NEW s, NEW S, NEW u \in Seq(S), NEW v \in Seq(S), NEW w, Joined(w, u, v)
  PROVE  Resumes(s, w, u, v)
<1>1. PICK m \in Nat, n \in Nat : m = Len(u) /\ n = Len(v)
  OBVIOUS
<1>2. /\ w \in Seq(S) /\ Len(w) = m + n
      /\ \A k \in 1 .. m : w[k] = u[k]
      /\ \A k \in 1 .. n : w[m + k] = v[k]
  BY <1>1, ConcatParts DEF Joined
<1>15. PICK f : States(f, s, w, m + n)
  BY <1>2, StatesExist
<1>3. f[0] = s /\ Run(s, w) = f[m + n] /\ \A k \in 1 .. m + n : f[k] = Effect(f[k - 1], w[k])
  BY <1>15 DEF States
<1>16. PICK g : States(g, s, u, m)
  BY <1>1, StatesExist
<1>4. g[0] = s /\ Run(s, u) = g[m] /\ \A k \in 1 .. m : g[k] = Effect(g[k - 1], u[k])
  BY <1>16 DEF States
<1>5. PICK t : t = Run(s, u)
  OBVIOUS
<1>17. PICK h : States(h, t, v, n)
  BY <1>1, StatesExist
<1>6. h[0] = t /\ Run(t, v) = h[n] /\ \A k \in 1 .. n : h[k] = Effect(h[k - 1], v[k])
  BY <1>17 DEF States
<1> DEFINE A == {k \in Nat : k <= m => f[k] = g[k]}
<1>7. 0 \in A
  BY <1>3, <1>4
<1>8. ASSUME NEW k \in Nat, k \in A PROVE k + 1 \in A
  <2> SUFFICES ASSUME k + 1 <= m PROVE f[k + 1] = g[k + 1]
    OBVIOUS
  <2>1. PICK i : i = k + 1
    OBVIOUS
  <2>2. i \in 1 .. m /\ i \in 1 .. m + n /\ i - 1 = k /\ k <= m
    BY <2>1
  <2>3. f[k] = g[k]
    BY <1>8, <2>2
  <2>4. f[i] = Effect(f[k], u[i]) /\ g[i] = Effect(g[k], u[i])
    BY <1>2, <1>3, <1>4, <2>2
  <2> QED
    BY <2>1, <2>3, <2>4
<1> HIDE DEF A
<1>9. Nat \subseteq A
  BY <1>7, <1>8, SetInduction
<1>10. f[m] = h[0]
  <2>1. m \in A
    BY <1>9
  <2>2. f[m] = g[m]
    BY <2>1 DEF A
  <2> QED
    BY <1>4, <1>5, <1>6, <2>2
<1> DEFINE B == {k \in Nat : k <= n => f[m + k] = h[k]}
<1>11. 0 \in B
  <2>1. m + 0 = m
    OBVIOUS
  <2> QED
    BY <1>10, <2>1
<1>12. ASSUME NEW k \in Nat, k \in B PROVE k + 1 \in B
  <2> SUFFICES ASSUME k + 1 <= n PROVE f[m + (k + 1)] = h[k + 1]
    OBVIOUS
  <2>1. PICK i : i = k + 1
    OBVIOUS
  <2>2. i \in 1 .. n /\ i - 1 = k /\ k <= n
    BY <2>1
  <2>3. PICK j : j = m + i
    OBVIOUS
  <2>4. j \in 1 .. m + n /\ j - 1 = m + k
    BY <2>1, <2>2, <2>3
  <2>5. f[m + k] = h[k]
    BY <1>12, <2>2
  <2>6. f[j] = Effect(f[m + k], v[i])
    BY <1>2, <1>3, <2>2, <2>3, <2>4
  <2>7. h[i] = Effect(h[k], v[i])
    BY <1>6, <2>2
  <2> QED
    BY <2>1, <2>3, <2>5, <2>6, <2>7
<1> HIDE DEF B
<1>13. Nat \subseteq B
  BY <1>11, <1>12, SetInduction
<1>14. f[m + n] = h[n]
  BY <1>13 DEF B
<1> QED
  BY <1>3, <1>5, <1>6, <1>14 DEF Resumes

(* The first access, and then the others.                                  *)
LEMMA RunHead ==
  ASSUME NEW s, NEW S, NEW u \in Seq(S), u # <<>>
  PROVE  Run(s, u) = Run(Effect(s, Head(u)), Tail(u))
<1>1. PICK a : a = Head(u)
  OBVIOUS
<1>2. PICK v : v = Tail(u)
  OBVIOUS
<1>8. a \in S /\ v \in Seq(S)
  BY <1>1, <1>2, HeadTailProperties
<1>3. PICK w : w = <<a>>
  OBVIOUS
<1>4. w \in Seq(S)
  BY <1>3, <1>8
<1>5. Joined(u, w, v)
  BY <1>1, <1>2, <1>3 DEF Joined
<1>6. Resumes(s, u, w, v)
  BY <1>4, <1>5, <1>8, RunConcat
<1>7. Run(s, w) = Effect(s, a)
  BY <1>3, RunOne
<1> QED
  BY <1>1, <1>2, <1>6, <1>7 DEF Resumes

-----------------------------------------------------------------------------
(* What is known of a screen: P has the colour c in the shadow, the planes *)
(* of bytes in D are right, and the planes selected are among M.           *)
PlaneShows(s, b, p) ==
  \A i \in Bits : p \in s.vram[b][i] <=> p \in At(s.shadow, PixelAt(b, i))

Claim(P, c, D, M) == [pixels |-> P, colour |-> c, right |-> D, masks |-> M]

Fits(s, K) ==
  /\ Typed(s)
  /\ s.mask \in K.masks
  /\ \A q \in Pixels : q \in K.pixels => At(s.shadow, q) = K.colour
  /\ \A b \in ScreenBytes, p \in Planes : <<b, p>> \in K.right => PlaneShows(s, b, p)

(* What a call makes of what is known.                                     *)
Leads(u, K, L) == \A s : Fits(s, K) => Fits(Run(s, u), L)
LeadsStep(a, K, L) == \A s : Fits(s, K) => Fits(Effect(s, a), L)
Weaker(K, L) == \A s : Fits(s, K) => Fits(s, L)

(* No access leaves what is known.                                         *)
LEMMA LeadsNothing == ASSUME NEW K PROVE Leads(<<>>, K, K)
BY RunNothing DEF Leads

(* One access.                                                             *)
LEMMA LeadsOne == ASSUME NEW a, NEW K, NEW L, LeadsStep(a, K, L) PROVE Leads(<<a>>, K, L)
BY RunOne DEF Leads, LeadsStep

(* Two parts of a call, one after the other.                               *)
LEMMA LeadsConcat ==
  ASSUME NEW S, NEW u \in Seq(S), NEW v \in Seq(S), NEW w, Joined(w, u, v),
         NEW K, NEW L, NEW N, Leads(u, K, L), Leads(v, L, N)
  PROVE  Leads(w, K, N)
<1> SUFFICES ASSUME NEW s, Fits(s, K) PROVE Fits(Run(s, w), N)
  BY DEF Leads
<1>1. PICK t : t = Run(s, u)
  OBVIOUS
<1>2. Fits(t, L)
  BY <1>1 DEF Leads
<1>3. Fits(Run(t, v), N)
  BY <1>2 DEF Leads
<1>5. Resumes(s, w, u, v)
  BY RunConcat
<1>4. Run(s, w) = Run(t, v)
  BY <1>1, <1>5 DEF Resumes
<1> QED
  BY <1>3, <1>4

(* A loop, by what is known before each turn.                              *)
LEMMA LeadsFlatten ==
  ASSUME NEW S, NEW seqs \in Seq(Seq(S)), NEW n \in Nat, n = Len(seqs), NEW K,
         \A k \in 1 .. n : Leads(seqs[k], K[k - 1], K[k])
  PROVE  Leads(FlattenSeq(seqs), K[0], K[n])
<1>1. PICK g : Parts(g, S, seqs) /\ FlattenSeq(seqs) = g[n]
  BY FlattenIs
<1>2. g \in [0 .. n -> Seq(S)] /\ g[0] = <<>> /\ \A k \in 1 .. n : g[k] = g[k - 1] \o seqs[k]
  BY <1>1 DEF Parts
<1> DEFINE A == {k \in Nat : k <= n => Leads(g[k], K[0], K[k])}
<1>3. 0 \in A
  BY <1>2, LeadsNothing
<1>4. ASSUME NEW k \in Nat, k \in A PROVE k + 1 \in A
  <2> SUFFICES ASSUME k + 1 <= n PROVE Leads(g[k + 1], K[0], K[k + 1])
    OBVIOUS
  <2>1. PICK i : i = k + 1
    OBVIOUS
  <2>2. i \in 1 .. n /\ i - 1 = k /\ k \in 0 .. n /\ k <= n
    BY <2>1
  <2>3. PICK u \in Seq(S) : u = g[k]
    BY <1>2, <2>2
  <2>8. PICK v \in Seq(S) : v = seqs[i]
    <3>1. PICK T : T = Seq(S)
      OBVIOUS
    <3>2. seqs[i] \in T
      BY <2>2, <3>1
    <3> QED
      BY <3>1, <3>2
  <2>7. PICK w : w = g[i]
    OBVIOUS
  <2>4. Joined(w, u, v)
    BY <1>2, <2>2, <2>3, <2>7, <2>8 DEF Joined
  <2>5. Leads(u, K[0], K[k]) /\ Leads(v, K[k], K[i])
    BY <1>4, <2>2, <2>3, <2>8
  <2>6. Leads(w, K[0], K[i])
    BY <2>4, <2>5, LeadsConcat
  <2> QED
    BY <2>1, <2>6, <2>7
<1> HIDE DEF A
<1>5. Nat \subseteq A
  BY <1>3, <1>4, SetInduction
<1>6. Leads(g[n], K[0], K[n])
  BY <1>5 DEF A
<1> QED
  BY <1>1, <1>6

(* The accesses of a sequence, one after the other.                        *)
LEMMA LeadsEach ==
  ASSUME NEW S, NEW u \in Seq(S), NEW n \in Nat, n = Len(u), NEW K,
         \A k \in 1 .. n : LeadsStep(u[k], K[k - 1], K[k])
  PROVE  Leads(u, K[0], K[n])
<1> SUFFICES ASSUME NEW s, Fits(s, K[0]) PROVE Fits(Run(s, u), K[n])
  BY DEF Leads
<1>5. PICK f : States(f, s, u, n)
  BY StatesExist
<1>1. f[0] = s /\ Run(s, u) = f[n] /\ \A k \in 1 .. n : f[k] = Effect(f[k - 1], u[k])
  BY <1>5 DEF States
<1> DEFINE A == {k \in Nat : k <= n => Fits(f[k], K[k])}
<1>2. 0 \in A
  BY <1>1
<1>3. ASSUME NEW k \in Nat, k \in A PROVE k + 1 \in A
  <2> SUFFICES ASSUME k + 1 <= n PROVE Fits(f[k + 1], K[k + 1])
    OBVIOUS
  <2>1. PICK i : i = k + 1
    OBVIOUS
  <2>2. i \in 1 .. n /\ i - 1 = k /\ k <= n
    BY <2>1
  <2>3. LeadsStep(u[i], K[k], K[i]) /\ f[i] = Effect(f[k], u[i]) /\ Fits(f[k], K[k])
    BY <1>1, <1>3, <2>2
  <2> QED
    BY <2>1, <2>3 DEF LeadsStep
<1> HIDE DEF A
<1>4. Nat \subseteq A
  BY <1>2, <1>3, SetInduction
<1> QED
  BY <1>1, <1>4 DEF A

-----------------------------------------------------------------------------
(* A store to the frame buffer reaches one plane of one byte.              *)
ReachesPlane(w, v, b, p, value) ==
  \A d \in ScreenBytes, e \in Planes, i \in Bits :
    e \in w[d][i] <=> IF d = b /\ e = p THEN i \in value ELSE e \in v[d][i]

(* With one plane selected a write reaches that plane of its byte and      *)
(* nothing else.                                                           *)
LEMMA WrittenPlane ==
  ASSUME NEW v \in Frames, NEW b, NEW p \in Planes, NEW value, NEW m, m = {p}, NEW w,
         IsWritten(w, v, b, m, value)
  PROVE  ReachesPlane(w, v, b, p, value)
<1>1. m \in Colors
  BY DEF Colors
<1>3. /\ \A k \in 0 .. VRAM - 1 : k # b => w[k] = v[k]
      /\ b \in 0 .. VRAM - 1 =>
           \A i \in Bits : w[b][i] = (v[b][i] \ m) \cup (IF i \in value THEN m ELSE {})
  <2>1. Reaches(w, v, b, m, value)
    BY <1>1, WrittenAt
  <2> QED
    BY <2>1 DEF Reaches
<1> SUFFICES ASSUME NEW d \in ScreenBytes, NEW e \in Planes, NEW i \in Bits
             PROVE  e \in w[d][i] <=> IF d = b /\ e = p THEN i \in value ELSE e \in v[d][i]
  BY DEF ReachesPlane
<1>4. d \in 0 .. VRAM - 1
  BY ScreenAssumption
<1>5. CASE d # b
  BY <1>3, <1>4, <1>5
<1>6. CASE d = b
  <2>1. w[d][i] = (v[d][i] \ m) \cup (IF i \in value THEN m ELSE {})
    BY <1>3, <1>4, <1>6
  <2>2. e \in m <=> e = p
    OBVIOUS
  <2> QED
    BY <1>6, <2>1, <2>2
<1> QED
  BY <1>5, <1>6

(* The fields of a claim.                                                  *)
LEMMA FitsClaim ==
  ASSUME NEW s, NEW P, NEW c, NEW D, NEW M
  PROVE  Fits(s, Claim(P, c, D, M)) <=>
           /\ Typed(s) /\ s.mask \in M
           /\ \A q \in Pixels : q \in P => At(s.shadow, q) = c
           /\ \A b \in ScreenBytes, p \in Planes : <<b, p>> \in D => PlaneShows(s, b, p)
BY DEF Fits, Claim

(* What selects no plane and stores no byte of a screen.                   *)
Gathers(t, s, x, y, p) ==
  \A i \in Bits : i \in t.value <=> p \in s.shadow[y][(x \div BITS) * BITS + i]

(* What VgaPutPixel reads of the shadow to rebuild a byte: one plane of    *)
(* its pixels.                                                             *)
LEMMA GatherIs ==
  ASSUME NEW s, Typed(s), NEW x \in Nat, NEW y \in Nat, NEW p \in Planes, NEW t, t = Effect(s, Gather(x, y, p))
  PROVE  /\ Typed(t) /\ t.shadow = s.shadow /\ t.vram = s.vram /\ t.mask = s.mask
         /\ Gathers(t, s, x, y, p)
<1>1. PICK a : a = Gather(x, y, p)
  OBVIOUS
<1>2. a \in Access /\ a.op = "gather" /\ a.x = x /\ a.y = y /\ a.p = p
  BY <1>1 DEF Access, Quiet, Gather
<1>3. Typed(t) /\ IsEffect(t, s, a)
  BY <1>1, <1>2, EffectTyped
<1>4. t.shadow = s.shadow /\ t.vram = s.vram /\ t.mask = s.mask /\ t.value = Gathered(s, a)
  BY <1>2, <1>3 DEF IsEffect, ShadowAfter, VramAfter
<1>5. Gathers(t, s, x, y, p)
  BY <1>2, <1>4 DEF Gathered, Gathers
<1>6. Typed(t)
  BY <1>3
<1> QED
  BY <1>4, <1>5, <1>6

(* The map mask is written and nothing else.                               *)
LEMMA SelectIs ==
  ASSUME NEW s, Typed(s), NEW ps \in Colors, NEW t, t = Effect(s, Select(ps))
  PROVE  Typed(t) /\ t.shadow = s.shadow /\ t.vram = s.vram /\ t.mask = ps /\ t.value = s.value
<1>1. PICK a : a = Select(ps)
  OBVIOUS
<1>2. a \in Access /\ a.op = "select" /\ a.planes = ps
  BY <1>1 DEF Access, Quiet, Select
<1>3. Typed(t) /\ IsEffect(t, s, a)
  BY <1>1, <1>2, EffectTyped
<1> QED
  BY <1>2, <1>3 DEF IsEffect, ShadowAfter, VramAfter

(* A byte is written with the gathered value, in the planes selected.      *)
LEMMA WriteIs ==
  ASSUME NEW s, Typed(s), NEW b \in Nat, NEW t, t = Effect(s, Write(b))
  PROVE  Typed(t) /\ t.shadow = s.shadow /\ t.vram = Written(s.vram, b, s.mask, s.value) /\ t.mask = s.mask
<1>1. PICK a : a = Write(b)
  OBVIOUS
<1>2. a \in Access /\ a.op = "write" /\ a.byte = b
  BY <1>1 DEF Access, Quiet, Write
<1>3. Typed(t) /\ IsEffect(t, s, a)
  BY <1>1, <1>2, EffectTyped
<1> QED
  BY <1>2, <1>3 DEF IsEffect, ShadowAfter, VramAfter

FillValue(value, c, p) == value = IF p \in c THEN Bits ELSE {}

(* VgaFillRect writes a whole byte with all bits or none, by the colour in *)
(* the plane selected.                                                     *)
LEMMA FillIs ==
  ASSUME NEW s, Typed(s), NEW b \in Nat, NEW c \in Colors, NEW p \in Planes, NEW t, t = Effect(s, Fill(b, c, p)),
         NEW value, FillValue(value, c, p)
  PROVE  Typed(t) /\ t.shadow = s.shadow /\ t.mask = s.mask /\ t.vram = Written(s.vram, b, s.mask, value)
<1>1. PICK a : a = Fill(b, c, p)
  OBVIOUS
<1>2. a \in Access /\ a.op = "fill" /\ a.byte = b /\ (a.set <=> p \in c)
  <2>1. a = [op |-> "fill", byte |-> b, set |-> (p \in c)]
    BY <1>1 DEF Fill
  <2>2. a.op = "fill" /\ a.byte = b
    BY <2>1
  <2>3. a.set = (p \in c)
    BY <2>1
  <2>4. a.set <=> p \in c
    BY <2>3, Zenon
  <2>5. a \in Access
    BY <1>1 DEF Access, Quiet
  <2> QED
    BY <2>2, <2>4, <2>5, Zenon
<1>3. Typed(t) /\ IsEffect(t, s, a)
  BY <1>1, <1>2, EffectTyped
<1>4. t.shadow = s.shadow /\ t.mask = s.mask
  BY <1>2, <1>3 DEF IsEffect, ShadowAfter
<1>5. t.vram = Written(s.vram, b, s.mask, IF a.set THEN Bits ELSE {})
  BY <1>2, <1>3 DEF IsEffect, VramAfter
<1>6. value = IF a.set THEN Bits ELSE {}
  BY <1>2 DEF FillValue
<1> QED
  BY <1>3, <1>4, <1>5, <1>6

-----------------------------------------------------------------------------
(* What an access makes of what is known.                                  *)
LEMMA SelectStep ==
  ASSUME NEW P, NEW c, NEW D, NEW M, NEW ps \in Colors, NEW N, ps \in N
  PROVE  LeadsStep(Select(ps), Claim(P, c, D, M), Claim(P, c, D, N))
<1> SUFFICES ASSUME NEW s, Fits(s, Claim(P, c, D, M)) PROVE Fits(Effect(s, Select(ps)), Claim(P, c, D, N))
  BY DEF LeadsStep
<1>1. PICK t : t = Effect(s, Select(ps))
  OBVIOUS
<1>2. /\ Typed(s)
      /\ \A q \in Pixels : q \in P => At(s.shadow, q) = c
      /\ \A b \in ScreenBytes, p \in Planes : <<b, p>> \in D => PlaneShows(s, b, p)
  BY FitsClaim
<1>3. Typed(t) /\ t.shadow = s.shadow /\ t.vram = s.vram /\ t.mask = ps
  BY <1>1, <1>2, SelectIs
<1>4. \A b \in ScreenBytes, p \in Planes : PlaneShows(s, b, p) => PlaneShows(t, b, p)
  BY <1>3 DEF PlaneShows
<1>5. Fits(t, Claim(P, c, D, N))
  BY <1>2, <1>3, <1>4, FitsClaim
<1> QED
  BY <1>1, <1>5

(* Planes of bytes but those of b; those and plane p of b.                 *)
But(D, b) == {d \in D : d[1] # b}

(* A store to the shadow makes the byte of its pixel wrong until it is     *)
(* rebuilt, and only that byte.                                            *)
LEMMA StoreStep ==
  ASSUME NEW x \in Xs, NEW y \in Ys, NEW k \in Colors, NEW P, NEW c, NEW D, NEW M,
         <<x, y>> \in P => k = c
  PROVE  LeadsStep(Store(x, y, k), Claim(P, c, D, M), Claim(P, c, But(D, ByteOf(x, y)), M))
<1> SUFFICES ASSUME NEW s, Fits(s, Claim(P, c, D, M))
             PROVE  Fits(Effect(s, Store(x, y, k)), Claim(P, c, But(D, ByteOf(x, y)), M))
  BY DEF LeadsStep
<1>1. PICK a, t : a = Store(x, y, k) /\ t = Effect(s, a)
  OBVIOUS
<1>2. /\ Typed(s) /\ s.mask \in M
      /\ \A q \in Pixels : q \in P => At(s.shadow, q) = c
      /\ \A b \in ScreenBytes, p \in Planes : <<b, p>> \in D => PlaneShows(s, b, p)
  BY FitsClaim
<1>3. a \in Access /\ a.op = "store" /\ a.c = k /\ PixelOf(a) = <<x, y>>
  BY <1>1 DEF Access, AllStores, Store, PixelOf
<1>4. Typed(t) /\ IsEffect(t, s, a)
  BY <1>1, <1>2, <1>3, EffectTyped
<1>5. t.vram = s.vram /\ t.mask = s.mask /\ t.shadow = ShadowAfter(s.shadow, a)
  BY <1>3, <1>4 DEF IsEffect, VramAfter
<1>6. \A q \in Pixels : At(t.shadow, q) = IF <<x, y>> = q THEN k ELSE At(s.shadow, q)
  <2>1. s.shadow \in Shadows
    BY <1>2 DEF Typed
  <2> QED
    BY <1>3, <1>5, <2>1, ShadowStep
<1>7. ASSUME NEW b \in ScreenBytes, NEW p \in Planes, <<b, p>> \in But(D, ByteOf(x, y))
      PROVE  PlaneShows(t, b, p)
  <2>1. <<b, p>> \in D /\ b # ByteOf(x, y)
    BY <1>7 DEF But
  <2>2. ASSUME NEW i \in Bits PROVE PixelAt(b, i) \in Pixels /\ PixelAt(b, i) # <<x, y>>
    <3>1. PixelAt(b, i) \in Pixels /\ ByteOf(ColumnOf(b, i), b \div ROW_BYTES) = b
      BY PixelAtScreen
    <3>2. PixelAt(b, i) = <<x, y>> => ColumnOf(b, i) = x /\ b \div ROW_BYTES = y
      BY DEF PixelAt
    <3> QED
      BY <2>1, <3>1, <3>2
  <2>3. PlaneShows(s, b, p)
    BY <1>2, <2>1
  <2> QED
    BY <1>5, <1>6, <2>2, <2>3 DEF PlaneShows
<1>8. \A q \in Pixels : q \in P => At(t.shadow, q) = c
  BY <1>2, <1>6
<1>9. Fits(t, Claim(P, c, But(D, ByteOf(x, y)), M))
  BY <1>2, <1>4, <1>5, <1>7, <1>8, FitsClaim
<1> QED
  BY <1>1, <1>9

(* A fill makes a plane of its byte right when all pixels of that byte     *)
(* already have the colour in the shadow.                                  *)
LEMMA FillStep ==
  ASSUME NEW b \in Nat, NEW k \in Colors, NEW p \in Planes, NEW P, NEW c, NEW D, NEW E,
         \A d \in ScreenBytes, e \in Planes : <<d, e>> \in E =>
           IF d = b /\ e = p THEN k = c /\ \A i \in Bits : PixelAt(b, i) \in P ELSE <<d, e>> \in D
  PROVE  LeadsStep(Fill(b, k, p), Claim(P, c, D, {{p}}), Claim(P, c, E, {{p}}))
<1> SUFFICES ASSUME NEW s, Fits(s, Claim(P, c, D, {{p}}))
             PROVE  Fits(Effect(s, Fill(b, k, p)), Claim(P, c, E, {{p}}))
  BY DEF LeadsStep
<1>1. PICK t : t = Effect(s, Fill(b, k, p))
  OBVIOUS
<1>2. /\ Typed(s) /\ s.mask = {p}
      /\ \A q \in Pixels : q \in P => At(s.shadow, q) = c
      /\ \A d \in ScreenBytes, e \in Planes : <<d, e>> \in D => PlaneShows(s, d, e)
  <2>1. s.mask \in {{p}}
    BY FitsClaim
  <2> QED
    BY <2>1, FitsClaim
<1>3. PICK value : value = IF p \in k THEN Bits ELSE {}
  OBVIOUS
<1>4. Typed(t) /\ t.shadow = s.shadow /\ t.mask = {p} /\ t.vram = Written(s.vram, b, {p}, value)
  <2>2. FillValue(value, k, p)
    BY <1>3 DEF FillValue
  <2>1. Typed(t) /\ t.shadow = s.shadow /\ t.mask = s.mask /\ t.vram = Written(s.vram, b, s.mask, value)
    <3>1. Typed(s)
      BY <1>2
    <3> QED
      BY <1>1, <2>2, <3>1, FillIs
  <2> QED
    BY <1>2, <2>1
<1>5. \A d \in ScreenBytes, e \in Planes, i \in Bits :
        e \in t.vram[d][i] <=> IF d = b /\ e = p THEN i \in value ELSE e \in s.vram[d][i]
  <2>1. PICK v \in Frames : v = s.vram
    BY <1>2 DEF Typed
  <2>4. PICK w : w = t.vram
    OBVIOUS
  <2>5. PICK m : m = {p}
    OBVIOUS
  <2>2. IsWritten(w, v, b, m, value)
    BY <1>4, <2>1, <2>4, <2>5 DEF IsWritten
  <2>3. ReachesPlane(w, v, b, p, value)
    BY <2>2, <2>5, WrittenPlane
  <2> QED
    BY <2>1, <2>3, <2>4 DEF ReachesPlane
<1>6. ASSUME NEW d \in ScreenBytes, NEW e \in Planes, <<d, e>> \in E PROVE PlaneShows(t, d, e)
  <2>1. CASE d = b /\ e = p
    <3>1. k = c /\ \A i \in Bits : PixelAt(b, i) \in P
      BY <1>6, <2>1
    <3>2. \A i \in Bits : PixelAt(b, i) \in Pixels
      BY <2>1, PixelAtScreen
    <3>3. \A i \in Bits : At(t.shadow, PixelAt(b, i)) = k
      BY <1>2, <1>4, <3>1, <3>2
    <3>4. \A i \in Bits : i \in value <=> p \in k
      BY <1>3
    <3> QED
      BY <1>5, <2>1, <3>3, <3>4 DEF PlaneShows
  <2>2. CASE ~(d = b /\ e = p)
    <3>1. PlaneShows(s, d, e)
      BY <1>2, <1>6, <2>2
    <3> QED
      BY <1>4, <1>5, <2>2, <3>1 DEF PlaneShows
  <2> QED
    BY <2>1, <2>2
<1>7. Fits(t, Claim(P, c, E, {{p}}))
  BY <1>2, <1>4, <1>6, FitsClaim
<1> QED
  BY <1>1, <1>7

-----------------------------------------------------------------------------
(* Rebuilding a byte makes it right, plane after plane.                    *)
LEMMA RunThree ==
  ASSUME NEW s, NEW a, NEW b, NEW c
  PROVE  Run(s, <<a, b, c>>) = Effect(Effect(Effect(s, a), b), c)
<1>1. PICK u : u = <<a, b, c>>
  OBVIOUS
<1>2. u \in Seq({a, b, c}) /\ 3 = Len(u) /\ u[1] = a /\ u[2] = b /\ u[3] = c
  BY <1>1
<1>3. PICK f : States(f, s, u, 3)
  BY <1>2, StatesExist
<1>4. f[0] = s /\ Run(s, u) = f[3] /\ \A k \in 1 .. 3 : f[k] = Effect(f[k - 1], u[k])
  BY <1>3 DEF States
<1>5. 1 \in 1 .. 3 /\ 2 \in 1 .. 3 /\ 3 \in 1 .. 3 /\ 1 - 1 = 0 /\ 2 - 1 = 1 /\ 3 - 1 = 2
  OBVIOUS
<1>6. f[1] = Effect(s, a) /\ f[2] = Effect(f[1], b) /\ f[3] = Effect(f[2], c)
  BY <1>2, <1>4, <1>5
<1> QED
  BY <1>1, <1>4, <1>6

(* Less may be claimed of fewer pixels, fewer planes of bytes and more     *)
(* masks.                                                                  *)
LEMMA ClaimWeaker ==
  ASSUME NEW P, NEW c, NEW D, NEW M, NEW Q, NEW E, NEW N, Q \subseteq P, M \subseteq N,
         \A b \in ScreenBytes, p \in Planes : <<b, p>> \in E => <<b, p>> \in D
  PROVE  Weaker(Claim(P, c, D, M), Claim(Q, c, E, N))
BY FitsClaim DEF Weaker

(* Gathering, selecting and writing one plane makes that plane of the byte *)
(* right, whatever was selected and written before.                        *)
LEMMA PlaneRebuilt ==
  ASSUME NEW x \in Xs, NEW y \in Ys, NEW p \in Planes, NEW b, b = ByteOf(x, y), NEW P, NEW c, NEW D, NEW E,
         \A d \in ScreenBytes, e \in Planes : <<d, e>> \in E => <<d, e>> \in D \/ (d = b /\ e = p)
  PROVE  Leads(<<Gather(x, y, p), Select({p}), Write(b)>>, Claim(P, c, D, Colors), Claim(P, c, E, Colors))
<1>1. x \in Nat /\ y \in Nat /\ b \in Nat
  BY Sizes DEF Xs, Ys
<1>15. PICK m \in Colors : m = {p}
  BY DEF Colors
<1> SUFFICES ASSUME NEW s, Fits(s, Claim(P, c, D, Colors))
             PROVE  Fits(Run(s, <<Gather(x, y, p), Select({p}), Write(b)>>), Claim(P, c, E, Colors))
  BY DEF Leads
<1>2. PICK t : t = Effect(s, Gather(x, y, p))
  OBVIOUS
<1>3. PICK r : r = Effect(t, Select(m))
  OBVIOUS
<1>4. PICK z : z = Effect(r, Write(b))
  OBVIOUS
<1>5. /\ Typed(s)
      /\ \A q \in Pixels : q \in P => At(s.shadow, q) = c
      /\ \A d \in ScreenBytes, e \in Planes : <<d, e>> \in D => PlaneShows(s, d, e)
  BY FitsClaim
<1>6. /\ Typed(t) /\ t.shadow = s.shadow /\ t.vram = s.vram
      /\ Gathers(t, s, x, y, p)
  <2>1. Typed(s)
    BY <1>5
  <2>2. /\ Typed(t) /\ t.shadow = s.shadow /\ t.vram = s.vram /\ t.mask = s.mask
        /\ Gathers(t, s, x, y, p)
    BY <1>1, <1>2, <2>1, GatherIs, SMTT(60)
  <2> QED
    BY <2>2
<1>7. Typed(r) /\ r.shadow = s.shadow /\ r.vram = s.vram /\ r.mask = m /\ r.value = t.value
  <2>1. Typed(t)
    BY <1>6
  <2>2. Typed(r) /\ r.shadow = t.shadow /\ r.vram = t.vram /\ r.mask = m /\ r.value = t.value
    BY <1>3, <2>1, SelectIs
  <2> QED
    BY <1>6, <2>2
<1>8. Typed(z) /\ z.shadow = s.shadow /\ z.vram = Written(s.vram, b, m, t.value)
  <2>1. Typed(z) /\ z.shadow = r.shadow /\ z.vram = Written(r.vram, b, r.mask, r.value)
    BY <1>1, <1>4, <1>7, WriteIs
  <2> QED
    BY <1>7, <2>1
<1>9. \A d \in ScreenBytes, e \in Planes, i \in Bits :
        e \in z.vram[d][i] <=> IF d = b /\ e = p THEN i \in t.value ELSE e \in s.vram[d][i]
  <2>1. PICK v \in Frames : v = s.vram
    BY <1>5 DEF Typed
  <2>2. PICK w, value : w = z.vram /\ value = t.value
    OBVIOUS
  <2>3. IsWritten(w, v, b, m, value)
    BY <1>8, <2>1, <2>2 DEF IsWritten
  <2>4. ReachesPlane(w, v, b, p, value)
    BY <1>15, <2>3, WrittenPlane
  <2> QED
    BY <2>1, <2>2, <2>4 DEF ReachesPlane
<1>10. \A i \in Bits : At(s.shadow, PixelAt(b, i)) = s.shadow[y][(x \div BITS) * BITS + i]
  <2>1. b \div ROW_BYTES = y /\ b % ROW_BYTES = x \div BITS
    BY <1>1, ByteOfPixel
  <2> QED
    BY <2>1 DEF At, PixelAt, ColumnOf
<1>11. ASSUME NEW d \in ScreenBytes, NEW e \in Planes, <<d, e>> \in E PROVE PlaneShows(z, d, e)
  <2>1. CASE d = b /\ e = p
    <3>1. \A i \in Bits : p \in z.vram[b][i] <=> i \in t.value
      BY <1>9, <2>1
    <3>2. \A i \in Bits : i \in t.value <=> p \in At(s.shadow, PixelAt(b, i))
      BY <1>6, <1>10 DEF Gathers
    <3> QED
      BY <1>8, <2>1, <3>1, <3>2 DEF PlaneShows
  <2>2. CASE ~(d = b /\ e = p)
    <3>1. PlaneShows(s, d, e)
      BY <1>5, <1>11, <2>2
    <3> QED
      BY <1>8, <1>9, <2>2, <3>1 DEF PlaneShows
  <2> QED
    BY <2>1, <2>2
<1>12. z.mask \in Colors
  BY <1>8 DEF Typed
<1>13. Fits(z, Claim(P, c, E, Colors))
  BY <1>5, <1>8, <1>11, <1>12, FitsClaim
<1>14. Run(s, <<Gather(x, y, p), Select({p}), Write(b)>>) = z
  BY <1>2, <1>3, <1>4, <1>15, RunThree
<1> QED
  BY <1>13, <1>14

(* All planes of the byte, one after the other.                            *)
LEMMA ByteRebuilt ==
  ASSUME NEW x \in Xs, NEW y \in Ys, NEW b, b = ByteOf(x, y), NEW P, NEW c, NEW D
  PROVE  Leads(Rebuild(x, y), Claim(P, c, D, Colors), Claim(P, c, D \cup ({b} \X Planes), Colors))
<1>1. x \in Nat /\ y \in Nat /\ b \in Nat
  BY Sizes DEF Xs, Ys
<1>2. PICK n \in Nat : n = PLANES /\ Planes = 1 .. n
  BY Sizes
<1>3. PICK seqs : seqs = [p \in Planes |-> <<Gather(x, y, p), Select({p}), Write(b)>>]
  OBVIOUS
<1>4. PICK K : K = [k \in 0 .. n |-> Claim(P, c, D \cup ({b} \X (1 .. k)), Colors)]
  OBVIOUS
<1>5. seqs \in Seq(Seq(Quiet)) /\ n = Len(seqs)
  <2>1. PICK S : S = Seq(Quiet)
    OBVIOUS
  <2>2. \A p \in Planes : Gather(x, y, p) \in Quiet /\ Select({p}) \in Quiet /\ Write(b) \in Quiet
    BY <1>1 DEF Quiet, Colors
  <2>3. ASSUME NEW p \in 1 .. n PROVE seqs[p] \in S
    <3>1. PICK f, g, h : f = Gather(x, y, p) /\ g = Select({p}) /\ h = Write(b)
      OBVIOUS
    <3>2. f \in Quiet /\ g \in Quiet /\ h \in Quiet
      BY <1>2, <2>2, <3>1
    <3>3. <<f, g, h>> \in Seq(Quiet)
      BY <3>2
    <3> QED
      BY <1>2, <1>3, <2>1, <3>1, <3>3
  <2>4. seqs = [p \in 1 .. n |-> seqs[p]]
    BY <1>2, <1>3
  <2> QED
    BY <2>1, <2>3, <2>4
<1>6. ASSUME NEW k \in 1 .. n PROVE Leads(seqs[k], K[k - 1], K[k])
  <2>1. PICK m : m = k - 1
    OBVIOUS
  <2>2. m \in 0 .. n /\ k \in 0 .. n /\ k = m + 1
    BY <2>1
  <2>3. PICK A : A = D \cup ({b} \X (1 .. m))
    OBVIOUS
  <2>4. PICK B : B = D \cup ({b} \X (1 .. k))
    OBVIOUS
  <2>5. K[m] = Claim(P, c, A, Colors) /\ K[k] = Claim(P, c, B, Colors)
    BY <1>4, <2>2, <2>3, <2>4
  <2>6. \A d \in ScreenBytes, e \in Planes : <<d, e>> \in B => <<d, e>> \in A \/ (d = b /\ e = k)
    <3>1. \A e \in 1 .. k : e \in 1 .. m \/ e = k
      BY <2>2
    <3> QED
      BY <2>3, <2>4, <3>1
  <2>7. Leads(<<Gather(x, y, k), Select({k}), Write(b)>>, Claim(P, c, A, Colors), Claim(P, c, B, Colors))
    BY <1>2, <2>6, PlaneRebuilt
  <2> QED
    BY <1>2, <1>3, <2>1, <2>5, <2>7
<1>7. Leads(FlattenSeq(seqs), K[0], K[n])
  BY <1>5, <1>6, LeadsFlatten
<1>8. PICK u : u = FlattenSeq(seqs)
  OBVIOUS
<1>9. u = PlaneByPlane(x, y) /\ u \in Seq(Quiet)
  BY <1>3, <1>5, <1>8, FlattenTyped DEF PlaneByPlane
<1>10. PICK L : L = Claim(P, c, D \cup ({b} \X Planes), Colors)
  OBVIOUS
<1>11. K[n] = L
  BY <1>2, <1>4, <1>10
<1>12. PICK G : G = Claim(P, c, D, Colors)
  OBVIOUS
<1>13. K[0] = G
  <2>1. D \cup ({b} \X (1 .. 0)) = D
    OBVIOUS
  <2>2. 0 \in 0 .. n
    OBVIOUS
  <2> QED
    BY <1>4, <1>12, <2>1, <2>2
<1>14. PICK v : v = <<Select(Planes)>>
  OBVIOUS
<1>15. v \in Seq(Quiet)
  <2>1. Select(Planes) \in Quiet
    BY DEF Quiet, Colors
  <2> QED
    BY <1>14, <2>1
<1>16. Leads(v, L, L)
  <2>1. Planes \in Colors
    BY DEF Colors
  <2>2. LeadsStep(Select(Planes), L, L)
    BY <1>10, <2>1, SelectStep
  <2> QED
    BY <1>14, <2>2, LeadsOne
<1>17. PICK w : w = Rebuild(x, y)
  OBVIOUS
<1>18. Joined(w, u, v)
  BY <1>9, <1>14, <1>17 DEF Joined, Rebuild
<1>19. Leads(u, G, L)
  BY <1>7, <1>8, <1>11, <1>13
<1>20. Leads(w, G, L)
  BY <1>9, <1>15, <1>16, <1>18, <1>19, LeadsConcat
<1> QED
  BY <1>10, <1>12, <1>17, <1>20

(* What a set of pixels covers: all planes of their bytes.                 *)
Covers(Q) == BytesOf(Q) \X Planes

(* The planes of the byte of one pixel.                                    *)
LEMMA CoversOne ==
  ASSUME NEW x, NEW y
  PROVE  Covers({<<x, y>>}) = {ByteOf(x, y)} \X Planes
<1>1. BytesOf({<<x, y>>}) = {ByteOf(x, y)}
  <2>1. PICK Q : Q = {<<x, y>>}
    OBVIOUS
  <2>2. BytesOf(Q) = {q[2] * ROW_BYTES + q[1] \div BITS : q \in Q}
    BY DEF BytesOf
  <2>3. \A q \in Q : q[1] = x /\ q[2] = y
    BY <2>1
  <2>4. BytesOf(Q) = {ByteOf(x, y)}
    BY <2>1, <2>2, <2>3 DEF ByteOf
  <2> QED
    BY <2>1, <2>4
<1> QED
  BY <1>1 DEF Covers

(* VgaPutPixel leaves the byte of its pixel right, and all that were.      *)
LEMMA PutPixelShows ==
  ASSUME NEW x \in Nat, NEW y \in Nat, NEW k \in Colors, NEW P, NEW c, NEW D,
         <<x, y>> \in P => k = c
  PROVE  Leads(PutPixel(x, y, k), Claim(P, c, D, Colors),
               Claim(P, c, D \cup Covers({<<x, y>>} \cap Pixels), Colors))
<1>1. PICK u : u = PutPixel(x, y, k)
  OBVIOUS
<1>2. PICK G, L : G = Claim(P, c, D, Colors) /\ L = Claim(P, c, D \cup Covers({<<x, y>>} \cap Pixels), Colors)
  OBVIOUS
<1>3. CASE OnScreen(x, y)
  <2>1. PICK b : b = ByteOf(x, y)
    OBVIOUS
  <2>2. x \in Xs /\ y \in Ys
    BY <1>3 DEF OnScreen
  <2>3. {<<x, y>>} \cap Pixels = {<<x, y>>}
    BY <2>2 DEF Pixels
  <2>4. Covers({<<x, y>>} \cap Pixels) = {b} \X Planes
    BY <2>1, <2>3, CoversOne
  <2>5. PICK A : A = But(D, b)
    OBVIOUS
  <2>6. PICK f, v : f = <<Store(x, y, k)>> /\ v = Rebuild(x, y)
    OBVIOUS
  <2>7. PICK S : S = Quiet \cup {Store(x, y, k)}
    OBVIOUS
  <2>8. f \in Seq(S) /\ v \in Seq(S)
    <3>1. v \in Seq(Quiet)
      BY <2>6, RebuildQuiet
    <3>2. Quiet \subseteq S /\ Store(x, y, k) \in S
      BY <2>7
    <3> QED
      BY <2>6, <3>1, <3>2, SeqWider
  <2>9. Joined(u, f, v)
    BY <1>1, <1>3, <2>6 DEF PutPixel, Joined
  <2>10. PICK H : H = Claim(P, c, A, Colors)
    OBVIOUS
  <2>11. Leads(f, G, H)
    <3>1. LeadsStep(Store(x, y, k), G, H)
      BY <1>2, <2>1, <2>2, <2>5, <2>10, StoreStep
    <3> QED
      BY <2>6, <3>1, LeadsOne
  <2>12. PICK N : N = Claim(P, c, A \cup ({b} \X Planes), Colors)
    OBVIOUS
  <2>13. Leads(v, H, N)
    BY <2>1, <2>2, <2>6, <2>10, <2>12, ByteRebuilt
  <2>14. Leads(u, G, N)
    BY <2>8, <2>9, <2>11, <2>13, LeadsConcat
  <2>15. Weaker(N, L)
    <3>1. PICK E, F : E = D \cup ({b} \X Planes) /\ F = A \cup ({b} \X Planes)
      OBVIOUS
    <3>2. L = Claim(P, c, E, Colors) /\ N = Claim(P, c, F, Colors)
      BY <1>2, <2>4, <2>12, <3>1
    <3>3. \A d \in ScreenBytes, p \in Planes : <<d, p>> \in E => <<d, p>> \in F
      BY <2>5, <3>1 DEF But
    <3> QED
      BY <3>2, <3>3, ClaimWeaker
  <2>16. Leads(u, G, L)
    BY <2>14, <2>15 DEF Weaker, Leads
  <2> QED
    BY <1>1, <1>2, <2>16
<1>4. CASE ~OnScreen(x, y)
  <2>1. {<<x, y>>} \cap Pixels = {}
    BY <1>4 DEF Pixels, OnScreen
  <2>2. Covers({}) = {}
    BY DEF Covers, BytesOf
  <2>3. G = L
    <3>1. D \cup Covers({<<x, y>>} \cap Pixels) = D
      BY <2>1, <2>2
    <3> QED
      BY <1>2, <3>1
  <2>4. u = <<>>
    BY <1>1, <1>4 DEF PutPixel
  <2>5. Leads(u, G, L)
    BY <2>3, <2>4, LeadsNothing
  <2> QED
    BY <1>1, <1>2, <2>5
<1> QED
  BY <1>3, <1>4

-----------------------------------------------------------------------------
(* The pixels of a row from one column to another.                         *)
Strip(first, last, y) == {q \in Pixels : q[1] \in first .. last /\ q[2] = y}

(* Two sets of pixels cover what each of them covers.                      *)
LEMMA CoversUnion == ASSUME NEW Q, NEW R PROVE Covers(Q \cup R) = Covers(Q) \cup Covers(R)
BY DEF Covers, BytesOf

(* And a byte of its planes is that of one of its pixels.                  *)
LEMMA CoversHas ==
  ASSUME NEW Q \in SUBSET Pixels, NEW b, NEW p
  PROVE  <<b, p>> \in Covers(Q) <=> p \in Planes /\ \E q \in Q : b = ByteOf(q[1], q[2])
BY DEF Covers, BytesOf, ByteOf

(* The head or the tail of a row, pixel after pixel.                       *)
LEMMA PutPixelsShow ==
  ASSUME NEW first \in Nat, NEW last \in Int, first - 1 <= last, NEW y \in Nat, NEW c \in Colors, NEW P, NEW D
  PROVE  Leads(PutPixels(first, last, y, c), Claim(P, c, D, Colors),
               Claim(P, c, D \cup Covers(Strip(first, last, y)), Colors))
<1>1. PICK n \in Nat : n = last - first + 1
  <2>1. last - first + 1 \in Nat
    OBVIOUS
  <2> QED
    BY <2>1
<1>2. PICK seqs : seqs = [k \in 1 .. n |-> PutPixel(first + k - 1, y, c)]
  OBVIOUS
<1>3. PICK K : K = [k \in 0 .. n |-> Claim(P, c, D \cup Covers(Strip(first, first + k - 1, y)), Colors)]
  OBVIOUS
<1>4. PICK S : S = Quiet \cup {Store(x, y, c) : x \in Nat}
  OBVIOUS
<1>5. seqs \in Seq(Seq(S)) /\ n = Len(seqs)
  <2>1. PICK T : T = Seq(S)
    OBVIOUS
  <2>2. ASSUME NEW k \in 1 .. n PROVE seqs[k] \in T
    <3>1. PICK x \in Nat : x = first + k - 1
      OBVIOUS
    <3>2. PutPixel(x, y, c) \in Seq(Quiet \cup StoresOf({<<x, y>>} \cap Pixels, c))
      BY PutPixelPaints DEF Paints
    <3>3. Quiet \cup StoresOf({<<x, y>>} \cap Pixels, c) \subseteq S
      <4>1. StoresOf({<<x, y>>} \cap Pixels, c) \subseteq {Store(x, y, c)}
        BY DEF StoresOf
      <4> QED
        BY <1>4, <4>1
    <3>4. PICK Z : Z = Quiet \cup StoresOf({<<x, y>>} \cap Pixels, c)
      OBVIOUS
    <3>5. PutPixel(x, y, c) \in Seq(S)
      BY <3>2, <3>3, <3>4, SeqWider
    <3> QED
      BY <1>2, <2>1, <3>1, <3>5
  <2>3. seqs = [k \in 1 .. n |-> seqs[k]]
    BY <1>2
  <2> QED
    BY <2>1, <2>2, <2>3
<1>6. ASSUME NEW k \in 1 .. n PROVE Leads(seqs[k], K[k - 1], K[k])
  <2>1. PICK m : m = k - 1
    OBVIOUS
  <2>2. m \in 0 .. n /\ k \in 0 .. n
    BY <2>1
  <2>3. PICK x \in Nat : x = first + k - 1
    OBVIOUS
  <2>4. PICK A : A = Strip(first, first + m - 1, y)
    OBVIOUS
  <2>5. PICK B : B = {<<x, y>>} \cap Pixels
    OBVIOUS
  <2>6. Strip(first, x, y) = A \cup B
    <3>1. \A z \in Int : z \in first .. x <=> z \in first .. first + m - 1 \/ z = x
      BY <2>1, <2>3
    <3>2. \A q \in Pixels : q = <<q[1], q[2]>> /\ q[1] \in Int
      BY PixelIs, Sizes DEF Xs
    <3>3. \A q \in Pixels : q \in B <=> q[1] = x /\ q[2] = y
      BY <2>5, <3>2
    <3>4. \A q \in Pixels : q \in Strip(first, x, y) <=> q \in A \/ q \in B
      BY <2>4, <3>1, <3>2, <3>3 DEF Strip
    <3>5. Strip(first, x, y) \subseteq Pixels /\ A \subseteq Pixels /\ B \subseteq Pixels
      BY <2>4, <2>5 DEF Strip
    <3> QED
      BY <3>4, <3>5
  <2>7. PICK E : E = D \cup Covers(A)
    OBVIOUS
  <2>8. K[m] = Claim(P, c, E, Colors)
    BY <1>3, <2>2, <2>4, <2>7
  <2>9. K[k] = Claim(P, c, E \cup Covers(B), Colors)
    <3>1. K[k] = Claim(P, c, D \cup Covers(Strip(first, x, y)), Colors)
      BY <1>3, <2>2, <2>3
    <3>2. D \cup Covers(Strip(first, x, y)) = E \cup Covers(B)
      BY <2>6, <2>7, CoversUnion
    <3> QED
      BY <3>1, <3>2
  <2>10. Leads(PutPixel(x, y, c), Claim(P, c, E, Colors), Claim(P, c, E \cup Covers(B), Colors))
    BY <2>5, PutPixelShows
  <2> QED
    BY <1>2, <2>1, <2>3, <2>8, <2>9, <2>10
<1>7. Leads(FlattenSeq(seqs), K[0], K[n])
  BY <1>5, <1>6, LeadsFlatten
<1>8. K[0] = Claim(P, c, D, Colors)
  <2>1. Strip(first, first - 1, y) = {}
    BY DEF Strip
  <2>2. Covers({}) = {}
    BY DEF Covers, BytesOf
  <2>3. PICK z : z = first + 0 - 1
    OBVIOUS
  <2>4. z = first - 1 /\ 0 \in 0 .. n
    BY <2>3
  <2>5. K[0] = Claim(P, c, D \cup Covers(Strip(first, z, y)), Colors)
    BY <1>3, <2>3, <2>4
  <2>6. D \cup Covers(Strip(first, z, y)) = D
    BY <2>1, <2>2, <2>4
  <2> QED
    BY <2>5, <2>6
<1>9. K[n] = Claim(P, c, D \cup Covers(Strip(first, last, y)), Colors)
  <2>1. first + n - 1 = last
    BY <1>1
  <2> QED
    BY <1>3, <2>1
<1>10. PutPixels(first, last, y, c) = FlattenSeq(seqs)
  BY <1>1, <1>2 DEF PutPixels
<1> QED
  BY <1>7, <1>8, <1>9, <1>10

(* Whole bytes of one plane.                                               *)
LEMMA FillsShow ==
  ASSUME NEW st \in Nat, NEW n \in Nat, NEW c \in Colors, NEW p \in Planes, NEW P,
         NEW W \in SUBSET (st .. st + n - 1), \A b \in W, i \in Bits : PixelAt(b, i) \in P,
         NEW A, \A d \in ScreenBytes, e \in Planes : <<d, e>> \in A /\ d \in st .. st + n - 1 => d \in W,
         NEW u, u = [k \in 1 .. n |-> Fill(st + k - 1, c, p)]
  PROVE  Leads(u, Claim(P, c, A, {{p}}), Claim(P, c, A \cup (W \X {p}), {{p}}))
<1>1. PICK K : K = [k \in 0 .. n |-> Claim(P, c, A \cup ((W \cap (st .. st + k - 1)) \X {p}), {{p}})]
  OBVIOUS
<1>2. PICK S : S = {u[k] : k \in 1 .. n}
  OBVIOUS
<1>3. u \in Seq(S) /\ n = Len(u)
  <2>1. \A k \in 1 .. n : u[k] \in S
    BY <1>2
  <2>2. u = [k \in 1 .. n |-> u[k]]
    OBVIOUS
  <2> QED
    BY <2>1, <2>2
<1>4. ASSUME NEW k \in 1 .. n PROVE LeadsStep(u[k], K[k - 1], K[k])
  <2>1. PICK m : m = k - 1
    OBVIOUS
  <2>2. m \in 0 .. n /\ k \in 0 .. n
    BY <2>1
  <2>3. PICK b \in Nat : b = st + k - 1
    OBVIOUS
  <2>4. PICK D, E : /\ D = A \cup ((W \cap (st .. st + m - 1)) \X {p})
                    /\ E = A \cup ((W \cap (st .. b)) \X {p})
    OBVIOUS
  <2>5. K[m] = Claim(P, c, D, {{p}})
    BY <1>1, <2>2, <2>4
  <2>6. K[k] = Claim(P, c, E, {{p}})
    BY <1>1, <2>2, <2>3, <2>4
  <2>7. b \in st .. st + n - 1 /\ \A d \in st .. b : d = b \/ d \in st .. st + m - 1
    BY <2>1, <2>3
  <2>8. ASSUME NEW d \in ScreenBytes, NEW e \in Planes, <<d, e>> \in E
        PROVE  IF d = b /\ e = p THEN c = c /\ \A i \in Bits : PixelAt(b, i) \in P ELSE <<d, e>> \in D
    <3>1. CASE d = b /\ e = p
      <4>1. b \in W
        BY <2>4, <2>7, <2>8, <3>1
      <4> QED
        BY <3>1, <4>1
    <3>2. CASE ~(d = b /\ e = p)
      <4>1. <<d, e>> \in D
        BY <2>4, <2>7, <2>8, <3>2
      <4> QED
        BY <3>2, <4>1
    <3> QED
      BY <3>1, <3>2
  <2>9. LeadsStep(Fill(b, c, p), Claim(P, c, D, {{p}}), Claim(P, c, E, {{p}}))
    BY <2>8, FillStep
  <2> QED
    BY <2>1, <2>3, <2>5, <2>6, <2>9
<1>5. Leads(u, K[0], K[n])
  BY <1>3, <1>4, LeadsEach
<1>6. K[0] = Claim(P, c, A, {{p}})
  <2>1. PICK z : z = st + 0 - 1
    OBVIOUS
  <2>2. z = st - 1 /\ 0 \in 0 .. n
    BY <2>1
  <2>3. A \cup ((W \cap (st .. z)) \X {p}) = A
    BY <2>2
  <2> QED
    BY <1>1, <2>1, <2>2, <2>3
<1>7. K[n] = Claim(P, c, A \cup (W \X {p}), {{p}})
  <2>1. W \cap (st .. st + n - 1) = W
    OBVIOUS
  <2>2. PICK z : z = st + n - 1
    OBVIOUS
  <2>3. n \in 0 .. n /\ W \cap (st .. z) = W
    BY <2>1, <2>2
  <2> QED
    BY <1>1, <2>2, <2>3
<1> QED
  BY <1>5, <1>6, <1>7

(* Whole bytes of a row, plane after plane.                                *)
LEMMA FullBytesShow ==
  ASSUME NEW first \in Nat, NEW n \in Nat \ {0}, NEW y \in Nat, NEW c \in Colors, NEW P,
         NEW st \in Nat, st = y * ROW_BYTES + first,
         NEW W \in SUBSET (st .. st + n - 1), \A b \in W, i \in Bits : PixelAt(b, i) \in P,
         NEW D, \A d \in ScreenBytes, e \in Planes : <<d, e>> \in D /\ d \in st .. st + n - 1 => d \in W
  PROVE  Leads(FullBytes(first, n, y, c), Claim(P, c, D, Colors), Claim(P, c, D \cup (W \X Planes), Colors))
<1>1. PICK np \in Nat : np = PLANES /\ Planes = 1 .. np
  BY Sizes
<1>2. PICK fills : fills = [p \in Planes |-> [k \in 1 .. n |-> Fill(y * ROW_BYTES + first + k - 1, c, p)]]
  OBVIOUS
<1>3. PICK seqs : seqs = [p \in Planes |-> <<Select({p})>> \o fills[p]]
  OBVIOUS
<1>4. ASSUME NEW p \in Planes PROVE fills[p] = [k \in 1 .. n |-> Fill(st + k - 1, c, p)] /\ fills[p] \in Seq(Quiet)
  <2>1. fills[p] = [k \in 1 .. n |-> Fill(st + k - 1, c, p)]
    BY <1>2
  <2>2. ASSUME NEW k \in 1 .. n PROVE fills[p][k] \in Quiet
    <3>1. PICK b \in Nat : b = st + k - 1
      OBVIOUS
    <3>2. fills[p][k] = Fill(b, c, p)
      BY <2>1, <3>1
    <3> QED
      BY <3>2 DEF Quiet
  <2>3. fills[p] = [k \in 1 .. n |-> fills[p][k]]
    BY <2>1
  <2>4. fills[p] \in Seq(Quiet)
    BY <2>2, <2>3
  <2> QED
    BY <2>1, <2>4
<1>5. ASSUME NEW p \in Planes PROVE <<Select({p})>> \in Seq(Quiet) /\ {p} \in Colors
  <2>1. Select({p}) \in Quiet
    BY DEF Quiet, Colors
  <2> QED
    BY <2>1 DEF Colors
<1>6. PICK K : K = [k \in 0 .. np |-> Claim(P, c, D \cup (W \X (1 .. k)), Colors)]
  OBVIOUS
<1>7. seqs \in Seq(Seq(Quiet)) /\ np = Len(seqs)
  <2>1. PICK T : T = Seq(Quiet)
    OBVIOUS
  <2>2. ASSUME NEW p \in 1 .. np PROVE seqs[p] \in T
    <3>1. PICK u, v : u = <<Select({p})>> /\ v = fills[p]
      OBVIOUS
    <3>2. u \in Seq(Quiet) /\ v \in Seq(Quiet)
      BY <1>1, <1>4, <1>5, <3>1
    <3>3. u \o v \in Seq(Quiet)
      BY <3>2, ConcatProperties
    <3> QED
      BY <1>1, <1>3, <2>1, <3>1, <3>3
  <2>3. seqs = [p \in 1 .. np |-> seqs[p]]
    BY <1>1, <1>3
  <2> QED
    BY <2>1, <2>2, <2>3
<1>8. ASSUME NEW p \in 1 .. np PROVE Leads(seqs[p], K[p - 1], K[p])
  <2>1. PICK m : m = p - 1
    OBVIOUS
  <2>2. m \in 0 .. np /\ p \in 0 .. np /\ p \in Planes /\ \A e \in 1 .. p : e = p \/ e \in 1 .. m
    BY <1>1, <2>1
  <2>3. PICK A : A = D \cup (W \X (1 .. m))
    OBVIOUS
  <2>4. PICK B : B = D \cup (W \X (1 .. p))
    OBVIOUS
  <2>5. PICK C : C = A \cup (W \X {p})
    OBVIOUS
  <2>6. K[m] = Claim(P, c, A, Colors) /\ K[p] = Claim(P, c, B, Colors)
    BY <1>6, <2>2, <2>3, <2>4
  <2>7. PICK u, v, w : u = <<Select({p})>> /\ v = fills[p] /\ w = seqs[p]
    OBVIOUS
  <2>8. u \in Seq(Quiet) /\ v \in Seq(Quiet) /\ Joined(w, u, v)
    BY <1>3, <1>4, <1>5, <2>2, <2>7 DEF Joined
  <2>9. Leads(u, Claim(P, c, A, Colors), Claim(P, c, A, {{p}}))
    <3>1. PICK N : N = {{p}}
      OBVIOUS
    <3>2. {p} \in N /\ {p} \in Colors
      BY <1>5, <2>2, <3>1
    <3>3. PICK ps : ps = {p}
      OBVIOUS
    <3>4. LeadsStep(Select(ps), Claim(P, c, A, Colors), Claim(P, c, A, N))
      BY <3>2, <3>3, SelectStep
    <3> QED
      BY <2>7, <3>1, <3>3, <3>4, LeadsOne
  <2>10. Leads(v, Claim(P, c, A, {{p}}), Claim(P, c, C, {{p}}))
    <3>1. \A d \in ScreenBytes, e \in Planes : <<d, e>> \in A /\ d \in st .. st + n - 1 => d \in W
      BY <2>3
    <3>2. v = [k \in 1 .. n |-> Fill(st + k - 1, c, p)]
      BY <1>4, <2>2, <2>7
    <3> QED
      BY <2>2, <2>5, <3>1, <3>2, FillsShow
  <2>11. Leads(w, Claim(P, c, A, Colors), Claim(P, c, C, {{p}}))
    BY <2>8, <2>9, <2>10, LeadsConcat
  <2>12. Weaker(Claim(P, c, C, {{p}}), Claim(P, c, B, Colors))
    <3>1. \A d \in ScreenBytes, e \in Planes : <<d, e>> \in B => <<d, e>> \in C
      BY <2>2, <2>3, <2>4, <2>5
    <3>2. {{p}} \subseteq Colors
      BY <1>5, <2>2
    <3> QED
      BY <3>1, <3>2, ClaimWeaker
  <2>13. Leads(w, Claim(P, c, A, Colors), Claim(P, c, B, Colors))
    BY <2>11, <2>12 DEF Leads, Weaker
  <2> QED
    BY <2>1, <2>6, <2>7, <2>13
<1>9. PICK u : u = FlattenSeq(seqs)
  OBVIOUS
<1>10. Leads(u, K[0], K[np]) /\ u \in Seq(Quiet)
  <2>1. Leads(FlattenSeq(seqs), K[0], K[np])
    BY <1>7, <1>8, LeadsFlatten
  <2> QED
    BY <1>7, <1>9, <2>1, FlattenTyped
<1>11. PICK G, L : G = Claim(P, c, D, Colors) /\ L = Claim(P, c, D \cup (W \X Planes), Colors)
  OBVIOUS
<1>12. K[0] = G
  <2>1. D \cup (W \X (1 .. 0)) = D
    OBVIOUS
  <2>2. 0 \in 0 .. np
    OBVIOUS
  <2> QED
    BY <1>6, <1>11, <2>1, <2>2
<1>13. K[np] = L
  <2>1. np \in 0 .. np
    OBVIOUS
  <2> QED
    BY <1>1, <1>6, <1>11, <2>1
<1>14. PICK v : v = <<Select(Planes)>>
  OBVIOUS
<1>15. v \in Seq(Quiet)
  <2>1. Select(Planes) \in Quiet
    BY DEF Quiet, Colors
  <2> QED
    BY <1>14, <2>1
<1>16. Leads(v, L, L)
  <2>1. Planes \in Colors
    BY DEF Colors
  <2>2. LeadsStep(Select(Planes), L, L)
    BY <1>11, <2>1, SelectStep
  <2> QED
    BY <1>14, <2>2, LeadsOne
<1>17. PICK w : w = FullBytes(first, n, y, c)
  OBVIOUS
<1>18. Joined(w, u, v)
  <2>1. \A p \in Planes : seqs[p] = <<Select({p})>> \o [k \in 1 .. n |-> Fill(y * ROW_BYTES + first + k - 1, c, p)]
    BY <1>2, <1>3
  <2>2. seqs = [p \in Planes |-> <<Select({p})>> \o [k \in 1 .. n |-> Fill(y * ROW_BYTES + first + k - 1, c, p)]]
    BY <1>3, <2>1
  <2>3. n # 0
    OBVIOUS
  <2> QED
    BY <1>9, <1>14, <1>17, <2>2, <2>3 DEF FullBytes, Joined
<1>19. Leads(w, G, L)
  BY <1>10, <1>12, <1>13, <1>15, <1>16, <1>18, LeadsConcat
<1> QED
  BY <1>11, <1>17, <1>19

-----------------------------------------------------------------------------
(* The whole bytes of a row begin and end at the border of a byte.         *)
LEMMA WholeBytes ==
  ASSUME NEW r \in Call, FullCount(r) # 0,
         NEW f, f = HeadEnd(r) \div BITS, NEW n, n = FullCount(r)
  PROVE  /\ f \in Nat /\ n \in Nat \ {0}
         /\ HeadEnd(r) = f * BITS /\ TailStart(r) = (f + n) * BITS
         /\ TailStart(r) \div BITS = f + n
<1>1. PICK b \in Nat \ {0} : b = BITS
  BY Sizes
<1>2. PICK x \in Nat, w \in Nat : x = r.x /\ w = r.w
  BY CallFacts
<1>3. n \in Nat \ {0} /\ f \in Nat
  BY RowParts
<1>4. HeadEnd(r) = Aligned(r)
  <2> SUFFICES ASSUME HeadEnd(r) = x + w PROVE FALSE
    BY <1>2 DEF HeadEnd
  <2>1. n = 0 \div b
    BY <1>1, <1>2 DEF FullCount
  <2>2. 0 \div b = 0
    OBVIOUS
  <2> QED
    BY <1>3, <2>1, <2>2
<1>5. PICK k \in Nat : k = (x + b - 1) \div b
  <2>1. PICK m \in Nat : m = x + b - 1
    OBVIOUS
  <2>2. m \div b \in Nat
    OBVIOUS
  <2> QED
    BY <2>1, <2>2
<1>6. HeadEnd(r) = k * b
  BY <1>1, <1>2, <1>4, <1>5 DEF Aligned
<1>7. (k * b) \div b = k
  <2>1. PICK m : m = k * b + 0
    OBVIOUS
  <2>2. m \div b = k
    BY <2>1, QuotientIs
  <2>3. m = k * b
    BY <2>1
  <2> QED
    BY <2>2, <2>3
<1>8. f = k
  BY <1>1, <1>6, <1>7
<1>9. TailStart(r) = f * b + n * b
  BY <1>1, <1>6, <1>8 DEF TailStart
<1>10. f * b + n * b = (f + n) * b
  BY <1>3
<1>11. ((f + n) * b) \div b = f + n
  <2>1. PICK k2 \in Nat : k2 = f + n
    BY <1>3
  <2>2. PICK m : m = k2 * b + 0
    OBVIOUS
  <2>3. m \div b = k2
    BY <2>2, QuotientIs
  <2>4. m = k2 * b
    BY <2>2
  <2> QED
    BY <2>1, <2>3, <2>4
<1> QED
  BY <1>1, <1>3, <1>6, <1>8, <1>9, <1>10, <1>11

(* Comparing a column with the border of a byte is comparing byte columns. *)
LEMMA QuotientBetween ==
  ASSUME NEW b \in Nat \ {0}, NEW x \in Nat, NEW f \in Nat, NEW g \in Nat
  PROVE  f * b <= x /\ x < g * b <=> f <= x \div b /\ x \div b < g
<1>1. PICK j \in Nat, i \in 0 .. b - 1 : j = x \div b /\ i = x % b /\ x = j * b + i
  BY Quotient
<1>2. PICK jb \in Nat, fb \in Nat, gb \in Nat : jb = j * b /\ fb = f * b /\ gb = g * b
  BY TimesStep
<1>3. f <= j => fb <= jb
  BY <1>2, TimesMonotone
<1>4. j < f => jb + b <= fb
  <2> SUFFICES ASSUME j < f PROVE jb + b <= fb
    OBVIOUS
  <2>1. PICK m \in Nat : m = j + 1
    OBVIOUS
  <2>2. m <= f /\ m * b = j * b + b
    BY <2>1, TimesStep
  <2>3. m * b <= f * b
    BY <2>2, TimesMonotone
  <2> QED
    BY <1>2, <2>2, <2>3
<1>5. g <= j => gb <= jb
  BY <1>2, TimesMonotone
<1>6. j < g => jb + b <= gb
  <2> SUFFICES ASSUME j < g PROVE jb + b <= gb
    OBVIOUS
  <2>1. PICK m \in Nat : m = j + 1
    OBVIOUS
  <2>2. m <= g /\ m * b = j * b + b
    BY <2>1, TimesStep
  <2>3. m * b <= g * b
    BY <2>2, TimesMonotone
  <2> QED
    BY <1>2, <2>2, <2>3
<1> QED
  BY <1>1, <1>2, <1>3, <1>4, <1>5, <1>6

RowOf(r, y) == {q \in PixelsOf(r) : q[2] = y}

(* The pixels of a row, in three parts.                                    *)
LEMMA RowStrips ==
  ASSUME NEW r \in Call, NEW y \in r.y .. r.y + r.h - 1
  PROVE  /\ RowOf(r, y) = Strip(r.x, HeadEnd(r) - 1, y) \cup Strip(HeadEnd(r), TailStart(r) - 1, y)
                            \cup Strip(TailStart(r), r.x + r.w - 1, y)
<1>1. PICK x \in Nat, w \in Nat : x = r.x /\ w = r.w
  BY CallFacts
<1>2. PICK h \in x .. x + w : h = HeadEnd(r)
  BY <1>1, RowParts
<1>3. PICK t \in h .. x + w : t = TailStart(r)
  BY <1>1, <1>2, RowParts
<1>4. \A q \in Pixels : q \in PixelsOf(r) /\ q[2] = y <=> q[1] \in x .. x + w - 1 /\ q[2] = y
  <2>1. r.y \in Nat /\ r.h \in Nat
    BY CallFacts
  <2> QED
    BY <1>1, <2>1 DEF PixelsOf, Pixels
<1>5. \A z \in Int : z \in x .. x + w - 1 <=> z \in x .. h - 1 \/ z \in h .. t - 1 \/ z \in t .. x + w - 1
  OBVIOUS
<1>6. \A q \in Pixels : q[1] \in Int
  BY PixelIs, Sizes DEF Xs
<1>7. PixelsOf(r) \subseteq Pixels
  BY DEF PixelsOf, Pixels
<1>8. PICK A, B, C : A = Strip(x, h - 1, y) /\ B = Strip(h, t - 1, y) /\ C = Strip(t, x + w - 1, y)
  OBVIOUS
<1>9. \A q \in Pixels : q \in RowOf(r, y) <=> q \in A \/ q \in B \/ q \in C
  BY <1>4, <1>5, <1>6, <1>8 DEF Strip, RowOf
<1>10. A \subseteq Pixels /\ B \subseteq Pixels /\ C \subseteq Pixels /\ RowOf(r, y) \subseteq Pixels
  BY <1>7, <1>8 DEF Strip, RowOf
<1>11. RowOf(r, y) = A \cup B \cup C
  BY <1>9, <1>10
<1> QED
  BY <1>1, <1>2, <1>3, <1>8, <1>11

(* The whole bytes that are in the row hold pixels of the rectangle; the   *)
(* others are beyond the right border.                                     *)
LEMMA WholeBytesOf ==
  ASSUME NEW r \in Call, FullCount(r) # 0, NEW y \in Ys, y \in r.y .. r.y + r.h - 1,
         NEW n \in Nat \ {0}, n = FullCount(r), NEW st, st = y * ROW_BYTES + HeadEnd(r) \div BITS,
         NEW W, W = BytesOf(Strip(HeadEnd(r), TailStart(r) - 1, y))
  PROVE  /\ st \in Nat /\ W \in SUBSET (st .. st + n - 1)
         /\ \A b \in W, i \in Bits : PixelAt(b, i) \in PixelsOf(r)
         /\ \A d \in ScreenBytes : d \in st .. st + n - 1 /\ d < (y + 1) * ROW_BYTES => d \in W
         /\ st + n - 1 = y * ROW_BYTES + (TailStart(r) \div BITS) - 1
<1>1. PICK b \in Nat \ {0}, R \in Nat \ {0} : b = BITS /\ R = ROW_BYTES
  BY Sizes
<1>2. PICK f \in Nat, g \in Nat : f = HeadEnd(r) \div BITS /\ g = f + n
  <2>1. HeadEnd(r) \div BITS \in Nat
    BY RowParts
  <2> QED
    BY <2>1
<1>3. HeadEnd(r) = f * b /\ TailStart(r) = g * b /\ TailStart(r) \div BITS = g
  BY <1>1, <1>2, WholeBytes
<1>4. y \in Nat
  BY DEF Ys
<1>5. PICK yr \in Nat : yr = y * R /\ (y + 1) * R = yr + R
  BY <1>4, TimesStep
<1>6. st = yr + f
  BY <1>1, <1>2, <1>5
<1>7. PICK fb \in Nat, gb \in Nat : fb = f * b /\ gb = g * b
  BY TimesStep
<1>8. PICK Q : Q = Strip(fb, gb - 1, y)
  OBVIOUS
<1>9. ASSUME NEW q \in Pixels
      PROVE  q \in Q <=> q[2] = y /\ f <= q[1] \div b /\ q[1] \div b < g
  <2>1. q[1] \in Nat
    BY ByteOfScreen
  <2>2. f * b <= q[1] /\ q[1] < g * b <=> f <= q[1] \div b /\ q[1] \div b < g
    BY <2>1, QuotientBetween
  <2>3. q \in Q <=> q[2] = y /\ fb <= q[1] /\ q[1] < gb
    BY <1>8, <2>1 DEF Strip
  <2> QED
    BY <1>7, <2>2, <2>3
<1>10. Q \subseteq Pixels /\ \A d : d \in W <=> \E q \in Q : d = ByteOf(q[1], q[2])
  <2>1. W = BytesOf(Q)
    BY <1>3, <1>7, <1>8
  <2>2. Q \subseteq Pixels
    BY <1>8 DEF Strip
  <2> QED
    BY <2>1, <2>2 DEF BytesOf, ByteOf
<1>11. ASSUME NEW d \in W
       PROVE  \E j \in f .. g - 1 : j < R /\ d = yr + j /\ d \in ScreenBytes /\ d \div R = y /\ d % R = j
  <2>1. PICK q \in Q : d = ByteOf(q[1], q[2])
    BY <1>10
  <2>2. q \in Pixels /\ q[2] = y /\ f <= q[1] \div b /\ q[1] \div b < g
    BY <1>9, <1>10
  <2>3. q[1] \in Nat /\ q[1] \in Xs /\ d \in ScreenBytes
    BY <2>1, <2>2, ByteOfScreen, PixelIs
  <2>4. PICK j : j = q[1] \div b
    OBVIOUS
  <2>5. j \in 0 .. R - 1 /\ d = yr + j /\ d \div R = y /\ d % R = j
    BY <1>1, <1>4, <1>5, <2>1, <2>2, <2>3, <2>4, ByteOfPixel
  <2> QED
    BY <2>2, <2>3, <2>4, <2>5
<1>12. W \in SUBSET (st .. st + n - 1)
  <2>1. ASSUME NEW d \in W PROVE d \in st .. st + n - 1
    <3>1. PICK j \in f .. g - 1 : d = yr + j
      BY <1>11
    <3> QED
      BY <1>2, <1>6, <3>1
  <2> QED
    BY <2>1
<1>13. ASSUME NEW d \in W, NEW i \in Bits PROVE PixelAt(d, i) \in PixelsOf(r)
  <2>1. PICK j \in f .. g - 1 : d \in ScreenBytes /\ d \div R = y /\ d % R = j
    BY <1>11
  <2>2. PICK q : q = PixelAt(d, i)
    OBVIOUS
  <2>3. q \in Pixels /\ q[2] = y /\ q[1] \div b = j
    BY <1>1, <2>1, <2>2, PixelAtScreen DEF PixelAt
  <2>4. q \in Q
    BY <1>9, <2>1, <2>3
  <2>5. Q \subseteq RowOf(r, y)
    BY <1>3, <1>7, <1>8, RowStrips
  <2> QED
    BY <2>2, <2>4, <2>5 DEF RowOf
<1>14. ASSUME NEW d \in ScreenBytes, d \in st .. st + n - 1, d < (y + 1) * R PROVE d \in W
  <2>1. PICK j \in 0 .. R - 1 : d = yr + j /\ f <= j /\ j < g
    <3>1. d - yr \in 0 .. R - 1 /\ d = yr + (d - yr) /\ f <= d - yr /\ d - yr < g
      BY <1>2, <1>5, <1>6, <1>14
    <3> QED
      BY <3>1
  <2>2. d \div R = y /\ d % R = j
    <3>1. d = y * R + j
      BY <1>5, <2>1
    <3> QED
      BY <1>4, <3>1, QuotientIs
  <2>3. PICK i \in Bits : i = 0
    BY Sizes DEF Bits
  <2>4. PICK q : q = PixelAt(d, i)
    OBVIOUS
  <2>5. q \in Pixels /\ q[2] = y /\ q[1] \div b = j /\ ByteOf(q[1], q[2]) = d
    BY <1>1, <2>2, <2>4, PixelAtScreen DEF PixelAt
  <2>6. q \in Q
    BY <1>9, <2>1, <2>5
  <2> QED
    BY <1>10, <2>5, <2>6
<1>15. st + n - 1 = y * ROW_BYTES + (TailStart(r) \div BITS) - 1 /\ st \in Nat
  BY <1>1, <1>2, <1>3, <1>5, <1>6
<1> QED
  BY <1>1, <1>12, <1>13, <1>14, <1>15

-----------------------------------------------------------------------------
(* The rows of VgaFillRect: each leaves its bytes right, and those of the  *)
(* rows above, which are all that was right before.                        *)
Above(D, y) == \A d \in ScreenBytes, e \in Planes : <<d, e>> \in D => d < (y + 1) * ROW_BYTES

(* Pixels up to row y are in bytes before row y + 1.                       *)
LEMMA CoversAbove ==
  ASSUME NEW y \in Nat, NEW Q \in SUBSET Pixels, \A q \in Q : q[2] <= y
  PROVE  Above(Covers(Q), y)
<1> SUFFICES ASSUME NEW d \in ScreenBytes, NEW e \in Planes, <<d, e>> \in Covers(Q)
             PROVE  d < (y + 1) * ROW_BYTES
  BY DEF Above
<1>1. PICK q \in Q : d = ByteOf(q[1], q[2])
  BY CoversHas
<1>2. PICK x \in Xs, z \in Nat : x = q[1] /\ z = q[2] /\ x \in Nat
  <2>1. q \in Pixels
    OBVIOUS
  <2>2. q[1] \in Xs /\ q[1] \in Nat /\ q[2] \in Nat
    BY <2>1, PixelIs, ByteOfScreen
  <2> QED
    BY <2>2
<1>3. PICK R \in Nat \ {0} : R = ROW_BYTES
  BY Sizes
<1>4. PICK j \in 0 .. R - 1 : d = z * R + j
  BY <1>1, <1>2, <1>3, ByteOfPixel
<1>5. z <= y
  BY <1>2
<1>6. z * R <= y * R /\ z * R \in Nat /\ y * R \in Nat /\ (y + 1) * R = y * R + R
  BY <1>5, TimesMonotone, TimesStep
<1> QED
  BY <1>3, <1>4, <1>6

(* One row of VgaFillRect: head, whole bytes and tail leave the bytes of   *)
(* the row right, and the bytes of the rows above as they were.            *)
LEMMA RowShows ==
  ASSUME NEW r \in Call, NEW y \in r.y .. r.y + r.h - 1, NEW P, PixelsOf(r) \subseteq P,
         NEW Q \in SUBSET Pixels, \A q \in Q : q[2] <= y
  PROVE  /\ FillRow(r, y) \in Seq(Quiet \cup StoresOf(PixelsOf(r), r.c))
         /\ Leads(FillRow(r, y), Claim(P, r.c, Covers(Q), Colors), Claim(P, r.c, Covers(Q \cup RowOf(r, y)), Colors))
<1>1. PICK x \in Nat, w \in Nat, c \in Colors : x = r.x /\ w = r.w /\ c = r.c
  BY CallFacts
<1>2. y \in Nat /\ r.y \in Nat /\ r.h \in Nat
  BY CallFacts
<1>3. PICK S : S = Quiet \cup StoresOf(PixelsOf(r), r.c)
  OBVIOUS
<1>4. CASE y \notin Ys
  <2>1. RowOf(r, y) = {}
    BY <1>4 DEF RowOf, PixelsOf
  <2>2. Q \cup RowOf(r, y) = Q
    BY <2>1
  <2>3. FillRow(r, y) = <<>> /\ <<>> \in Seq(S)
    BY <1>4, EmptySeq DEF FillRow
  <2> QED
    BY <1>3, <2>2, <2>3, LeadsNothing
<1>5. CASE y \in Ys
  <2>1. PICK h \in x .. x + w : h = HeadEnd(r)
    BY <1>1, RowParts
  <2>2. PICK t \in h .. x + w : t = TailStart(r)
    BY <1>1, <2>1, RowParts
  <2>3. PICK u, v, z : /\ u = PutPixels(x, h - 1, y, c) /\ v = FullBytes(h \div BITS, FullCount(r), y, c)
                       /\ z = PutPixels(t, x + w - 1, y, c)
    OBVIOUS
  <2>4. u \in Seq(S)
    <3>1. x \in r.x .. r.x + r.w /\ h - 1 \in x - 1 .. r.x + r.w - 1
      BY <1>1, <2>1
    <3> QED
      BY <1>1, <1>3, <2>3, <3>1, PutPixelsWithin
  <2>5. z \in Seq(S)
    <3>1. t \in r.x .. r.x + r.w /\ x + w - 1 \in t - 1 .. r.x + r.w - 1
      BY <1>1, <2>2
    <3> QED
      BY <1>1, <1>3, <2>3, <3>1, PutPixelsWithin
  <2>6. v \in Seq(S)
    <3>1. h \div BITS \in Nat /\ FullCount(r) \in Nat
      BY <2>1, RowParts
    <3>2. v \in Seq(Quiet)
      BY <1>2, <2>3, <3>1, FullBytesQuiet
    <3> QED
      BY <1>3, <3>2, SeqWider
  <2>7. PICK A, B, C : A = Strip(x, h - 1, y) /\ B = Strip(h, t - 1, y) /\ C = Strip(t, x + w - 1, y)
    OBVIOUS
  <2>8. PICK D0, D1, D2, D3 : /\ D0 = Covers(Q) /\ D1 = D0 \cup Covers(A) /\ D2 = D1 \cup Covers(B)
                              /\ D3 = D2 \cup Covers(C)
    OBVIOUS
  <2>9. PICK K0, K1, K2, K3 : /\ K0 = Claim(P, c, D0, Colors) /\ K1 = Claim(P, c, D1, Colors)
                              /\ K2 = Claim(P, c, D2, Colors) /\ K3 = Claim(P, c, D3, Colors)
    OBVIOUS
  <2>10. Leads(u, K0, K1)
    <3>1. x - 1 <= h - 1 /\ h - 1 \in Int
      BY <2>1
    <3> QED
      BY <1>2, <2>3, <2>7, <2>8, <2>9, <3>1, PutPixelsShow
  <2>11. Leads(z, K2, K3)
    <3>1. t \in Nat /\ t - 1 <= x + w - 1 /\ x + w - 1 \in Int
      BY <2>1, <2>2
    <3> QED
      BY <1>2, <2>3, <2>7, <2>8, <2>9, <3>1, PutPixelsShow
  <2>12. Leads(v, K1, K2)
    <3>1. CASE FullCount(r) = 0
      <4>1. t = h
        <5>1. PICK b \in Nat : b = BITS
          BY Sizes
        <5> QED
          BY <2>1, <2>2, <3>1, <5>1 DEF TailStart
      <4>2. B = {}
        BY <2>1, <2>7, <4>1 DEF Strip
      <4>3. Covers({}) = {}
        BY DEF Covers, BytesOf
      <4>4. K1 = K2
        BY <2>8, <2>9, <4>2, <4>3
      <4>5. v = <<>>
        BY <2>3, <3>1 DEF FullBytes
      <4> QED
        BY <4>4, <4>5, LeadsNothing
    <3>2. CASE FullCount(r) # 0
      <4>1. PICK n \in Nat \ {0} : n = FullCount(r)
        BY <3>2, RowParts
      <4>2. PICK f \in Nat : f = h \div BITS
        BY <2>1, RowParts
      <4>3. PICK st : st = y * ROW_BYTES + f
        OBVIOUS
      <4>4. PICK W : W = BytesOf(B)
        OBVIOUS
      <4>5. /\ st \in Nat /\ W \in SUBSET (st .. st + n - 1)
            /\ \A b \in W, i \in Bits : PixelAt(b, i) \in PixelsOf(r)
            /\ \A d \in ScreenBytes : d \in st .. st + n - 1 /\ d < (y + 1) * ROW_BYTES => d \in W
        BY <1>5, <2>1, <2>2, <2>7, <3>2, <4>1, <4>2, <4>3, <4>4, WholeBytesOf
      <4>6. \A b \in W, i \in Bits : PixelAt(b, i) \in P
        BY <4>5
      <4>7. Above(D1, y)
        <5>1. Q \cup A \subseteq Pixels /\ \A q \in Q \cup A : q[2] <= y
          BY <1>2, <2>7 DEF Strip
        <5>2. Above(Covers(Q \cup A), y)
          BY <1>2, <5>1, CoversAbove
        <5>3. D1 = Covers(Q \cup A)
          BY <2>8, CoversUnion
        <5> QED
          BY <5>2, <5>3
      <4>8. \A d \in ScreenBytes, e \in Planes : <<d, e>> \in D1 /\ d \in st .. st + n - 1 => d \in W
        BY <4>5, <4>7 DEF Above
      <4>9. Leads(FullBytes(f, n, y, c), Claim(P, c, D1, Colors), Claim(P, c, D1 \cup (W \X Planes), Colors))
        BY <1>2, <4>3, <4>5, <4>6, <4>8, FullBytesShow
      <4>10. K2 = Claim(P, c, D1 \cup (W \X Planes), Colors)
        BY <2>8, <2>9, <4>4 DEF Covers
      <4> QED
        BY <2>3, <2>9, <4>1, <4>2, <4>9, <4>10
    <3> QED
      BY <3>1, <3>2
  <2>13. PICK uv : uv = u \o v
    OBVIOUS
  <2>14. PICK fr : fr = uv \o z
    OBVIOUS
  <2>15. FillRow(r, y) = fr
    BY <1>1, <1>5, <2>1, <2>2, <2>3, <2>13, <2>14 DEF FillRow
  <2>16. uv \in Seq(S) /\ fr \in Seq(S)
    BY <2>4, <2>5, <2>6, <2>13, <2>14, ConcatProperties
  <2>17. Joined(uv, u, v) /\ Joined(fr, uv, z)
    BY <2>13, <2>14 DEF Joined
  <2>18. Leads(uv, K0, K2)
    BY <2>4, <2>6, <2>10, <2>12, <2>17, LeadsConcat
  <2>19. Leads(fr, K0, K3)
    BY <2>5, <2>11, <2>16, <2>17, <2>18, LeadsConcat
  <2>20. D3 = Covers(Q \cup RowOf(r, y))
    <3>1. RowOf(r, y) = A \cup B \cup C
      BY <1>1, <2>1, <2>2, <2>7, RowStrips
    <3>2. PICK QA : QA = Q \cup A
      OBVIOUS
    <3>3. PICK QB : QB = QA \cup B
      OBVIOUS
    <3>4. Q \cup RowOf(r, y) = QB \cup C
      BY <3>1, <3>2, <3>3
    <3>5. Covers(QA) = D1
      BY <2>8, <3>2, CoversUnion
    <3>6. Covers(QB) = D2
      BY <2>8, <3>3, <3>5, CoversUnion
    <3>7. Covers(QB \cup C) = D3
      BY <2>8, <3>6, CoversUnion
    <3> QED
      BY <3>4, <3>7
  <2> QED
    BY <1>1, <1>3, <2>8, <2>9, <2>15, <2>16, <2>19, <2>20
<1> QED
  BY <1>4, <1>5

-----------------------------------------------------------------------------
(* Accesses keep a screen a screen.                                        *)
LEMMA RunTyped ==
  ASSUME NEW s, Typed(s), NEW u \in Seq(Access)
  PROVE  Typed(Run(s, u))
<1>1. PICK n \in Nat : n = Len(u)
  OBVIOUS
<1>2. PICK f : States(f, s, u, n)
  BY <1>1, StatesExist
<1>3. f[0] = s /\ Run(s, u) = f[n] /\ \A k \in 1 .. n : f[k] = Effect(f[k - 1], u[k])
  BY <1>2 DEF States
<1> DEFINE A == {k \in Nat : k <= n => Typed(f[k])}
<1>4. 0 \in A
  BY <1>3
<1>5. ASSUME NEW k \in Nat, k \in A PROVE k + 1 \in A
  <2> SUFFICES ASSUME k + 1 <= n PROVE Typed(f[k + 1])
    OBVIOUS
  <2>1. PICK i : i = k + 1
    OBVIOUS
  <2>2. i \in 1 .. n /\ i - 1 = k /\ k <= n
    BY <2>1
  <2>3. f[i] = Effect(f[k], u[i]) /\ Typed(f[k]) /\ u[i] \in Access
    BY <1>1, <1>3, <1>5, <2>2
  <2>4. Typed(f[i])
    BY <2>3, EffectTyped
  <2> QED
    BY <2>1, <2>4
<1> HIDE DEF A
<1>6. Nat \subseteq A
  BY <1>4, <1>5, SetInduction
<1> QED
  BY <1>3, <1>6 DEF A

(* The shadow first: all pixels of the rectangle.                          *)
LEMMA StoresShow ==
  ASSUME NEW r \in Call, NEW P, P = PixelsOf(r), NEW c, c = r.c
  PROVE  /\ Stores(r) \in Seq(Quiet \cup StoresOf(P, c))
         /\ Leads(Stores(r), Claim({}, c, {}, Colors), Claim(P, c, {}, Colors))
<1>1. c \in Colors /\ P \in SUBSET Pixels
  BY CallFacts DEF PixelsOf, Pixels
<1>2. PICK u : u = Stores(r)
  OBVIOUS
<1>3. Paints(u, StoresOf(P, c))
  BY <1>2, StoresPaint
<1>4. u \in Seq(Quiet \cup StoresOf(P, c))
  BY <1>3 DEF Paints
<1>5. StoresOf(P, c) \subseteq AllStores
  BY <1>1, PixelIs DEF StoresOf, AllStores
<1>6. u \in Seq(Access)
  <2>1. PICK Z : Z = Quiet \cup StoresOf(P, c)
    OBVIOUS
  <2>2. Z \subseteq Access
    BY <1>5, <2>1 DEF Access
  <2> QED
    BY <1>4, <2>1, <2>2, SeqWider
<1>7. ASSUME NEW s, Fits(s, Claim({}, c, {}, Colors)) PROVE Fits(Run(s, u), Claim(P, c, {}, Colors))
  <2>1. Typed(s)
    BY <1>7, FitsClaim
  <2>2. PICK t : t = Run(s, u)
    OBVIOUS
  <2>3. Typed(t)
    BY <1>6, <2>1, <2>2, RunTyped
  <2>4. t.shadow = Painted(s.shadow, P, c)
    BY <1>1, <1>3, <2>1, <2>2, RunPaints DEF Typed
  <2>5. ASSUME NEW q \in Pixels, q \in P PROVE At(t.shadow, q) = c
    <3>1. PICK x \in Xs, y \in Ys : q = <<x, y>> /\ q[1] = x /\ q[2] = y
      BY PixelIs
    <3> QED
      BY <2>4, <2>5, <3>1 DEF At, Painted
  <2>6. t.mask \in Colors
    BY <2>3 DEF Typed
  <2>7. Fits(t, Claim(P, c, {}, Colors))
    BY <2>3, <2>5, <2>6, FitsClaim
  <2> QED
    BY <2>2, <2>7
<1>8. Leads(u, Claim({}, c, {}, Colors), Claim(P, c, {}, Colors))
  BY <1>7 DEF Leads
<1> QED
  BY <1>2, <1>4, <1>8

(* No pixels, no bytes.                                                    *)
LEMMA NoCovers == Covers({}) = {}
BY DEF Covers, BytesOf

(* VgaFillRect leaves every byte of its rectangle right, whatever they     *)
(* were.                                                                   *)
LEMMA FillRectShows ==
  ASSUME NEW r \in Call, NEW c, c = r.c
  PROVE  Leads(FillRect(r), Claim({}, c, {}, Colors), Claim({}, c, Covers(PixelsOf(r)), Colors))
<1>1. PICK y \in Nat, h \in Nat : y = r.y /\ h = r.h
  BY CallFacts
<1>2. r.x \in Nat /\ r.w \in Nat
  BY CallFacts
<1>3. PICK P : P = PixelsOf(r)
  OBVIOUS
<1>4. PICK G, L : G = Claim({}, c, {}, Colors) /\ L = Claim({}, c, Covers(P), Colors)
  OBVIOUS
<1>5. CASE r.w = 0 \/ r.h = 0
  <2>1. P = {}
    BY <1>1, <1>2, <1>3, <1>5 DEF PixelsOf
  <2>2. G = L
    BY <1>4, <2>1, NoCovers
  <2>3. FillRect(r) = <<>>
    BY <1>5 DEF FillRect
  <2> QED
    BY <1>3, <1>4, <2>2, <2>3, LeadsNothing
<1>6. CASE ~(r.w = 0 \/ r.h = 0)
  <2>1. PICK S : S = Quiet \cup StoresOf(P, c)
    OBVIOUS
  <2>2. PICK R : R = [k \in 0 .. h |-> {q \in P : q[2] <= y + k - 1}]
    OBVIOUS
  <2>3. PICK K : K = [k \in 0 .. h |-> Claim(P, c, Covers(R[k]), Colors)]
    OBVIOUS
  <2>4. PICK seqs : seqs = [k \in 1 .. h |-> FillRow(r, y + k - 1)]
    OBVIOUS
  <2>5. ASSUME NEW k \in 1 .. h PROVE seqs[k] \in Seq(S) /\ Leads(seqs[k], K[k - 1], K[k])
    <3>1. PICK m : m = k - 1
      OBVIOUS
    <3>2. m \in 0 .. h /\ k \in 0 .. h
      BY <3>1
    <3>3. PICK z \in Nat : z = y + k - 1
      OBVIOUS
    <3>4. z \in r.y .. r.y + r.h - 1 /\ y + m - 1 = z - 1
      BY <1>1, <3>1, <3>3
    <3>5. PICK Q : Q = R[m]
      OBVIOUS
    <3>6. Q = {q \in P : q[2] <= z - 1}
      BY <2>2, <3>2, <3>4, <3>5
    <3>7. P \subseteq Pixels /\ \A q \in P : q[2] \in Nat
      <4>1. P \subseteq Pixels
        BY <1>3 DEF PixelsOf, Pixels
      <4> QED
        BY <4>1, ByteOfScreen
    <3>8. Q \in SUBSET Pixels /\ \A q \in Q : q[2] <= z
      BY <3>6, <3>7
    <3>9. R[k] = Q \cup RowOf(r, z)
      <4>1. R[k] = {q \in P : q[2] <= z}
        BY <2>2, <3>2, <3>3
      <4>2. \A q \in P : q[2] <= z <=> q[2] <= z - 1 \/ q[2] = z
        BY <3>7
      <4>3. \A q : q \in RowOf(r, z) <=> q \in P /\ q[2] = z
        BY <1>3 DEF RowOf
      <4> QED
        BY <3>6, <4>1, <4>2, <4>3
    <3>10. /\ FillRow(r, z) \in Seq(Quiet \cup StoresOf(PixelsOf(r), r.c))
           /\ Leads(FillRow(r, z), Claim(P, r.c, Covers(Q), Colors), Claim(P, r.c, Covers(Q \cup RowOf(r, z)), Colors))
      BY <1>3, <3>4, <3>8, RowShows
    <3>11. seqs[k] = FillRow(r, z)
      BY <2>4, <3>3
    <3>12. K[m] = Claim(P, c, Covers(Q), Colors) /\ K[k] = Claim(P, c, Covers(Q \cup RowOf(r, z)), Colors)
      BY <2>3, <3>2, <3>5, <3>9
    <3> QED
      BY <1>3, <2>1, <3>1, <3>10, <3>11, <3>12
  <2>6. seqs \in Seq(Seq(S)) /\ h = Len(seqs)
    <3>1. PICK T : T = Seq(S)
      OBVIOUS
    <3>2. \A k \in 1 .. h : seqs[k] \in T
      BY <2>5, <3>1
    <3>3. seqs = [k \in 1 .. h |-> seqs[k]]
      BY <2>4
    <3> QED
      BY <3>1, <3>2, <3>3
  <2>7. PICK v : v = FlattenSeq(seqs)
    OBVIOUS
  <2>8. v \in Seq(S) /\ Leads(v, K[0], K[h])
    <3>1. Leads(FlattenSeq(seqs), K[0], K[h])
      BY <2>5, <2>6, LeadsFlatten
    <3> QED
      BY <2>6, <2>7, <3>1, FlattenTyped
  <2>9. PICK M : M = Claim(P, c, {}, Colors)
    OBVIOUS
  <2>10. K[0] = M
    <3>1. R[0] = {}
      <4>1. 0 \in 0 .. h /\ \A q \in P : q[2] \in Nat /\ y <= q[2]
        <5>1. P \subseteq Pixels
          BY <1>3 DEF PixelsOf, Pixels
        <5> QED
          BY <1>1, <1>3, <5>1, ByteOfScreen DEF PixelsOf
      <4>2. PICK z : z = y + 0 - 1
        OBVIOUS
      <4>3. z = y - 1
        BY <4>2
      <4>4. R[0] = {q \in P : q[2] <= z}
        BY <2>2, <4>1, <4>2
      <4> QED
        BY <4>1, <4>3, <4>4
    <3>2. 0 \in 0 .. h
      OBVIOUS
    <3> QED
      BY <2>3, <2>9, <3>1, <3>2, NoCovers
  <2>11. PICK N : N = Claim(P, c, Covers(P), Colors)
    OBVIOUS
  <2>12. K[h] = N
    <3>1. h \in 0 .. h
      OBVIOUS
    <3>2. R[h] = P
      <4>1. \A q \in P : q[2] <= y + h - 1
        BY <1>1, <1>3 DEF PixelsOf
      <4> QED
        BY <2>2, <3>1, <4>1
    <3> QED
      BY <2>3, <2>11, <3>1, <3>2
  <2>13. PICK u : u = Stores(r)
    OBVIOUS
  <2>14. u \in Seq(S) /\ Leads(u, G, M)
    BY <1>3, <1>4, <2>1, <2>9, <2>13, StoresShow
  <2>15. PICK w : w = FillRect(r)
    OBVIOUS
  <2>16. Joined(w, u, v)
    BY <1>1, <1>6, <2>4, <2>7, <2>13, <2>15 DEF FillRect, Joined
  <2>17. Leads(w, G, N)
    BY <2>8, <2>10, <2>12, <2>14, <2>16, LeadsConcat
  <2>18. Weaker(N, L)
    BY <1>4, <2>11, ClaimWeaker
  <2>19. Leads(w, G, L)
    BY <2>17, <2>18 DEF Leads, Weaker
  <2> QED
    BY <1>3, <1>4, <2>15, <2>19
<1> QED
  BY <1>5, <1>6

-----------------------------------------------------------------------------
(* Accesses that store to no byte of the screen but those of B, and to no  *)
(* pixel but those in them.                                                *)
Touching(B) ==
  {a \in Access : /\ a.op = "store" => ByteOf(a.x, a.y) \in B
                  /\ a.op \in {"write", "fill"} /\ a.byte \in ScreenBytes => a.byte \in B}

(* Which accesses touch only bytes of B.                                   *)
LEMMA TouchingHas ==
  ASSUME NEW B
  PROVE  /\ \A x, y \in Nat, p \in Planes : Gather(x, y, p) \in Touching(B)
         /\ \A ps \in Colors : Select(ps) \in Touching(B)
         /\ \A b \in Nat : (b \in ScreenBytes => b \in B) => Write(b) \in Touching(B)
         /\ \A b \in Nat, c \in Colors, p \in Planes :
              (b \in ScreenBytes => b \in B) => Fill(b, c, p) \in Touching(B)
         /\ \A x \in Xs, y \in Ys, c \in Colors : ByteOf(x, y) \in B => Store(x, y, c) \in Touching(B)
         /\ AllSaves \subseteq Touching(B)
<1>1. ASSUME NEW x \in Nat, NEW y \in Nat, NEW p \in Planes PROVE Gather(x, y, p) \in Touching(B)
  <2>1. PICK a : a = Gather(x, y, p)
    OBVIOUS
  <2>2. a \in Access /\ a.op = "gather"
    BY <2>1 DEF Access, Quiet, Gather
  <2> QED
    BY <2>1, <2>2 DEF Touching
<1>2. ASSUME NEW ps \in Colors PROVE Select(ps) \in Touching(B)
  <2>1. PICK a : a = Select(ps)
    OBVIOUS
  <2>2. a \in Access /\ a.op = "select"
    BY <2>1 DEF Access, Quiet, Select
  <2> QED
    BY <2>1, <2>2 DEF Touching
<1>3. ASSUME NEW b \in Nat, b \in ScreenBytes => b \in B PROVE Write(b) \in Touching(B)
  <2>1. PICK a : a = Write(b)
    OBVIOUS
  <2>2. a \in Access /\ a.op = "write" /\ a.byte = b
    BY <2>1 DEF Access, Quiet, Write
  <2> QED
    BY <1>3, <2>1, <2>2 DEF Touching
<1>4. ASSUME NEW b \in Nat, NEW c \in Colors, NEW p \in Planes, b \in ScreenBytes => b \in B
      PROVE  Fill(b, c, p) \in Touching(B)
  <2>1. PICK a : a = Fill(b, c, p)
    OBVIOUS
  <2>2. a.op = "fill" /\ a.byte = b
    BY <2>1 DEF Fill
  <2>3. a \in Access
    BY <2>1 DEF Access, Quiet
  <2> QED
    BY <1>4, <2>1, <2>2, <2>3 DEF Touching
<1>5. ASSUME NEW x \in Xs, NEW y \in Ys, NEW c \in Colors, ByteOf(x, y) \in B
      PROVE  Store(x, y, c) \in Touching(B)
  <2>1. PICK a : a = Store(x, y, c)
    OBVIOUS
  <2>2. a.op = "store" /\ a.x = x /\ a.y = y
    BY <2>1 DEF Store
  <2>3. a \in Access
    BY <2>1 DEF Access, AllStores
  <2> QED
    BY <1>5, <2>1, <2>2, <2>3 DEF Touching
<1>6. ASSUME NEW a \in AllSaves PROVE a \in Touching(B)
  <2>1. a \in Access /\ a.op = "save"
    BY AccessOps DEF Access
  <2> QED
    BY <2>1 DEF Touching
<1> QED
  BY <1>1, <1>2, <1>3, <1>4, <1>5, <1>6

(* Accesses that touch only bytes of B touch only bytes of every larger    *)
(* set.                                                                    *)
LEMMA TouchingWider ==
  ASSUME NEW B, NEW C, B \subseteq C, NEW u \in Seq(Touching(B))
  PROVE  u \in Seq(Touching(C)) /\ u \in Seq(Access)
<1>1. Touching(B) \subseteq Touching(C) /\ Touching(B) \subseteq Access
  BY DEF Touching
<1> QED
  BY <1>1, SeqWider

(* VgaPutPixel touches the byte of its pixel, and nothing when the pixel   *)
(* is off the screen.                                                      *)
LEMMA PutPixelTouches ==
  ASSUME NEW x \in Nat, NEW y \in Nat, NEW c \in Colors, NEW B,
         <<x, y>> \in Pixels => ByteOf(x, y) \in B
  PROVE  PutPixel(x, y, c) \in Seq(Touching(B))
<1>1. PICK S : S = Touching(B)
  OBVIOUS
<1>2. CASE OnScreen(x, y)
  <2>1. x \in Xs /\ y \in Ys /\ ByteOf(x, y) \in B
    BY <1>2 DEF OnScreen, Pixels
  <2>2. Store(x, y, c) \in S
    BY <1>1, <2>1, TouchingHas
  <2>3. PICK b \in Nat : b = ByteOf(x, y)
    BY Sizes
  <2>4. Write(b) \in S
    BY <1>1, <2>1, <2>3, TouchingHas
  <2>5. Select(Planes) \in S /\ \A p \in Planes : Select({p}) \in S
    BY <1>1, TouchingHas DEF Colors
  <2>6. \A p \in Planes : Gather(x, y, p) \in S
    BY <1>1, TouchingHas
  <2>7. Rebuild(x, y) \in Seq(S)
    BY <2>3, <2>4, <2>5, <2>6, RebuildOver
  <2>8. <<Store(x, y, c)>> \in Seq(S)
    BY <2>2
  <2> QED
    BY <1>1, <1>2, <2>7, <2>8, ConcatProperties DEF PutPixel
<1>3. CASE ~OnScreen(x, y)
  BY <1>3, EmptySeq DEF PutPixel
<1> QED
  BY <1>2, <1>3

(* So do the head and the tail of a row.                                   *)
LEMMA PutPixelsTouch ==
  ASSUME NEW first \in Nat, NEW last \in Int, first - 1 <= last, NEW y \in Nat, NEW c \in Colors,
         NEW B, BytesOf(Strip(first, last, y)) \subseteq B
  PROVE  PutPixels(first, last, y, c) \in Seq(Touching(B))
<1>1. PICK n \in Nat : n = last - first + 1
  <2>1. last - first + 1 \in Nat
    OBVIOUS
  <2> QED
    BY <2>1
<1>2. PICK seqs : seqs = [k \in 1 .. n |-> PutPixel(first + k - 1, y, c)]
  OBVIOUS
<1>3. PICK T : T = Seq(Touching(B))
  OBVIOUS
<1>4. ASSUME NEW k \in 1 .. n PROVE seqs[k] \in T
  <2>1. PICK x \in Nat : x = first + k - 1
    OBVIOUS
  <2>2. ASSUME <<x, y>> \in Pixels PROVE ByteOf(x, y) \in B
    <3>1. x \in first .. last
      BY <1>1, <2>1
    <3>2. PICK q : q = <<x, y>>
      OBVIOUS
    <3>3. q \in Strip(first, last, y)
      BY <2>2, <3>1, <3>2 DEF Strip
    <3>4. ByteOf(q[1], q[2]) \in BytesOf(Strip(first, last, y))
      BY <3>3 DEF BytesOf, ByteOf
    <3> QED
      BY <3>2, <3>4
  <2>3. PutPixel(x, y, c) \in Seq(Touching(B))
    BY <2>2, PutPixelTouches
  <2> QED
    BY <1>2, <1>3, <2>1, <2>3
<1>5. seqs \in Seq(T)
  <2>1. seqs = [k \in 1 .. n |-> seqs[k]]
    BY <1>2
  <2> QED
    BY <1>4, <2>1
<1>6. FlattenSeq(seqs) \in Seq(Touching(B))
  BY <1>3, <1>5, FlattenTyped
<1>7. PutPixels(first, last, y, c) = FlattenSeq(seqs)
  BY <1>1, <1>2 DEF PutPixels
<1> QED
  BY <1>6, <1>7

(* The stores of VgaFillRect to the shadow are clipped at the border of    *)
(* the screen.                                                             *)
LEMMA StoresTouch ==
  ASSUME NEW r \in Call, NEW B, BytesOf(PixelsOf(r)) \subseteq B
  PROVE  Stores(r) \in Seq(Touching(B))
<1>1. PICK x \in Nat, y \in Nat : x = r.x /\ y = r.y
  BY CallFacts
<1>2. PICK w \in Nat, h \in Nat : w = r.w /\ h = r.h
  BY CallFacts
<1>3. PICK c \in Colors : c = r.c
  BY CallFacts
<1>4. PICK S : S = Touching(B)
  OBVIOUS
<1>5. ASSUME NEW i \in 1 .. h PROVE StoreRow(r, y + i - 1) \in Seq(S)
  <2>1. PICK d \in Nat : d = y + i - 1
    OBVIOUS
  <2>2. PICK seqs : seqs = [k \in 1 .. w |->
                              IF OnScreen(x + k - 1, d) THEN <<Store(x + k - 1, d, c)>> ELSE <<>>]
    OBVIOUS
  <2>3. ASSUME NEW k \in 1 .. w PROVE seqs[k] \in Seq(S)
    <3>1. PICK e \in Nat : e = x + k - 1
      OBVIOUS
    <3>2. CASE OnScreen(e, d)
      <4>1. PICK q : q = <<e, d>>
        OBVIOUS
      <4>2. q \in PixelsOf(r)
        <5>1. e \in x .. x + w - 1 /\ d \in y .. y + h - 1
          BY <2>1, <3>1
        <5> QED
          BY <1>1, <1>2, <3>2, <4>1, <5>1 DEF PixelsOf, OnScreen
      <4>3. ByteOf(q[1], q[2]) \in B
        BY <4>2 DEF BytesOf, ByteOf
      <4>4. Store(e, d, c) \in S
        BY <1>4, <3>2, <4>1, <4>3, TouchingHas DEF OnScreen
      <4> QED
        BY <2>2, <3>1, <3>2, <4>4
    <3>3. CASE ~OnScreen(e, d)
      <4>1. seqs[k] = <<>>
        BY <2>2, <3>1, <3>3
      <4>2. <<>> \in Seq(S)
        BY EmptySeq
      <4> QED
        BY <4>1, <4>2, Zenon
    <3> QED
      BY <3>2, <3>3
  <2>4. seqs \in Seq(Seq(S))
    <3>1. seqs = [k \in 1 .. w |-> seqs[k]]
      BY <2>2
    <3>2. PICK T : T = Seq(S)
      OBVIOUS
    <3>3. \A k \in 1 .. w : seqs[k] \in T
      BY <2>3, <3>2
    <3> QED
      BY <3>1, <3>2, <3>3
  <2>5. FlattenSeq(seqs) \in Seq(S)
    BY <2>4, FlattenTyped
  <2>6. StoreRow(r, d) = FlattenSeq(seqs)
    BY <1>1, <1>2, <1>3, <2>2 DEF StoreRow
  <2> QED
    BY <2>1, <2>5, <2>6
<1>6. PICK seqs : seqs = [i \in 1 .. h |-> StoreRow(r, y + i - 1)]
  OBVIOUS
<1>7. seqs \in Seq(Seq(S))
  <2>1. PICK T : T = Seq(S)
    OBVIOUS
  <2>2. \A i \in 1 .. h : seqs[i] \in T
    BY <1>5, <1>6, <2>1
  <2>3. seqs = [i \in 1 .. h |-> seqs[i]]
    BY <1>6
  <2> QED
    BY <2>1, <2>2, <2>3
<1>8. FlattenSeq(seqs) \in Seq(S)
  BY <1>7, FlattenTyped
<1>9. Stores(r) = FlattenSeq(seqs)
  BY <1>1, <1>2, <1>6 DEF Stores
<1> QED
  BY <1>4, <1>8, <1>9

Reached(c) == BytesOf(PixelsOf(c)) \cup Overrun(c)

(* More pixels, more bytes.                                                *)
LEMMA BytesWithin ==
  ASSUME NEW P, NEW Q, P \subseteq Q
  PROVE  BytesOf(P) \subseteq BytesOf(Q)
BY DEF BytesOf

(* A row: what its whole bytes hold beyond the border is an overrun.       *)
LEMMA FillRowTouches ==
  ASSUME NEW r \in Call, r.op = "fill", NEW y \in Ys, y \in r.y .. r.y + r.h - 1
  PROVE  FillRow(r, y) \in Seq(Touching(Reached(r)))
<1>1. PICK x \in Nat, w \in Nat : x = r.x /\ w = r.w
  BY CallFacts
<1>2. PICK c \in Colors : c = r.c
  BY CallFacts
<1>3. y \in Nat
  BY CallFacts
<1>4. PICK h \in x .. x + w : h = HeadEnd(r)
  BY <1>1, RowParts
<1>5. PICK t \in h .. x + w : t = TailStart(r)
  BY <1>1, <1>4, RowParts
<1>6. PICK B, S : B = Reached(r) /\ S = Touching(B)
  OBVIOUS
<1>7. PICK P1, P2, P3 : P1 = Strip(x, h - 1, y) /\ P2 = Strip(h, t - 1, y) /\ P3 = Strip(t, x + w - 1, y)
  OBVIOUS
<1>8. BytesOf(P1) \subseteq B /\ BytesOf(P2) \subseteq B /\ BytesOf(P3) \subseteq B
  <2>1. RowOf(r, y) = P1 \cup P2 \cup P3
    BY <1>1, <1>4, <1>5, <1>7, RowStrips
  <2>2. P1 \subseteq PixelsOf(r) /\ P2 \subseteq PixelsOf(r) /\ P3 \subseteq PixelsOf(r)
    BY <2>1 DEF RowOf
  <2>3. BytesOf(PixelsOf(r)) \subseteq B
    BY <1>6 DEF Reached
  <2>4. /\ BytesOf(P1) \subseteq BytesOf(PixelsOf(r)) /\ BytesOf(P2) \subseteq BytesOf(PixelsOf(r))
        /\ BytesOf(P3) \subseteq BytesOf(PixelsOf(r))
    BY <2>2, BytesWithin
  <2> QED
    BY <2>3, <2>4
<1>9. PutPixels(x, h - 1, y, c) \in Seq(S)
  <2>1. x - 1 <= h - 1 /\ h - 1 \in Int
    BY <1>4
  <2> QED
    BY <1>3, <1>6, <1>7, <1>8, <2>1, PutPixelsTouch
<1>10. PutPixels(t, x + w - 1, y, c) \in Seq(S)
  <2>1. t \in Nat /\ t - 1 <= x + w - 1 /\ x + w - 1 \in Int
    BY <1>4, <1>5
  <2> QED
    BY <1>3, <1>6, <1>7, <1>8, <2>1, PutPixelsTouch
<1>11. FullBytes(h \div BITS, FullCount(r), y, c) \in Seq(S)
  <2>1. CASE FullCount(r) = 0
    BY <2>1, EmptySeq DEF FullBytes
  <2>2. CASE FullCount(r) # 0
    <3>1. PICK n \in Nat \ {0} : n = FullCount(r)
      BY <2>2, RowParts
    <3>2. PICK f \in Nat : f = h \div BITS
      BY <1>4, RowParts
    <3>3. PICK st : st = y * ROW_BYTES + f
      OBVIOUS
    <3>4. PICK W : W = BytesOf(P2)
      OBVIOUS
    <3>5. /\ st \in Nat
          /\ \A d \in ScreenBytes : d \in st .. st + n - 1 /\ d < (y + 1) * ROW_BYTES => d \in W
          /\ st + n - 1 = y * ROW_BYTES + (TailStart(r) \div BITS) - 1
      BY <1>4, <1>5, <1>7, <2>2, <3>1, <3>2, <3>3, <3>4, WholeBytesOf
    <3>6. ASSUME NEW d \in ScreenBytes, d \in st .. st + n - 1 PROVE d \in B
      <4>1. PICK e \in Nat : e = (y + 1) * ROW_BYTES
        <5>1. y + 1 \in Nat /\ ROW_BYTES \in Nat
          BY <1>3, Sizes
        <5> QED
          BY <5>1, Sizes
      <4>2. CASE d < e
        BY <1>8, <3>4, <3>5, <3>6, <4>1, <4>2
      <4>3. CASE ~(d < e)
        <5>1. d \in e .. st + n - 1
          BY <3>5, <3>6, <4>3
        <5>2. d \in (y + 1) * ROW_BYTES .. y * ROW_BYTES + (TailStart(r) \div BITS) - 1
          BY <3>5, <4>1, <5>1
        <5>3. d \in Overrun(r)
          BY <5>2 DEF Overrun
        <5> QED
          BY <1>6, <5>3 DEF Reached
      <4> QED
        BY <4>2, <4>3
    <3>7. ASSUME NEW p \in Planes, NEW k \in 1 .. n PROVE Fill(st + k - 1, c, p) \in S
      <4>1. PICK d \in Nat : d = st + k - 1 /\ d \in st .. st + n - 1
        BY <3>5
      <4>2. Fill(d, c, p) \in S
        BY <1>6, <3>6, <4>1, TouchingHas
      <4> QED
        BY <4>1, <4>2
    <3>8. Select(Planes) \in S /\ \A p \in Planes : Select({p}) \in S
      BY <1>6, TouchingHas DEF Colors
    <3>9. FullBytes(f, n, y, c) \in Seq(S)
      BY <1>3, <3>3, <3>7, <3>8, FullBytesOver
    <3> QED
      BY <3>1, <3>2, <3>9
  <2> QED
    BY <2>1, <2>2
<1>12. PICK u, v, z : /\ u = PutPixels(x, h - 1, y, c) /\ v = FullBytes(h \div BITS, FullCount(r), y, c)
                      /\ z = PutPixels(t, x + w - 1, y, c)
  OBVIOUS
<1>13. u \o v \o z \in Seq(S)
  BY <1>9, <1>10, <1>11, <1>12, ConcatProperties
<1>14. FillRow(r, y) = u \o v \o z
  BY <1>1, <1>2, <1>4, <1>5, <1>12 DEF FillRow
<1> QED
  BY <1>6, <1>13, <1>14

(* VgaFillRect touches the bytes of its rectangle and those of its         *)
(* overrun: the whole bytes of a row that is too wide are not clipped in   *)
(* the frame buffer.                                                       *)
LEMMA FillRectTouches ==
  ASSUME NEW r \in Call, r.op = "fill"
  PROVE  FillRect(r) \in Seq(Touching(Reached(r)))
<1>1. PICK y \in Nat, h \in Nat : y = r.y /\ h = r.h
  BY CallFacts
<1>2. PICK S : S = Touching(Reached(r))
  OBVIOUS
<1>3. PICK seqs : seqs = [k \in 1 .. h |-> FillRow(r, y + k - 1)]
  OBVIOUS
<1>4. ASSUME NEW k \in 1 .. h PROVE seqs[k] \in Seq(S)
  <2>1. PICK d : d = y + k - 1 /\ d \in y .. y + h - 1
    OBVIOUS
  <2>2. FillRow(r, d) \in Seq(S)
    <3>1. CASE d \in Ys
      BY <1>1, <1>2, <2>1, <3>1, FillRowTouches
    <3>2. CASE d \notin Ys
      BY <3>2, EmptySeq DEF FillRow
    <3> QED
      BY <3>1, <3>2
  <2> QED
    BY <1>3, <2>1, <2>2
<1>5. seqs \in Seq(Seq(S))
  <2>1. seqs = [k \in 1 .. h |-> seqs[k]]
    BY <1>3
  <2>2. PICK T : T = Seq(S)
    OBVIOUS
  <2>3. \A k \in 1 .. h : seqs[k] \in T
    BY <1>4, <2>2
  <2> QED
    BY <2>1, <2>2, <2>3
<1>6. FlattenSeq(seqs) \in Seq(S)
  BY <1>5, FlattenTyped
<1>7. Stores(r) \in Seq(S)
  BY <1>2, StoresTouch DEF Reached
<1>8. Stores(r) \o FlattenSeq(seqs) \in Seq(S)
  BY <1>6, <1>7, ConcatProperties
<1>9. CASE r.w = 0 \/ r.h = 0
  BY <1>2, <1>9, EmptySeq DEF FillRect
<1>10. CASE ~(r.w = 0 \/ r.h = 0)
  BY <1>1, <1>2, <1>3, <1>8, <1>10 DEF FillRect
<1> QED
  BY <1>9, <1>10

(* The pixel of VgaPutPixel.                                               *)
LEMMA PutIs ==
  ASSUME NEW c \in Call, c.op = "put"
  PROVE  PixelsOf(c) = {<<c.x, c.y>>} \cap Pixels
<1>1. c.x \in Nat /\ c.y \in Nat /\ c.w = 1 /\ c.h = 1
  BY CallFacts
<1>2. ASSUME NEW q \in Pixels PROVE q \in PixelsOf(c) <=> q = <<c.x, c.y>>
  <2>1. q = <<q[1], q[2]>> /\ q \in Xs \X Ys
    BY DEF Pixels
  <2>2. c.x .. c.x + c.w - 1 = {c.x} /\ c.y .. c.y + c.h - 1 = {c.y}
    BY <1>1
  <2> QED
    BY <2>1, <2>2 DEF PixelsOf
<1>3. PixelsOf(c) \subseteq Pixels
  BY DEF PixelsOf, Pixels
<1> QED
  BY <1>2, <1>3

(* So a drawing call touches the bytes of its pixels and its overrun.      *)
LEMMA DrawTouches ==
  ASSUME NEW c \in Call, c.op # "move", c # Start
  PROVE  DrawAccesses[c] \in Seq(Touching(Reached(c)))
<1>1. c \in GuiCalls \cup UserCalls
  BY DEF Call
<1>2. CASE c.op = "put"
  <2>1. DrawAccesses[c] = PutPixel(c.x, c.y, c.c)
    BY <1>1, <1>2 DEF DrawAccesses
  <2>2. PICK x \in Nat, y \in Nat, k \in Colors : x = c.x /\ y = c.y /\ k = c.c
    BY CallFacts
  <2>3. ASSUME <<x, y>> \in Pixels PROVE ByteOf(x, y) \in Reached(c)
    <3>1. PICK q : q = <<x, y>>
      OBVIOUS
    <3>2. q \in PixelsOf(c)
      BY <1>2, <2>2, <2>3, <3>1, PutIs
    <3>3. ByteOf(q[1], q[2]) \in BytesOf(PixelsOf(c))
      BY <3>2 DEF BytesOf, ByteOf
    <3> QED
      BY <3>1, <3>3 DEF Reached
  <2>4. PutPixel(x, y, k) \in Seq(Touching(Reached(c)))
    BY <2>3, PutPixelTouches
  <2> QED
    BY <2>1, <2>2, <2>4
<1>3. CASE c.op # "put"
  <2>1. DrawAccesses[c] = FillRect(c) /\ c.op = "fill"
    BY <1>1, <1>3, CallFacts DEF DrawAccesses
  <2> QED
    BY <2>1, FillRectTouches
<1> QED
  BY <1>2, <1>3

(* VgaPutPixel or VgaFillRect, from any screen.                            *)
LEMMA CallShows ==
  ASSUME NEW c \in Call, c.op # "move", c # Start, NEW k, k = c.c
  PROVE  Leads(DrawAccesses[c], Claim({}, k, {}, Colors), Claim({}, k, Covers(PixelsOf(c)), Colors))
<1>1. c \in GuiCalls \cup UserCalls
  BY DEF Call
<1>2. CASE c.op = "put"
  <2>1. DrawAccesses[c] = PutPixel(c.x, c.y, k)
    BY <1>1, <1>2 DEF DrawAccesses
  <2>2. c.x \in Nat /\ c.y \in Nat /\ k \in Colors
    BY CallFacts
  <2>3. PixelsOf(c) = {<<c.x, c.y>>} \cap Pixels
    BY <1>2, PutIs
  <2>4. PICK x \in Nat, y \in Nat : x = c.x /\ y = c.y
    BY <2>2
  <2>5. PICK D : D = {}
    OBVIOUS
  <2>6. Leads(PutPixel(x, y, k), Claim({}, k, D, Colors), Claim({}, k, D \cup Covers({<<x, y>>} \cap Pixels), Colors))
    BY <2>2, PutPixelShows
  <2>7. D \cup Covers({<<x, y>>} \cap Pixels) = Covers(PixelsOf(c))
    BY <2>3, <2>4, <2>5
  <2> QED
    BY <2>1, <2>4, <2>5, <2>6, <2>7
<1>3. CASE c.op # "put"
  <2>1. DrawAccesses[c] = FillRect(c)
    BY <1>1, <1>3 DEF DrawAccesses
  <2> QED
    BY <2>1, FillRectShows
<1> QED
  BY <1>2, <1>3

-----------------------------------------------------------------------------
(* Accesses that leave what is right right, make the bytes of Z so, and    *)
(* store to no other byte.                                                 *)
Adds(u, Z) ==
  /\ u \in Seq(Touching(BytesOf(Z)))
  /\ \A D : Leads(u, Claim({}, {}, D, Colors), Claim({}, {}, D \cup Covers(Z), Colors))

(* No access adds nothing.                                                 *)
LEMMA AddsNothing == Adds(<<>>, {})
<1>1. <<>> \in Seq(Touching(BytesOf({})))
  BY EmptySeq
<1>2. ASSUME NEW D PROVE Leads(<<>>, Claim({}, {}, D, Colors), Claim({}, {}, D \cup Covers({}), Colors))
  <2>1. D \cup Covers({}) = D
    BY NoCovers
  <2> QED
    BY <2>1, LeadsNothing
<1> QED
  BY <1>1, <1>2 DEF Adds

(* Two parts of a move.                                                    *)
LEMMA AddsConcat ==
  ASSUME NEW u, NEW v, NEW w, Joined(w, u, v), NEW Y1, NEW Z, Adds(u, Y1), Adds(v, Z)
  PROVE  Adds(w, Y1 \cup Z)
<1>1. PICK B : B = BytesOf(Y1 \cup Z)
  OBVIOUS
<1>2. u \in Seq(Touching(B)) /\ v \in Seq(Touching(B))
  <2>1. u \in Seq(Touching(BytesOf(Y1))) /\ v \in Seq(Touching(BytesOf(Z)))
    BY DEF Adds
  <2>2. BytesOf(Y1) \subseteq B /\ BytesOf(Z) \subseteq B
    BY <1>1, BytesWithin
  <2> QED
    BY <2>1, <2>2, TouchingWider
<1>4. w \in Seq(Touching(B))
  BY <1>2, ConcatProperties DEF Joined
<1>3. ASSUME NEW D PROVE Leads(w, Claim({}, {}, D, Colors), Claim({}, {}, D \cup Covers(Y1 \cup Z), Colors))
  <2>1. PICK E : E = D \cup Covers(Y1)
    OBVIOUS
  <2>2. Leads(u, Claim({}, {}, D, Colors), Claim({}, {}, E, Colors))
    BY <2>1 DEF Adds
  <2>3. Leads(v, Claim({}, {}, E, Colors), Claim({}, {}, E \cup Covers(Z), Colors))
    BY DEF Adds
  <2>4. E \cup Covers(Z) = D \cup Covers(Y1 \cup Z)
    BY <2>1, CoversUnion
  <2>5. Leads(w, Claim({}, {}, D, Colors), Claim({}, {}, E \cup Covers(Z), Colors))
    BY <1>2, <2>2, <2>3, LeadsConcat
  <2> QED
    BY <2>4, <2>5
<1> QED
  BY <1>1, <1>3, <1>4 DEF Adds

(* Many parts of a move.                                                   *)
LEMMA AddsFlatten ==
  ASSUME NEW n \in Nat, NEW seqs, seqs = [k \in 1 .. n |-> seqs[k]], NEW Z,
         \A k \in 1 .. n : Adds(seqs[k], Z[k])
  PROVE  Adds(FlattenSeq(seqs), UNION {Z[k] : k \in 1 .. n})
<1>4. PICK B : B = BytesOf(UNION {Z[k] : k \in 1 .. n})
  OBVIOUS
<1>1. seqs \in Seq(Seq(Touching(B))) /\ n = Len(seqs)
  <2>1. PICK T : T = Seq(Touching(B))
    OBVIOUS
  <2>2. ASSUME NEW k \in 1 .. n PROVE seqs[k] \in T
    <3>1. PICK u : u = seqs[k]
      OBVIOUS
    <3>2. PICK C : C = BytesOf(Z[k])
      OBVIOUS
    <3>3. u \in Seq(Touching(C))
      BY <3>1, <3>2 DEF Adds
    <3>4. Z[k] \subseteq UNION {Z[j] : j \in 1 .. n}
      OBVIOUS
    <3>5. C \subseteq B
      BY <1>4, <3>2, <3>4, BytesWithin
    <3> QED
      BY <2>1, <3>1, <3>3, <3>5, TouchingWider
  <2> QED
    BY <2>1, <2>2
<1>2. FlattenSeq(seqs) \in Seq(Touching(B))
  BY <1>1, FlattenTyped
<1>3. ASSUME NEW D
      PROVE  Leads(FlattenSeq(seqs), Claim({}, {}, D, Colors),
                   Claim({}, {}, D \cup Covers(UNION {Z[k] : k \in 1 .. n}), Colors))
  <2>1. PICK R : R = [k \in 0 .. n |-> UNION {Z[j] : j \in 1 .. k}]
    OBVIOUS
  <2>2. PICK K : K = [k \in 0 .. n |-> Claim({}, {}, D \cup Covers(R[k]), Colors)]
    OBVIOUS
  <2>3. ASSUME NEW k \in 1 .. n PROVE Leads(seqs[k], K[k - 1], K[k])
    <3>1. PICK m : m = k - 1
      OBVIOUS
    <3>2. m \in 0 .. n /\ k \in 0 .. n /\ \A j \in 1 .. k : j = k \/ j \in 1 .. m
      BY <3>1
    <3>3. 1 .. m \subseteq 1 .. k /\ k \in 1 .. k
      BY <3>1
    <3>4. PICK A, G : A = R[m] /\ G = Z[k]
      OBVIOUS
    <3>5. R[k] = A \cup G
      <4>1. \A q : q \in R[k] <=> \E j \in 1 .. k : q \in Z[j]
        BY <2>1, <3>2
      <4>2. \A q : q \in A <=> \E j \in 1 .. m : q \in Z[j]
        BY <2>1, <3>2, <3>4
      <4>3. \A q : q \in R[k] <=> q \in A \/ q \in G
        BY <3>2, <3>3, <3>4, <4>1, <4>2
      <4> QED
        BY <4>3
    <3>6. PICK E : E = D \cup Covers(A)
      OBVIOUS
    <3>7. Leads(seqs[k], Claim({}, {}, E, Colors), Claim({}, {}, E \cup Covers(G), Colors))
      BY <3>4 DEF Adds
    <3>8. E \cup Covers(G) = D \cup Covers(R[k])
      BY <3>5, <3>6, CoversUnion
    <3>9. K[m] = Claim({}, {}, E, Colors) /\ K[k] = Claim({}, {}, E \cup Covers(G), Colors)
      BY <2>2, <3>2, <3>4, <3>6, <3>8
    <3> QED
      BY <3>1, <3>7, <3>9
  <2>4. Leads(FlattenSeq(seqs), K[0], K[n])
    BY <1>1, <2>3, LeadsFlatten
  <2>5. K[0] = Claim({}, {}, D, Colors)
    <3>1. 0 \in 0 .. n /\ UNION {Z[j] : j \in 1 .. 0} = {}
      OBVIOUS
    <3>2. D \cup Covers(R[0]) = D
      BY <2>1, <3>1, NoCovers
    <3> QED
      BY <2>2, <3>1, <3>2
  <2>6. K[n] = Claim({}, {}, D \cup Covers(UNION {Z[k] : k \in 1 .. n}), Colors)
    <3>1. n \in 0 .. n
      OBVIOUS
    <3> QED
      BY <2>1, <2>2, <3>1
  <2> QED
    BY <2>4, <2>5, <2>6
<1> QED
  BY <1>2, <1>3, <1>4 DEF Adds

(* VgaPutPixel adds the byte of its pixel.                                 *)
LEMMA PutPixelAdds ==
  ASSUME NEW x \in Nat, NEW y \in Nat, NEW k \in Colors
  PROVE  Adds(PutPixel(x, y, k), {<<x, y>>} \cap Pixels)
<1>1. PICK P, u : P = {<<x, y>>} \cap Pixels /\ u = PutPixel(x, y, k)
  OBVIOUS
<1>4. u \in Seq(Touching(BytesOf(P)))
  <2>1. ASSUME <<x, y>> \in Pixels PROVE ByteOf(x, y) \in BytesOf(P)
    <3>1. PICK q : q = <<x, y>> /\ q \in P
      BY <1>1, <2>1
    <3>2. ByteOf(q[1], q[2]) \in BytesOf(P)
      BY <3>1 DEF BytesOf, ByteOf
    <3> QED
      BY <3>1, <3>2
  <2> QED
    BY <1>1, <2>1, PutPixelTouches
<1>5. ASSUME NEW D PROVE Leads(u, Claim({}, {}, D, Colors), Claim({}, {}, D \cup Covers(P), Colors))
  BY <1>1, PutPixelShows
<1> QED
  BY <1>1, <1>4, <1>5 DEF Adds

-----------------------------------------------------------------------------
(* The three parts of a move.                                              *)
LEMMA CursorEraseAdds ==
  ASSUME NEW c \in Moves, BgTyped(g_cursor_bg)
  PROVE  Adds(CursorErase(c), PixelsOf(c))
<1>1. PICK n \in Nat : n = Len(Cells) /\ DOMAIN Cells = 1 .. n /\ \A k \in 1 .. n : Cells[k] \in CellSet
  BY CellsFacts
<1>2. PICK bg : bg = g_cursor_bg
  OBVIOUS
<1>3. PICK seqs : seqs = [k \in 1 .. n |-> PutPixel(X(c, Cells[k]), Y(c, Cells[k]), bg[Cells[k].row][Cells[k].col])]
  OBVIOUS
<1>4. PICK W : W = [k \in 1 .. n |-> {<<X(c, Cells[k]), Y(c, Cells[k])>>} \cap Pixels]
  OBVIOUS
<1>5. ASSUME NEW k \in 1 .. n PROVE Adds(seqs[k], W[k])
  <2>1. X(c, Cells[k]) \in Nat /\ Y(c, Cells[k]) \in Nat
    BY <1>1, CellIs
  <2>2. bg[Cells[k].row][Cells[k].col] \in Colors
    BY <1>1, <1>2 DEF BgTyped
  <2> QED
    BY <1>3, <1>4, <2>1, <2>2, PutPixelAdds
<1>6. seqs = [k \in 1 .. n |-> seqs[k]]
  BY <1>3
<1>7. Adds(FlattenSeq(seqs), UNION {W[k] : k \in 1 .. n})
  BY <1>5, <1>6, AddsFlatten
<1>8. CursorErase(c) = FlattenSeq(seqs)
  BY <1>1, <1>2, <1>3 DEF CursorErase
<1>9. ASSUME NEW k \in 1 .. n, NEW q \in W[k] PROVE q \in PixelsOf(c)
  BY <1>1, <1>4, <1>9, CellIs
<1>10. ASSUME NEW q \in PixelsOf(c) PROVE \E k \in 1 .. n : q \in W[k]
  <2>1. PICK k \in 1 .. n : Cells[k] = CellOf(c, q)
    BY <1>1, CellIs, CellsFacts DEF Has
  <2>2. q \in {<<X(c, Cells[k]), Y(c, Cells[k])>>} \cap Pixels
    BY <2>1, CellIs
  <2> QED
    BY <1>4, <2>2
<1>11. UNION {W[k] : k \in 1 .. n} = PixelsOf(c)
  BY <1>9, <1>10
<1> QED
  BY <1>7, <1>8, <1>11

(* The arrow adds the bytes of its pixels.                                 *)
LEMMA ArrowAdds ==
  ASSUME NEW c \in Moves
  PROVE  Adds(Arrow(c), ArrowAt(c))
<1>1. PICK n \in Nat : n = Len(Cells) /\ DOMAIN Cells = 1 .. n /\ \A k \in 1 .. n : Cells[k] \in CellSet
  BY CellsFacts
<1>3. PICK color : color = [k \in 1 .. n |-> IF CURSOR[Cells[k].row][Cells[k].col] = 1 THEN c.c ELSE Planes \ c.c]
  OBVIOUS
<1>4. \A k \in 1 .. n : color[k] \in Colors
  <2>1. c.c \in Colors
    BY CallFacts DEF Moves, Call
  <2> QED
    BY <1>3, <2>1 DEF Colors
<1>5. PICK seqs : seqs = [k \in 1 .. n |-> IF Opaque(Cells[k])
                            THEN PutPixel(X(c, Cells[k]), Y(c, Cells[k]), color[k]) ELSE <<>>]
  OBVIOUS
<1>2. PICK W : W = [k \in 1 .. n |-> IF Opaque(Cells[k]) THEN {<<X(c, Cells[k]), Y(c, Cells[k])>>} \cap Pixels ELSE {}]
  OBVIOUS
<1>6. ASSUME NEW k \in 1 .. n PROVE Adds(seqs[k], W[k])
  <2>1. CASE ~Opaque(Cells[k])
    BY <1>2, <1>5, <2>1, AddsNothing
  <2>2. CASE Opaque(Cells[k])
    <3>1. X(c, Cells[k]) \in Nat /\ Y(c, Cells[k]) \in Nat /\ color[k] \in Colors
      BY <1>1, <1>4, CellIs
    <3>2. Adds(PutPixel(X(c, Cells[k]), Y(c, Cells[k]), color[k]), {<<X(c, Cells[k]), Y(c, Cells[k])>>} \cap Pixels)
      BY <3>1, PutPixelAdds
    <3> QED
      BY <1>2, <1>5, <2>2, <3>2
  <2> QED
    BY <2>1, <2>2
<1>7. seqs = [k \in 1 .. n |-> seqs[k]]
  BY <1>5
<1>8. Arrow(c) = FlattenSeq(seqs)
  <2>1. seqs = [k \in 1 .. n |-> IF Opaque(Cells[k])
                  THEN PutPixel(X(c, Cells[k]), Y(c, Cells[k]),
                                IF CURSOR[Cells[k].row][Cells[k].col] = 1 THEN c.c ELSE Planes \ c.c)
                  ELSE <<>>]
    BY <1>3, <1>5
  <2> QED
    BY <1>1, <2>1 DEF Arrow
<1>9. Adds(FlattenSeq(seqs), UNION {W[k] : k \in 1 .. n})
  BY <1>6, <1>7, AddsFlatten
<1>10. ASSUME NEW k \in 1 .. n, NEW q \in W[k] PROVE q \in ArrowAt(c)
  <2>1. Opaque(Cells[k]) /\ q = <<X(c, Cells[k]), Y(c, Cells[k])>> /\ q \in Pixels
    BY <1>2, <1>10
  <2>2. q \in PixelsOf(c) /\ CellOf(c, q) = Cells[k]
    BY <1>1, <2>1, CellIs
  <2>3. Cells[k].row = q[2] - c.y + 1 /\ Cells[k].col = q[1] - c.x + 1
    BY <2>2 DEF CellOf
  <2> QED
    BY <2>1, <2>2, <2>3 DEF ArrowAt, Opaque
<1>11. ASSUME NEW q \in ArrowAt(c) PROVE \E k \in 1 .. n : q \in W[k]
  <2>3. q \in PixelsOf(c)
    BY DEF ArrowAt
  <2>1. PICK k \in 1 .. n : Cells[k] = CellOf(c, q)
    BY <1>1, <2>3, CellIs, CellsFacts DEF Has
  <2>2. q \in {<<X(c, Cells[k]), Y(c, Cells[k])>>} \cap Pixels
    BY <2>1, <2>3, CellIs
  <2>4. Cells[k].row = q[2] - c.y + 1 /\ Cells[k].col = q[1] - c.x + 1
    BY <2>1 DEF CellOf
  <2>5. Opaque(Cells[k])
    BY <2>4 DEF ArrowAt, Opaque
  <2> QED
    BY <1>2, <2>2, <2>5
<1>12. UNION {W[k] : k \in 1 .. n} = ArrowAt(c)
  BY <1>10, <1>11
<1> QED
  BY <1>8, <1>9, <1>12

(* Saving the pixels under the cursor leaves the screen as it is.          *)
LEMMA SaveAllAdds ==
  ASSUME NEW c \in Moves
  PROVE  Adds(SaveAll(c), {})
<1>1. PICK u : u = SaveAll(c)
  OBVIOUS
<1>2. u \in Seq(AllSaves)
  BY <1>1, SavesTyped, SaveAllFacts, SeqWider
<1>3. u \in Seq(Touching(BytesOf({})))
  <2>1. AllSaves \subseteq Touching(BytesOf({}))
    BY TouchingHas
  <2> QED
    BY <1>2, <2>1, SeqWider
<1>4. ASSUME NEW D PROVE Leads(u, Claim({}, {}, D, Colors), Claim({}, {}, D \cup Covers({}), Colors))
  <2>1. PICK n \in Nat : n = Len(u) /\ \A k \in 1 .. n : u[k] \in AllSaves
    BY <1>2
  <2>2. PICK L : L = Claim({}, {}, D, Colors)
    OBVIOUS
  <2>3. PICK K : K = [k \in 0 .. n |-> L]
    OBVIOUS
  <2>4. ASSUME NEW a \in AllSaves, NEW s, Fits(s, L) PROVE Fits(Effect(s, a), L)
    <3>1. PICK t : t = Effect(s, a)
      OBVIOUS
    <3>2. Typed(s) /\ s.mask \in Colors /\ \A b \in ScreenBytes, p \in Planes : <<b, p>> \in D => PlaneShows(s, b, p)
      BY <2>2, <2>4, FitsClaim
    <3>3. a \in Access /\ a.op = "save"
      BY AccessOps DEF Access
    <3>4. Typed(t) /\ IsEffect(t, s, a)
      BY <3>1, <3>2, <3>3, EffectTyped
    <3>5. t.shadow = s.shadow /\ t.vram = s.vram /\ t.mask = s.mask
      BY <3>3, <3>4 DEF IsEffect, ShadowAfter, VramAfter
    <3>6. \A b \in ScreenBytes, p \in Planes : PlaneShows(s, b, p) => PlaneShows(t, b, p)
      BY <3>5 DEF PlaneShows
    <3>7. Fits(t, Claim({}, {}, D, Colors))
      <4>1. /\ Typed(t) /\ t.mask \in Colors
            /\ \A q \in Pixels : q \in {} => At(t.shadow, q) = {}
            /\ \A b \in ScreenBytes, p \in Planes : <<b, p>> \in D => PlaneShows(t, b, p)
        BY <3>2, <3>4, <3>5, <3>6
      <4> QED
        BY <4>1, FitsClaim
    <3> QED
      BY <2>2, <3>1, <3>7
  <2>5. \A k \in 1 .. n : LeadsStep(u[k], K[k - 1], K[k])
    <3> SUFFICES ASSUME NEW k \in 1 .. n PROVE LeadsStep(u[k], K[k - 1], K[k])
      OBVIOUS
    <3>1. k - 1 \in 0 .. n /\ k \in 0 .. n
      OBVIOUS
    <3>2. K[k - 1] = L /\ K[k] = L
      BY <2>3, <3>1
    <3> QED
      BY <2>1, <2>4, <3>2 DEF LeadsStep
  <2>6. Leads(u, K[0], K[n])
    BY <1>2, <2>1, <2>5, LeadsEach
  <2>7. K[0] = L /\ K[n] = L
    BY <2>3
  <2>8. D \cup Covers({}) = D
    BY NoCovers
  <2> QED
    BY <2>2, <2>6, <2>7, <2>8
<1> QED
  BY <1>1, <1>3, <1>4 DEF Adds

(* CursorDraw saves and then draws the arrow: it adds the bytes of the     *)
(* arrow.                                                                  *)
LEMMA CursorDrawAdds ==
  ASSUME NEW c \in Moves
  PROVE  Adds(CursorDraw(c), ArrowAt(c))
<1>1. PICK u, v, w : u = SaveAll(c) /\ v = Arrow(c) /\ w = CursorDraw(c)
  OBVIOUS
<1>2. Joined(w, u, v)
  BY <1>1 DEF Joined, CursorDraw
<1>3. Adds(u, {}) /\ Adds(v, ArrowAt(c))
  BY <1>1, SaveAllAdds, ArrowAdds
<1>4. Adds(w, {} \cup ArrowAt(c))
  BY <1>2, <1>3, AddsConcat
<1>5. {} \cup ArrowAt(c) = ArrowAt(c)
  OBVIOUS
<1> QED
  BY <1>1, <1>4, <1>5

(* A move of the cursor draws the arrow, and what was under the old one.   *)
LEMMA MoveCursorAdds ==
  ASSUME NEW c \in Moves, prev \in Moves, BgTyped(g_cursor_bg)
  PROVE  Adds(MoveCursor(c), ArrowAt(c) \cup PixelsOf(prev))
<1>1. PICK u, v, w : u = CursorErase(prev) /\ v = CursorDraw(c) /\ w = MoveCursor(c)
  OBVIOUS
<1>2. Joined(w, u, v)
  BY <1>1 DEF Joined, MoveCursor
<1>3. Adds(u, PixelsOf(prev)) /\ Adds(v, ArrowAt(c))
  BY <1>1, CursorEraseAdds, CursorDrawAdds
<1>4. Adds(w, PixelsOf(prev) \cup ArrowAt(c))
  BY <1>2, <1>3, AddsConcat
<1>5. PixelsOf(prev) \cup ArrowAt(c) = ArrowAt(c) \cup PixelsOf(prev)
  OBVIOUS
<1> QED
  BY <1>1, <1>4, <1>5

-----------------------------------------------------------------------------
(* A byte shows the shadow when each of its planes does.                   *)
ByteShows(s, b) == \A i \in Bits : s.vram[b][i] = At(s.shadow, PixelAt(b, i))

(* Colours are equal when they have the same planes.                       *)
LEMMA ByteShowsIs ==
  ASSUME NEW s, Typed(s), NEW b \in ScreenBytes
  PROVE  ByteShows(s, b) <=> \A p \in Planes : PlaneShows(s, b, p)
<1>1. ASSUME NEW i \in Bits PROVE s.vram[b][i] \in Colors /\ At(s.shadow, PixelAt(b, i)) \in Colors
  <2>1. b \in 0 .. VRAM - 1
    BY ScreenAssumption
  <2>2. s.vram \in Frames /\ s.shadow \in Shadows
    BY DEF Typed
  <2>3. PixelAt(b, i) \in Pixels
    BY PixelAtScreen
  <2> QED
    BY <2>1, <2>2, <2>3, AtTyped DEF Frames
<1>2. ASSUME NEW i \in Bits
      PROVE  s.vram[b][i] = At(s.shadow, PixelAt(b, i))
               <=> \A p \in Planes : p \in s.vram[b][i] <=> p \in At(s.shadow, PixelAt(b, i))
  BY <1>1 DEF Colors
<1> QED
  BY <1>2 DEF ByteShows, PlaneShows

(* What a call covers shows the shadow when the call is over.              *)
LEMMA FitsShows ==
  ASSUME NEW s, NEW Q \in SUBSET Pixels, Fits(s, Claim({}, {}, Covers(Q), Colors)), NEW b \in BytesOf(Q)
  PROVE  b \in ScreenBytes /\ ByteShows(s, b)
<1>1. /\ Typed(s)
      /\ \A d \in ScreenBytes, p \in Planes : <<d, p>> \in Covers(Q) => PlaneShows(s, d, p)
  BY FitsClaim
<1>2. b \in ScreenBytes
  <2>1. PICK q \in Q : b = ByteOf(q[1], q[2])
    BY DEF BytesOf, ByteOf
  <2> QED
    BY <2>1, ByteOfScreen
<1>3. \A p \in Planes : PlaneShows(s, b, p)
  BY <1>1, <1>2 DEF Covers
<1> QED
  BY <1>1, <1>2, <1>3, ByteShowsIs

(* Of every screen nothing is known but its type.                          *)
LEMMA FitsTyped == ASSUME NEW s, Typed(s), NEW c PROVE Fits(s, Claim({}, c, {}, Colors))
<1>1. s.mask \in Colors
  BY DEF Typed
<1>2. /\ \A q \in Pixels : q \in {} => At(s.shadow, q) = c
      /\ \A b \in ScreenBytes, p \in Planes : <<b, p>> \in {} => PlaneShows(s, b, p)
  OBVIOUS
<1> QED
  BY <1>1, <1>2, FitsClaim

(* What a call leaves, from any screen.                                    *)
LEMMA DrawFits ==
  ASSUME NEW c \in Call, c.op # "move", c # Start, NEW s, Typed(s), NEW t, t = Run(s, DrawAccesses[c])
  PROVE  Fits(t, Claim({}, {}, Covers(PixelsOf(c)), Colors))
<1>1. PICK k : k = c.c
  OBVIOUS
<1>2. Fits(t, Claim({}, k, Covers(PixelsOf(c)), Colors))
  <2>1. Fits(s, Claim({}, k, {}, Colors))
    BY FitsTyped
  <2> QED
    BY <1>1, <2>1, CallShows DEF Leads
<1>3. /\ Typed(t) /\ t.mask \in Colors
      /\ \A b \in ScreenBytes, p \in Planes : <<b, p>> \in Covers(PixelsOf(c)) => PlaneShows(t, b, p)
  BY <1>2, FitsClaim
<1>4. \A q \in Pixels : q \in {} => At(t.shadow, q) = {}
  OBVIOUS
<1> QED
  BY <1>3, <1>4, FitsClaim

(* What a move adds shows the shadow, from whatever screen it began.       *)
LEMMA AddsFits ==
  ASSUME NEW u, NEW Z, Adds(u, Z), NEW s, Typed(s), NEW t, t = Run(s, u)
  PROVE  Fits(t, Claim({}, {}, Covers(Z), Colors))
<1>1. PICK D : D = {}
  OBVIOUS
<1>2. Leads(u, Claim({}, {}, D, Colors), Claim({}, {}, D \cup Covers(Z), Colors))
  BY DEF Adds
<1>3. Fits(s, Claim({}, {}, D, Colors))
  BY <1>1, FitsTyped
<1>4. D \cup Covers(Z) = Covers(Z)
  BY <1>1
<1>5. Fits(t, Claim({}, {}, D \cup Covers(Z), Colors))
  BY <1>2, <1>3 DEF Leads
<1> QED
  BY <1>4, <1>5

-----------------------------------------------------------------------------
(* While no system call has drawn since its call began, the accesses the   *)
(* GUI thread has left make every byte of the call right.                  *)
WillShow == Fits(Run(Screen(planeValue), todo), Claim({}, {}, Covers(Target), Colors))

DrawInv ==
  /\ IInv
  /\ Typed(Screen(planeValue))
  /\ todo # <<>> /\ ~disturbed => WillShow

(* The fields of the screen of a state.                                    *)
LEMMA ScreenIs ==
  ASSUME NEW value, NEW s, s = Screen(value)
  PROVE  /\ IsScreen(s) /\ s.shadow = g_shadow /\ s.vram = vram /\ s.mask = mask
         /\ s.value = value /\ s.bg = g_cursor_bg
BY DEF Screen, IsScreen

(* A call of the GUI thread draws to pixels of the screen.                 *)
LEMMA TargetPixels == ASSUME call \in {Start} \cup GuiCalls, prev \in Moves PROVE Target \subseteq Pixels
BY DEF Target, PixelsOf, ArrowAt, Pixels

(* The property Shows of Drawing, said of the screen of a state.           *)
LEMMA ShowsIs == ASSUME NEW b, NEW value PROVE Shows(b) <=> ByteShows(Screen(value), b)
<1>1. PICK s : s = Screen(value)
  OBVIOUS
<1>2. s.shadow = g_shadow /\ s.vram = vram
  BY <1>1, ScreenIs
<1>3. \A i \in Bits : At(g_shadow, PixelAt(b, i)) = g_shadow[b \div ROW_BYTES][(b % ROW_BYTES) * BITS + i]
  BY DEF At, PixelAt, ColumnOf
<1> QED
  BY <1>1, <1>2, <1>3 DEF Shows, ByteShows

(* The same of the next state.                                             *)
LEMMA NextShows ==
  ASSUME NEW b, NEW t, t.shadow = g_shadow', t.vram = vram', ByteShows(t, b)
  PROVE  Shows(b)'
<1>1. \A i \in Bits : At(g_shadow', PixelAt(b, i)) = g_shadow'[b \div ROW_BYTES][(b % ROW_BYTES) * BITS + i]
  BY DEF At, PixelAt, ColumnOf
<1> QED
  BY <1>1 DEF Shows, ByteShows

(* At the start the accesses of the first cursor are left.                 *)
LEMMA InitDraw == Init => DrawInv
<1> SUFFICES ASSUME Init PROVE DrawInv
  OBVIOUS
<1>1. IInv
  BY InitCursor
<1>2. PICK s : s = Screen(planeValue)
  OBVIOUS
<1>3. Typed(s) /\ \A b \in ScreenBytes, p \in Planes : PlaneShows(s, b, p)
  <2>1. IsScreen(s) /\ s.shadow = g_shadow /\ s.vram = vram /\ s.mask = Planes /\ s.value = {}
    BY <1>2, ScreenIs DEF Init
  <2>2. s.shadow \in Shadows /\ \A q \in Pixels : At(s.shadow, q) = {}
    BY <2>1, PixelIs DEF Init, Shadows, Colors, At
  <2>3. s.vram \in Frames /\ \A b \in ScreenBytes, i \in Bits : s.vram[b][i] = {}
    <3>1. ScreenBytes \subseteq 0 .. VRAM - 1
      BY ScreenAssumption
    <3> QED
      BY <2>1, <3>1 DEF Init, Frames, Colors
  <2>4. Typed(s)
    BY <2>1, <2>2, <2>3 DEF Typed, Colors
  <2>5. \A b \in ScreenBytes, p \in Planes : PlaneShows(s, b, p)
    BY <2>2, <2>3, PixelAtScreen DEF PlaneShows
  <2> QED
    BY <2>4, <2>5
<1>4. WillShow
  <2>1. PICK D : D = ScreenBytes \X Planes
    OBVIOUS
  <2>2. Fits(s, Claim({}, {}, D, Colors))
    <3>1. /\ s.mask \in Colors
          /\ \A q \in Pixels : q \in {} => At(s.shadow, q) = {}
          /\ \A b \in ScreenBytes, p \in Planes : <<b, p>> \in D => PlaneShows(s, b, p)
      BY <1>3 DEF Typed
    <3> QED
      BY <1>3, <3>1, FitsClaim
  <2>3. Start \in Moves
    BY ScreenAssumption DEF Moves
  <2>4. PICK u, t, Z : u = CursorDraw(Start) /\ t = Run(s, u) /\ Z = ArrowAt(Start)
    OBVIOUS
  <2>5. Leads(u, Claim({}, {}, D, Colors), Claim({}, {}, D \cup Covers(Z), Colors))
    BY <2>3, <2>4, CursorDrawAdds DEF Adds
  <2>6. Fits(t, Claim({}, {}, D \cup Covers(Z), Colors))
    BY <2>2, <2>4, <2>5 DEF Leads
  <2>7. PICK E : E = Covers(Target)
    OBVIOUS
  <2>8. /\ Typed(t) /\ t.mask \in Colors
        /\ \A b \in ScreenBytes, p \in Planes : <<b, p>> \in D \cup Covers(Z) => PlaneShows(t, b, p)
    BY <2>6, FitsClaim
  <2>9. \A b \in ScreenBytes, p \in Planes : <<b, p>> \in E => PlaneShows(t, b, p)
    BY <2>1, <2>8
  <2>10. \A q \in Pixels : q \in {} => At(t.shadow, q) = {}
    OBVIOUS
  <2>11. Fits(t, Claim({}, {}, E, Colors))
    BY <2>8, <2>9, <2>10, FitsClaim
  <2> QED
    BY <1>2, <2>4, <2>7, <2>11 DEF Init, WillShow
<1> QED
  BY <1>1, <1>2, <1>3, <1>4 DEF DrawInv

(* An access of the GUI thread takes the first of those that were left.    *)
LEMMA ScreenAfter ==
  ASSUME GuiAccess, IInv, Typed(Screen(planeValue)),
         NEW s, s = Screen(planeValue), NEW a, a = Head(todo)
  PROVE  /\ a \in Access /\ todo' = Tail(todo)
         /\ Screen(planeValue)' = Effect(s, a)
         /\ Typed(Screen(planeValue)')
<1>1. a \in Access /\ todo' = Tail(todo)
  BY AccessIs DEF IInv, GuiAccess
<1>2. PICK t : t = Effect(s, a)
  OBVIOUS
<1>3. Typed(t)
  BY <1>1, <1>2, EffectTyped
<1>4. g_shadow' = t.shadow /\ vram' = t.vram /\ mask' = t.mask /\ g_cursor_bg' = t.bg /\ planeValue' = t.value
  BY <1>2 DEF GuiAccess, ScreenBecomes
<1>5. PICK sh, v, m, x, bg : t = [shadow |-> sh, vram |-> v, mask |-> m, value |-> x, bg |-> bg]
  BY <1>3 DEF Typed, IsScreen
<1>6. Screen(planeValue)' = t
  BY <1>4, <1>5 DEF Screen
<1> QED
  BY <1>1, <1>2, <1>3, <1>6

(* A call that begins has all its accesses left: they make its bytes right *)
(* from whatever screen there is.                                          *)
LEMMA GuiCallDraws == DrawInv /\ GuiCall => DrawInv'
<1> SUFFICES ASSUME DrawInv, GuiCall PROVE DrawInv'
  OBVIOUS
<1>1. IInv'
  BY GuiCallKeeps DEF DrawInv
<1>2. /\ todo = <<>> /\ call' \in GuiCalls /\ todo' = Accesses(call')
      /\ UNCHANGED <<g_shadow, vram, mask, planeValue, g_cursor_bg, prev>>
  BY DEF GuiCall, screen
<1>3. PICK s : s = Screen(planeValue)
  OBVIOUS
<1>4. Typed(s)
  BY <1>3 DEF DrawInv
<1>5. Screen(planeValue)' = s
  BY <1>2, <1>3 DEF Screen
<1>6. prev \in Moves /\ BgTyped(g_cursor_bg)
  BY DEF DrawInv, IInv, TypeInv
<1>7. PICK c : c = call'
  OBVIOUS
<1>8. PICK u, t, Z : u = Accesses(c) /\ t = Run(s, u) /\ Z = Target'
  OBVIOUS
<1>9. Fits(t, Claim({}, {}, Covers(Z), Colors))
  <2>1. CASE c.op = "move"
    <3>1. c \in Moves
      BY <1>2, <1>7, <2>1 DEF Moves
    <3>2. u = MoveCursor(c)
      BY <1>8, <2>1 DEF Accesses
    <3>3. Z = ArrowAt(c) \cup PixelsOf(prev)
      BY <1>2, <1>7, <1>8, <2>1 DEF Target
    <3>4. Adds(u, Z)
      BY <1>6, <3>1, <3>2, <3>3, MoveCursorAdds
    <3> QED
      BY <1>4, <1>8, <3>4, AddsFits
  <2>2. CASE c.op # "move"
    <3>1. c \in Call /\ c # Start
      BY <1>2, <1>7, <2>2, ScreenAssumption DEF Call
    <3>2. t = Run(s, DrawAccesses[c])
      BY <1>8, <2>2 DEF Accesses
    <3>3. Z = PixelsOf(c)
      BY <1>7, <1>8, <2>2 DEF Target
    <3>4. Fits(t, Claim({}, {}, Covers(PixelsOf(c)), Colors))
      BY <1>4, <2>2, <3>1, <3>2, DrawFits
    <3> QED
      BY <3>3, <3>4
  <2> QED
    BY <2>1, <2>2
<1>10. todo' = u
  BY <1>2, <1>7, <1>8
<1>11. WillShow'
  <2>1. Run(Screen(planeValue)', todo') = t
    BY <1>5, <1>8, <1>10
  <2> QED
    BY <1>8, <1>9, <2>1 DEF WillShow
<1> QED
  BY <1>1, <1>4, <1>5, <1>11 DEF DrawInv

(* What the rest of the call leads to is the same after one access of it.  *)
LEMMA AccessDraws ==
  ASSUME DrawInv, GuiAccess, ~disturbed
  PROVE  Fits(Run(Screen(planeValue)', todo'), Claim({}, {}, Covers(Target), Colors))
<1>1. PICK s, a, u, t : s = Screen(planeValue) /\ a = Head(todo) /\ u = todo /\ t = Effect(s, a)
  OBVIOUS
<1>2. u \in Seq(Access) /\ u # <<>>
  BY <1>1 DEF DrawInv, IInv, TypeInv, GuiAccess
<1>3. todo' = Tail(u) /\ Screen(planeValue)' = t
  BY <1>1, ScreenAfter DEF DrawInv
<1>4. Run(s, u) = Run(t, Tail(u))
  BY <1>1, <1>2, RunHead
<1>5. PICK L : L = Claim({}, {}, Covers(Target), Colors)
  OBVIOUS
<1>6. Fits(Run(s, u), L)
  BY <1>1, <1>2, <1>5 DEF DrawInv, WillShow
<1>7. Fits(Run(t, Tail(u)), L)
  BY <1>4, <1>6
<1> QED
  BY <1>3, <1>5, <1>7

(* An access of the GUI thread keeps the invariant.                        *)
LEMMA GuiAccessDraws == DrawInv /\ GuiAccess => DrawInv'
<1> SUFFICES ASSUME DrawInv, GuiAccess PROVE DrawInv'
  OBVIOUS
<1>1. IInv'
  BY GuiAccessKeeps DEF DrawInv
<1>2. Typed(Screen(planeValue)')
  BY ScreenAfter DEF DrawInv
<1>3. ASSUME todo' # <<>>, ~disturbed' PROVE WillShow'
  <2>1. call' = call /\ prev' = prev /\ disturbed' = disturbed
    BY <1>3 DEF GuiAccess
  <2>2. Target' = Target
    BY <2>1 DEF Target
  <2>3. ~disturbed
    BY <1>3, <2>1
  <2>4. Fits(Run(Screen(planeValue)', todo'), Claim({}, {}, Covers(Target), Colors))
    BY <2>3, AccessDraws
  <2> QED
    BY <2>2, <2>4 DEF WillShow
<1> QED
  BY <1>1, <1>2, <1>3 DEF DrawInv

(* A system call draws at once.                                            *)
LEMMA SystemScreen ==
  ASSUME DrawInv, NEW c \in UserCalls, SystemCall(c),
         NEW s, s = Screen({}), NEW t, t = Run(s, DrawAccesses[c])
  PROVE  /\ c \in Call /\ c.op # "move" /\ c # Start
         /\ Typed(s) /\ Fits(t, Claim({}, {}, Covers(PixelsOf(c)), Colors))
         /\ Typed(Screen(planeValue)')
         /\ \A b : ByteShows(Screen(planeValue)', b) <=> ByteShows(t, b)
<1>1. c \in Call /\ c.op # "move" /\ c # Start
  BY ScreenAssumption DEF Call
<1>2. PICK v : v = Screen(planeValue)
  OBVIOUS
<1>3. Typed(v)
  BY <1>2 DEF DrawInv
<1>4. g_shadow \in Shadows /\ vram \in Frames /\ mask \in Colors /\ planeValue \in SUBSET Bits
  BY <1>2, <1>3, ScreenIs DEF Typed
<1>5. Typed(s)
  BY <1>4, ScreenIs DEF Typed
<1>6. Fits(t, Claim({}, {}, Covers(PixelsOf(c)), Colors))
  BY <1>1, <1>5, DrawFits
<1>7. Typed(t)
  BY <1>6, FitsClaim
<1>8. g_shadow' = t.shadow /\ vram' = t.vram /\ mask' = t.mask /\ planeValue' = planeValue
  BY DEF SystemCall, ScreenBecomes
<1>9. PICK w : w = Screen(planeValue)'
  OBVIOUS
<1>10. IsScreen(w) /\ w.shadow = t.shadow /\ w.vram = t.vram /\ w.mask = t.mask /\ w.value = planeValue
  BY <1>8, <1>9 DEF Screen, IsScreen
<1>11. Typed(w)
  BY <1>4, <1>7, <1>10 DEF Typed
<1>12. \A b : ByteShows(w, b) <=> ByteShows(t, b)
  BY <1>10 DEF ByteShows
<1> QED
  BY <1>1, <1>5, <1>6, <1>9, <1>11, <1>12

(* A system call that draws marks the call it preempts as disturbed, and   *)
(* of that the invariant says no more.                                     *)
LEMMA SystemCallDraws == ASSUME NEW c \in UserCalls PROVE DrawInv /\ SystemCall(c) => DrawInv'
<1> SUFFICES ASSUME DrawInv, SystemCall(c) PROVE DrawInv'
  OBVIOUS
<1>1. IInv'
  BY SystemCallKeeps DEF DrawInv
<1>2. Typed(Screen(planeValue)')
  BY SystemScreen
<1>3. disturbed' = TRUE
  BY DEF SystemCall
<1> QED
  BY <1>1, <1>2, <1>3 DEF DrawInv

(* Nothing is left to say when nothing changes.                            *)
LEMMA StutterDraws == DrawInv /\ UNCHANGED vars => DrawInv'
<1> SUFFICES ASSUME DrawInv, UNCHANGED vars PROVE DrawInv'
  OBVIOUS
<1>1. UNCHANGED <<g_shadow, vram, mask, planeValue, g_cursor_bg, call, todo, prev, disturbed, picture, spoiled>>
  BY DEF vars, screen
<1>2. Screen(planeValue)' = Screen(planeValue)
  BY <1>1 DEF Screen
<1>3. Target' = Target
  BY <1>1 DEF Target
<1>4. IInv'
  BY <1>1 DEF DrawInv, IInv, TypeInv, CursorInv, Moving
<1>5. WillShow' = WillShow
  BY <1>1, <1>2, <1>3 DEF WillShow
<1> QED
  BY <1>1, <1>2, <1>4, <1>5 DEF DrawInv

(* So the invariant holds always.                                          *)
LEMMA DrawInvariant == Spec => []DrawInv
<1>1. DrawInv /\ [Next]_vars => DrawInv'
  BY GuiCallDraws, GuiAccessDraws, SystemCallDraws, StutterDraws DEF Next
<1> QED
  BY <1>1, InitDraw, PTL DEF Spec

(* After the last access of a call nobody disturbed, its bytes show the    *)
(* shadow.                                                                 *)
LEMMA AccessShows ==
  ASSUME DrawInv, GuiAccess, todo' = <<>>, ~disturbed, NEW b \in BytesOf(Target)
  PROVE  Shows(b)'
<1>1. PICK t : t = Screen(planeValue)'
  OBVIOUS
<1>2. Fits(Run(t, <<>>), Claim({}, {}, Covers(Target), Colors))
  BY <1>1, AccessDraws
<1>3. PICK Q : Q = Target
  OBVIOUS
<1>4. Fits(t, Claim({}, {}, Covers(Q), Colors))
  BY <1>2, <1>3, RunNothing
<1>5. Q \subseteq Pixels
  BY <1>3, TargetPixels DEF DrawInv, IInv, TypeInv
<1>6. ByteShows(t, b)
  BY <1>3, <1>4, <1>5, FitsShows
<1>7. t.shadow = g_shadow' /\ t.vram = vram'
  BY <1>1 DEF Screen
<1> QED
  BY <1>6, <1>7, NextShows

(* The bytes of a system call show the shadow when it returns.             *)
LEMMA SystemCallShows ==
  ASSUME DrawInv, NEW c \in UserCalls, SystemCall(c), NEW b \in BytesOf(PixelsOf(c))
  PROVE  Shows(b)'
<1>1. PICK s, t, Q : s = Screen({}) /\ t = Run(s, DrawAccesses[c]) /\ Q = PixelsOf(c)
  OBVIOUS
<1>2. Fits(t, Claim({}, {}, Covers(Q), Colors))
  BY <1>1, SystemScreen
<1>3. Q \subseteq Pixels
  BY <1>1 DEF PixelsOf, Pixels
<1>4. ByteShows(t, b)
  BY <1>1, <1>2, <1>3, FitsShows
<1>5. t.shadow = g_shadow' /\ t.vram = vram'
  BY <1>1 DEF SystemCall, ScreenBecomes
<1> QED
  BY <1>4, <1>5, NextShows

(* Every call draws right: when the GUI thread makes the last access of a  *)
(* call during which no system call drew, every byte of the call shows in  *)
(* the frame buffer what g_shadow holds, in all planes; and so does every  *)
(* byte of a drawing system call when it returns, whatever it preempted.   *)
(* VgaPutPixel and VgaFillRect of vga_screen.c, CursorErase and CursorDraw *)
(* of vga_cursor.c, for every map mask and every damage they start from.   *)
THEOREM CallsDrawRightAlways == Spec => CallsDrawRight
<1> DEFINE Step == /\ todo # <<>> /\ todo' = <<>> /\ ~disturbed => \A b \in BytesOf(Target) : Shows(b)'
                   /\ \A c \in UserCalls : SystemCall(c) => \A b \in BytesOf(PixelsOf(c)) : Shows(b)'
<1>1. DrawInv /\ [Next]_vars => [Step]_vars
  <2> SUFFICES ASSUME DrawInv, Next PROVE Step
    OBVIOUS
  <2>1. ASSUME todo # <<>>, todo' = <<>>, ~disturbed PROVE \A b \in BytesOf(Target) : Shows(b)'
    <3>1. GuiAccess
      BY <2>1 DEF Next, GuiCall, SystemCall
    <3> QED
      BY <2>1, <3>1, AccessShows
  <2> QED
    BY <2>1, SystemCallShows
<1> QED
  BY <1>1, DrawInvariant, PTL DEF Spec, CallsDrawRight

-----------------------------------------------------------------------------
(* A byte that an access does not touch goes on showing the shadow.        *)
LEMMA EffectUntouched ==
  ASSUME NEW s, Typed(s), NEW B, NEW a \in Touching(B), NEW t, t = Effect(s, a),
         NEW b \in ScreenBytes, b \notin B, ByteShows(s, b)
  PROVE  Typed(t) /\ ByteShows(t, b)
<1>1. a \in Access
  BY DEF Touching
<1>2. Typed(t) /\ t.shadow = ShadowAfter(s.shadow, a) /\ t.vram = VramAfter(s, a)
  BY <1>1, EffectTyped DEF IsEffect
<1>3. ASSUME NEW i \in Bits PROVE At(t.shadow, PixelAt(b, i)) = At(s.shadow, PixelAt(b, i))
  <2>1. PixelAt(b, i) \in Pixels /\ ByteOf(ColumnOf(b, i), b \div ROW_BYTES) = b
    BY PixelAtScreen
  <2>2. ASSUME a.op = "store" PROVE PixelOf(a) # PixelAt(b, i)
    <3>1. ByteOf(a.x, a.y) \in B
      BY <2>2 DEF Touching
    <3>2. PixelOf(a) = PixelAt(b, i) => a.x = ColumnOf(b, i) /\ a.y = b \div ROW_BYTES
      BY DEF PixelOf, PixelAt
    <3> QED
      BY <2>1, <3>1, <3>2
  <2>3. s.shadow \in Shadows
    BY DEF Typed
  <2>4. At(ShadowAfter(s.shadow, a), PixelAt(b, i)) =
          IF a.op = "store" /\ PixelOf(a) = PixelAt(b, i) THEN a.c ELSE At(s.shadow, PixelAt(b, i))
    BY <1>1, <2>1, <2>3, ShadowStep
  <2> QED
    BY <1>2, <2>2, <2>4
<1>4. t.vram[b] = s.vram[b]
  <2>1. b \in 0 .. VRAM - 1
    BY ScreenAssumption
  <2>2. PICK v \in Frames, m \in Colors : v = s.vram /\ m = s.mask
    BY DEF Typed
  <2>3. ASSUME NEW value, a.op \in {"write", "fill"} PROVE Written(v, a.byte, m, value)[b] = v[b]
    <3>1. a.byte # b
      BY <2>3 DEF Touching
    <3>2. PICK w : w = Written(v, a.byte, m, value)
      OBVIOUS
    <3>3. PICK d : d = a.byte
      OBVIOUS
    <3>4. IsWritten(w, v, d, m, value)
      BY <3>2, <3>3 DEF IsWritten
    <3>5. Reaches(w, v, d, m, value)
      BY <3>4, WrittenAt
    <3> QED
      BY <2>1, <3>1, <3>2, <3>3, <3>5 DEF Reaches
  <2>4. VramAfter(s, a)[b] = v[b]
    <3>1. CASE a.op = "write"
      BY <2>2, <2>3, <3>1 DEF VramAfter
    <3>2. CASE a.op = "fill"
      BY <2>2, <2>3, <3>2 DEF VramAfter
    <3>3. CASE a.op \notin {"write", "fill"}
      BY <2>2, <3>3 DEF VramAfter
    <3> QED
      BY <3>1, <3>2, <3>3
  <2> QED
    BY <1>2, <2>2, <2>4
<1> QED
  BY <1>2, <1>3, <1>4 DEF ByteShows

(* The same of the accesses of a whole call.                               *)
LEMMA RunUntouched ==
  ASSUME NEW s, Typed(s), NEW B, NEW u \in Seq(Touching(B)), NEW t, t = Run(s, u),
         NEW b \in ScreenBytes, b \notin B, ByteShows(s, b)
  PROVE  ByteShows(t, b)
<1>1. PICK n \in Nat : n = Len(u)
  OBVIOUS
<1>2. PICK f : States(f, s, u, n)
  BY <1>1, StatesExist
<1>3. f[0] = s /\ Run(s, u) = f[n] /\ \A k \in 1 .. n : f[k] = Effect(f[k - 1], u[k])
  BY <1>2 DEF States
<1> DEFINE A == {k \in Nat : k <= n => Typed(f[k]) /\ ByteShows(f[k], b)}
<1>4. 0 \in A
  BY <1>3
<1>5. ASSUME NEW k \in Nat, k \in A PROVE k + 1 \in A
  <2> SUFFICES ASSUME k + 1 <= n PROVE Typed(f[k + 1]) /\ ByteShows(f[k + 1], b)
    OBVIOUS
  <2>1. PICK i : i = k + 1
    OBVIOUS
  <2>2. i \in 1 .. n /\ i - 1 = k /\ k <= n
    BY <2>1
  <2>3. PICK v, w : v = f[k] /\ w = f[i]
    OBVIOUS
  <2>4. w = Effect(v, u[i]) /\ Typed(v) /\ ByteShows(v, b) /\ u[i] \in Touching(B)
    BY <1>1, <1>3, <1>5, <2>2, <2>3
  <2>5. Typed(w) /\ ByteShows(w, b)
    BY <2>4, EffectUntouched
  <2> QED
    BY <2>1, <2>3, <2>5
<1> HIDE DEF A
<1>6. Nat \subseteq A
  BY <1>4, <1>5, SetInduction
<1> QED
  BY <1>3, <1>6 DEF A

-----------------------------------------------------------------------------
(* The accesses the GUI thread has left touch only bytes of its call.      *)
Within == BytesOf(Target) \cup Overrun(call)
TouchInv == DrawInv /\ todo \in Seq(Touching(Within))

(* So do those of the first cursor.                                        *)
LEMMA InitTouch == Init => TouchInv
<1> SUFFICES ASSUME Init PROVE TouchInv
  OBVIOUS
<1>1. Start \in Moves
  BY ScreenAssumption DEF Moves
<1>2. PICK u, B : u = CursorDraw(Start) /\ B = BytesOf(ArrowAt(Start))
  OBVIOUS
<1>3. u \in Seq(Touching(B))
  BY <1>1, <1>2, CursorDrawAdds DEF Adds
<1>4. ArrowAt(Start) \subseteq Target
  BY <1>1 DEF Init, Target, Moves
<1>5. PICK C : C = Within
  OBVIOUS
<1>6. B \subseteq C
  BY <1>2, <1>4, <1>5, BytesWithin DEF Within
<1>7. u \in Seq(Touching(C))
  BY <1>3, <1>6, TouchingWider
<1> QED
  BY <1>2, <1>5, <1>7, InitDraw DEF TouchInv, Init

(* And those of a call that begins.                                        *)
LEMMA GuiCallTouches ==
  ASSUME TouchInv, GuiCall
  PROVE  todo' \in Seq(Touching(Within'))
<1>1. call' \in GuiCalls /\ todo' = Accesses(call') /\ prev' = prev
  BY DEF GuiCall
<1>2. prev \in Moves /\ BgTyped(g_cursor_bg)
  BY DEF TouchInv, DrawInv, IInv, TypeInv
<1>3. PICK c, u, B : c = call' /\ u = Accesses(c) /\ B = Within'
  OBVIOUS
<1>4. CASE c.op = "move"
  <2>1. c \in Moves
    BY <1>1, <1>3, <1>4 DEF Moves
  <2>2. PICK Z : Z = ArrowAt(c) \cup PixelsOf(prev)
    OBVIOUS
  <2>3. u = MoveCursor(c)
    BY <1>3, <1>4 DEF Accesses
  <2>4. Adds(u, Z)
    BY <1>2, <2>1, <2>2, <2>3, MoveCursorAdds
  <2>5. PICK C : C = BytesOf(Z)
    OBVIOUS
  <2>6. u \in Seq(Touching(C))
    BY <2>4, <2>5 DEF Adds
  <2>7. Target' = Z
    BY <1>1, <1>3, <1>4, <2>2 DEF Target
  <2>8. C \subseteq B
    BY <1>3, <2>5, <2>7 DEF Within
  <2>9. u \in Seq(Touching(B))
    BY <2>6, <2>8, TouchingWider
  <2> QED
    BY <1>1, <1>3, <2>9
<1>5. CASE c.op # "move"
  <2>1. c \in Call /\ c # Start
    BY <1>1, <1>3, <1>5, ScreenAssumption DEF Call
  <2>2. u = DrawAccesses[c]
    BY <1>3, <1>5 DEF Accesses
  <2>3. u \in Seq(Touching(Reached(c)))
    BY <1>5, <2>1, <2>2, DrawTouches
  <2>4. Target' = PixelsOf(c)
    BY <1>3, <1>5 DEF Target
  <2>5. B = Reached(c)
    BY <1>3, <2>4 DEF Within, Reached
  <2> QED
    BY <1>1, <1>3, <2>3, <2>5
<1> QED
  BY <1>4, <1>5

(* An access of the GUI thread is one of those, and those after it are.    *)
LEMMA GuiAccessTouches ==
  ASSUME TouchInv, GuiAccess
  PROVE  /\ Head(todo) \in Touching(Within) /\ todo' # todo
         /\ todo' \in Seq(Touching(Within'))
<1>1. PICK B, u, v : B = Within /\ u = todo /\ v = todo'
  OBVIOUS
<1>2. u \in Seq(Touching(B)) /\ u # <<>> /\ v = Tail(u)
  BY <1>1 DEF TouchInv, GuiAccess
<1>3. Head(u) \in Touching(B) /\ v \in Seq(Touching(B))
  BY <1>2, HeadTailProperties
<1>4. v # u
  <2>1. PICK S : S = Touching(B)
    OBVIOUS
  <2>2. u \in Seq(S) /\ u # <<>>
    BY <1>2, <2>1
  <2>3. Len(v) = Len(u) - 1 /\ Len(u) \in Nat
    BY <1>2, <2>2, HeadTailProperties
  <2> QED
    BY <2>3
<1>5. v \in Seq(Touching(Within'))
  <2>1. CASE v = <<>>
    BY <2>1, EmptySeq
  <2>2. CASE v # <<>>
    <3>1. call' = call /\ prev' = prev
      BY <1>1, <2>2 DEF GuiAccess
    <3>2. Within' = B
      BY <1>1, <3>1 DEF Within, Target
    <3> QED
      BY <1>3, <3>2
  <2> QED
    BY <2>1, <2>2
<1> QED
  BY <1>1, <1>3, <1>4, <1>5

(* So the invariant holds always.                                          *)
LEMMA TouchInvariant == Spec => []TouchInv
<1>1. TouchInv /\ [Next]_vars => TouchInv'
  <2> SUFFICES ASSUME TouchInv, [Next]_vars PROVE TouchInv'
    OBVIOUS
  <2>1. DrawInv
    BY DEF TouchInv
  <2>2. CASE GuiCall
    BY <2>1, <2>2, GuiCallDraws, GuiCallTouches DEF TouchInv
  <2>3. CASE GuiAccess
    BY <2>1, <2>3, GuiAccessDraws, GuiAccessTouches DEF TouchInv
  <2>4. ASSUME NEW c \in UserCalls, SystemCall(c) PROVE TouchInv'
    <3>1. UNCHANGED <<call, todo, prev>>
      BY <2>4 DEF SystemCall
    <3>2. Within' = Within
      BY <3>1 DEF Within, Target
    <3>3. DrawInv'
      BY <2>1, <2>4, SystemCallDraws
    <3> QED
      BY <3>1, <3>2, <3>3 DEF TouchInv
  <2>5. CASE UNCHANGED vars
    <3>1. UNCHANGED <<call, todo, prev>>
      BY <2>5 DEF vars
    <3>2. Within' = Within
      BY <3>1 DEF Within, Target
    <3>3. DrawInv'
      BY <2>1, <2>5, StutterDraws
    <3> QED
      BY <3>1, <3>2, <3>3 DEF TouchInv
  <2> QED
    BY <2>2, <2>3, <2>4, <2>5 DEF Next
<1> QED
  BY <1>1, InitTouch, PTL DEF Spec

-----------------------------------------------------------------------------
(* An access of the GUI thread damages no byte beyond those of its call.   *)
LEMMA AccessDamage ==
  ASSUME TouchInv, GuiAccess, NEW b \in ScreenBytes, b \notin Within, Shows(b)
  PROVE  Shows(b)'
<1>1. PICK s, a, t : s = Screen(planeValue) /\ a = Head(todo) /\ t = Effect(s, a)
  OBVIOUS
<1>2. Typed(s) /\ IInv
  BY <1>1 DEF TouchInv, DrawInv
<1>3. Screen(planeValue)' = t
  BY <1>1, <1>2, ScreenAfter
<1>4. ByteShows(s, b)
  BY <1>1, ShowsIs
<1>5. a \in Touching(Within)
  BY <1>1, GuiAccessTouches
<1>6. ByteShows(t, b)
  BY <1>1, <1>2, <1>4, <1>5, EffectUntouched
<1>7. t.shadow = g_shadow' /\ t.vram = vram'
  BY <1>3 DEF Screen
<1> QED
  BY <1>6, <1>7, NextShows

(* A system call damages no byte but those of its overrun: the bytes it    *)
(* draws show the shadow again when it returns.                            *)
LEMMA SystemCallDamage ==
  ASSUME TouchInv, NEW c \in UserCalls, SystemCall(c),
         NEW b \in ScreenBytes, b \notin Overrun(c), Shows(b)
  PROVE  Shows(b)'
<1>1. DrawInv
  BY DEF TouchInv
<1>2. CASE b \in BytesOf(PixelsOf(c))
  BY <1>1, <1>2, SystemCallShows
<1>3. CASE b \notin BytesOf(PixelsOf(c))
  <2>1. PICK s, u, t : s = Screen({}) /\ u = DrawAccesses[c] /\ t = Run(s, u)
    OBVIOUS
  <2>2. c \in Call /\ c.op # "move" /\ c # Start /\ Typed(s)
    BY <1>1, <2>1, SystemScreen
  <2>3. u \in Seq(Touching(Reached(c)))
    BY <2>1, <2>2, DrawTouches
  <2>4. b \notin Reached(c)
    BY <1>3 DEF Reached
  <2>5. ByteShows(s, b)
    BY <2>1, ShowsIs
  <2>6. ByteShows(t, b)
    BY <2>1, <2>2, <2>3, <2>4, <2>5, RunUntouched
  <2>7. t.shadow = g_shadow' /\ t.vram = vram'
    BY <2>1 DEF SystemCall, ScreenBecomes
  <2> QED
    BY <2>6, <2>7, NextShows
<1> QED
  BY <1>2, <1>3

(* Damage is confined: a byte that shows the shadow goes on showing it,    *)
(* but for the bytes of the call the GUI thread is in and the bytes a      *)
(* VgaFillRect writes beyond the right border without storing them to      *)
(* g_shadow. VgaPutPixel and VgaFillRect of vga_screen.c, CursorErase and  *)
(* CursorDraw of vga_cursor.c, at every access and in every system call    *)
(* that preempts them.                                                     *)
THEOREM DamageConfinedAlways == Spec => DamageConfined
<1> DEFINE Step == \A b \in ScreenBytes : Shows(b) /\ ~Shows(b)' =>
                     \/ todo' # todo /\ b \in BytesOf(Target) \cup Overrun(call)
                     \/ \E c \in UserCalls : SystemCall(c) /\ b \in Overrun(c)
<1>1. TouchInv /\ [Next]_vars => [Step]_vars
  <2> SUFFICES ASSUME TouchInv, Next, NEW b \in ScreenBytes, Shows(b), ~Shows(b)'
               PROVE  \/ todo' # todo /\ b \in BytesOf(Target) \cup Overrun(call)
                      \/ \E c \in UserCalls : SystemCall(c) /\ b \in Overrun(c)
    OBVIOUS
  <2>1. ~GuiCall
    <3>1. GuiCall => UNCHANGED <<g_shadow, vram>>
      BY DEF GuiCall, screen
    <3>2. UNCHANGED <<g_shadow, vram>> => Shows(b)' = Shows(b)
      BY DEF Shows
    <3> QED
      BY <3>1, <3>2
  <2>2. CASE GuiAccess
    BY <2>2, AccessDamage, GuiAccessTouches DEF Within
  <2>3. ASSUME NEW c \in UserCalls, SystemCall(c) PROVE b \in Overrun(c)
    BY <2>3, SystemCallDamage
  <2> QED
    BY <2>1, <2>2, <2>3 DEF Next
<1> QED
  BY <1>1, TouchInvariant, PTL DEF Spec, DamageConfined
=============================================================================
