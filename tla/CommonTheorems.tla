--------------------------- MODULE CommonTheorems ---------------------------
(***************************************************************************)
(* Lemmas the proofs of several modules share.  First induction: the       *)
(* principles of the library speak of predicates, which no prover here can *)
(* instantiate, so they are stated for sets; a predicate P is used as the  *)
(* set {n \in Nat : P(n)}.  Then what both input rings of vga_gui.c rest   *)
(* on: a ring of N slots with a head and a tail is a queue of at most N - 1*)
(* elements.                                                               *)
(***************************************************************************)
EXTENDS Integers, Sequences, SequenceTheorems, WellFoundedInduction, TLAPS

-----------------------------------------------------------------------------
Below(R) == \A x, y \in Nat : x < y => <<x, y>> \in R

LEMMA NatOrder == \E R : IsWellFoundedOn(R, Nat) /\ Below(R)
<1> DEFINE R == OpToRel(<, Nat)
<1>1. IsWellFoundedOn(R, Nat)
  BY NatLessThanWellFounded
<1>2. Below(R)
  BY DEF OpToRel, Below
<1> HIDE DEF R
<1> QED
  BY <1>1, <1>2

(* A set of natural numbers has a smallest element.                        *)
LEMMA Smallest ==
  ASSUME NEW T \in SUBSET Nat, T # {}
  PROVE  \E n \in T : \A k \in T : n <= k
<1>1. PICK R : IsWellFoundedOn(R, Nat) /\ Below(R)
  BY NatOrder
<1>2. PICK x \in T : \A y \in T : ~ (<<y, x>> \in R)
  BY <1>1, WFMin
<1>3. x \in Nat /\ \A y \in T : y \in Nat /\ ~(y < x)
  BY <1>1, <1>2 DEF Below
<1>4. \A y \in T : x <= y
  BY <1>3
<1> QED
  BY <1>4

(* Induction, from 0 and from all smaller numbers.                         *)
LEMMA SetInduction ==
  ASSUME NEW S, 0 \in S, \A n \in Nat : n \in S => n + 1 \in S
  PROVE  Nat \subseteq S
<1> SUFFICES ASSUME NEW m \in Nat, m \notin S PROVE FALSE
  OBVIOUS
<1>1. PICK T \in SUBSET Nat : \A n \in Nat : n \in T <=> n \notin S
  <2>1. Nat \ S \in SUBSET Nat /\ \A n \in Nat : n \in Nat \ S <=> n \notin S
    OBVIOUS
  <2> QED
    BY <2>1
<1>2. PICK n \in T : \A k \in T : n <= k
  BY <1>1, Smallest
<1>3. n \in Nat /\ n # 0 /\ n - 1 \in Nat /\ n - 1 \notin T
  BY <1>1, <1>2
<1> QED
  BY <1>1, <1>2, <1>3

LEMMA StrongInduction ==
  ASSUME NEW S, \A n \in Nat : (\A m \in Nat : m < n => m \in S) => n \in S
  PROVE  Nat \subseteq S
<1> SUFFICES ASSUME NEW k \in Nat, k \notin S PROVE FALSE
  OBVIOUS
<1>1. PICK T \in SUBSET Nat : \A n \in Nat : n \in T <=> n \notin S
  <2>1. Nat \ S \in SUBSET Nat /\ \A n \in Nat : n \in Nat \ S <=> n \notin S
    OBVIOUS
  <2> QED
    BY <2>1
<1>2. PICK n \in T : \A m \in T : n <= m
  BY <1>1, Smallest
<1>3. n \in Nat /\ \A m \in Nat : m < n => m \in S
  BY <1>1, <1>2
<1> QED
  BY <1>1, <1>2, <1>3

(* A bounded set of natural numbers has a largest element.                 *)
LEMMA Largest ==
  ASSUME NEW T \in SUBSET Nat, T # {}, NEW b \in Nat, \A k \in T : k <= b
  PROVE  \E n \in T : \A k \in T : k <= n
<1>1. PICK U \in SUBSET Nat : \A n \in Nat : n \in U <=> n <= b /\ b - n \in T
  <2>1. \A n \in Nat :
          n \in {m \in Nat : m <= b /\ b - m \in T} <=> n <= b /\ b - n \in T
    OBVIOUS
  <2>2. {m \in Nat : m <= b /\ b - m \in T} \in SUBSET Nat
    OBVIOUS
  <2> QED
    BY <2>1, <2>2
<1>2. \A k \in T : k \in Nat /\ b - k \in Nat /\ b - (b - k) = k
  OBVIOUS
<1>3. \A k \in T : b - k \in U
  BY <1>1, <1>2
<1>4. PICK u \in U : \A w \in U : u <= w
  BY <1>3, Smallest
<1>5. u \in Nat /\ b - u \in T
  BY <1>1, <1>4
<1>6. \A k \in T : k <= b - u
  BY <1>2, <1>3, <1>4, <1>5
<1> QED
  BY <1>5, <1>6

-----------------------------------------------------------------------------

Successor(N, i) == (i + 1) % N
Span(N, h, t) == (h - t) % N
SameBut(N, p, q, h) == \A i \in 0 .. N - 1 : i # h => p[i] = q[i]
Place(N, t, k) == (t + k - 1) % N
Content(N, q, h, t) == [k \in 1 .. Span(N, h, t) |-> q[Place(N, t, k)]]

(* The index arithmetic wraps once and only once.                          *)
LEMMA SuccessorCases ==
  ASSUME NEW N \in Nat \ {0}, NEW i \in 0 .. N - 1
  PROVE  Successor(N, i) = IF i + 1 = N THEN 0 ELSE i + 1
<1>1. CASE i + 1 = N
  BY <1>1 DEF Successor
<1>2. CASE i + 1 < N
  BY <1>2 DEF Successor
<1> QED
  BY <1>1, <1>2

LEMMA SpanCases ==
  ASSUME NEW N \in Nat \ {0}, NEW h \in 0 .. N - 1, NEW t \in 0 .. N - 1
  PROVE  Span(N, h, t) = IF t <= h THEN h - t ELSE h - t + N
<1>1. CASE t <= h
  BY <1>1 DEF Span
<1>2. CASE h < t
  <2>1. h - t + N \in 0 .. N - 1
    BY <1>2
  <2>2. (h - t) % N = h - t + N
    BY <1>2, <2>1
  <2> QED
    BY <1>2, <2>2 DEF Span
<1> QED
  BY <1>1, <1>2

LEMMA PlaceCases ==
  ASSUME NEW N \in Nat \ {0}, NEW t \in 0 .. N - 1, NEW k \in 1 .. N
  PROVE  Place(N, t, k) = IF t + k - 1 < N THEN t + k - 1 ELSE t + k - 1 - N
<1>1. CASE t + k - 1 < N
  BY <1>1 DEF Place
<1>2. CASE t + k - 1 >= N
  <2>1. t + k - 1 - N \in 0 .. N - 1
    BY <1>2
  <2>2. (t + k - 1) % N = t + k - 1 - N
    BY <1>2, <2>1
  <2> QED
    BY <1>2, <2>2 DEF Place
<1> QED
  BY <1>1, <1>2

(* The elements are the slots from the tail up to the head.                *)
LEMMA SpanBounds ==
  ASSUME NEW N \in Nat \ {0}, NEW h \in 0 .. N - 1, NEW t \in 0 .. N - 1
  PROVE  /\ Span(N, h, t) \in 0 .. N - 1
         /\ Span(N, h, t) = 0 <=> h = t
         /\ Span(N, h, t) = N - 1 <=> Successor(N, h) = t
<1> DEFINE c == Span(N, h, t)
<1>1. c = IF t <= h THEN h - t ELSE h - t + N
  BY SpanCases
<1>2. Successor(N, h) = IF h + 1 = N THEN 0 ELSE h + 1
  BY SuccessorCases
<1> HIDE DEF c
<1>3. c \in 0 .. N - 1 /\ (c = 0 <=> h = t) /\ (c = N - 1 <=> Successor(N, h) = t)
  BY <1>1, <1>2
<1> QED
  BY <1>3 DEF c

LEMMA ContentIsSequence ==
  ASSUME NEW N \in Nat \ {0}, NEW h \in 0 .. N - 1, NEW t \in 0 .. N - 1,
         NEW S, NEW q, \A i \in 0 .. N - 1 : q[i] \in S
  PROVE  Content(N, q, h, t) \in Seq(S) /\ Len(Content(N, q, h, t)) = Span(N, h, t)
<1> DEFINE c == Span(N, h, t)
<1>1. c \in 0 .. N - 1
  BY SpanBounds
<1> HIDE DEF c
<1>2. ASSUME NEW k \in 1 .. c PROVE q[Place(N, t, k)] \in S
  <2>1. k \in 1 .. N
    BY <1>1
  <2>2. Place(N, t, k) = IF t + k - 1 < N THEN t + k - 1 ELSE t + k - 1 - N
    BY <2>1, PlaceCases
  <2>3. Place(N, t, k) \in 0 .. N - 1
    BY <2>1, <2>2
  <2> QED
    BY <2>3
<1>3. Content(N, q, h, t) \in [1 .. c -> S]
  BY <1>2 DEF Content, c
<1>4. Content(N, q, h, t) \in Seq(S)
  BY <1>1, <1>3, SeqDef
<1>5. Len(Content(N, q, h, t)) = c
  BY <1>1, <1>3, <1>4, LenProperties
<1> QED
  BY <1>4, <1>5 DEF c

(* It is empty when head and tail meet.                                    *)
LEMMA ContentEmpty ==
  ASSUME NEW N \in Nat \ {0}, NEW h \in 0 .. N - 1, NEW t \in 0 .. N - 1, NEW q
  PROVE  Content(N, q, h, t) = <<>> <=> h = t
<1> DEFINE S == {q[i] : i \in 0 .. N - 1}
<1>1. \A i \in 0 .. N - 1 : q[i] \in S
  OBVIOUS
<1> HIDE DEF S
<1>2. Content(N, q, h, t) \in Seq(S) /\ Len(Content(N, q, h, t)) = Span(N, h, t)
  BY <1>1, ContentIsSequence
<1>3. Span(N, h, t) = 0 <=> h = t
  BY SpanBounds
<1>4. Span(N, h, t) \in 0 .. N - 1
  BY SpanBounds
<1> QED
  BY <1>2, <1>3, <1>4, EmptySeq

(* The slot at the head is not an element.                                 *)
LEMMA ContentElsewhere ==
  ASSUME NEW N \in Nat \ {0}, NEW h \in 0 .. N - 1, NEW t \in 0 .. N - 1,
         NEW q, NEW p, SameBut(N, p, q, h)
  PROVE  Content(N, p, h, t) = Content(N, q, h, t)
<1> DEFINE c == Span(N, h, t)
<1>1. c \in 0 .. N - 1
  BY SpanBounds
<1>2. c = IF t <= h THEN h - t ELSE h - t + N
  BY SpanCases
<1> HIDE DEF c
<1>3. ASSUME NEW k \in 1 .. c PROVE p[Place(N, t, k)] = q[Place(N, t, k)]
  <2>1. k \in 1 .. N
    BY <1>1
  <2>2. Place(N, t, k) = IF t + k - 1 < N THEN t + k - 1 ELSE t + k - 1 - N
    BY <2>1, PlaceCases
  <2>3. Place(N, t, k) \in 0 .. N - 1 /\ Place(N, t, k) # h
    BY <1>1, <1>2, <2>2
  <2> QED
    BY <2>3 DEF SameBut
<1> QED
  BY <1>3 DEF Content, c

(* Advancing the head of a ring that is not full appends its slot.         *)
LEMMA ContentAppend ==
  ASSUME NEW N \in Nat \ {0}, NEW h \in 0 .. N - 1, NEW t \in 0 .. N - 1,
         Successor(N, h) # t, NEW q
  PROVE  Content(N, q, Successor(N, h), t) = Append(Content(N, q, h, t), q[h])
<1> DEFINE S == {q[i] : i \in 0 .. N - 1}
           g == Successor(N, h)
           c == Span(N, h, t)
           s == Content(N, q, h, t)
           u == Content(N, q, g, t)
<1>0. \A i \in 0 .. N - 1 : q[i] \in S
  OBVIOUS
<1> HIDE DEF S
<1>1. g = (IF h + 1 = N THEN 0 ELSE h + 1) /\ g # t
  BY SuccessorCases
<1>2. g \in 0 .. N - 1
  BY <1>1
<1> HIDE DEF g
<1>3. s \in Seq(S) /\ Len(s) = c /\ c \in 0 .. N - 1
  <2>1. c \in 0 .. N - 1
    BY SpanBounds
  <2>2. s \in Seq(S) /\ Len(s) = c
    BY <1>0, ContentIsSequence
  <2> QED
    BY <2>1, <2>2
<1>4. u \in Seq(S) /\ Len(u) = Span(N, g, t)
  BY <1>0, <1>2, ContentIsSequence
<1>5. c = IF t <= h THEN h - t ELSE h - t + N
  BY SpanCases
<1>6. Span(N, g, t) = IF t <= g THEN g - t ELSE g - t + N
  BY <1>2, SpanCases
<1>7. Span(N, g, t) = c + 1
  BY <1>1, <1>2, <1>5, <1>6
<1>8. ASSUME NEW k \in 1 .. c + 1
      PROVE  Place(N, t, k) = IF t + k - 1 < N THEN t + k - 1 ELSE t + k - 1 - N
  <2>1. k \in 1 .. N
    BY <1>3
  <2> QED
    BY <2>1, PlaceCases
<1>9. c + 1 \in 1 .. c + 1
  BY <1>3
<1>10. Place(N, t, c + 1) = IF t + (c + 1) - 1 < N THEN t + (c + 1) - 1 ELSE t + (c + 1) - 1 - N
  BY <1>8, <1>9
<1> HIDE DEF c
<1>11. Place(N, t, c + 1) = h
  BY <1>5, <1>10
<1>12. ASSUME NEW k \in 1 .. c PROVE u[k] = s[k]
  <2>1. k \in 1 .. c + 1
    BY <1>3
  <2>2. Place(N, t, k) = IF t + k - 1 < N THEN t + k - 1 ELSE t + k - 1 - N
    BY <2>1, <1>8
  <2>3. Place(N, t, k) \in 0 .. N - 1 /\ Place(N, t, k) # h
    BY <1>3, <1>5, <2>2
  <2>4. u[k] = q[Place(N, t, k)] /\ s[k] = q[Place(N, t, k)]
    BY <1>7, <2>1 DEF Content, c
  <2> QED
    BY <2>3, <2>4
<1>13. u[c + 1] = q[h]
  BY <1>7, <1>9, <1>11 DEF Content
<1> HIDE DEF s, u
<1>14. q[h] \in S
  BY <1>0
<1>15. /\ Append(s, q[h]) \in Seq(S) /\ Len(Append(s, q[h])) = c + 1
       /\ \A k \in 1 .. c : Append(s, q[h])[k] = s[k]
       /\ Append(s, q[h])[c + 1] = q[h]
  BY <1>3, <1>14, AppendProperties
<1>16. \A k \in 1 .. c + 1 : u[k] = Append(s, q[h])[k]
  BY <1>3, <1>12, <1>13, <1>15
<1>17. u = Append(s, q[h])
  BY <1>4, <1>7, <1>15, <1>16, SeqEqual
<1> QED
  BY <1>17 DEF s, u, g

(* Advancing the tail of a ring that is not empty takes the head.          *)
LEMMA ContentTail ==
  ASSUME NEW N \in Nat \ {0}, NEW h \in 0 .. N - 1, NEW t \in 0 .. N - 1, h # t,
         NEW q
  PROVE  /\ Head(Content(N, q, h, t)) = q[t]
         /\ Content(N, q, h, Successor(N, t)) = Tail(Content(N, q, h, t))
<1> DEFINE S == {q[i] : i \in 0 .. N - 1}
           g == Successor(N, t)
           c == Span(N, h, t)
           s == Content(N, q, h, t)
           u == Content(N, q, h, g)
<1>0. \A i \in 0 .. N - 1 : q[i] \in S
  OBVIOUS
<1> HIDE DEF S
<1>1. g = IF t + 1 = N THEN 0 ELSE t + 1
  BY SuccessorCases
<1>2. g \in 0 .. N - 1
  BY <1>1
<1> HIDE DEF g
<1>3. s \in Seq(S) /\ Len(s) = c /\ c \in 0 .. N - 1 /\ s # <<>>
  <2>1. c \in 0 .. N - 1
    BY SpanBounds
  <2>2. s \in Seq(S) /\ Len(s) = c
    BY <1>0, ContentIsSequence
  <2>3. s # <<>>
    BY ContentEmpty
  <2> QED
    BY <2>1, <2>2, <2>3
<1>4. u \in Seq(S) /\ Len(u) = Span(N, h, g)
  BY <1>0, <1>2, ContentIsSequence
<1>5. c = IF t <= h THEN h - t ELSE h - t + N
  BY SpanCases
<1>6. Span(N, h, g) = IF g <= h THEN h - g ELSE h - g + N
  BY <1>2, SpanCases
<1>7. c \in 1 .. N - 1 /\ Span(N, h, g) = c - 1
  BY <1>1, <1>2, <1>3, <1>5, <1>6
<1> HIDE DEF c
<1>8. ASSUME NEW k \in 1 .. c - 1 PROVE u[k] = s[k + 1]
  <2>1. k \in 1 .. N /\ k + 1 \in 1 .. N /\ k + 1 \in 1 .. c
    BY <1>7
  <2>2. Place(N, g, k) = IF g + k - 1 < N THEN g + k - 1 ELSE g + k - 1 - N
    BY <1>2, <2>1, PlaceCases
  <2>3. Place(N, t, k + 1) = IF t + (k + 1) - 1 < N THEN t + (k + 1) - 1 ELSE t + (k + 1) - 1 - N
    BY <2>1, PlaceCases
  <2>4. Place(N, g, k) = Place(N, t, k + 1)
    BY <1>1, <1>7, <2>2, <2>3
  <2>5. u[k] = q[Place(N, g, k)] /\ s[k + 1] = q[Place(N, t, k + 1)]
    BY <1>7, <2>1 DEF Content, c
  <2> QED
    BY <2>4, <2>5
<1>9. s[1] = q[t]
  <2>1. 1 \in 1 .. N /\ 1 \in 1 .. c
    BY <1>7
  <2>2. Place(N, t, 1) = IF t + 1 - 1 < N THEN t + 1 - 1 ELSE t + 1 - 1 - N
    BY <2>1, PlaceCases
  <2>3. Place(N, t, 1) = t
    BY <2>2
  <2> QED
    BY <2>1, <2>3 DEF Content, c
<1> HIDE DEF s, u
<1>10. /\ Head(s) = s[1] /\ Tail(s) \in Seq(S) /\ Len(Tail(s)) = c - 1
       /\ \A k \in 1 .. c - 1 : Tail(s)[k] = s[k + 1]
  BY <1>3, HeadTailProperties
<1>11. u = Tail(s)
  BY <1>4, <1>7, <1>8, <1>10, SeqEqual
<1> QED
  BY <1>9, <1>10, <1>11 DEF s, u, g

(* Concatenation is associative; as a named fact, for provers that do not  *)
(* find the instance they need.                                            *)
Associative(S) == \A x, y, z \in Seq(S) : x \o (y \o z) = (x \o y) \o z

LEMMA ConcatRegroup == ASSUME NEW S PROVE Associative(S)
<1> SUFFICES ASSUME NEW x \in Seq(S), NEW y \in Seq(S), NEW z \in Seq(S)
             PROVE  x \o (y \o z) = (x \o y) \o z
  BY DEF Associative
<1> QED
  BY ConcatAssociative

(* The two parts of a concatenation, and the second alone.                 *)
LEMMA ConcatParts ==
  ASSUME NEW S, NEW p \in Seq(S), NEW t \in Seq(S)
  PROVE  /\ p \o t \in Seq(S)
         /\ Len(p \o t) = Len(p) + Len(t)
         /\ \A k \in 1 .. Len(p) : (p \o t)[k] = p[k]
         /\ \A k \in 1 .. Len(t) : (p \o t)[Len(p) + k] = t[k]
<1>1. Len(t) \in Nat /\ Len(p) \in Nat
  OBVIOUS
<1>2. \A k \in 1 .. Len(p) + Len(t) : (p \o t)[k] = IF k <= Len(p) THEN p[k] ELSE t[k - Len(p)]
  BY ConcatProperties
<1>3. ASSUME NEW k \in 1 .. Len(t) PROVE (p \o t)[Len(p) + k] = t[k]
  BY <1>1, <1>2
<1>4. ASSUME NEW k \in 1 .. Len(p) PROVE (p \o t)[k] = p[k]
  BY <1>1, <1>2
<1> QED
  BY <1>3, <1>4, ConcatProperties

LEMMA ConcatTail ==
  ASSUME NEW S, NEW p \in Seq(S), NEW t \in Seq(S)
  PROVE  SubSeq(p \o t, Len(p) + 1, Len(p) + Len(t)) = t
<1> DEFINE w == SubSeq(p \o t, Len(p) + 1, Len(p) + Len(t))
<1>1. p \o t \in Seq(S) /\ Len(p \o t) = Len(p) + Len(t)
  BY ConcatProperties
<1>2. w \in Seq(S)
  BY <1>1, SubSeqProperties
<1>3. Len(w) = Len(t)
  BY <1>1
<1>4. \A k \in 1 .. Len(t) : w[k] = (p \o t)[Len(p) + k]
  BY <1>1, SubSeqProperties
<1>5. \A k \in 1 .. Len(t) : w[k] = t[k]
  BY <1>4, ConcatParts
<1> QED
  BY <1>2, <1>3, <1>5, SeqEqual
=============================================================================
