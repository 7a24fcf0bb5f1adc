----------------------------- MODULE ReadyQueue -----------------------------
(***************************************************************************)
(* The circular list of kernel/proc/scheduler.c, pointer by pointer:       *)
(* queue_insert, queue_remove and queue_next_ready.  Scheduler.tla keeps   *)
(* the same queue as a sequence; here it is shown that the list behaves    *)
(* like one.  Each operation runs with interrupts off and is one step.     *)
(***************************************************************************)
EXTENDS Naturals, FiniteSets, Sequences

CONSTANTS Threads, NULL

ASSUME ThreadsAssumption == IsFiniteSet(Threads) /\ NULL \notin Threads

VARIABLES head,   \* sched_queue_head
          tail,   \* sched_queue_tail
          next,   \* the next field of every thread
          picked  \* the last call of queue_next_ready and what it returned

ringVars == <<head, tail, next, picked>>
Pointers == Threads \cup {NULL}

RingInit ==
  /\ head = NULL
  /\ tail = NULL
  /\ next = [t \in Threads |-> NULL]
  /\ picked = [current |-> NULL, ready |-> {}, thread |-> NULL]

(* Following next from start, long enough to go once around.               *)
N == Cardinality(Threads)
Walk(start) ==
  LET w[i \in 0 .. N] ==
        IF i = 0 THEN start ELSE IF w[i - 1] = NULL THEN NULL ELSE next[w[i - 1]]
  IN  w

(* scheduler_add_thread.  Its callers pass a slot alloc_thread has just    *)
(* cleared.                                                                *)
LinkLastOneWay(t) == next' = [next EXCEPT ![t] = head]
LinkLast(t) == next' = [next EXCEPT ![t] = head, ![tail] = t]

Insert(t) ==
  /\ next[t] = NULL
  /\ \/ head = NULL /\ head' = t /\ next' = [next EXCEPT ![t] = t]
     \/ head # NULL /\ UNCHANGED head /\ LinkLast(t)
  /\ tail' = t
  /\ UNCHANGED picked

(* The node queue_remove stops at when it looks for t's predecessor.       *)
StopsAt(w, i, t) == w[i] # NULL /\ next[w[i]] \in {t, head}
IsPrev(prev, t) ==
  LET w == Walk(head) IN
  \E i \in 0 .. N : /\ prev = w[i]
                    /\ StopsAt(w, i, t)
                    /\ \A j \in 0 .. i - 1 : ~StopsAt(w, j, t)

UnlinkTailKept(prev, t) ==
  /\ next' = [next EXCEPT ![prev] = next[t], ![t] = NULL]
  /\ head' = IF head = t THEN next[t] ELSE head
  /\ UNCHANGED tail

Unlink(prev, t) ==
  /\ next' = [next EXCEPT ![prev] = next[t], ![t] = NULL]
  /\ head' = IF head = t THEN next[t] ELSE head
  /\ tail' = IF tail = t THEN prev ELSE tail

(* scheduler_remove_thread; t need not be in the queue.                    *)
OnlyElement(t) == head = t /\ next[head] = head

Remove(t) ==
  /\ head # NULL
  /\ \/ /\ OnlyElement(t)
        /\ head' = NULL
        /\ tail' = NULL
        /\ next' = [next EXCEPT ![t] = NULL]
     \/ /\ ~OnlyElement(t)
        /\ \E prev \in Threads :
             /\ IsPrev(prev, t)
             /\ \/ next[prev] = t /\ Unlink(prev, t)
                \/ next[prev] # t /\ UNCHANGED <<head, tail, next>>
  /\ UNCHANGED picked

StartOnlyNext(current) == IF current = NULL THEN head ELSE next[current]
Start(current) == IF current = NULL \/ next[current] = NULL THEN head ELSE next[current]

(* The do-while loop from start: the first candidate in the READY state    *)
(* before it is back at start.                                             *)
Candidate(start, c, ready) ==
  LET w == Walk(start) IN
  \E i \in 0 .. N : /\ c = w[i]
                    /\ \A j \in 1 .. i : w[j] # start
                    /\ c \in ready
                    /\ \A j \in 0 .. i - 1 : w[j] \notin ready

(* queue_next_ready(current), with ready the threads in the READY state.   *)
NextReady(current, ready) ==
  LET found == {c \in Threads : head # NULL /\ Candidate(Start(current), c, ready)}
      Return(c) == picked' = [current |-> current, ready |-> ready, thread |-> c]
  IN
  /\ \/ \E c \in found : Return(c)
     \/ found = {} /\ head # NULL /\ current \in ready /\ Return(current)
     \/ found = {} /\ (head = NULL \/ current \notin ready) /\ Return(NULL)
  /\ UNCHANGED <<head, tail, next>>

RingNext ==
  \/ \E t \in Threads : Insert(t) \/ Remove(t)
  \/ \E current \in Pointers, ready \in SUBSET Threads : NextReady(current, ready)

RingSpec == RingInit /\ [][RingNext]_ringVars

-----------------------------------------------------------------------------
(* The threads on the ring, in order from head.                            *)
Rounds == {k \in 1 .. N : Walk(head)[k] = head}
Ring ==
  IF head = NULL \/ Rounds = {} THEN <<>>
  ELSE LET k == CHOOSE r \in Rounds : \A s \in Rounds : r <= s
       IN  [i \in 1 .. k |-> Walk(head)[i - 1]]

(* The list is one closed ring that tail ends, and a thread has a next     *)
(* pointer just when it is on the ring: a removed or new thread is never   *)
(* taken for a queued one, and no walk of queue_remove or                  *)
(* queue_next_ready can run forever.                                       *)
RingShape ==
  /\ head = NULL <=> tail = NULL
  /\ head # NULL => Rounds # {} /\ tail = Ring[Len(Ring)]
  /\ {t \in Threads : next[t] # NULL} = {Ring[i] : i \in 1 .. Len(Ring)}

(* The list stands for the threads q, in this order.                       *)
Lists(q) ==
  /\ next \in [Threads -> Pointers]
  /\ \A i, j \in 1 .. Len(q) : q[i] = q[j] => i = j
  /\ \A i \in 1 .. Len(q) : next[q[i]] = q[IF i = Len(q) THEN 1 ELSE i + 1]
  /\ \A t \in Threads : (\A i \in 1 .. Len(q) : q[i] # t) => next[t] = NULL
  /\ head = IF q = <<>> THEN NULL ELSE q[1]
  /\ tail = IF q = <<>> THEN NULL ELSE q[Len(q)]

Queue == INSTANCE RunQueue WITH line <- Ring

(* The list of queue_insert, queue_remove and queue_next_ready implements  *)
(* a queue in order of arrival with once-around selection.                 *)
ImplementsRunQueue == Queue!Spec
=============================================================================
