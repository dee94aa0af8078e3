-------------------------- MODULE AlgorithmsProofs --------------------------
(***************************************************************************)
(* What the algorithms compute: breadth-first search, topological sorting  *)
(* and the spanning tree on any graph, merge sort on any array; and the    *)
(* types of all the small programs.                                        *)
(***************************************************************************)
EXTENDS ProgramsProofs, SequenceTheorems, WellFoundedInduction

-----------------------------------------------------------------------------
(* Induction on the natural numbers, by a least counterexample: Below is < as a
   set of pairs. *)
Below == {e \in Nat \X Nat : e[1] < e[2]}

(* No number has infinitely many below it. *)
LEMMA BelowWF == IsWellFoundedOn(Below, Nat)
<1>1. OpToRel(<, Nat) = Below BY DEF OpToRel, Below
<1> QED BY <1>1, NatLessThanWellFounded

(* A set of natural numbers that is not empty has a least one. *)
LEMMA Least ==
  ASSUME NEW T, T \subseteq Nat, T # {} PROVE \E n \in T : \A m \in T : n <= m
<1>1. PICK l \in T : \A y \in T : ~(<<y, l>> \in Below) BY BelowWF, WFMin
<1>2. \A y \in T : <<y, l>> \in Nat \X Nat OBVIOUS
<1>3. \A y \in T : <<y, l>>[1] = y /\ <<y, l>>[2] = l OBVIOUS
<1>4. \A y \in T : ~(y < l) BY <1>1, <1>2, <1>3, Zenon DEF Below
<1>5. l \in Nat /\ \A m \in T : m \in Nat OBVIOUS
<1>6. \A m \in T : l <= m BY <1>4, <1>5
<1> QED BY <1>6

(* A set that has 0 and with each number the next one has all. *)
LEMMA Induct ==
  ASSUME NEW T, 0 \in T, \A n \in Nat : n \in T => n + 1 \in T
  PROVE  Nat \subseteq T
<1>1. SUFFICES ASSUME Nat \ T # {} PROVE FALSE OBVIOUS
<1>2. PICK n \in Nat \ T : \A m \in Nat \ T : n <= m BY <1>1, Least
<1>3. n # 0 /\ n - 1 \in Nat /\ n - 1 + 1 = n BY <1>2
<1> QED BY <1>2, <1>3

(* The place of the k-th oldest item in the ring of a queue, what is a queue
   of the items of S, and what it holds, the oldest first. *)
Place(first, k) ==
  LET i == first + k - 1
  IN  IF i < 0 THEN i + QUEUESIZE
      ELSE IF i < QUEUESIZE THEN i ELSE i - QUEUESIZE

IsQueue(q, S) ==
  /\ q \in [q : [0 .. QUEUESIZE -> S], first : 0 .. QUEUESIZE - 1,
            last : 0 .. QUEUESIZE - 1, count : 0 .. QUEUESIZE]
  /\ q.last = Place(q.first, q.count)

Contents(q) == [k \in 1 .. q.count |-> q.q[Place(q.first, k)]]

(* The place after another one in the ring. *)
LEMMA NextPlace ==
  ASSUME NEW i \in 0 .. QUEUESIZE - 1
  PROVE  (i + 1) % QUEUESIZE = IF i + 1 < QUEUESIZE THEN i + 1 ELSE 0
<1> DEFINE Q == QUEUESIZE
           n == i + 1
<1>1. Q \in Nat /\ Q > 0 /\ n \in 1 .. Q BY QueueAssumption
<1>2. n % Q \in 0 .. Q - 1 BY <1>1
<1>3. n = Q * (n \div Q) + (n % Q) BY <1>1
<1>4. n \div Q \in Int BY <1>1
<1> DEFINE d == n \div Q
           r == n % Q
<1>5. r \in Int /\ 0 <= r /\ r < Q /\ n = Q * d + r BY <1>1, <1>2, <1>3
<1>6. ASSUME d >= 2 PROVE Q * d >= 2 * Q BY <1>1, <1>4, <1>6
<1>7. ASSUME d <= -1 PROVE Q * d <= -Q BY <1>1, <1>4, <1>7
<1>8. d = 0 => Q * d = 0 BY <1>1
<1>9. d = 1 => Q * d = Q BY <1>1
<1>10. d \in Int /\ Q * d \in Int BY <1>1, <1>4
<1> HIDE DEF d, r, Q, n
<1>11. d \in {0, 1} BY <1>1, <1>5, <1>6, <1>7, <1>10
<1>12. r = IF n < Q THEN n ELSE 0
  BY <1>1, <1>5, <1>8, <1>9, <1>10, <1>11
<1> QED BY <1>12 DEF r, Q, n

(* The places in the ring: the first, the next, and no two alike. *)
LEMMA Places ==
  ASSUME NEW f \in 0 .. QUEUESIZE - 1
  PROVE  /\ \A k \in 0 .. QUEUESIZE :
              Place(f, k) \in 0 .. QUEUESIZE - 1
         /\ Place(f, 1) = f
         /\ \A n \in 0 .. QUEUESIZE - 1 :
              Place(f, n + 1) = IF Place(f, n) + 1 < QUEUESIZE
                                THEN Place(f, n) + 1 ELSE 0
         /\ \A n \in 0 .. QUEUESIZE - 1 : \A k \in 1 .. n :
              Place(f, k) # Place(f, n + 1)
         /\ \A n \in 0 .. QUEUESIZE - 1 :
              Place(IF f + 1 < QUEUESIZE THEN f + 1 ELSE 0, n)
                = Place(f, n + 1)
<1>1. QUEUESIZE \in Int /\ QUEUESIZE > 0 BY QueueAssumption
<1>2. f \in Int /\ 0 <= f /\ f < QUEUESIZE BY <1>1
<1>3. \A k \in 0 .. QUEUESIZE : Place(f, k) \in 0 .. QUEUESIZE - 1
  BY <1>1, <1>2 DEF Place
<1>4. Place(f, 1) = f BY <1>1, <1>2 DEF Place
<1>5. ASSUME NEW n \in 0 .. QUEUESIZE - 1
      PROVE  Place(f, n + 1) = IF Place(f, n) + 1 < QUEUESIZE
                               THEN Place(f, n) + 1 ELSE 0
  BY <1>1, <1>2 DEF Place
<1>6. ASSUME NEW n \in 0 .. QUEUESIZE - 1, NEW k \in 1 .. n
      PROVE  Place(f, k) # Place(f, n + 1)
  BY <1>1, <1>2 DEF Place
<1>7. ASSUME NEW n \in 0 .. QUEUESIZE - 1
      PROVE  Place(IF f + 1 < QUEUESIZE THEN f + 1 ELSE 0, n)
               = Place(f, n + 1)
  <2>1. CASE f + 1 < QUEUESIZE
    <3>1. Place(f + 1, n) = Place(f, n + 1)
      BY <1>1, <1>2, <2>1 DEF Place
    <3> QED BY <2>1, <3>1
  <2>2. CASE ~(f + 1 < QUEUESIZE)
    <3>1. Place(0, n) = Place(f, n + 1)
      BY <1>1, <1>2, <2>2 DEF Place
    <3> QED BY <2>2, <3>1
  <2> QED BY <2>1, <2>2
<1> QED BY <1>3, <1>4, <1>5, <1>6, <1>7

(* What a queue holds is a sequence as long as its count says. *)
LEMMA QueueHolds ==
  ASSUME NEW S, NEW q, IsQueue(q, S)
  PROVE  /\ Contents(q) \in Seq(S)
         /\ Len(Contents(q)) = q.count /\ q.count \in 0 .. QUEUESIZE
         /\ empty_queue(q) <=> q.count = 0
         /\ empty_queue(q) <=> Contents(q) = <<>>
<1>1. /\ q.count \in 0 .. QUEUESIZE /\ q.first \in 0 .. QUEUESIZE - 1
      /\ q.q \in [0 .. QUEUESIZE -> S]
  BY DEF IsQueue
<1>2. \A k \in 1 .. q.count : Place(q.first, k) \in 0 .. QUEUESIZE
  BY <1>1, QueueAssumption DEF Place
<1>3. \A k \in 1 .. q.count : q.q[Place(q.first, k)] \in S BY <1>1, <1>2
<1>4. q.count \in Nat BY <1>1, QueueAssumption
<1>5. Contents(q) \in Seq(S) /\ Len(Contents(q)) = q.count
  BY <1>3, <1>4 DEF Contents
<1> QED BY <1>1, <1>5, QueueAssumption DEF empty_queue

(* A queue is empty at first. *)
LEMMA QueueBegins ==
  ASSUME NEW S, 0 \in S
  PROVE  IsQueue(init_queue, S) /\ Contents(init_queue) = <<>>
BY QueueAssumption DEF IsQueue, Contents, init_queue, Place

(* As long as there is space an item is put behind the others. *)
LEMMA EnqueueAppends ==
  ASSUME NEW S, NEW q, IsQueue(q, S), NEW z \in S, q.count < QUEUESIZE
  PROVE  /\ IsQueue(enqueue(q, z), S)
         /\ Contents(enqueue(q, z)) = Append(Contents(q), z)
<1> DEFINE n == q.count
           f == q.first
           l == (q.last + 1) % QUEUESIZE
           r == enqueue(q, z)
<1>1. /\ n \in 0 .. QUEUESIZE - 1 /\ f \in 0 .. QUEUESIZE - 1
      /\ q.last \in 0 .. QUEUESIZE - 1 /\ q.q \in [0 .. QUEUESIZE -> S]
      /\ q.last = Place(q.first, n)
  BY QueueAssumption DEF IsQueue
<1>2. l = Place(q.first, n + 1) /\ l \in 0 .. QUEUESIZE - 1
  <2>1. l = IF q.last + 1 < QUEUESIZE THEN q.last + 1 ELSE 0
    BY <1>1, NextPlace
  <2>2. n + 1 \in 0 .. QUEUESIZE BY <1>1, QueueAssumption
  <2>3. l = Place(f, n + 1) BY <1>1, <2>1, Places
  <2>4. Place(f, n + 1) \in 0 .. QUEUESIZE - 1 BY <1>1, <2>2, Places
  <2> QED BY <2>3, <2>4
<1>3. /\ r.q = [q.q EXCEPT ![l] = z] /\ r.first = f /\ r.last = l
      /\ r.count = n + 1
      /\ r \in [q : [0 .. QUEUESIZE -> S], first : 0 .. QUEUESIZE - 1,
                last : 0 .. QUEUESIZE - 1, count : 0 .. QUEUESIZE]
  <2>1. q \in [q : [0 .. QUEUESIZE -> S], first : 0 .. QUEUESIZE - 1,
               last : 0 .. QUEUESIZE - 1, count : 0 .. QUEUESIZE]
    BY DEF IsQueue
  <2>2. [q.q EXCEPT ![l] = z] \in [0 .. QUEUESIZE -> S]
    BY <1>1, <1>2, QueueAssumption
  <2>3. ~(q.count >= QUEUESIZE) BY <1>1, QueueAssumption
  <2>4. r = [q EXCEPT !.last = l, !.q[l] = z, !.count = @ + 1]
    BY <2>3 DEF enqueue
  <2> HIDE DEF r, l
  <2>5. r = [q EXCEPT !.last = l, !.q = [q.q EXCEPT ![l] = z], !.count = n + 1]
    BY <2>1, <2>4
  <2>6. n + 1 \in 0 .. QUEUESIZE /\ l \in 0 .. QUEUESIZE - 1
    BY <1>1, <1>2, QueueAssumption
  <2> QED BY <2>1, <2>2, <2>5, <2>6
<1> HIDE DEF r, l
<1>4. \A k : Place(r.first, k) = Place(q.first, k) BY <1>3 DEF Place
<1>5. IsQueue(r, S) BY <1>2, <1>3, <1>4 DEF IsQueue
<1>6. \A k \in 1 .. n : /\ Place(q.first, k) # l
                        /\ Place(q.first, k) \in 0 .. QUEUESIZE
  <2>1. \A k \in 1 .. n : k \in 0 .. QUEUESIZE BY <1>1, QueueAssumption
  <2>2. \A k \in 1 .. n : Place(q.first, k) \in 0 .. QUEUESIZE - 1
    BY <1>1, <2>1, Places
  <2>3. \A k \in 1 .. n : Place(q.first, k) # l BY <1>1, <1>2, Places
  <2> QED BY <2>2, <2>3, QueueAssumption
<1>7. \A k \in 1 .. n + 1 :
        Contents(r)[k] = IF k <= n THEN Contents(q)[k] ELSE z
  <2> TAKE k \in 1 .. n + 1
  <2>1. Contents(r)[k] = r.q[Place(q.first, k)] BY <1>3, <1>4 DEF Contents
  <2>2. CASE k \in 1 .. n
    <3>1. Contents(q)[k] = q.q[Place(q.first, k)] BY <2>2 DEF Contents
    <3>2. r.q[Place(q.first, k)] = q.q[Place(q.first, k)]
      BY <1>1, <1>3, <1>6, <2>2
    <3> QED BY <1>1, <2>1, <2>2, <3>1, <3>2
  <2>3. CASE k = n + 1
    <3>1. r.q[l] = z BY <1>1, <1>2, <1>3, QueueAssumption
    <3> QED BY <1>1, <1>2, <2>1, <2>3, <3>1, QueueAssumption
  <2> QED BY <1>1, <2>2, <2>3, QueueAssumption
<1>8. Contents(r) = Append(Contents(q), z)
  <2>1. Contents(q) \in Seq(S) /\ Len(Contents(q)) = n BY QueueHolds
  <2>2. Contents(r) \in Seq(S) /\ Len(Contents(r)) = n + 1
    BY <1>3, <1>5, QueueHolds
  <2> HIDE DEF n, f
  <2>3. \A c, s \in Seq(S) :
          /\ Len(s) = Len(c) + 1
          /\ \A k \in 1 .. Len(c) + 1 :
               s[k] = IF k <= Len(c) THEN c[k] ELSE z
          => s = Append(c, z)
    OBVIOUS
  <2> QED BY <1>7, <2>1, <2>2, <2>3
<1> QED BY <1>5, <1>8 DEF r

(* The oldest item leaves first. *)
LEMMA DequeueTakesHead ==
  ASSUME NEW S, NEW q, IsQueue(q, S), ~empty_queue(q)
  PROVE  /\ IsQueue(dequeue(q), S)
         /\ Contents(q) # <<>> /\ headq(q) = Head(Contents(q))
         /\ Contents(dequeue(q)) = Tail(Contents(q))
<1> DEFINE n == q.count
           f == q.first
           g == (f + 1) % QUEUESIZE
           r == dequeue(q)
<1>1. /\ n \in 1 .. QUEUESIZE /\ f \in 0 .. QUEUESIZE - 1
      /\ q.last \in 0 .. QUEUESIZE - 1 /\ q.q \in [0 .. QUEUESIZE -> S]
      /\ q.last = Place(q.first, n)
  BY QueueAssumption DEF IsQueue, empty_queue
<1>2. g = IF f + 1 < QUEUESIZE THEN f + 1 ELSE 0 BY <1>1, NextPlace
<1>3. /\ r.q = q.q /\ r.first = g /\ r.last = q.last /\ r.count = n - 1
      /\ r \in [q : [0 .. QUEUESIZE -> S], first : 0 .. QUEUESIZE - 1,
                last : 0 .. QUEUESIZE - 1, count : 0 .. QUEUESIZE]
  <2>1. q \in [q : [0 .. QUEUESIZE -> S], first : 0 .. QUEUESIZE - 1,
               last : 0 .. QUEUESIZE - 1, count : 0 .. QUEUESIZE]
    BY DEF IsQueue
  <2>2. r = [q EXCEPT !.first = (@ + 1) % QUEUESIZE, !.count = @ - 1]
    BY DEF dequeue
  <2> HIDE DEF r
  <2>3. r = [q EXCEPT !.first = g, !.count = n - 1] BY <2>1, <2>2
  <2>4. g \in 0 .. QUEUESIZE - 1 /\ n - 1 \in 0 .. QUEUESIZE
    <3>1. f \in 0 .. QUEUESIZE - 1 /\ n \in 1 .. QUEUESIZE BY <1>1
    <3> HIDE DEF n, f, g
    <3> QED BY <1>2, <3>1, QueueAssumption
  <2> HIDE DEF n, g
  <2> QED BY <2>1, <2>3, <2>4
<1> HIDE DEF r, g
<1>4. \A k \in 0 .. n - 1 : Place(r.first, k) = Place(q.first, k + 1)
  <2>1. \A k \in 0 .. n - 1 : k \in 0 .. QUEUESIZE - 1
    BY <1>1, QueueAssumption
  <2>2. \A k \in 0 .. QUEUESIZE - 1 :
          Place(IF f + 1 < QUEUESIZE THEN f + 1 ELSE 0, k) = Place(f, k + 1)
    BY <1>1, Places
  <2>3. r.first = IF f + 1 < QUEUESIZE THEN f + 1 ELSE 0 BY <1>2, <1>3
  <2> QED BY <2>1, <2>2, <2>3
<1>5. Place(r.first, n - 1) = Place(q.first, n)
  <2>1. n - 1 \in 0 .. n - 1 /\ n - 1 + 1 = n BY <1>1, QueueAssumption
  <2> QED BY <1>4, <2>1
<1>6. IsQueue(r, S) BY <1>1, <1>3, <1>5 DEF IsQueue
<1>7. Contents(q) \in Seq(S) /\ Len(Contents(q)) = n BY QueueHolds
<1>8. headq(q) = Contents(q)[1]
  <2>1. Place(q.first, 1) = f BY <1>1, Places
  <2>2. Contents(q)[1] = q.q[Place(q.first, 1)] BY <1>1 DEF Contents
  <2> QED BY <2>1, <2>2 DEF headq
<1>9. \A k \in 1 .. n - 1 : Contents(r)[k] = Contents(q)[k + 1]
  <2> TAKE k \in 1 .. n - 1
  <2>1. Contents(r)[k] = q.q[Place(r.first, k)] BY <1>3 DEF Contents
  <2>2. k + 1 \in 1 .. n /\ k \in 0 .. n - 1 BY <1>1, QueueAssumption
  <2>3. Contents(q)[k + 1] = q.q[Place(q.first, k + 1)] BY <2>2 DEF Contents
  <2> QED BY <1>4, <2>1, <2>2, <2>3
<1>10. Contents(r) \in Seq(S) /\ Len(Contents(r)) = n - 1
  BY <1>3, <1>6, QueueHolds
<1>11. \A c, s \in Seq(S) :
         /\ Len(c) > 0 /\ Len(s) = Len(c) - 1
         /\ \A k \in 1 .. Len(c) - 1 : s[k] = c[k + 1]
         => s = Tail(c) /\ c # <<>> /\ Head(c) = c[1]
  OBVIOUS
<1>12. Len(Contents(q)) > 0 BY <1>1, <1>7
<1>13. /\ Contents(r) = Tail(Contents(q)) /\ Contents(q) # <<>>
       /\ Head(Contents(q)) = Contents(q)[1]
  BY <1>7, <1>9, <1>10, <1>11, <1>12
<1> QED BY <1>6, <1>8, <1>13 DEF r
-----------------------------------------------------------------------------
(* The queue of the instance is the queue. *)
LEMMA BfsQueue ==
  /\ Bfs!init_queue = init_queue
  /\ \A a : /\ (Bfs!empty_queue(a) <=> empty_queue(a))
            /\ Bfs!headq(a) = headq(a) /\ Bfs!dequeue(a) = dequeue(a)
  /\ \A a, z : Bfs!enqueue(a, z) = enqueue(a, z)
BY DEF Bfs!init_queue, init_queue, Bfs!empty_queue, empty_queue, Bfs!headq,
     headq, Bfs!dequeue, dequeue, Bfs!enqueue, enqueue

(* What waits in the queue of the search are the vertices found but not
   visited, each once. *)
ToVisit == Contents(bfsQueue)

QueueOfFound ==
  /\ IsQueue(bfsQueue, {0} \cup Bfs!Vertices)
  /\ \A i \in 1 .. Len(ToVisit) : ToVisit[i] \in discovered \ processed
  /\ \A i, j \in 1 .. Len(ToVisit) : ToVisit[i] = ToVisit[j] => i = j
  /\ \A y \in discovered \ processed : \E i \in 1 .. Len(ToVisit) :
       ToVisit[i] = y
  /\ Len(ToVisit) + Cardinality(processed) = Cardinality(discovered)

(* The level of a vertex is the number of edges on the path to it. *)
Levels(lv) ==
  /\ lv \in [Bfs!Vertices -> Nat] /\ lv[bfsStart] = 0
  /\ bfsStart \in discovered /\ bfsVertex \in discovered
  /\ \A i, j \in 1 .. Len(ToVisit) :
       i <= j => lv[ToVisit[i]] <= lv[ToVisit[j]]
  /\ \A i \in 1 .. Len(ToVisit) :
       lv[bfsVertex] <= lv[ToVisit[i]] /\ lv[ToVisit[i]] <= lv[bfsVertex] + 1
  /\ \A x \in processed : lv[x] <= lv[bfsVertex]
  /\ \A y \in discovered : lv[y] < Cardinality(discovered)

(* A vertex is one level below the one that it was found from. *)
Parents(lv) ==
  \A y \in discovered \ {bfsStart} :
    /\ bfsParent[y] \in discovered /\ Bfs!Edge(bfsParent[y], y)
    /\ lv[y] = lv[bfsParent[y]] + 1

(* The edges that were followed lead to vertices that were found, at most one
   level below. *)
EdgesDone(lv) ==
  \A x \in processed : \A k \in 1 .. Len(bfsEdges[x]) :
    x # bfsVertex \/ k < bfsPlace => /\ bfsEdges[x][k] \in discovered
                                     /\ lv[bfsEdges[x][k]] <= lv[x] + 1

(* The inductive invariant. *)
BfsIInv == Bfs!BfsTypeOK /\ QueueOfFound
           /\ \E lv \in [Bfs!Vertices -> Nat] :
                Levels(lv) /\ Parents(lv) /\ EdgesDone(lv)

(* What follows from the types. *)
LEMMA EdgesType ==
  ASSUME Bfs!BfsTypeOK
  PROVE  /\ IsFiniteSet(Bfs!Vertices) /\ Cardinality(Bfs!Vertices) = nvertices
         /\ \A x \in Bfs!Vertices : bfsEdges[x] \in Seq(Bfs!Vertices)
         /\ \A x \in Bfs!Vertices : Len(bfsEdges[x]) \in Nat
         /\ \A x \in Bfs!Vertices : \A k \in 1 .. Len(bfsEdges[x]) :
              bfsEdges[x][k] \in Bfs!Vertices
         /\ bfsPlace \in Nat /\ bfsVertex \in Bfs!Vertices
         /\ Len(bfsEdges[bfsVertex]) \in Nat
         /\ IsFiniteSet(discovered) /\ IsFiniteSet(processed)
         /\ Cardinality(discovered) \in Nat /\ Cardinality(processed) \in Nat
<1>1. IsFiniteSet(Bfs!Vertices) /\ Cardinality(Bfs!Vertices) = nvertices
  BY FS_Interval, GraphAssumption DEF Bfs!Vertices
<1>2. \A x \in Bfs!Vertices : bfsEdges[x] \in Seq(Bfs!Vertices)
  BY GraphAssumption DEF Bfs!BfsTypeOK, Bfs!Vertices
<1>3. \A s \in Seq(Bfs!Vertices) : Len(s) \in Nat /\ \A k \in 1 .. Len(s) :
        s[k] \in Bfs!Vertices
  OBVIOUS
<1>4. bfsVertex \in Bfs!Vertices
        /\ bfsPlace \in 1 .. Len(bfsEdges[bfsVertex]) + 1
  BY DEF Bfs!BfsTypeOK
<1>5. bfsPlace \in Nat BY <1>2, <1>3, <1>4
<1>6. discovered \subseteq Bfs!Vertices /\ processed \subseteq Bfs!Vertices
  BY DEF Bfs!BfsTypeOK
<1>7. IsFiniteSet(discovered) /\ IsFiniteSet(processed)
  BY <1>1, <1>6, FS_Subset
<1>8. Cardinality(discovered) \in Nat /\ Cardinality(processed) \in Nat
  BY <1>7, FS_CardinalityType
<1> QED BY <1>1, <1>2, <1>3, <1>4, <1>5, <1>7, <1>8

(* It holds at first. *)
LEMMA BfsStarts == ASSUME Bfs!BfsInit PROVE BfsIInv
<1>1. /\ bfsEdges \in Graphs /\ bfsStart \in Bfs!Vertices
      /\ bfsQueue = Bfs!enqueue(Bfs!init_queue, bfsStart)
      /\ discovered = {bfsStart} /\ processed = {}
      /\ bfsParent = [x \in Bfs!Vertices |-> -1]
      /\ bfsVertex = bfsStart /\ bfsPlace = Len(bfsEdges[bfsStart]) + 1
  BY DEF Bfs!BfsInit
<1>2. /\ IsQueue(Bfs!init_queue, {0} \cup Bfs!Vertices)
      /\ Contents(Bfs!init_queue) = <<>>
      /\ Bfs!init_queue.count < QUEUESIZE
  BY QueueBegins, BfsQueue, QueueAssumption DEF Bfs!init_queue
<1>3. IsQueue(bfsQueue, {0} \cup Bfs!Vertices)
        /\ Contents(bfsQueue) = Append(<<>>, bfsStart)
  <2>1. bfsStart \in {0} \cup Bfs!Vertices BY <1>1
  <2> QED BY <1>1, <1>2, <2>1, EnqueueAppends, BfsQueue
<1>4. ToVisit = <<bfsStart>> BY <1>3 DEF ToVisit
<1>5. /\ bfsEdges \in [Bfs!Vertices -> Seq(Bfs!Vertices)]
      /\ bfsEdges[bfsStart] \in Seq(Bfs!Vertices)
  BY <1>1, GraphAssumption DEF Bfs!Vertices
<1>6. Len(bfsEdges[bfsStart]) \in Nat BY <1>5
<1>7. Bfs!BfsTypeOK BY <1>1, <1>3, <1>5, <1>6 DEF Bfs!BfsTypeOK, IsQueue
<1>8. Cardinality({bfsStart}) = 1 /\ Cardinality({}) = 0
  BY FS_Singleton, FS_EmptySet
<1>9. QueueOfFound BY <1>1, <1>3, <1>4, <1>8 DEF QueueOfFound
<1>10. [x \in Bfs!Vertices |-> 0] \in [Bfs!Vertices -> Nat] OBVIOUS
<1>11. Levels([x \in Bfs!Vertices |-> 0])
  BY <1>1, <1>4, <1>8 DEF Levels
<1>12. Parents([x \in Bfs!Vertices |-> 0])
        /\ EdgesDone([x \in Bfs!Vertices |-> 0])
  BY <1>1 DEF Parents, EdgesDone
<1> QED BY <1>7, <1>9, <1>10, <1>11, <1>12 DEF BfsIInv

(* The next vertex is visited. *)
LEMMA VertexVisited == ASSUME BfsIInv, Bfs!NextVertex PROVE BfsIInv'
<1>1. PICK lv \in [Bfs!Vertices -> Nat] :
        Levels(lv) /\ Parents(lv) /\ EdgesDone(lv)
  BY DEF BfsIInv
<1>2. Bfs!BfsTypeOK /\ QueueOfFound BY DEF BfsIInv
<1>3. /\ ~Bfs!More /\ ~Bfs!empty_queue(bfsQueue)
      /\ bfsVertex' = Bfs!headq(bfsQueue) /\ bfsQueue' = Bfs!dequeue(bfsQueue)
      /\ processed' = processed \cup {Bfs!headq(bfsQueue)} /\ bfsPlace' = 1
      /\ bfsEdges' = bfsEdges /\ bfsStart' = bfsStart
      /\ discovered' = discovered
      /\ bfsParent' = bfsParent
  BY DEF Bfs!NextVertex
<1>4. /\ IsQueue(bfsQueue', {0} \cup Bfs!Vertices)
      /\ ToVisit # <<>> /\ bfsVertex' = Head(ToVisit)
      /\ ToVisit' = Tail(ToVisit)
  <2>1. IsQueue(bfsQueue, {0} \cup Bfs!Vertices) BY <1>2 DEF QueueOfFound
  <2> QED BY <1>3, <2>1, DequeueTakesHead, BfsQueue DEF ToVisit
<1>5. ToVisit \in Seq({0} \cup Bfs!Vertices)
  BY <1>2, QueueHolds, BfsQueue DEF QueueOfFound, ToVisit
<1> DEFINE W == ToVisit
           n == Len(W)
<1>6. /\ n \in Nat /\ n > 0 /\ bfsVertex' = W[1] /\ Len(ToVisit') = n - 1
      /\ \A i \in 1 .. n - 1 : ToVisit'[i] = W[i + 1]
  BY <1>4, <1>5
<1>7. /\ W[1] \in discovered \ processed /\ W[1] \in Bfs!Vertices
  BY <1>2, <1>6 DEF QueueOfFound, Bfs!BfsTypeOK
<1>8. Bfs!BfsTypeOK'
  <2>1. bfsQueue' \in [q : [0 .. QUEUESIZE -> {0} \cup Bfs!Vertices],
          first : 0 .. QUEUESIZE - 1,
                       last : 0 .. QUEUESIZE - 1, count : 0 .. QUEUESIZE]
    BY <1>4 DEF IsQueue
  <2>2. bfsVertex' \in Bfs!Vertices /\ processed' \subseteq discovered'
    BY <1>2, <1>3, <1>6, <1>7 DEF Bfs!BfsTypeOK
  <2>3. bfsPlace' \in 1 .. Len(bfsEdges'[bfsVertex']) + 1
    BY <1>2, <1>3, <2>2, EdgesType
  <2> QED BY <1>2, <1>3, <2>1, <2>2, <2>3 DEF Bfs!BfsTypeOK, Bfs!Vertices
<1>9. QueueOfFound'
  <2>1. \A i \in 1 .. n - 1 : ToVisit'[i] \in discovered' \ processed'
    <3> TAKE i \in 1 .. n - 1
    <3>1. i + 1 \in 1 .. n /\ 1 \in 1 .. n /\ i + 1 # 1 BY <1>6
    <3>2. W[i + 1] \in discovered \ processed /\ W[i + 1] # W[1]
      BY <1>2, <3>1 DEF QueueOfFound
    <3> QED BY <1>3, <1>6, <3>2
  <2>2. \A i, j \in 1 .. n - 1 : ToVisit'[i] = ToVisit'[j] => i = j
    <3> TAKE i, j \in 1 .. n - 1
    <3>1. i + 1 \in 1 .. n /\ j + 1 \in 1 .. n BY <1>6
    <3>2. W[i + 1] = W[j + 1] => i + 1 = j + 1
      BY <1>2, <3>1 DEF QueueOfFound
    <3> QED BY <1>6, <3>2
  <2>3. \A y \in discovered' \ processed' : \E i \in 1 .. n - 1 :
          ToVisit'[i] = y
    <3> TAKE y \in discovered' \ processed'
    <3>1. y \in discovered \ processed /\ y # W[1] BY <1>3, <1>6
    <3>2. PICK i \in 1 .. n : W[i] = y BY <1>2, <3>1 DEF QueueOfFound
    <3>3. i - 1 \in 1 .. n - 1 /\ (i - 1) + 1 = i BY <1>6, <3>1, <3>2
    <3> QED BY <1>6, <3>2, <3>3
  <2>4. (n - 1) + Cardinality(processed') = Cardinality(discovered')
    <3>1. IsFiniteSet(processed) /\ Cardinality(processed) \in Nat
      BY <1>2, EdgesType
    <3>2. Cardinality(processed') = Cardinality(processed) + 1
      BY <1>3, <1>6, <1>7, <3>1, FS_AddElement
    <3>3. n + Cardinality(processed) = Cardinality(discovered)
      BY <1>2 DEF QueueOfFound
    <3> QED BY <1>3, <1>6, <3>1, <3>2, <3>3
  <2>5. Bfs!Vertices' = Bfs!Vertices BY DEF Bfs!Vertices
  <2> QED BY <1>4, <1>6, <2>1, <2>2, <2>3, <2>4, <2>5 DEF QueueOfFound
<1>10. Levels(lv)'
  <2>1. \A i \in 1 .. n : lv[W[i]] \in Nat /\ W[i] \in Bfs!Vertices
    BY <1>1, <1>2 DEF QueueOfFound, Bfs!BfsTypeOK
  <2>2. lv[bfsVertex] \in Nat /\ lv[W[1]] \in Nat
    BY <1>1, <1>2, <1>7 DEF Bfs!BfsTypeOK
  <2>3. /\ \A i, j \in 1 .. n : i <= j => lv[W[i]] <= lv[W[j]]
        /\ \A i \in 1 .. n :
             lv[bfsVertex] <= lv[W[i]] /\ lv[W[i]] <= lv[bfsVertex] + 1
        /\ \A x \in processed : lv[x] <= lv[bfsVertex]
    BY <1>1 DEF Levels
  <2>4. \A i, j \in 1 .. n - 1 : i <= j => lv[ToVisit'[i]] <= lv[ToVisit'[j]]
    <3> TAKE i, j \in 1 .. n - 1
    <3>1. i + 1 \in 1 .. n /\ j + 1 \in 1 .. n /\ (i <= j => i + 1 <= j + 1)
      BY <1>6
    <3> QED BY <1>6, <2>3, <3>1
  <2>5. \A i \in 1 .. n - 1 : /\ lv[bfsVertex'] <= lv[ToVisit'[i]]
                              /\ lv[ToVisit'[i]] <= lv[bfsVertex'] + 1
    <3> TAKE i \in 1 .. n - 1
    <3>1. i + 1 \in 1 .. n /\ 1 \in 1 .. n /\ 1 <= i + 1 BY <1>6
    <3>2. lv[W[1]] <= lv[W[i + 1]] BY <2>3, <3>1
    <3>3. lv[W[i + 1]] <= lv[bfsVertex] + 1 /\ lv[bfsVertex] <= lv[W[1]]
      BY <2>3, <3>1
    <3>4. lv[W[i + 1]] \in Nat BY <2>1, <3>1
    <3>5. lv[W[i + 1]] <= lv[W[1]] + 1 BY <2>2, <3>3, <3>4
    <3> QED BY <1>6, <3>2, <3>5
  <2>6. \A x \in processed' : lv[x] <= lv[bfsVertex']
    <3> TAKE x \in processed'
    <3>1. x \in processed \/ x = W[1] BY <1>3, <1>6
    <3>2. lv[bfsVertex] <= lv[W[1]] /\ lv[W[1]] <= lv[W[1]] BY <1>6, <2>2, <2>3
    <3>3. x \in processed => lv[x] <= lv[bfsVertex] /\ lv[x] \in Nat
      BY <1>1, <1>2, <2>3 DEF Bfs!BfsTypeOK
    <3> QED BY <1>6, <2>2, <3>1, <3>2, <3>3
  <2>7. bfsVertex' \in discovered' BY <1>3, <1>6, <1>7
  <2>8. /\ lv \in [Bfs!Vertices -> Nat] /\ lv[bfsStart] = 0
        /\ bfsStart \in discovered
        /\ \A y \in discovered : lv[y] < Cardinality(discovered)
    BY <1>1 DEF Levels
  <2> QED BY <1>3, <1>6, <2>4, <2>5, <2>6, <2>7, <2>8 DEF Levels, Bfs!Vertices
<1>11. Parents(lv)' BY <1>1, <1>3 DEF Parents, Bfs!Edge
<1>12. EdgesDone(lv)'
  <2> SUFFICES ASSUME NEW x \in processed', NEW k \in 1 .. Len(bfsEdges[x]),
                      x # bfsVertex' \/ k < 1
               PROVE  bfsEdges[x][k] \in discovered
                     /\ lv[bfsEdges[x][k]] <= lv[x] + 1
    BY <1>3 DEF EdgesDone
  <2>1. x \in processed \/ x = bfsVertex' BY <1>3
  <2>2. x \in Bfs!Vertices BY <1>2, <1>3, <1>6, <1>7, <2>1 DEF Bfs!BfsTypeOK
  <2>3. Len(bfsEdges[x]) \in Nat /\ bfsPlace \in Nat BY <1>2, <2>2, EdgesType
  <2>4. x # bfsVertex' /\ x \in processed BY <2>1, <2>3
  <2>5. x = bfsVertex => k < bfsPlace BY <1>3, <2>3 DEF Bfs!More
  <2> QED BY <1>1, <2>4, <2>5 DEF EdgesDone
<1> QED BY <1>1, <1>8, <1>9, <1>10, <1>11, <1>12 DEF BfsIInv, Bfs!Vertices

(* An edge leads to a vertex that was found before. *)
LEMMA KnownVertex ==
  ASSUME BfsIInv, Bfs!NextEdge, bfsEdges[bfsVertex][bfsPlace] \in discovered
  PROVE  BfsIInv'
<1>1. PICK lv \in [Bfs!Vertices -> Nat] :
        Levels(lv) /\ Parents(lv) /\ EdgesDone(lv)
  BY DEF BfsIInv
<1>2. Bfs!BfsTypeOK /\ QueueOfFound BY DEF BfsIInv
<1>3. /\ bfsPlace <= Len(bfsEdges[bfsVertex]) /\ bfsPlace' = bfsPlace + 1
      /\ bfsEdges' = bfsEdges /\ bfsStart' = bfsStart
      /\ bfsVertex' = bfsVertex /\ processed' = processed
      /\ bfsQueue' = bfsQueue /\ discovered' = discovered
      /\ bfsParent' = bfsParent
  BY DEF Bfs!NextEdge, Bfs!Find, Bfs!More
<1>4. bfsVertex \in Bfs!Vertices /\ bfsPlace \in Nat
        /\ Len(bfsEdges[bfsVertex]) \in Nat /\ bfsPlace >= 1
  BY <1>2, EdgesType DEF Bfs!BfsTypeOK
<1>5. Bfs!BfsTypeOK'
  <2>1. bfsPlace' \in 1 .. Len(bfsEdges[bfsVertex]) + 1 BY <1>3, <1>4
  <2> QED BY <1>2, <1>3, <2>1 DEF Bfs!BfsTypeOK, Bfs!Vertices
<1>6. QueueOfFound' BY <1>2, <1>3 DEF QueueOfFound, ToVisit, Bfs!Vertices
<1>7. Levels(lv)' BY <1>1, <1>3 DEF Levels, ToVisit, Bfs!Vertices
<1>8. Parents(lv)' BY <1>1, <1>3 DEF Parents, Bfs!Edge
<1>9. lv[bfsEdges[bfsVertex][bfsPlace]] <= lv[bfsVertex] + 1
  <2> DEFINE y == bfsEdges[bfsVertex][bfsPlace]
  <2>1. /\ lv[bfsVertex] \in Nat /\ y \in Bfs!Vertices /\ lv[y] \in Nat
    BY <1>1, <1>2, <1>4 DEF Bfs!BfsTypeOK
  <2>2. CASE y \in processed BY <1>1, <2>1, <2>2 DEF Levels
  <2>3. CASE y \notin processed
    <3>1. PICK i \in 1 .. Len(ToVisit) : ToVisit[i] = y
      BY <1>2, <2>3 DEF QueueOfFound
    <3> QED BY <1>1, <3>1 DEF Levels
  <2> QED BY <2>2, <2>3
<1>10. EdgesDone(lv)'
  <2> SUFFICES ASSUME NEW x \in processed, NEW k \in 1 .. Len(bfsEdges[x]),
                      x # bfsVertex \/ k < bfsPlace + 1
               PROVE  bfsEdges[x][k] \in discovered
                     /\ lv[bfsEdges[x][k]] <= lv[x] + 1
    BY <1>3 DEF EdgesDone
  <2>1. x \in Bfs!Vertices /\ Len(bfsEdges[x]) \in Nat
    BY <1>2, EdgesType DEF Bfs!BfsTypeOK
  <2>2. x # bfsVertex \/ k < bfsPlace \/ (x = bfsVertex /\ k = bfsPlace)
    BY <1>4, <2>1
  <2> QED BY <1>1, <1>9, <2>2 DEF EdgesDone
<1> QED BY <1>1, <1>5, <1>6, <1>7, <1>8, <1>10 DEF BfsIInv, Bfs!Vertices

(* An edge leads to a new vertex: it is one level below the vertex visited, and
   no vertex in the queue is deeper. *)
LEMMA VertexFound ==
  ASSUME BfsIInv, Bfs!NextEdge, bfsEdges[bfsVertex][bfsPlace] \notin discovered
  PROVE  BfsIInv'
<1>1. PICK lv \in [Bfs!Vertices -> Nat] :
        Levels(lv) /\ Parents(lv) /\ EdgesDone(lv)
  BY DEF BfsIInv
<1>2. Bfs!BfsTypeOK /\ QueueOfFound BY DEF BfsIInv
<1>3. PICK y : y = bfsEdges[bfsVertex][bfsPlace] OBVIOUS
<1>4. PICK u : u = bfsVertex OBVIOUS
<1>5. /\ bfsPlace <= Len(bfsEdges[bfsVertex]) /\ bfsPlace' = bfsPlace + 1
      /\ bfsEdges' = bfsEdges /\ bfsStart' = bfsStart
      /\ bfsVertex' = bfsVertex /\ processed' = processed
      /\ bfsQueue' = Bfs!enqueue(bfsQueue, y)
      /\ discovered' = discovered \cup {y}
      /\ bfsParent' = [bfsParent EXCEPT ![y] = bfsVertex] /\ y \notin discovered
  BY <1>3 DEF Bfs!NextEdge, Bfs!Find, Bfs!More
<1>6. bfsVertex \in Bfs!Vertices /\ bfsPlace \in Nat
        /\ Len(bfsEdges[bfsVertex]) \in Nat /\ bfsPlace >= 1
  BY <1>2, EdgesType DEF Bfs!BfsTypeOK
<1>7. y \in Bfs!Vertices /\ Bfs!Edge(u, y)
  <2>1. bfsPlace \in 1 .. Len(bfsEdges[bfsVertex]) BY <1>5, <1>6
  <2> QED BY <1>2, <1>3, <1>4, <1>6, <2>1, EdgesType DEF Bfs!Edge
<1>8. /\ IsFiniteSet(discovered) /\ Cardinality(discovered) \in Nat
      /\ Cardinality(processed) \in Nat
      /\ Cardinality(discovered) < nvertices
      /\ Cardinality(discovered') = Cardinality(discovered) + 1
  <2>1. /\ IsFiniteSet(discovered) /\ Cardinality(discovered) \in Nat
        /\ Cardinality(processed) \in Nat
        /\ IsFiniteSet(Bfs!Vertices) /\ Cardinality(Bfs!Vertices) = nvertices
    BY <1>2, EdgesType
  <2>2. Cardinality(discovered \cup {y}) = Cardinality(discovered) + 1
    BY <1>5, <2>1, FS_AddElement
  <2>3. discovered \cup {y} \subseteq Bfs!Vertices
    BY <1>2, <1>7 DEF Bfs!BfsTypeOK
  <2>4. Cardinality(discovered \cup {y}) <= nvertices BY <2>1, <2>3, FS_Subset
  <2>5. nvertices \in Nat BY GraphAssumption
  <2> QED BY <1>5, <2>1, <2>2, <2>4, <2>5
<1> DEFINE W == ToVisit
           n == Len(W)
<1>9. /\ W \in Seq({0} \cup Bfs!Vertices) /\ n \in Nat /\ n = bfsQueue.count
      /\ n + Cardinality(processed) = Cardinality(discovered)
  BY <1>2, QueueHolds, BfsQueue DEF QueueOfFound, ToVisit
<1>10. /\ IsQueue(bfsQueue', {0} \cup Bfs!Vertices) /\ ToVisit' = Append(W, y)
  <2>1. n < QUEUESIZE BY <1>8, <1>9, GraphAssumption, QueueAssumption
  <2>2. IsQueue(bfsQueue, {0} \cup Bfs!Vertices) BY <1>2 DEF QueueOfFound
  <2>3. y \in {0} \cup Bfs!Vertices BY <1>7
  <2> QED BY <1>5, <1>9, <2>1, <2>2, <2>3, EnqueueAppends, BfsQueue DEF ToVisit
<1>11. /\ Len(ToVisit') = n + 1 /\ ToVisit'[n + 1] = y
       /\ \A i \in 1 .. n : ToVisit'[i] = W[i]
  <2> HIDE DEF W
  <2> QED BY <1>7, <1>9, <1>10
<1> DEFINE lw == [lv EXCEPT ![y] = lv[u] + 1]
<1>12. /\ lw \in [Bfs!Vertices -> Nat] /\ lw[y] = lv[bfsVertex] + 1
       /\ lv[bfsVertex] \in Nat
       /\ \A x \in Bfs!Vertices \ {y} : lw[x] = lv[x]
       /\ \A x \in discovered : lw[x] = lv[x]
       /\ lw[bfsVertex] = lv[bfsVertex] /\ bfsVertex \in discovered
       /\ \A x \in discovered : lv[x] \in Nat
  <2>1. bfsVertex \in discovered BY <1>1 DEF Levels
  <2>2. discovered \subseteq Bfs!Vertices BY <1>2 DEF Bfs!BfsTypeOK
  <2>3. \A x \in discovered : x # y BY <1>5
  <2> QED BY <1>1, <1>4, <1>6, <1>7, <2>1, <2>2, <2>3
<1> HIDE DEF lw
<1>13. Bfs!BfsTypeOK'
  <2>1. bfsPlace' \in 1 .. Len(bfsEdges[bfsVertex]) + 1 BY <1>5, <1>6
  <2>2. bfsParent' \in [Bfs!Vertices -> {-1} \cup Bfs!Vertices]
    BY <1>2, <1>5, <1>6, <1>7 DEF Bfs!BfsTypeOK
  <2>3. bfsQueue' \in [q : [0 .. QUEUESIZE -> {0} \cup Bfs!Vertices],
          first : 0 .. QUEUESIZE - 1,
                       last : 0 .. QUEUESIZE - 1, count : 0 .. QUEUESIZE]
    BY <1>10 DEF IsQueue
  <2>4. processed' \subseteq discovered' /\ discovered' \subseteq Bfs!Vertices
    BY <1>2, <1>5, <1>7 DEF Bfs!BfsTypeOK
  <2>5. bfsEdges' = bfsEdges /\ bfsEdges \in [Bfs!Vertices -> Seq(Bfs!Vertices)]
    BY <1>2, <1>5 DEF Bfs!BfsTypeOK
  <2>6. bfsStart' \in Bfs!Vertices /\ bfsVertex' \in Bfs!Vertices
    BY <1>2, <1>5 DEF Bfs!BfsTypeOK
  <2> QED BY <1>5, <2>1, <2>2, <2>3, <2>4, <2>5, <2>6
          DEF Bfs!BfsTypeOK, Bfs!Vertices
<1>14. QueueOfFound'
  <2>1. \A i \in 1 .. n : W[i] \in discovered \ processed
    BY <1>2 DEF QueueOfFound
  <2>2. y \notin processed BY <1>2, <1>5 DEF Bfs!BfsTypeOK
  <2>3. \A i \in 1 .. n + 1 : ToVisit'[i] \in discovered' \ processed'
    <3> TAKE i \in 1 .. n + 1
    <3>1. i \in 1 .. n \/ i = n + 1 BY <1>9
    <3> QED BY <1>5, <1>11, <2>1, <2>2, <3>1
  <2>4. \A i, j \in 1 .. n + 1 : ToVisit'[i] = ToVisit'[j] => i = j
    <3> TAKE i, j \in 1 .. n + 1
    <3>1. i \in 1 .. n \/ i = n + 1 BY <1>9
    <3>2. j \in 1 .. n \/ j = n + 1 BY <1>9
    <3>3. \A k, l \in 1 .. n : W[k] = W[l] => k = l
      BY <1>2 DEF QueueOfFound
    <3>4. \A k \in 1 .. n : W[k] # y BY <1>5, <2>1
    <3> QED BY <1>11, <3>1, <3>2, <3>3, <3>4
  <2>5. \A z \in discovered' \ processed' : \E i \in 1 .. n + 1 :
          ToVisit'[i] = z
    <3> TAKE z \in discovered' \ processed'
    <3>1. CASE z = y BY <1>9, <1>11, <3>1
    <3>2. CASE z # y
      <4>1. z \in discovered \ processed BY <1>5, <3>2
      <4>2. PICK i \in 1 .. n : W[i] = z BY <1>2, <4>1 DEF QueueOfFound
      <4>3. i \in 1 .. n + 1 BY <1>9
      <4> QED BY <1>11, <4>2, <4>3
    <3> QED BY <3>1, <3>2
  <2>6. (n + 1) + Cardinality(processed') = Cardinality(discovered')
    BY <1>5, <1>8, <1>9
  <2> QED BY <1>10, <1>11, <2>3, <2>4, <2>5, <2>6 DEF QueueOfFound, Bfs!Vertices
<1>15. Levels(lw)'
  <2>1. \A i \in 1 .. n : /\ W[i] \in discovered /\ lw[W[i]] = lv[W[i]]
                          /\ lv[W[i]] \in Nat
    BY <1>2, <1>12 DEF QueueOfFound
  <2>2. /\ \A i, j \in 1 .. n : i <= j => lv[W[i]] <= lv[W[j]]
        /\ \A i \in 1 .. n :
             lv[bfsVertex] <= lv[W[i]] /\ lv[W[i]] <= lv[bfsVertex] + 1
        /\ \A x \in processed : lv[x] <= lv[bfsVertex]
        /\ lv[bfsStart] = 0 /\ bfsStart \in discovered
        /\ \A x \in discovered : lv[x] < Cardinality(discovered)
    BY <1>1 DEF Levels
  <2>3. \A i, j \in 1 .. n + 1 : i <= j => lw[ToVisit'[i]] <= lw[ToVisit'[j]]
    <3> TAKE i, j \in 1 .. n + 1
    <3>1. CASE j \in 1 .. n
      <4>1. i <= j => i \in 1 .. n BY <1>9, <3>1
      <4> QED BY <1>11, <2>1, <2>2, <3>1, <4>1
    <3>2. CASE j = n + 1
      <4>1. lw[ToVisit'[j]] = lv[bfsVertex] + 1 BY <1>11, <1>12, <3>2
      <4>2. i \in 1 .. n => lw[ToVisit'[i]] <= lv[bfsVertex] + 1
        BY <1>11, <2>1, <2>2
      <4>3. i = n + 1 => lw[ToVisit'[i]] <= lv[bfsVertex] + 1
        BY <1>11, <1>12
      <4>4. i \in 1 .. n \/ i = n + 1 BY <1>9
      <4> QED BY <4>1, <4>2, <4>3, <4>4
    <3>3. j \in 1 .. n \/ j = n + 1 BY <1>9
    <3> QED BY <3>1, <3>2, <3>3
  <2>4. \A i \in 1 .. n + 1 : /\ lw[bfsVertex'] <= lw[ToVisit'[i]]
                              /\ lw[ToVisit'[i]] <= lw[bfsVertex'] + 1
    <3> TAKE i \in 1 .. n + 1
    <3>1. i \in 1 .. n => /\ lw[bfsVertex] <= lw[ToVisit'[i]]
                          /\ lw[ToVisit'[i]] <= lw[bfsVertex] + 1
      BY <1>11, <1>12, <2>1, <2>2
    <3>2. i = n + 1 => /\ lw[bfsVertex] <= lw[ToVisit'[i]]
                       /\ lw[ToVisit'[i]] <= lw[bfsVertex] + 1
      BY <1>11, <1>12
    <3>3. i \in 1 .. n \/ i = n + 1 BY <1>9
    <3> QED BY <1>5, <3>1, <3>2, <3>3
  <2>5. \A x \in processed' : lw[x] <= lw[bfsVertex']
    <3>1. processed \subseteq discovered BY <1>2 DEF Bfs!BfsTypeOK
    <3> QED BY <1>5, <1>12, <2>2, <3>1
  <2>6. \A x \in discovered' : lw[x] < Cardinality(discovered')
    <3> TAKE x \in discovered'
    <3>1. x \in discovered \/ x = y BY <1>5
    <3>2. lv[bfsVertex] < Cardinality(discovered) BY <1>12, <2>2
    <3>3. x \in discovered => lw[x] < Cardinality(discovered) + 1
      BY <1>8, <1>12, <2>2
    <3>4. x = y => lw[x] < Cardinality(discovered) + 1
      BY <1>8, <1>12, <3>2
    <3> QED BY <1>8, <3>1, <3>3, <3>4
  <2>7. lw[bfsStart'] = 0 /\ bfsStart' \in discovered'
          /\ bfsVertex' \in discovered'
    BY <1>5, <1>12, <2>2
  <2> QED BY <1>11, <1>12, <2>3, <2>4, <2>5, <2>6, <2>7 DEF Levels, Bfs!Vertices
<1>16. Parents(lw)'
  <2> SUFFICES ASSUME NEW z \in discovered', z # bfsStart
               PROVE  /\ bfsParent'[z] \in discovered'
                      /\ Bfs!Edge(bfsParent'[z], z)
                      /\ lw[z] = lw[bfsParent'[z]] + 1
    BY <1>5 DEF Parents, Bfs!Edge
  <2>1. bfsParent \in [Bfs!Vertices -> {-1} \cup Bfs!Vertices]
    BY <1>2 DEF Bfs!BfsTypeOK
  <2>2. CASE z = y
    <3>1. bfsParent'[z] = bfsVertex BY <1>5, <1>7, <2>1, <2>2
    <3> QED BY <1>4, <1>5, <1>7, <1>12, <2>2, <3>1
  <2>3. CASE z # y
    <3>1. z \in discovered /\ z \in Bfs!Vertices
      BY <1>2, <1>5, <2>3 DEF Bfs!BfsTypeOK
    <3>2. bfsParent'[z] = bfsParent[z] BY <1>5, <2>1, <2>3, <3>1
    <3>3. /\ bfsParent[z] \in discovered /\ Bfs!Edge(bfsParent[z], z)
          /\ lv[z] = lv[bfsParent[z]] + 1
      BY <1>1, <3>1 DEF Parents
    <3> QED BY <1>5, <1>12, <3>1, <3>2, <3>3
  <2> QED BY <2>2, <2>3
<1>17. EdgesDone(lw)'
  <2> SUFFICES ASSUME NEW x \in processed, NEW k \in 1 .. Len(bfsEdges[x]),
                      x # bfsVertex \/ k < bfsPlace + 1
               PROVE  /\ bfsEdges[x][k] \in discovered'
                      /\ lw[bfsEdges[x][k]] <= lw[x] + 1
    BY <1>5 DEF EdgesDone
  <2>1. x \in Bfs!Vertices /\ Len(bfsEdges[x]) \in Nat /\ x \in discovered
    BY <1>2, EdgesType DEF Bfs!BfsTypeOK
  <2>2. CASE x # bfsVertex \/ k < bfsPlace
    <3>1. bfsEdges[x][k] \in discovered /\ lv[bfsEdges[x][k]] <= lv[x] + 1
      BY <1>1, <2>2 DEF EdgesDone
    <3> QED BY <1>5, <1>12, <2>1, <3>1
  <2>3. CASE x = bfsVertex /\ k = bfsPlace
    <3>1. lw[y] <= lw[bfsVertex] + 1 BY <1>12
    <3> QED BY <1>3, <1>5, <2>3, <3>1
  <2> QED BY <1>6, <2>1, <2>2, <2>3
<1> QED BY <1>12, <1>13, <1>14, <1>15, <1>16, <1>17 DEF BfsIInv, Bfs!Vertices

(* Every step keeps it. *)
LEMMA BfsIInvKept == BfsIInv /\ [Bfs!BfsNext]_(Bfs!bfsVars) => BfsIInv'
<1> SUFFICES ASSUME BfsIInv, [Bfs!BfsNext]_(Bfs!bfsVars) PROVE BfsIInv' OBVIOUS
<1>1. CASE Bfs!NextVertex BY <1>1, VertexVisited
<1>2. CASE Bfs!NextEdge BY <1>2, KnownVertex, VertexFound
<1>3. CASE UNCHANGED Bfs!bfsVars
  <2>1. UNCHANGED <<bfsEdges, bfsStart, bfsQueue, bfsVertex, bfsPlace, discovered,
                    processed, bfsParent>>
    BY <1>3 DEF Bfs!bfsVars
  <2>2. Bfs!BfsTypeOK' BY <2>1 DEF BfsIInv, Bfs!BfsTypeOK
  <2>3. ToVisit' = ToVisit BY <2>1 DEF ToVisit
  <2>4. QueueOfFound' BY <2>1, <2>3 DEF BfsIInv, QueueOfFound
  <2>5. PICK lv \in [Bfs!Vertices -> Nat] :
          Levels(lv) /\ Parents(lv) /\ EdgesDone(lv)
    BY DEF BfsIInv
  <2>6. Levels(lv)' BY <2>1, <2>3, <2>5 DEF Levels
  <2>7. Parents(lv)' BY <2>1, <2>5 DEF Parents, Bfs!Edge
  <2>8. EdgesDone(lv)' BY <2>1, <2>5 DEF EdgesDone
  <2> QED BY <2>2, <2>4, <2>5, <2>6, <2>7, <2>8 DEF BfsIInv
<1> QED BY <1>1, <1>2, <1>3 DEF Bfs!BfsNext

(* A path of n + 1 vertices leads to a vertex of a level of n at most. *)
LEMMA PathsLeadToLevels ==
  ASSUME BfsIInv, Bfs!Finished, NEW lv, Levels(lv), EdgesDone(lv),
         NEW n \in Nat \ {0}, NEW y, Bfs!PathTo(y, n)
  PROVE  y \in discovered /\ lv[y] <= n - 1
<1>1. Bfs!BfsTypeOK /\ QueueOfFound BY DEF BfsIInv
<1>2. PICK s \in [1 .. n -> Bfs!Vertices] :
        /\ s[1] = bfsStart /\ s[n] = y
        /\ \A k \in 1 .. n - 1 : Bfs!Edge(s[k], s[k + 1])
  BY DEF Bfs!PathTo
<1>3. n > 0 OBVIOUS
<1>4. discovered \subseteq processed
  <2>1. ToVisit = <<>>
    BY <1>1, QueueHolds, BfsQueue DEF Bfs!Finished, QueueOfFound, ToVisit
  <2> QED BY <1>1, <2>1 DEF QueueOfFound
<1> DEFINE T == {k \in Nat : k + 1 <= n => /\ s[k + 1] \in discovered
                                          /\ lv[s[k + 1]] <= k}
<1>5. 0 \in T BY <1>2 DEF Levels
<1>6. \A k \in Nat : k \in T => k + 1 \in T
  <2> SUFFICES ASSUME NEW k \in Nat, k \in T, k + 2 <= n
               PROVE  s[k + 2] \in discovered /\ lv[s[k + 2]] <= k + 1
    OBVIOUS
  <2>1. k + 1 \in 1 .. n - 1 /\ (k + 1) + 1 = k + 2 OBVIOUS
  <2>2. s[k + 1] \in discovered /\ lv[s[k + 1]] <= k OBVIOUS
  <2>3. PICK j \in 1 .. Len(bfsEdges[s[k + 1]]) :
          bfsEdges[s[k + 1]][j] = s[k + 2]
    BY <1>2, <2>1 DEF Bfs!Edge
  <2>4. s[k + 1] # bfsVertex \/ j < bfsPlace
    <3>1. bfsVertex \in Bfs!Vertices /\ Len(bfsEdges[bfsVertex]) \in Nat
            /\ bfsPlace \in Nat
      BY <1>1, EdgesType
    <3>2. bfsPlace > Len(bfsEdges[bfsVertex]) BY <3>1 DEF Bfs!Finished, Bfs!More
    <3> QED BY <2>3, <3>1, <3>2
  <2>5. /\ s[k + 2] \in discovered /\ lv[s[k + 2]] <= lv[s[k + 1]] + 1
    BY <1>4, <2>2, <2>3, <2>4 DEF EdgesDone
  <2>6. lv[s[k + 1]] \in Nat /\ lv[s[k + 2]] \in Nat
    BY <1>1, <2>2, <2>5 DEF Levels, Bfs!BfsTypeOK
  <2> QED BY <2>2, <2>5, <2>6
<1>7. Nat \subseteq T
  <2> HIDE DEF T
  <2> QED BY <1>5, <1>6, Induct
<1>8. n - 1 \in T /\ (n - 1) + 1 = n BY <1>3, <1>7
<1> QED BY <1>2, <1>3, <1>8

(* To each vertex found the parents give a path as long as its level. *)
LEMMA LevelsHavePaths ==
  ASSUME BfsIInv, NEW lv, Levels(lv), Parents(lv),
         NEW y \in discovered
  PROVE  Bfs!find_path(y, lv[y] + 1)
<1>1. Bfs!BfsTypeOK BY DEF BfsIInv
<1>2. discovered \subseteq Bfs!Vertices /\ lv \in [Bfs!Vertices -> Nat]
  BY <1>1 DEF Bfs!BfsTypeOK, Levels
<1> DEFINE T == {n \in Nat : \A z \in discovered :
                              lv[z] = n => Bfs!find_path(z, n + 1)}
<1>3. 0 \in T
  <2> SUFFICES ASSUME NEW z \in discovered, lv[z] = 0 PROVE Bfs!find_path(z, 1)
    OBVIOUS
  <2>1. z = bfsStart
    <3>1. ASSUME z # bfsStart PROVE FALSE
      <4>1. bfsParent[z] \in discovered /\ lv[z] = lv[bfsParent[z]] + 1
        BY <3>1 DEF Parents
      <4> QED BY <1>2, <4>1
    <3> QED BY <3>1
  <2> DEFINE s == [k \in 1 .. 1 |-> bfsStart]
  <2>2. s \in [1 .. 1 -> Bfs!Vertices] /\ s[1] = bfsStart BY <1>2, <2>1
  <2> HIDE DEF s
  <2> QED BY <2>1, <2>2 DEF Bfs!find_path
<1>4. \A n \in Nat : n \in T => n + 1 \in T
  <2> SUFFICES ASSUME NEW n \in Nat, n \in T,
                      NEW z \in discovered, lv[z] = n + 1
               PROVE  Bfs!find_path(z, n + 2)
    OBVIOUS
  <2>1. z # bfsStart BY DEF Levels
  <2>2. /\ bfsParent[z] \in discovered /\ Bfs!Edge(bfsParent[z], z)
        /\ lv[z] = lv[bfsParent[z]] + 1
    BY <2>1 DEF Parents
  <2>3. lv[bfsParent[z]] = n BY <1>2, <2>2
  <2>4. Bfs!find_path(bfsParent[z], n + 1) BY <2>2, <2>3
  <2>5. PICK s \in [1 .. n + 1 -> Bfs!Vertices] :
          /\ s[1] = bfsStart /\ s[n + 1] = bfsParent[z]
          /\ \A k \in 1 .. n : /\ bfsParent[s[k + 1]] = s[k]
                                /\ Bfs!Edge(s[k], s[k + 1])
    BY <2>4 DEF Bfs!find_path
  <2> DEFINE w == [k \in 1 .. n + 2 |-> IF k <= n + 1 THEN s[k] ELSE z]
  <2>6. /\ w \in [1 .. n + 2 -> Bfs!Vertices] /\ w[n + 2] = z
        /\ \A k \in 1 .. n + 1 : w[k] = s[k]
    BY <1>2
  <2> HIDE DEF w
  <2>7. w[1] = bfsStart BY <2>5, <2>6
  <2>8. \A k \in 1 .. n + 1 :
          bfsParent[w[k + 1]] = w[k] /\ Bfs!Edge(w[k], w[k + 1])
    <3> TAKE k \in 1 .. n + 1
    <3>1. CASE k \in 1 .. n
      <4>1. k + 1 \in 1 .. n + 1 BY <3>1
      <4> QED BY <2>5, <2>6, <3>1, <4>1
    <3>2. CASE k = n + 1
      <4>1. w[k] = bfsParent[z] /\ w[k + 1] = z BY <2>5, <2>6, <3>2
      <4> QED BY <2>2, <4>1
    <3> QED BY <3>1, <3>2
  <2>9. n + 2 - 1 = n + 1 OBVIOUS
  <2> QED BY <2>6, <2>7, <2>8, <2>9 DEF Bfs!find_path
<1>5. Nat \subseteq T
  <2> HIDE DEF T
  <2> QED BY <1>3, <1>4, Induct
<1> QED BY <1>2, <1>5

(* At the end the levels are the distances from the start. *)
LEMMA BfsIsRight == BfsIInv => Bfs!FindsShortestPaths
<1> SUFFICES ASSUME BfsIInv, Bfs!Finished
             PROVE  /\ discovered = {y \in Bfs!Vertices :
                                       \E n \in 1 .. nvertices :
                                             Bfs!PathTo(y, n)}
                    /\ \A y \in discovered : \E n \in 1 .. nvertices :
                         Bfs!find_path(y, n) /\ \A m \in 1 .. n - 1 :
                               ~Bfs!PathTo(y, m)
  BY DEF Bfs!FindsShortestPaths
<1>1. PICK lv \in [Bfs!Vertices -> Nat] :
        Levels(lv) /\ Parents(lv) /\ EdgesDone(lv)
  BY DEF BfsIInv
<1>2. Bfs!BfsTypeOK /\ discovered \subseteq Bfs!Vertices
  BY DEF BfsIInv, Bfs!BfsTypeOK
<1>3. nvertices \in Nat BY GraphAssumption
<1>4. \A y \in discovered : lv[y] \in Nat /\ lv[y] + 1 \in 1 .. nvertices
  <2> TAKE y \in discovered
  <2>1. /\ IsFiniteSet(Bfs!Vertices) /\ Cardinality(Bfs!Vertices) = nvertices
        /\ Cardinality(discovered) \in Nat
    BY <1>2, EdgesType
  <2>2. Cardinality(discovered) <= nvertices BY <1>2, <2>1, FS_Subset
  <2>3. lv[y] \in Nat /\ lv[y] < Cardinality(discovered)
    BY <1>1, <1>2 DEF Levels
  <2> QED BY <1>3, <2>1, <2>2, <2>3
<1>5. \A y \in discovered : Bfs!find_path(y, lv[y] + 1)
  BY <1>1, LevelsHavePaths
<1>6. \A y, n : Bfs!find_path(y, n) => Bfs!PathTo(y, n)
  BY DEF Bfs!find_path, Bfs!PathTo
<1>7. \A n \in Nat \ {0} : \A y :
        Bfs!PathTo(y, n) => y \in discovered /\ lv[y] <= n - 1
  BY <1>1, PathsLeadToLevels
<1>8. discovered =
        {y \in Bfs!Vertices : \E n \in 1 .. nvertices : Bfs!PathTo(y, n)}
  BY <1>2, <1>3, <1>4, <1>5, <1>6, <1>7
<1>9. ASSUME NEW y \in discovered
      PROVE  \E n \in 1 .. nvertices :
               Bfs!find_path(y, n) /\ \A m \in 1 .. n - 1 : ~Bfs!PathTo(y, m)
  <2>1. \A m \in 1 .. (lv[y] + 1) - 1 : ~Bfs!PathTo(y, m)
    BY <1>4, <1>7
  <2> QED BY <1>4, <1>5, <2>1
<1> QED BY <1>8, <1>9

(* On any graph that has at most QUEUESIZE vertices the search finds what can be
   reached from the start, each along a shortest path (bfs_dfs.c 34-63). *)
THEOREM ShortestPaths == Bfs!BfsSpec => []Bfs!FindsShortestPaths
<1>1. Bfs!BfsInit => BfsIInv BY BfsStarts
<1> QED BY <1>1, BfsIInvKept, BfsIsRight, PTL DEF Bfs!BfsSpec
-----------------------------------------------------------------------------
(* The queue of the instance is the queue. *)
LEMMA TopQueue ==
  /\ Top!init_queue = init_queue
  /\ \A a : /\ (Top!empty_queue(a) <=> empty_queue(a))
            /\ Top!headq(a) = headq(a) /\ Top!dequeue(a) = dequeue(a)
  /\ \A a, z : Top!enqueue(a, z) = enqueue(a, z)
BY DEF Top!init_queue, init_queue, Top!empty_queue, empty_queue, Top!headq,
     headq, Top!dequeue, dequeue, Top!enqueue, enqueue

(* The vertices found free of edges, those of them that wait, and those that
   are sorted. *)
Free == {y \in Top!Vertices : y < topCounter /\ indegree[y] = 0}
Row  == Contents(zeroin)
Done == {y \in Top!Vertices : \E k \in 1 .. Len(sorted) : sorted[k] = y}

(* The edges that are not removed yet, and those of them that lead to y. *)
NotRemoved == {a \in Top!Arcs : a[1] \notin Done \/ (a[1] = topVertex
      /\ a[2] >= topPlace)}
Into(y)   == {a \in NotRemoved : topEdges[a[1]][a[2]] = y}

(* The vertices without edges to them that are counted and not sorted wait in
   the row, once each. *)
FreeWait ==
  /\ IsQueue(zeroin, {0} \cup Top!Vertices)
  /\ \A k \in 1 .. Len(Row) : Row[k] \in Free \ Done
  /\ \A j, k \in 1 .. Len(Row) : Row[j] = Row[k] => j = k
  /\ \A y \in Free \ Done : \E k \in 1 .. Len(Row) : Row[k] = y
  /\ Done \subseteq Free
  /\ Len(Row) + Len(sorted) = Cardinality(Free)
  /\ \A j, k \in 1 .. Len(sorted) : sorted[j] = sorted[k] => j = k

(* indegree counts the edges that are not removed. *)
EdgesCounted == \A y \in Top!Vertices : indegree[y] = Cardinality(Into(y))

(* What is sorted comes after all that have an edge to it. *)
SortedInOrder ==
  /\ Top!More => topVertex \in Done /\ topCounter > nvertices
  /\ \A k \in 1 .. Len(sorted) : \A u \in Top!Vertices :
       Top!Edge(u, sorted[k]) => \E j \in 1 .. k - 1 : sorted[j] = u

(* The inductive invariant. *)
TopIInv == Top!TopTypeOK /\ FreeWait /\ EdgesCounted /\ SortedInOrder

(* What follows from the types. *)
LEMMA TopTypes ==
  ASSUME Top!TopTypeOK
  PROVE  /\ IsFiniteSet(Top!Vertices) /\ Cardinality(Top!Vertices) = nvertices
         /\ \A u \in Top!Vertices : Len(topEdges[u]) \in Nat
         /\ \A u \in Top!Vertices : \A k \in 1 .. Len(topEdges[u]) :
              topEdges[u][k] \in Top!Vertices
         /\ topPlace \in Nat /\ topVertex \in Top!Vertices
         /\ Len(topEdges[topVertex]) \in Nat /\ topPlace >= 1
         /\ topCounter \in Nat /\ nvertices \in Nat
         /\ sorted \in Seq(Top!Vertices) /\ Len(sorted) \in Nat
         /\ \A k \in 1 .. Len(sorted) : sorted[k] \in Top!Vertices
         /\ IsFiniteSet(Free) /\ Cardinality(Free) \in Nat
         /\ Free \subseteq Top!Vertices
<1>1. IsFiniteSet(Top!Vertices) /\ Cardinality(Top!Vertices) = nvertices
  BY FS_Interval, GraphAssumption DEF Top!Vertices
<1>2. \A u \in Top!Vertices : topEdges[u] \in Seq(Top!Vertices)
  BY GraphAssumption DEF Top!TopTypeOK, Top!Vertices
<1>3. \A s \in Seq(Top!Vertices) : Len(s) \in Nat /\ \A k \in 1 .. Len(s) :
        s[k] \in Top!Vertices
  OBVIOUS
<1>4. topVertex \in Top!Vertices
        /\ topPlace \in 1 .. Len(topEdges[topVertex]) + 1
  BY DEF Top!TopTypeOK
<1>5. topPlace \in Nat /\ topPlace >= 1 BY <1>2, <1>3, <1>4
<1>6. Free \subseteq Top!Vertices BY DEF Free
<1>7. IsFiniteSet(Free) BY <1>1, <1>6, FS_Subset
<1>8. Cardinality(Free) \in Nat BY <1>7, FS_CardinalityType
<1>9. nvertices \in Nat /\ topCounter \in Nat
  BY GraphAssumption DEF Top!TopTypeOK
<1>10. sorted \in Seq(Top!Vertices) BY DEF Top!TopTypeOK
<1> QED BY <1>1, <1>2, <1>3, <1>4, <1>5, <1>6, <1>7, <1>8, <1>9, <1>10

(* There are finitely many edges. *)
LEMMA FiniteArcs == ASSUME topEdges \in [Top!Vertices -> Seq(Top!Vertices)]
                    PROVE  IsFiniteSet(Top!Arcs)
<1>1. \A u \in Top!Vertices : Len(topEdges[u]) \in Nat
  <2>1. \A s \in Seq(Top!Vertices) : Len(s) \in Nat OBVIOUS
  <2> QED BY <2>1
<1>2. IsFiniteSet(Top!Vertices) BY FS_Interval, GraphAssumption DEF Top!Vertices
<1>3. \A u \in Top!Vertices : IsFiniteSet({u} \X (1 .. Len(topEdges[u])))
  <2> TAKE u \in Top!Vertices
  <2>1. IsFiniteSet(1 .. Len(topEdges[u])) BY <1>1, FS_Interval
  <2>2. IsFiniteSet({u}) BY FS_Singleton
  <2> QED BY <2>1, <2>2, FS_Product
<1> DEFINE A == {{u} \X (1 .. Len(topEdges[u])) : u \in Top!Vertices}
<1> DEFINE f == [u \in Top!Vertices |-> {u} \X (1 .. Len(topEdges[u]))]
<1>4. f \in Surjection(Top!Vertices, A) BY DEF Surjection
<1>5. IsFiniteSet(A) BY <1>2, <1>4, FS_Surjection
<1>6. \A a \in A : IsFiniteSet(a) BY <1>3
<1> QED BY <1>5, <1>6, FS_UNION DEF Top!Arcs

(* The edges to a vertex are finitely many. *)
LEMMA FiniteInto ==
  ASSUME Top!TopTypeOK, NEW y
  PROVE  /\ IsFiniteSet(Top!Arcs) /\ IsFiniteSet(Into(y))
         /\ Cardinality(Into(y)) \in Nat
         /\ Cardinality(Into(y)) = 0 <=> Into(y) = {}
<1>1. topEdges \in [Top!Vertices -> Seq(Top!Vertices)]
  BY GraphAssumption DEF Top!TopTypeOK, Top!Vertices
<1>2. IsFiniteSet(Top!Arcs) BY <1>1, FiniteArcs
<1>3. Into(y) \subseteq Top!Arcs BY DEF Into, NotRemoved
<1>4. IsFiniteSet(Into(y)) BY <1>2, <1>3, FS_Subset
<1> QED BY <1>2, <1>4, FS_CardinalityType, FS_EmptySet

(* An edge is an arc. *)
LEMMA ArcOf ==
  ASSUME Top!TopTypeOK
  PROVE  /\ \A a \in Top!Arcs : /\ a[1] \in Top!Vertices
                                /\ a[2] \in 1 .. Len(topEdges[a[1]])
                                /\ a = <<a[1], a[2]>>
         /\ \A u \in Top!Vertices : \A k \in 1 .. Len(topEdges[u]) :
              <<u, k>> \in Top!Arcs
BY DEF Top!Arcs

(* Sets have the same size in the instance. *)
LEMMA TopCardinality == \A S : Top!Cardinality(S) = Cardinality(S)
BY DEF Top!Cardinality, Cardinality

(* It holds at first. *)
LEMMA TopStarts == ASSUME Top!TopInit PROVE TopIInv
<1>1. /\ topEdges \in DirectedGraphs /\ indegree = Top!compute_indegrees
      /\ zeroin = Top!init_queue /\ topCounter = 1 /\ sorted = <<>>
      /\ topVertex = 1 /\ topPlace = Len(topEdges[1]) + 1
  BY DEF Top!TopInit
<1>2. /\ IsQueue(zeroin, {0} \cup Top!Vertices) /\ Row = <<>>
  BY <1>1, QueueBegins, TopQueue DEF Row
<1>3. /\ 1 \in Top!Vertices /\ topEdges \in [Top!Vertices -> Seq(Top!Vertices)]
      /\ nvertices \in Nat /\ nvertices > 0
  BY <1>1, GraphAssumption DEF Top!Vertices
<1>4. \A s \in Seq(Top!Vertices) : Len(s) \in Nat OBVIOUS
<1>5. Len(topEdges[1]) \in Nat BY <1>3, <1>4
<1>6. Done = {} BY <1>1 DEF Done
<1>7. NotRemoved = Top!Arcs BY <1>6 DEF NotRemoved
<1>8. \A y \in Top!Vertices : /\ Into(y) = {a \in Top!Arcs : topEdges[a[1]][a[2]] = y}
                              /\ indegree[y] = Cardinality(Into(y))
  BY <1>1, <1>7, TopCardinality DEF Into, Top!compute_indegrees
<1>9. \A y : Cardinality(Into(y)) \in Nat
  <2> TAKE y
  <2>1. IsFiniteSet(Top!Arcs) BY <1>3, FiniteArcs
  <2>2. Into(y) \subseteq Top!Arcs BY DEF Into, NotRemoved
  <2> QED BY <2>1, <2>2, FS_Subset, FS_CardinalityType
<1>10. Top!TopTypeOK
  <2>1. indegree \in [Top!Vertices -> Nat]
    BY <1>1, <1>8, <1>9 DEF Top!compute_indegrees
  <2>2. zeroin \in [q : [0 .. QUEUESIZE -> {0} \cup Top!Vertices],
                   first : 0 .. QUEUESIZE - 1, last : 0 .. QUEUESIZE - 1,
                   count : 0 .. QUEUESIZE]
    BY <1>2 DEF IsQueue
  <2>3. sorted \in Seq(Top!Vertices) /\ Len(sorted) = 0 BY <1>1
  <2>4. topPlace \in 1 .. Len(topEdges[topVertex]) + 1 BY <1>1, <1>5
  <2> QED BY <1>1, <1>3, <2>1, <2>2, <2>3, <2>4 DEF Top!TopTypeOK
<1>11. EdgesCounted BY <1>8 DEF EdgesCounted
<1>12. Free = {} BY <1>1 DEF Free, Top!Vertices
<1>13. FreeWait
  <2>1. Cardinality({}) = 0 BY FS_EmptySet
  <2> QED BY <1>1, <1>2, <1>6, <1>12, <2>1 DEF FreeWait
<1>14. SortedInOrder BY <1>1, <1>5 DEF SortedInOrder, Top!More
<1> QED BY <1>10, <1>11, <1>13, <1>14 DEF TopIInv

(* A vertex joins the row. *)
LEMMA JoinsRow ==
  ASSUME TopIInv, NEW y \in Top!Vertices, y \notin Free,
         Free' = Free \cup {y}, zeroin' = Top!enqueue(zeroin, y),
         topEdges' = topEdges, sorted' = sorted
  PROVE  FreeWait'
        /\ zeroin' \in [q : [0 .. QUEUESIZE -> {0} \cup Top!Vertices],
                                  first : 0 .. QUEUESIZE - 1,
                                  last : 0 .. QUEUESIZE - 1,
                                  count : 0 .. QUEUESIZE]
<1>1. Top!TopTypeOK /\ FreeWait BY DEF TopIInv
<1> DEFINE W == Row
           n == Len(W)
<1>2. /\ Cardinality(Free) \in Nat /\ Cardinality(Free) < nvertices
      /\ Cardinality(Free') = Cardinality(Free) + 1
  <2>1. /\ IsFiniteSet(Top!Vertices) /\ Cardinality(Top!Vertices) = nvertices
        /\ IsFiniteSet(Free) /\ Cardinality(Free) \in Nat
        /\ Free \subseteq Top!Vertices /\ nvertices \in Nat
    BY <1>1, TopTypes
  <2>2. Cardinality(Free \cup {y}) = Cardinality(Free) + 1
    BY <2>1, FS_AddElement
  <2>3. Cardinality(Free \cup {y}) <= nvertices BY <2>1, FS_Subset
  <2> QED BY <2>1, <2>2, <2>3
<1>3. /\ W \in Seq({0} \cup Top!Vertices) /\ n \in Nat /\ n = zeroin.count
      /\ n + Len(sorted) = Cardinality(Free) /\ Len(sorted) \in Nat
  BY <1>1, QueueHolds, TopQueue, TopTypes DEF FreeWait, Row
<1>4. IsQueue(zeroin', {0} \cup Top!Vertices) /\ Row' = Append(W, y)
  <2>1. n < QUEUESIZE BY <1>2, <1>3, GraphAssumption, QueueAssumption
  <2>2. IsQueue(zeroin, {0} \cup Top!Vertices) BY <1>1 DEF FreeWait
  <2>3. y \in {0} \cup Top!Vertices OBVIOUS
  <2> QED BY <1>3, <2>1, <2>2, <2>3, EnqueueAppends, TopQueue DEF Row
<1>5. /\ Len(Row') = n + 1 /\ Row'[n + 1] = y
      /\ \A k \in 1 .. n : Row'[k] = W[k]
  <2> HIDE DEF W
  <2> QED BY <1>3, <1>4
<1>6. Done' = Done BY DEF Done, Top!Vertices
<1>7. Done \subseteq Free BY <1>1 DEF FreeWait
<1>8. \A k \in 1 .. n : W[k] \in Free \ Done BY <1>1 DEF FreeWait
<1>9. \A k \in 1 .. n + 1 : Row'[k] \in Free' \ Done'
  <2> TAKE k \in 1 .. n + 1
  <2>1. k \in 1 .. n \/ k = n + 1 BY <1>3
  <2> QED BY <1>5, <1>6, <1>7, <1>8, <2>1
<1>10. \A j, k \in 1 .. n + 1 : Row'[j] = Row'[k] => j = k
  <2> TAKE j, k \in 1 .. n + 1
  <2>1. j \in 1 .. n \/ j = n + 1 BY <1>3
  <2>2. k \in 1 .. n \/ k = n + 1 BY <1>3
  <2>3. \A l, m \in 1 .. n : W[l] = W[m] => l = m BY <1>1 DEF FreeWait
  <2>4. \A l \in 1 .. n : W[l] # y BY <1>8
  <2> QED BY <1>5, <2>1, <2>2, <2>3, <2>4
<1>11. \A z \in Free' \ Done' : \E k \in 1 .. n + 1 : Row'[k] = z
  <2> TAKE z \in Free' \ Done'
  <2>1. CASE z = y BY <1>3, <1>5, <2>1
  <2>2. CASE z # y
    <3>1. z \in Free \ Done BY <1>6, <2>2
    <3>2. PICK k \in 1 .. n : W[k] = z BY <1>1, <3>1 DEF FreeWait
    <3>3. k \in 1 .. n + 1 BY <1>3
    <3> QED BY <1>5, <3>2, <3>3
  <2> QED BY <2>1, <2>2
<1>12. (n + 1) + Len(sorted') = Cardinality(Free') BY <1>2, <1>3
<1>13. \A j, k \in 1 .. Len(sorted) : sorted[j] = sorted[k] => j = k
  BY <1>1 DEF FreeWait
<1>14. FreeWait'
  BY <1>4, <1>5, <1>6, <1>7, <1>9, <1>10, <1>11, <1>12, <1>13
     DEF FreeWait, Top!Vertices
<1> QED BY <1>4, <1>14 DEF IsQueue

(* The first loop looks at one vertex. *)
LEMMA FirstCounted == ASSUME TopIInv, Top!EnqueueFree PROVE TopIInv'
<1>1. Top!TopTypeOK /\ FreeWait /\ EdgesCounted /\ SortedInOrder BY DEF TopIInv
<1>2. /\ topCounter <= nvertices /\ topCounter' = topCounter + 1
      /\ zeroin' = IF indegree[topCounter] = 0 THEN Top!enqueue(zeroin,
           topCounter) ELSE zeroin
      /\ topEdges' = topEdges /\ indegree' = indegree /\ sorted' = sorted
      /\ topVertex' = topVertex /\ topPlace' = topPlace
  BY DEF Top!EnqueueFree
<1>3. /\ topCounter \in Top!Vertices /\ topCounter' \in 1 .. nvertices + 1
      /\ nvertices \in Nat
      /\ topCounter \in Nat
  BY <1>1, <1>2, GraphAssumption DEF Top!TopTypeOK, Top!Vertices
<1>4. Done' = Done BY <1>2 DEF Done, Top!Vertices
<1>5. EdgesCounted'
  <2>1. \A y : Into(y)' = Into(y)
    BY <1>2, <1>4 DEF Into, NotRemoved, Top!Arcs, Top!Vertices
  <2> QED BY <1>1, <1>2, <2>1 DEF EdgesCounted, Top!Vertices
<1>6. SortedInOrder'
  <2>1. ~Top!More
    <3>1. ~(topCounter > nvertices) BY <1>2, <1>3
    <3> QED BY <1>1, <3>1 DEF SortedInOrder
  <2>2. ~Top!More' BY <1>2, <2>1 DEF Top!More
  <2> QED BY <1>1, <1>2, <2>2 DEF SortedInOrder, Top!Edge, Top!Vertices
<1>7. CASE indegree[topCounter] = 0
  <2>1. Free' = Free \cup {topCounter} /\ topCounter \notin Free
    BY <1>2, <1>3, <1>7 DEF Free, Top!Vertices
  <2>2. /\ FreeWait'
        /\ zeroin' \in [q : [0 .. QUEUESIZE -> {0} \cup Top!Vertices],
                        first : 0 .. QUEUESIZE - 1, last : 0 .. QUEUESIZE - 1,
                        count : 0 .. QUEUESIZE]
    BY <1>2, <1>3, <1>7, <2>1, JoinsRow
  <2>3. Top!TopTypeOK' BY <1>1, <1>2, <1>3, <2>2 DEF Top!TopTypeOK, Top!Vertices
  <2> QED BY <1>5, <1>6, <2>2, <2>3 DEF TopIInv
<1>8. CASE indegree[topCounter] # 0
  <2>1. Free' = Free BY <1>2, <1>3, <1>8 DEF Free, Top!Vertices
  <2>2. FreeWait'
    BY <1>1, <1>2, <1>4, <1>8, <2>1 DEF FreeWait, Row, Top!Vertices
  <2>3. Top!TopTypeOK' BY <1>1, <1>2, <1>3, <1>8 DEF Top!TopTypeOK, Top!Vertices
  <2> QED BY <1>5, <1>6, <2>2, <2>3 DEF TopIInv
<1> QED BY <1>7, <1>8

(* The next vertex in the row is sorted. *)
LEMMA VertexSorted == ASSUME TopIInv, Top!NextVertex PROVE TopIInv'
<1>1. Top!TopTypeOK /\ FreeWait /\ EdgesCounted /\ SortedInOrder BY DEF TopIInv
<1>2. PICK h : h = Top!headq(zeroin) OBVIOUS
<1>3. /\ topCounter > nvertices /\ ~Top!More /\ ~Top!empty_queue(zeroin)
      /\ topVertex' = h /\ zeroin' = Top!dequeue(zeroin)
      /\ sorted' = Append(sorted, h)
      /\ topPlace' = 1 /\ topEdges' = topEdges /\ indegree' = indegree
      /\ topCounter' = topCounter
  BY <1>2 DEF Top!NextVertex
<1> DEFINE W == Row
           n == Len(W)
           m == Len(sorted)
<1>4. /\ IsQueue(zeroin', {0} \cup Top!Vertices)
      /\ W # <<>> /\ h = Head(W) /\ Row' = Tail(W)
  <2>1. IsQueue(zeroin, {0} \cup Top!Vertices) BY <1>1 DEF FreeWait
  <2> QED BY <1>2, <1>3, <2>1, DequeueTakesHead, TopQueue DEF Row
<1>5. W \in Seq({0} \cup Top!Vertices)
  BY <1>1, QueueHolds, TopQueue DEF FreeWait, Row
<1>6. /\ n \in Nat /\ n > 0 /\ h = W[1] /\ Len(Row') = n - 1
      /\ \A k \in 1 .. n - 1 : Row'[k] = W[k + 1]
  BY <1>4, <1>5
<1>7. h \in Free \ Done /\ h \in Top!Vertices /\ indegree[h] = 0
  BY <1>1, <1>6 DEF FreeWait, Free
<1>8. /\ sorted \in Seq(Top!Vertices) /\ m \in Nat
      /\ \A k \in 1 .. m : sorted[k] \in Top!Vertices
  BY <1>1, TopTypes
<1>9. /\ Len(sorted') = m + 1 /\ sorted'[m + 1] = h
      /\ \A k \in 1 .. m : sorted'[k] = sorted[k]
      /\ sorted' \in Seq(Top!Vertices)
  BY <1>3, <1>7, <1>8
<1>10. Done' = Done \cup {h}
  <2>1. \A y \in Top!Vertices : (\E k \in 1 .. m + 1 : sorted'[k] = y)
          <=> (\E k \in 1 .. m : sorted[k] = y) \/ y = h
    <3> TAKE y \in Top!Vertices
    <3>1. \A k : k \in 1 .. m + 1 <=> k \in 1 .. m \/ k = m + 1 BY <1>8
    <3> QED BY <1>9, <3>1
  <2> QED BY <1>7, <1>9, <2>1 DEF Done, Top!Vertices
<1>11. Free' = Free BY <1>3 DEF Free, Top!Vertices
<1>12. /\ n + m = Cardinality(Free) /\ Cardinality(Free) <= nvertices
  <2>1. /\ IsFiniteSet(Top!Vertices) /\ Cardinality(Top!Vertices) = nvertices
        /\ Free \subseteq Top!Vertices
    BY <1>1, TopTypes
  <2>2. Cardinality(Free) <= nvertices BY <2>1, FS_Subset
  <2> QED BY <1>1, <2>2 DEF FreeWait
<1>13. Top!TopTypeOK'
  <2>1. zeroin' \in [q : [0 .. QUEUESIZE -> {0} \cup Top!Vertices],
                    first : 0 .. QUEUESIZE - 1, last : 0 .. QUEUESIZE - 1,
                    count : 0 .. QUEUESIZE]
    BY <1>4 DEF IsQueue
  <2>2. topVertex' \in Top!Vertices
          /\ topPlace' \in 1 .. Len(topEdges'[topVertex']) + 1
    BY <1>1, <1>3, <1>7, TopTypes
  <2>3. Len(sorted') <= nvertices
    BY <1>1, <1>6, <1>8, <1>9, <1>12, TopTypes
  <2> QED BY <1>1, <1>3, <1>9, <2>1, <2>2, <2>3 DEF Top!TopTypeOK, Top!Vertices
<1>14. FreeWait'
  <2>1. \A k \in 1 .. n - 1 : Row'[k] \in Free' \ Done'
    <3> TAKE k \in 1 .. n - 1
    <3>1. k + 1 \in 1 .. n /\ 1 \in 1 .. n /\ k + 1 # 1 BY <1>6
    <3>2. W[k + 1] \in Free \ Done /\ W[k + 1] # W[1]
      BY <1>1, <3>1 DEF FreeWait
    <3> QED BY <1>6, <1>10, <1>11, <3>2
  <2>2. \A j, k \in 1 .. n - 1 : Row'[j] = Row'[k] => j = k
    <3> TAKE j, k \in 1 .. n - 1
    <3>1. j + 1 \in 1 .. n /\ k + 1 \in 1 .. n BY <1>6
    <3>2. W[j + 1] = W[k + 1] => j + 1 = k + 1 BY <1>1, <3>1 DEF FreeWait
    <3> QED BY <1>6, <3>2
  <2>3. \A y \in Free' \ Done' : \E k \in 1 .. n - 1 : Row'[k] = y
    <3> TAKE y \in Free' \ Done'
    <3>1. y \in Free \ Done /\ y # W[1] BY <1>6, <1>10, <1>11
    <3>2. PICK k \in 1 .. n : W[k] = y BY <1>1, <3>1 DEF FreeWait
    <3>3. k - 1 \in 1 .. n - 1 /\ (k - 1) + 1 = k BY <1>6, <3>1, <3>2
    <3> QED BY <1>6, <3>2, <3>3
  <2>4. (n - 1) + (m + 1) = Cardinality(Free') BY <1>6, <1>8, <1>11, <1>12
  <2>5. Done' \subseteq Free' BY <1>1, <1>7, <1>10, <1>11 DEF FreeWait
  <2>6. \A j, k \in 1 .. m + 1 : sorted'[j] = sorted'[k] => j = k
    <3> TAKE j, k \in 1 .. m + 1
    <3>1. j \in 1 .. m \/ j = m + 1 BY <1>8
    <3>2. k \in 1 .. m \/ k = m + 1 BY <1>8
    <3>3. \A l \in 1 .. m : sorted[l] # h BY <1>7, <1>8 DEF Done
    <3>4. \A l, o \in 1 .. m : sorted[l] = sorted[o] => l = o
      BY <1>1 DEF FreeWait
    <3> QED BY <1>9, <3>1, <3>2, <3>3, <3>4
  <2> QED BY <1>4, <1>6, <1>9, <2>1, <2>2, <2>3, <2>4, <2>5, <2>6
          DEF FreeWait, Top!Vertices
<1>15. NotRemoved' = NotRemoved
  <2>1. Top!Arcs' = Top!Arcs BY <1>3 DEF Top!Arcs, Top!Vertices
  <2>2. \A a \in Top!Arcs : /\ a[2] >= 1
                            /\ (a[1] = topVertex => ~(a[2] >= topPlace))
    <3> TAKE a \in Top!Arcs
    <3>1. a[1] \in Top!Vertices /\ a[2] \in 1 .. Len(topEdges[a[1]])
      BY <1>1, ArcOf
    <3>2. Len(topEdges[a[1]]) \in Nat /\ Len(topEdges[topVertex]) \in Nat
            /\ topPlace \in Nat
      BY <1>1, <3>1, TopTypes
    <3>3. topPlace > Len(topEdges[topVertex]) BY <1>3, <3>2 DEF Top!More
    <3> QED BY <3>1, <3>2, <3>3
  <2>3. NotRemoved = {a \in Top!Arcs : a[1] \notin Done}
    BY <2>2 DEF NotRemoved
  <2>4. NotRemoved' = {a \in Top!Arcs : a[1] \notin Done \cup {h} \/ a[1] = h}
    BY <1>3, <1>10, <2>1, <2>2 DEF NotRemoved
  <2> QED BY <1>7, <2>3, <2>4
<1>16. EdgesCounted'
  <2>1. \A y : Into(y)' = Into(y) BY <1>3, <1>15 DEF Into
  <2> QED BY <1>1, <1>3, <2>1 DEF EdgesCounted, Top!Vertices
<1>17. SortedInOrder'
  <2>1. \A u \in Top!Vertices : Top!Edge(u, h) => \E j \in 1 .. m :
          sorted[j] = u
    <3> SUFFICES ASSUME NEW u \in Top!Vertices, Top!Edge(u, h),
            u \notin Done PROVE FALSE
      BY DEF Done
    <3>1. PICK k \in 1 .. Len(topEdges[u]) : topEdges[u][k] = h BY DEF Top!Edge
    <3>2. <<u, k>> \in Top!Arcs BY <1>1, ArcOf
    <3>3. <<u, k>> \in Into(h) BY <3>1, <3>2 DEF Into, NotRemoved
    <3>4. Cardinality(Into(h)) = 0 BY <1>1, <1>7 DEF EdgesCounted
    <3> QED BY <1>1, <3>3, <3>4, FiniteInto
  <2>2. \A k \in 1 .. m + 1 : \A u \in Top!Vertices :
          Top!Edge(u, sorted'[k]) => \E j \in 1 .. k - 1 : sorted'[j] = u
    <3> TAKE k \in 1 .. m + 1
    <3>1. CASE k \in 1 .. m
      <4>1. \A j \in 1 .. k - 1 : j \in 1 .. m BY <1>8, <3>1
      <4>2. \A u \in Top!Vertices :
              Top!Edge(u, sorted[k]) => \E j \in 1 .. k - 1 : sorted[j] = u
        BY <1>1, <3>1 DEF SortedInOrder
      <4> QED BY <1>9, <3>1, <4>1, <4>2
    <3>2. CASE k = m + 1
      <4>1. k - 1 = m BY <1>8, <3>2
      <4> QED BY <1>9, <2>1, <3>2, <4>1
    <3>3. k \in 1 .. m \/ k = m + 1 BY <1>8
    <3> QED BY <3>1, <3>2, <3>3
  <2>3. topVertex' \in Done' /\ topCounter' > nvertices BY <1>3, <1>10
  <2> QED BY <1>3, <1>9, <2>2, <2>3 DEF SortedInOrder, Top!Edge, Top!Vertices
<1> QED BY <1>13, <1>14, <1>16, <1>17 DEF TopIInv

(* An edge of it is removed: the vertex it leads to may get free. *)
LEMMA EdgeRemoved == ASSUME TopIInv, Top!RemoveEdge PROVE TopIInv'
<1>1. Top!TopTypeOK /\ FreeWait /\ EdgesCounted /\ SortedInOrder BY DEF TopIInv
<1>2. PICK y : y = topEdges[topVertex][topPlace] OBVIOUS
<1>3. /\ topPlace <= Len(topEdges[topVertex]) /\ topPlace' = topPlace + 1
      /\ indegree' = [indegree EXCEPT ![y] = @ - 1]
      /\ zeroin' = IF indegree[y] = 1 THEN Top!enqueue(zeroin, y) ELSE zeroin
      /\ topEdges' = topEdges /\ topCounter' = topCounter /\ sorted' = sorted
      /\ topVertex' = topVertex
  BY <1>2 DEF Top!RemoveEdge, Top!More
<1>4. Top!More /\ topVertex \in Done /\ topCounter > nvertices
  BY <1>1, <1>3 DEF SortedInOrder, Top!More
<1>5. /\ topVertex \in Top!Vertices /\ topPlace \in Nat
      /\ Len(topEdges[topVertex]) \in Nat /\ topPlace >= 1
      /\ topPlace \in 1 .. Len(topEdges[topVertex]) /\ y \in Top!Vertices
      /\ topCounter \in Nat
      /\ nvertices \in Nat
  BY <1>1, <1>2, <1>3, TopTypes
<1>6. PICK b : b = <<topVertex, topPlace>> OBVIOUS
<1>7. b \in Into(y) /\ b[1] = topVertex /\ b[2] = topPlace
  <2>1. b \in Top!Arcs BY <1>1, <1>5, <1>6, ArcOf
  <2>2. b[1] = topVertex /\ b[2] = topPlace BY <1>6
  <2> QED BY <1>2, <1>5, <2>1, <2>2 DEF Into, NotRemoved
<1>8. Done' = Done BY <1>3 DEF Done, Top!Vertices
<1>9. NotRemoved' = NotRemoved \ {b}
  <2>1. Top!Arcs' = Top!Arcs BY <1>3 DEF Top!Arcs, Top!Vertices
  <2>2. \A a \in Top!Arcs : /\ a[2] \in Nat
                            /\ a = b <=> a[1] = topVertex /\ a[2] = topPlace
    <3> TAKE a \in Top!Arcs
    <3>1. a[1] \in Top!Vertices /\ a[2] \in 1 .. Len(topEdges[a[1]])
            /\ a = <<a[1], a[2]>>
      BY <1>1, ArcOf
    <3> QED BY <1>6, <3>1
  <2>3. NotRemoved' = {a \in Top!Arcs : a[1] \notin Done
          \/ (a[1] = topVertex /\ a[2] >= topPlace + 1)}
    BY <1>3, <1>8, <2>1 DEF NotRemoved
  <2> QED BY <1>4, <1>5, <2>2, <2>3 DEF NotRemoved
<1>10. /\ Into(y)' = Into(y) \ {b}
       /\ \A z : z # y => Into(z)' = Into(z)
  BY <1>3, <1>7, <1>9 DEF Into
<1>11. /\ Cardinality(Into(y)) \in Nat /\ Cardinality(Into(y)) >= 1
       /\ Cardinality(Into(y)') = Cardinality(Into(y)) - 1
  <2>1. /\ IsFiniteSet(Into(y)) /\ Cardinality(Into(y)) \in Nat
        /\ Cardinality(Into(y)) # 0
    BY <1>1, <1>7, FiniteInto
  <2>2. Cardinality(Into(y) \ {b}) = Cardinality(Into(y)) - 1
    BY <1>7, <2>1, FS_RemoveElement
  <2>3. Cardinality(Into(y)') = Cardinality(Into(y)) - 1 BY <1>10, <2>2
  <2> QED BY <2>1, <2>3
<1>12. indegree[y] = Cardinality(Into(y)) /\ indegree \in [Top!Vertices -> Nat]
  BY <1>1, <1>5 DEF EdgesCounted, Top!TopTypeOK
<1>13. /\ indegree' \in [Top!Vertices -> Nat] /\ indegree'[y] = indegree[y] - 1
       /\ \A z \in Top!Vertices \ {y} : indegree'[z] = indegree[z]
  BY <1>3, <1>5, <1>11, <1>12
<1>14. EdgesCounted'
  <2>1. \A z \in Top!Vertices : indegree'[z] = Cardinality(Into(z)')
    <3> TAKE z \in Top!Vertices
    <3>1. CASE z = y BY <1>11, <1>12, <1>13, <3>1
    <3>2. CASE z # y
      <4>1. Into(z)' = Into(z) BY <1>10, <3>2
      <4> QED BY <1>1, <1>13, <3>2, <4>1 DEF EdgesCounted
    <3> QED BY <3>1, <3>2
  <2> QED BY <2>1 DEF EdgesCounted, Top!Vertices
<1>15. SortedInOrder'
  BY <1>1, <1>3, <1>4, <1>8 DEF SortedInOrder, Top!Edge, Top!Vertices
<1>16. y \notin Free /\ Free' = IF indegree[y] = 1 THEN Free \cup {y} ELSE Free
  <2>1. y \notin Free BY <1>11, <1>12 DEF Free
  <2>2. \A z \in Top!Vertices : z < topCounter BY <1>4, <1>5 DEF Top!Vertices
  <2>3. Free = {z \in Top!Vertices : indegree[z] = 0} BY <2>2 DEF Free
  <2>4. Free' = {z \in Top!Vertices : indegree'[z] = 0}
    BY <1>3, <2>2 DEF Free, Top!Vertices
  <2>5. indegree[y] = 1 => Free' = Free \cup {y}
    BY <1>5, <1>13, <2>3, <2>4
  <2>6. indegree[y] # 1 => Free' = Free
    <3>1. indegree[y] # 1 => indegree[y] - 1 # 0 /\ indegree[y] # 0
      BY <1>11, <1>12
    <3> QED BY <1>5, <1>13, <2>3, <2>4, <3>1
  <2> QED BY <2>1, <2>5, <2>6
<1>17. topPlace' \in 1 .. Len(topEdges[topVertex]) + 1 BY <1>3, <1>5
<1>18. CASE indegree[y] = 1
  <2>1. /\ FreeWait'
        /\ zeroin' \in [q : [0 .. QUEUESIZE -> {0} \cup Top!Vertices],
                        first : 0 .. QUEUESIZE - 1, last : 0 .. QUEUESIZE - 1,
                        count : 0 .. QUEUESIZE]
    BY <1>3, <1>5, <1>16, <1>18, JoinsRow
  <2>2. Top!TopTypeOK'
    BY <1>1, <1>3, <1>13, <1>17, <2>1 DEF Top!TopTypeOK, Top!Vertices
  <2> QED BY <1>14, <1>15, <2>1, <2>2 DEF TopIInv
<1>19. CASE indegree[y] # 1
  <2>1. FreeWait'
    BY <1>1, <1>3, <1>8, <1>16, <1>19 DEF FreeWait, Row, Top!Vertices
  <2>2. Top!TopTypeOK'
    BY <1>1, <1>3, <1>13, <1>17, <1>19 DEF Top!TopTypeOK, Top!Vertices
  <2> QED BY <1>14, <1>15, <2>1, <2>2 DEF TopIInv
<1> QED BY <1>18, <1>19

(* Every step keeps it. *)
LEMMA TopIInvKept == TopIInv /\ [Top!TopNext]_(Top!topVars) => TopIInv'
<1> SUFFICES ASSUME TopIInv, [Top!TopNext]_(Top!topVars) PROVE TopIInv' OBVIOUS
<1>1. CASE Top!EnqueueFree BY <1>1, FirstCounted
<1>2. CASE Top!NextVertex BY <1>2, VertexSorted
<1>3. CASE Top!RemoveEdge BY <1>3, EdgeRemoved
<1>4. CASE UNCHANGED Top!topVars
  <2>1. /\ topEdges' = topEdges /\ indegree' = indegree /\ zeroin' = zeroin
        /\ topCounter' = topCounter /\ sorted' = sorted
        /\ topVertex' = topVertex /\ topPlace' = topPlace
    BY <1>4 DEF Top!topVars
  <2>2. Done' = Done /\ Top!Arcs' = Top!Arcs /\ Free' = Free /\ Row' = Row
    BY <2>1 DEF Done, Top!Arcs, Free, Row, Top!Vertices
  <2>3. \A y : Into(y)' = Into(y) BY <2>1, <2>2 DEF Into, NotRemoved
  <2> QED BY <2>1, <2>2, <2>3
          DEF TopIInv, Top!TopTypeOK, FreeWait, EdgesCounted, SortedInOrder,
               Top!More, Top!Edge,
              Top!Vertices
<1> QED BY <1>1, <1>2, <1>3, <1>4 DEF Top!TopNext

(* A walk to a vertex that is sorted passes earlier and earlier ones. *)
LEMMA SortedWalksEnd ==
  ASSUME TopIInv, NEW y \in Done
  PROVE  ~Top!WalkTo(y, nvertices + 1)
<1> SUFFICES ASSUME Top!WalkTo(y, nvertices + 1) PROVE FALSE OBVIOUS
<1> DEFINE N == nvertices
<1>1. Top!TopTypeOK /\ SortedInOrder /\ N \in Nat BY GraphAssumption DEF TopIInv
<1>2. PICK w \in [1 .. N + 1 -> Top!Vertices] :
        w[N + 1] = y /\ \A k \in 1 .. N : Top!Edge(w[k], w[k + 1])
  <2>1. (N + 1) - 1 = N BY <1>1
  <2> QED BY <2>1 DEF Top!WalkTo
<1> DEFINE T == {k \in Nat : k <= N => \E j \in 1 .. Len(sorted) :
                              j <= N - k /\ sorted[j] = w[N + 1 - k]}
<1>3. 0 \in T
  <2>1. PICK j \in 1 .. Len(sorted) : sorted[j] = y BY DEF Done
  <2>2. Len(sorted) \in Nat /\ Len(sorted) <= N BY <1>1 DEF Top!TopTypeOK
  <2>3. j <= N - 0 /\ N + 1 - 0 = N + 1 BY <1>1, <2>2
  <2> QED BY <1>2, <2>1, <2>3
<1>4. \A k \in Nat : k \in T => k + 1 \in T
  <2> SUFFICES ASSUME NEW k \in Nat, k \in T, k + 1 <= N
               PROVE  \E j \in 1 .. Len(sorted) :
                        j <= N - (k + 1) /\ sorted[j] = w[N + 1 - (k + 1)]
    OBVIOUS
  <2>1. /\ N - k \in 1 .. N /\ (N - k) + 1 = N + 1 - k
        /\ N + 1 - (k + 1) = N - k
    BY <1>1
  <2>2. PICK j \in 1 .. Len(sorted) : j <= N - k /\ sorted[j] = w[N + 1 - k]
    BY <1>1
  <2>3. Top!Edge(w[N - k], sorted[j]) BY <1>2, <2>1, <2>2
  <2>4. w[N - k] \in Top!Vertices
    <3>1. N - k \in 1 .. N + 1 BY <1>1, <2>1
    <3> QED BY <1>2, <3>1
  <2>5. PICK l \in 1 .. j - 1 : sorted[l] = w[N - k]
    BY <1>1, <2>3, <2>4 DEF SortedInOrder
  <2>6. Len(sorted) \in Nat BY <1>1, TopTypes
  <2>7. l \in 1 .. Len(sorted) /\ l <= N - (k + 1) BY <1>1, <2>2, <2>6
  <2> QED BY <2>1, <2>5, <2>7
<1>5. Nat \subseteq T
  <2> HIDE DEF T
  <2> QED BY <1>3, <1>4, Induct
<1>6. PICK j \in 1 .. Len(sorted) : j <= N - N BY <1>1, <1>5
<1>7. Len(sorted) \in Nat BY <1>1, TopTypes
<1> QED BY <1>1, <1>6, <1>7

(* To a vertex that is not sorted in the end walks of any length lead. *)
LEMMA UnsortedHaveWalks ==
  ASSUME TopIInv, Top!Sorted, NEW y \in Top!Vertices \ Done, NEW n \in Nat
  PROVE  Top!WalkTo(y, n + 1)
<1>1. Top!TopTypeOK /\ FreeWait /\ EdgesCounted BY DEF TopIInv
<1>2. \A z \in Top!Vertices \ Done : \E u \in Top!Vertices \ Done :
        Top!Edge(u, z)
  <2> TAKE z \in Top!Vertices \ Done
  <2>1. Row = <<>> BY <1>1, QueueHolds, TopQueue DEF Top!Sorted, FreeWait, Row
  <2>2. z \notin Free BY <1>1, <2>1 DEF FreeWait
  <2>3. z < topCounter
    BY <1>1, GraphAssumption DEF Top!Sorted, Top!TopTypeOK, Top!Vertices
  <2>4. indegree[z] # 0 BY <2>2, <2>3 DEF Free
  <2>5. Into(z) # {}
    <3>1. Cardinality(Into(z)) # 0 BY <1>1, <2>4 DEF EdgesCounted
    <3> QED BY <1>1, <3>1, FiniteInto
  <2>6. PICK a : a \in Into(z) BY <2>5
  <2>7. /\ a \in Top!Arcs /\ topEdges[a[1]][a[2]] = z
        /\ a[1] \notin Done \/ (a[1] = topVertex /\ a[2] >= topPlace)
    BY <2>6 DEF Into, NotRemoved
  <2>8. a[1] \in Top!Vertices /\ a[2] \in 1 .. Len(topEdges[a[1]])
    BY <1>1, <2>7, ArcOf
  <2>9. ~(a[1] = topVertex /\ a[2] >= topPlace)
    <3>1. Len(topEdges[topVertex]) \in Nat /\ topPlace \in Nat BY <1>1, TopTypes
    <3>2. topPlace > Len(topEdges[topVertex]) BY <3>1 DEF Top!Sorted, Top!More
    <3> QED BY <2>8, <3>1, <3>2
  <2> QED BY <2>7, <2>8, <2>9 DEF Top!Edge
<1> DEFINE Walk(k, w, z) ==
             /\ w \in [1 .. k + 1 -> Top!Vertices]
             /\ w[1] \in Top!Vertices \ Done /\ w[k + 1] = z
             /\ \A j \in 1 .. k : Top!Edge(w[j], w[j + 1])
           T == {k \in Nat : \A z \in Top!Vertices \ Done : \E w : Walk(k, w,
                 z)}
<1>3. 0 \in T
  <2> SUFFICES ASSUME NEW z \in Top!Vertices \ Done
               PROVE  \E w : Walk(0, w, z)
    OBVIOUS
  <2> DEFINE s == [j \in 1 .. 1 |-> z]
  <2>1. s \in [1 .. 1 -> Top!Vertices] /\ s[1] = z OBVIOUS
  <2> HIDE DEF s
  <2>2. Walk(0, s, z) BY <2>1
  <2> QED BY <2>2
<1>4. \A k \in Nat : k \in T => k + 1 \in T
  <2> HIDE DEF Walk, T
  <2> SUFFICES ASSUME NEW k \in Nat, k \in T PROVE k + 1 \in T OBVIOUS
  <2> USE DEF Walk, T
  <2> SUFFICES ASSUME NEW z \in Top!Vertices \ Done PROVE \E w :
          Walk(k + 1, w, z)
    <3>1. k + 1 \in Nat OBVIOUS
    <3> HIDE DEF Walk
    <3> QED BY <3>1, Zenon
  <2>1. PICK w \in [1 .. k + 1 -> Top!Vertices] :
          /\ w[1] \in Top!Vertices \ Done /\ w[k + 1] = z
          /\ \A j \in 1 .. k : Top!Edge(w[j], w[j + 1])
    OBVIOUS
  <2>2. PICK u \in Top!Vertices \ Done : Top!Edge(u, w[1]) BY <1>2, <2>1
  <2> DEFINE s == [j \in 1 .. k + 2 |-> IF j = 1 THEN u ELSE w[j - 1]]
  <2>3. \A j \in 2 .. k + 2 : j - 1 \in 1 .. k + 1 OBVIOUS
  <2>4. /\ s \in [1 .. k + 2 -> Top!Vertices] /\ s[1] = u
        /\ \A j \in 1 .. k + 1 : s[j + 1] = w[j]
    BY <2>3
  <2> HIDE DEF s
  <2>5. s[k + 2] = z
    <3>1. k + 1 \in 1 .. k + 1 /\ (k + 1) + 1 = k + 2 OBVIOUS
    <3> QED BY <2>1, <2>4, <3>1
  <2>6. \A j \in 1 .. k + 1 : Top!Edge(s[j], s[j + 1])
    <3> TAKE j \in 1 .. k + 1
    <3>1. CASE j = 1
      <4>1. s[j + 1] = w[1] BY <2>4, <3>1
      <4> QED BY <2>2, <2>4, <3>1, <4>1
    <3>2. CASE j \in 2 .. k + 1
      <4>1. /\ j - 1 \in 1 .. k /\ (j - 1) + 1 = j /\ j \in 1 .. k + 1
            /\ j - 1 \in 1 .. k + 1
        BY <3>2
      <4>2. s[j] = w[j - 1] /\ s[j + 1] = w[j] BY <2>4, <4>1
      <4> QED BY <2>1, <4>1, <4>2
    <3> QED BY <3>1, <3>2
  <2>7. (k + 1) + 1 = k + 2 OBVIOUS
  <2>8. Walk(k + 1, s, z) BY <2>2, <2>4, <2>5, <2>6, <2>7
  <2> QED BY <2>8
<1>5. Nat \subseteq T
  <2> HIDE DEF T
  <2> QED BY <1>3, <1>4, Induct
<1>6. PICK w \in [1 .. n + 1 -> Top!Vertices] :
        w[n + 1] = y /\ \A j \in 1 .. n : Top!Edge(w[j], w[j + 1])
  <2>1. n \in T BY <1>5
  <2>2. \E w : Walk(n, w, y) BY <2>1
  <2> QED BY <2>2
<1>7. (n + 1) - 1 = n OBVIOUS
<1> QED BY <1>6, <1>7 DEF Top!WalkTo

(* At the end every vertex that no cycle leads to is sorted. *)
LEMMA TopsortIsRight == TopIInv => Top!SortsVertices
<1> SUFFICES ASSUME TopIInv, Top!Sorted
             PROVE  /\ \A j, k \in 1 .. Len(sorted) :
                         sorted[j] = sorted[k] => j = k
                    /\ \A k \in 1 .. Len(sorted) : \A u \in Top!Vertices :
                         Top!Edge(u, sorted[k]) => \E j \in 1 .. k - 1 :
                               sorted[j] = u
                    /\ \A y \in Top!Vertices :
                         (\E k \in 1 .. Len(sorted) : sorted[k] = y)
                           <=> ~Top!WalkTo(y, nvertices + 1)
  BY DEF Top!SortsVertices
<1>1. FreeWait /\ SortedInOrder /\ nvertices \in Nat
  BY GraphAssumption DEF TopIInv
<1>2. \A y \in Top!Vertices : y \in Done <=> ~Top!WalkTo(y, nvertices + 1)
  BY <1>1, SortedWalksEnd, UnsortedHaveWalks
<1> QED BY <1>1, <1>2 DEF FreeWait, SortedInOrder, Done

(* On any directed graph that has at most QUEUESIZE vertices: those that no
   cycle leads to are sorted, once each and after all that have an edge to
   them, and no others (topsort.c 31-65). *)
THEOREM TopologicalOrder == Top!TopSpec => []Top!SortsVertices
<1>1. Top!TopInit => TopIInv BY TopStarts
<1> QED BY <1>1, TopIInvKept, TopsortIsRight, PTL DEF Top!TopSpec
-----------------------------------------------------------------------------
(* What is not in the tree yet is at distance 0 just when an edge of the tree
   leads to it; its parent is then in the tree. *)
TreeGrows ==
  /\ primVertex \notin intree => distance[primVertex] = 0
  /\ intree = {} => primVertex = Prim!start
  /\ intree # {} => Prim!start \in intree
  /\ primVertex \in intree => \A w \in Prim!Vertices \ intree :
       distance[w] = Prim!MAXINT
  /\ \A x \in intree : \A w \in Prim!Vertices \ intree :
       Prim!Edge(x, w) => distance[w] = 0
  /\ \A w \in Prim!Vertices \ {Prim!start} :
       distance[w] = 0
             => primParent[w] \in intree /\ Prim!Edge(primParent[w], w)
  /\ distance[Prim!start] = 0

(* The level of a vertex is the number of edges on its path of parents. *)
Depths(lv) ==
  /\ lv \in [Prim!Vertices -> Nat] /\ lv[Prim!start] = 0
  /\ \A y \in intree \ {Prim!start} :
       distance[y] = 0 /\ lv[y] = lv[primParent[y]] + 1
  /\ \A y \in intree : lv[y] < Cardinality(intree)

(* The inductive invariant. *)
PrimIInv == Prim!PrimTypeOK /\ TreeGrows /\ \E lv \in [Prim!Vertices -> Nat] :
      Depths(lv)

(* It holds at first. *)
LEMMA PrimStarts == ASSUME Prim!PrimInit PROVE PrimIInv
<1>1. /\ primEdges \in Graphs /\ intree = {} /\ primVertex = Prim!start
      /\ distance = [x \in Prim!Vertices |-> IF x
           = Prim!start THEN 0 ELSE Prim!MAXINT]
      /\ primParent = [x \in Prim!Vertices |-> -1]
  BY DEF Prim!PrimInit
<1>2. Prim!start \in Prim!Vertices
  BY GraphAssumption DEF Prim!Vertices, Prim!start
<1>3. Prim!PrimTypeOK
  BY <1>1, <1>2, GraphAssumption DEF Prim!PrimTypeOK, Prim!Vertices
<1>4. TreeGrows BY <1>1, <1>2 DEF TreeGrows, Prim!MAXINT
<1>5. [x \in Prim!Vertices |-> 0] \in [Prim!Vertices -> Nat] OBVIOUS
<1>6. Depths([x \in Prim!Vertices |-> 0]) BY <1>1, <1>2 DEF Depths
<1> QED BY <1>3, <1>4, <1>5, <1>6 DEF PrimIInv

(* Every turn of the loop keeps it. *)
LEMMA VertexAdded == ASSUME PrimIInv, Prim!AddVertex PROVE PrimIInv'
<1>1. Prim!PrimTypeOK /\ TreeGrows BY DEF PrimIInv
<1>2. PICK lv \in [Prim!Vertices -> Nat] : Depths(lv) BY DEF PrimIInv
<1>3. PICK u : u = primVertex OBVIOUS
<1>4. PICK N : N = Prim!Nearer OBVIOUS
<1>5. /\ u \notin intree /\ intree' = intree \cup {u} /\ primEdges' = primEdges
      /\ distance' = [w \in Prim!Vertices |-> IF w \in N THEN 0
                                              ELSE distance[w]]
      /\ primParent'
           = [w \in Prim!Vertices |-> IF w \in N THEN u ELSE primParent[w]]
      /\ (Prim!Nearest' = {}
           /\ primVertex' = 1) \/ primVertex' \in Prim!Nearest'
      /\ Prim!Vertices' = Prim!Vertices /\ Prim!start' = Prim!start
  BY <1>3, <1>4 DEF Prim!AddVertex, Prim!weight, Prim!Vertices, Prim!start
<1>6. u \in Prim!Vertices /\ Prim!start \in Prim!Vertices /\ Prim!start = 1
        /\ intree \subseteq Prim!Vertices
  BY <1>1, <1>3, GraphAssumption DEF Prim!PrimTypeOK, Prim!Vertices, Prim!start
<1>7. /\ distance \in [Prim!Vertices -> {0, Prim!MAXINT}] /\ 0 < Prim!MAXINT
      /\ Prim!MAXINT \in Nat
      /\ primParent \in [Prim!Vertices -> {-1} \cup Prim!Vertices]
  BY <1>1 DEF Prim!PrimTypeOK, Prim!MAXINT
<1>8. /\ N = {w \in Prim!Vertices \ (intree \cup {u}) : Prim!Edge(u, w)
           /\ distance[w] = Prim!MAXINT}
  BY <1>3, <1>4, <1>7 DEF Prim!Nearer, Prim!weight
<1>9. /\ \A w \in Prim!Vertices :
           distance'[w] = IF w \in N THEN 0 ELSE distance[w]
      /\ \A w \in Prim!Vertices :
           primParent'[w] = IF w \in N THEN u ELSE primParent[w]
      /\ distance' \in [Prim!Vertices -> {0, Prim!MAXINT}]
      /\ primParent' \in [Prim!Vertices -> {-1} \cup Prim!Vertices]
  BY <1>5, <1>6, <1>7
<1>10. distance[u] = 0 /\ (u = Prim!start \/ intree # {})
  BY <1>1, <1>3, <1>5 DEF TreeGrows
<1>11. Prim!start \in intree' BY <1>1, <1>5, <1>10 DEF TreeGrows
<1> DEFINE C == {w \in Prim!Vertices \ intree' : distance'[w] < Prim!MAXINT}
<1>12. C = {w \in Prim!Vertices \ intree' : distance'[w] = 0}
  BY <1>7, <1>9
<1>13. Prim!Nearest' = C
  <2>1. Prim!Candidates' = C BY <1>5 DEF Prim!Candidates, Prim!MAXINT
  <2>2. \A w \in C : \A y \in C : distance'[w] <= distance'[y]
    BY <1>12
  <2> HIDE DEF C
  <2> QED BY <2>1, <2>2 DEF Prim!Nearest
<1>14. /\ primVertex' \in Prim!Vertices
       /\ primVertex' \notin intree' => distance'[primVertex'] = 0
       /\ primVertex' \in intree' => \A w \in Prim!Vertices \ intree' :
            distance'[w] = Prim!MAXINT
  <2>1. CASE C = {}
    <3>1. primVertex' = Prim!start BY <1>5, <1>6, <1>13, <2>1
    <3>2. \A w \in Prim!Vertices \ intree' : distance'[w] = Prim!MAXINT
      BY <1>9, <1>12, <2>1
    <3> QED BY <1>6, <1>11, <3>1, <3>2
  <2>2. CASE C # {}
    <3>1. primVertex' \in C BY <1>5, <1>13, <2>2
    <3> QED BY <1>12, <3>1
  <2> QED BY <2>1, <2>2
<1>15. Prim!PrimTypeOK'
  BY <1>1, <1>5, <1>6, <1>9, <1>14 DEF Prim!PrimTypeOK, Prim!MAXINT
<1>16. TreeGrows'
  <2>1. \A x \in intree' : \A w \in Prim!Vertices \ intree' :
          Prim!Edge(x, w) => distance'[w] = 0
    <3> TAKE x \in intree'
    <3> TAKE w \in Prim!Vertices \ intree'
    <3>1. CASE x = u
      <4>1. w \notin intree \cup {u} BY <1>5
      <4> QED BY <1>7, <1>8, <1>9, <3>1, <4>1
    <3>2. CASE x # u
      <4>1. x \in intree /\ w \notin intree BY <1>5, <3>2
      <4>2. Prim!Edge(x, w) => distance[w] = 0 BY <1>1, <4>1 DEF TreeGrows
      <4> QED BY <1>9, <4>2
    <3> QED BY <3>1, <3>2
  <2>2. \A w \in Prim!Vertices \ {Prim!start} :
          distance'[w] = 0
                => primParent'[w] \in intree' /\ Prim!Edge(primParent'[w], w)
    <3> TAKE w \in Prim!Vertices \ {Prim!start}
    <3>1. CASE w \in N BY <1>5, <1>8, <1>9, <3>1
    <3>2. CASE w \notin N
      <4>1. distance[w] = 0
              => primParent[w] \in intree /\ Prim!Edge(primParent[w], w)
        BY <1>1 DEF TreeGrows
      <4> QED BY <1>5, <1>9, <3>2, <4>1
    <3> QED BY <3>1, <3>2
  <2>3. distance'[Prim!start] = 0 BY <1>1, <1>6, <1>9 DEF TreeGrows
  <2>4. intree' # {} BY <1>5
  <2>5. \A x, w : Prim!Edge(x, w)' <=> Prim!Edge(x, w) BY <1>5 DEF Prim!Edge
  <2>6. Prim!MAXINT' = Prim!MAXINT BY DEF Prim!MAXINT
  <2> QED
    BY <1>5, <1>11, <1>14, <2>1, <2>2, <2>3, <2>4, <2>5, <2>6 DEF TreeGrows
<1>17. PICK lw : lw = IF u = Prim!start THEN lv
                      ELSE [lv EXCEPT ![u] = lv[primParent[u]] + 1]
  OBVIOUS
<1>18. /\ IsFiniteSet(intree) /\ Cardinality(intree) \in Nat
       /\ Cardinality(intree') = Cardinality(intree) + 1
  <2>1. IsFiniteSet(Prim!Vertices)
    BY FS_Interval, GraphAssumption DEF Prim!Vertices
  <2>2. IsFiniteSet(intree) BY <1>6, <2>1, FS_Subset
  <2> QED BY <1>5, <2>2, FS_CardinalityType, FS_AddElement
<1>19. u # Prim!start
        => primParent[u] \in intree /\ primParent[u] \in Prim!Vertices
  BY <1>1, <1>6, <1>10 DEF TreeGrows
<1>20. /\ lw \in [Prim!Vertices -> Nat]
       /\ \A x \in Prim!Vertices \ {u} : lw[x] = lv[x]
       /\ u # Prim!start => lw[u] = lv[primParent[u]] + 1
       /\ lw[Prim!start] = 0
  <2>1. lv[Prim!start] = 0 BY <1>2 DEF Depths
  <2>2. CASE u = Prim!start BY <1>2, <1>17, <2>1, <2>2
  <2>3. CASE u # Prim!start
    <3>1. lv[primParent[u]] + 1 \in Nat BY <1>2, <1>19, <2>3
    <3> QED BY <1>2, <1>6, <1>17, <2>1, <2>3, <3>1
  <2> QED BY <2>2, <2>3
<1>21. Depths(lw)'
  <2>1. \A y \in intree' \ {Prim!start} :
          distance'[y] = 0 /\ lw[y] = lw[primParent'[y]] + 1
    <3> TAKE y \in intree' \ {Prim!start}
    <3>1. y \notin N /\ y \in Prim!Vertices BY <1>5, <1>6, <1>8
    <3>2. primParent'[y] = primParent[y] /\ distance'[y] = distance[y]
      BY <1>9, <3>1
    <3>3. CASE y = u
      <4>1. primParent[u] # u BY <1>5, <1>19, <3>3
      <4> QED BY <1>10, <1>19, <1>20, <3>2, <3>3, <4>1
    <3>4. CASE y # u
      <4>1. y \in intree \ {Prim!start} BY <1>5, <3>4
      <4>2. distance[y] = 0 /\ lv[y] = lv[primParent[y]] + 1
        BY <1>2, <4>1 DEF Depths
      <4>3. primParent[y] \in intree BY <1>1, <1>6, <4>1, <4>2 DEF TreeGrows
      <4>4. primParent[y] # u /\ primParent[y] \in Prim!Vertices
        BY <1>5, <1>6, <4>3
      <4> QED BY <1>20, <3>1, <3>2, <3>4, <4>2, <4>4
    <3> QED BY <3>3, <3>4
  <2>2. \A y \in intree' : lw[y] < Cardinality(intree')
    <3> TAKE y \in intree'
    <3>1. \A x \in intree : lv[x] \in Nat /\ lv[x] < Cardinality(intree)
      BY <1>2, <1>6 DEF Depths
    <3>2. CASE y \in intree
      <4>1. lw[y] = lv[y] BY <1>5, <1>6, <1>20, <3>2
      <4> QED BY <1>18, <3>1, <3>2, <4>1
    <3>3. CASE y = u
      <4>1. CASE u = Prim!start
        <5>1. lw[y] = 0 BY <1>20, <3>3, <4>1
        <5> QED BY <1>18, <5>1
      <4>2. CASE u # Prim!start
        <5>1. lw[y] = lv[primParent[u]] + 1 BY <1>20, <3>3, <4>2
        <5> QED BY <1>18, <1>19, <3>1, <4>2, <5>1
      <4> QED BY <4>1, <4>2
    <3> QED BY <1>5, <3>2, <3>3
  <2>3. lw \in [Prim!Vertices' -> Nat] /\ lw[Prim!start'] = 0 BY <1>5, <1>20
  <2>4. \A y \in intree' \ {Prim!start'} :
          distance'[y] = 0 /\ lw[y] = lw[primParent'[y]] + 1
    BY <1>5, <2>1
  <2> QED BY <2>2, <2>3, <2>4 DEF Depths
<1>22. \E l \in [Prim!Vertices' -> Nat] : Depths(l)' BY <1>5, <1>20, <1>21
<1> QED BY <1>15, <1>16, <1>22 DEF PrimIInv

(* Every step keeps it. *)
LEMMA PrimIInvKept == PrimIInv /\ [Prim!AddVertex]_(Prim!primVars) => PrimIInv'
<1> SUFFICES ASSUME PrimIInv,
        [Prim!AddVertex]_(Prim!primVars) PROVE PrimIInv' OBVIOUS
<1>1. CASE Prim!AddVertex BY <1>1, VertexAdded
<1>2. CASE UNCHANGED Prim!primVars
  <2>1. /\ primEdges' = primEdges /\ intree' = intree /\ distance' = distance
        /\ primParent' = primParent /\ primVertex' = primVertex
    BY <1>2 DEF Prim!primVars
  <2>2. Prim!PrimTypeOK' /\ TreeGrows'
    BY <2>1 DEF PrimIInv, Prim!PrimTypeOK, TreeGrows, Prim!Edge, Prim!Vertices,
         Prim!start, Prim!MAXINT
  <2>3. PICK lv \in [Prim!Vertices -> Nat] : Depths(lv) BY DEF PrimIInv
  <2>4. Depths(lv)' BY <2>1, <2>3 DEF Depths, Prim!Vertices, Prim!start
  <2> QED BY <2>2, <2>3, <2>4 DEF PrimIInv, Prim!Vertices
<1> QED BY <1>1, <1>2

(* In the end a path leads to vertices of the tree only. *)
LEMMA PathsStayInTree ==
  ASSUME PrimIInv, Prim!Spanned, NEW n \in Nat \ {0}, NEW y, Prim!PathTo(y, n)
  PROVE  y \in intree
<1>1. Prim!PrimTypeOK /\ TreeGrows BY DEF PrimIInv
<1>2. PICK s \in [1 .. n -> Prim!Vertices] :
        /\ s[1] = Prim!start /\ s[n] = y
        /\ \A k \in 1 .. n - 1 : Prim!Edge(s[k], s[k + 1])
  BY DEF Prim!PathTo
<1> DEFINE T == {k \in Nat : k + 1 <= n => s[k + 1] \in intree}
<1>3. 0 \in T
  <2>1. intree # {} BY DEF Prim!Spanned
  <2> QED BY <1>1, <1>2, <2>1 DEF TreeGrows
<1>4. \A k \in Nat : k \in T => k + 1 \in T
  <2> SUFFICES ASSUME NEW k \in Nat, k \in T, k + 2 <= n
               PROVE  s[k + 2] \in intree
    OBVIOUS
  <2>1. /\ k + 1 \in 1 .. n - 1 /\ (k + 1) + 1 = k + 2
        /\ k + 2 \in 1 .. n
    OBVIOUS
  <2>2. s[k + 1] \in intree /\ s[k + 2] \in Prim!Vertices BY <2>1
  <2>3. Prim!Edge(s[k + 1], s[k + 2]) BY <1>2, <2>1
  <2>4. ASSUME s[k + 2] \notin intree PROVE FALSE
    <3>1. distance[s[k + 2]] = 0 BY <1>1, <2>2, <2>3, <2>4 DEF TreeGrows
    <3>2. distance[s[k + 2]] = Prim!MAXINT
      BY <1>1, <2>2, <2>4 DEF TreeGrows, Prim!Spanned
    <3> QED BY <3>1, <3>2 DEF Prim!MAXINT
  <2> QED BY <2>4
<1>5. Nat \subseteq T
  <2> HIDE DEF T
  <2> QED BY <1>3, <1>4, Induct
<1>6. n - 1 \in T /\ (n - 1) + 1 = n BY <1>5
<1> QED BY <1>2, <1>6

(* To each vertex of the tree its parents give a path. *)
LEMMA TreeHasPaths ==
  ASSUME PrimIInv, NEW lv, Depths(lv), NEW y \in intree
  PROVE  Prim!find_path(y, lv[y] + 1)
<1>1. Prim!PrimTypeOK /\ TreeGrows BY DEF PrimIInv
<1>2. intree \subseteq Prim!Vertices /\ lv \in [Prim!Vertices -> Nat]
        /\ Prim!start \in Prim!Vertices
  BY <1>1, GraphAssumption
    DEF Prim!PrimTypeOK, Depths, Prim!Vertices, Prim!start
<1> DEFINE T == {n \in Nat : \A z \in intree : lv[z] = n
        => Prim!find_path(z, n + 1)}
<1>3. 0 \in T
  <2> SUFFICES ASSUME NEW z \in intree, lv[z] = 0 PROVE Prim!find_path(z, 1)
    OBVIOUS
  <2>1. z = Prim!start
    <3>1. ASSUME z # Prim!start PROVE FALSE
      <4>1. /\ distance[z] = 0 /\ lv[z] = lv[primParent[z]] + 1
        BY <3>1 DEF Depths
      <4>2. primParent[z] \in intree BY <1>1, <1>2, <3>1, <4>1 DEF TreeGrows
      <4> QED BY <1>2, <4>1, <4>2
    <3> QED BY <3>1
  <2> DEFINE s == [k \in 1 .. 1 |-> Prim!start]
  <2>2. s \in [1 .. 1 -> Prim!Vertices] /\ s[1] = Prim!start BY <1>2
  <2> HIDE DEF s
  <2> QED BY <2>1, <2>2 DEF Prim!find_path
<1>4. \A n \in Nat : n \in T => n + 1 \in T
  <2> SUFFICES ASSUME NEW n \in Nat, n \in T, NEW z \in intree, lv[z] = n + 1
               PROVE  Prim!find_path(z, n + 2)
    OBVIOUS
  <2>1. z # Prim!start BY DEF Depths
  <2>2. distance[z] = 0 /\ lv[z] = lv[primParent[z]] + 1 BY <2>1 DEF Depths
  <2>3. primParent[z] \in intree /\ Prim!Edge(primParent[z], z)
    BY <1>1, <1>2, <2>1, <2>2 DEF TreeGrows
  <2>4. lv[primParent[z]] = n BY <1>2, <2>2, <2>3
  <2>5. Prim!find_path(primParent[z], n + 1) BY <2>3, <2>4
  <2>6. PICK s \in [1 .. n + 1 -> Prim!Vertices] :
          /\ s[1] = Prim!start /\ s[n + 1] = primParent[z]
          /\ \A k \in 1 .. n : /\ primParent[s[k + 1]] = s[k]
                               /\ Prim!Edge(s[k], s[k + 1])
    BY <2>5 DEF Prim!find_path
  <2> DEFINE w == [k \in 1 .. n + 2 |-> IF k <= n + 1 THEN s[k] ELSE z]
  <2>7. /\ w \in [1 .. n + 2 -> Prim!Vertices] /\ w[n + 2] = z
        /\ \A k \in 1 .. n + 1 : w[k] = s[k]
    BY <1>2
  <2> HIDE DEF w
  <2>8. w[1] = Prim!start BY <2>6, <2>7
  <2>9. \A k \in 1 .. n + 1 :
          primParent[w[k + 1]] = w[k] /\ Prim!Edge(w[k], w[k + 1])
    <3> TAKE k \in 1 .. n + 1
    <3>1. CASE k \in 1 .. n
      <4>1. k + 1 \in 1 .. n + 1 BY <3>1
      <4> QED BY <2>6, <2>7, <3>1, <4>1
    <3>2. CASE k = n + 1
      <4>1. w[k] = primParent[z] /\ w[k + 1] = z BY <2>6, <2>7, <3>2
      <4> QED BY <2>3, <4>1
    <3> QED BY <3>1, <3>2
  <2>10. n + 2 - 1 = n + 1 OBVIOUS
  <2> QED BY <2>7, <2>8, <2>9, <2>10 DEF Prim!find_path
<1>5. Nat \subseteq T
  <2> HIDE DEF T
  <2> QED BY <1>3, <1>4, Induct
<1> QED BY <1>2, <1>5

(* At the end the tree has what can be reached, along edges. *)
LEMMA PrimIsRight == PrimIInv => Prim!SpansFromStart
<1> SUFFICES ASSUME PrimIInv, Prim!Spanned
             PROVE  /\ intree = {y \in Prim!Vertices :
                                   \E n \in 1 .. nvertices : Prim!PathTo(y, n)}
                    /\ \A y \in intree : \E n \in 1 .. nvertices :
                         Prim!find_path(y, n)
  BY DEF Prim!SpansFromStart
<1>1. PICK lv \in [Prim!Vertices -> Nat] : Depths(lv) BY DEF PrimIInv
<1>2. intree \subseteq Prim!Vertices /\ nvertices \in Nat
  BY GraphAssumption DEF PrimIInv, Prim!PrimTypeOK
<1>3. \A y \in intree : lv[y] \in Nat /\ lv[y] + 1 \in 1 .. nvertices
  <2> TAKE y \in intree
  <2>1. IsFiniteSet(Prim!Vertices) /\ Cardinality(Prim!Vertices) = nvertices
    BY <1>2, FS_Interval DEF Prim!Vertices
  <2>2. /\ IsFiniteSet(intree) /\ Cardinality(intree) <= nvertices
        /\ Cardinality(intree) \in Nat
    BY <1>2, <2>1, FS_Subset, FS_CardinalityType
  <2>3. lv[y] \in Nat /\ lv[y] < Cardinality(intree) BY <1>1, <1>2 DEF Depths
  <2> QED BY <1>2, <2>2, <2>3
<1>4. \A y \in intree : Prim!find_path(y, lv[y] + 1) BY <1>1, TreeHasPaths
<1>5. \A y, n : Prim!find_path(y, n) => Prim!PathTo(y, n)
  BY DEF Prim!find_path, Prim!PathTo
<1>6. \A n \in 1 .. nvertices : \A y : Prim!PathTo(y, n) => y \in intree
  BY PathsStayInTree
<1> QED BY <1>2, <1>3, <1>4, <1>5, <1>6

(* On any graph: the tree has the vertices that can be reached from the start,
   and the path of parents that main prints goes along edges (prim.c 14-61). *)
THEOREM TreeSpans == Prim!PrimSpec => []Prim!SpansFromStart
<1>1. Prim!PrimInit => PrimIInv BY PrimStarts
<1> QED BY <1>1, PrimIInvKept, PrimIsRight, PTL DEF Prim!PrimSpec

(* Both algorithms that start from one vertex find what can be reached from it. *)
THEOREM WhatCanBeReached == Bfs!BfsSpec /\ Prim!PrimSpec => []ReachesFromStart
<1>1. Bfs!FindsShortestPaths /\ Prim!SpansFromStart => ReachesFromStart
  BY DEF ReachesFromStart
<1> QED BY <1>1, ShortestPaths, TreeSpans, PTL
-----------------------------------------------------------------------------
(* The queue of the instance is the queue. *)
LEMMA MergeQueue ==
  /\ Merge!init_queue = init_queue
  /\ \A a : /\ (Merge!empty_queue(a) <=> empty_queue(a))
            /\ Merge!headq(a) = headq(a) /\ Merge!dequeue(a) = dequeue(a)
  /\ \A a, z : Merge!enqueue(a, z) = enqueue(a, z)
BY DEF Merge!init_queue, init_queue, Merge!empty_queue, empty_queue,
     Merge!headq, headq, Merge!dequeue, dequeue, Merge!enqueue, enqueue

(* The half of its range that a call has given to the next call. *)
Middle(c)   == (c.low + c.high) \div 2
HalfLow(c)  == IF c.at = "right" THEN Middle(c) + 1 ELSE c.low
HalfHigh(c) == IF c.at = "right" THEN c.high ELSE Middle(c)

(* A stack q of m calls: each call that is not the innermost one waits for
   the next one to sort a half of its range, which holds all calls after it. *)
Nested(q, m) ==
  /\ \A k \in 1 .. m : /\ q[k].low <= q[k].high + 1
                       /\ q[k].at # "begin" => q[k].low < q[k].high
  /\ \A k \in 1 .. m - 1 : /\ q[k].at \in {"left", "right"}
                           /\ q[k + 1].low = HalfLow(q[k])
                           /\ q[k + 1].high = HalfHigh(q[k])
  /\ \A k \in 1 .. m : \A j \in 1 .. k - 1 :
       HalfLow(q[j]) <= q[k].low /\ q[k].high <= HalfHigh(q[j])

(* The outermost call sorts the whole array, the others are nested in it. *)
CallsNested ==
  /\ ~Merge!Halt => calls[1].low = 0 /\ calls[1].high = Merge!n - 1
  /\ Nested(calls, Len(calls))

(* The places from l to h are in order. *)
Ordered(a, l, h) == \A j, k \in l .. h : j <= k => a[j] <= a[k]

(* What is in the queues. *)
First  == Contents(buffer1)
Second == Contents(buffer2)
Small  == Merge!n <= 2 * QUEUESIZE

(* What the calls have sorted so far is in order. *)
HalvesSorted ==
  /\ Merge!Halt => Ordered(mergeS, 0, Merge!n - 1)
  /\ \A k \in 1 .. Len(calls) :
       calls[k].at = "right" => Ordered(mergeS, calls[k].low, Middle(calls[k]))
  /\ Merge!At("left") => Ordered(mergeS, Merge!top.low, Merge!mid)
  /\ Merge!At("right") \/ Merge!At("fill") =>
             Ordered(mergeS, Merge!top.low, Merge!mid)
                   /\ Ordered(mergeS, Merge!mid + 1, Merge!top.high)

(* While the queues are filled they hold the halves up to the counter. *)
Filled ==
  /\ Len(First) = (IF mergeCounter <= Merge!mid THEN mergeCounter
                   ELSE Merge!mid + 1) - Merge!top.low
  /\ Len(Second)
       = IF mergeCounter <= Merge!mid THEN 0 ELSE mergeCounter - Merge!mid - 1
  /\ \A j \in 1 .. Len(First) : First[j] = mergeS[Merge!top.low + j - 1]
  /\ \A j \in 1 .. Len(Second) : Second[j] = mergeS[Merge!mid + j]

(* While they are emptied what is merged is in order and not above the rest. *)
Merged ==
  /\ Len(First) + Len(Second) = Merge!top.high + 1 - mergeCounter
  /\ Ordered(mergeS, Merge!top.low, mergeCounter - 1)
  /\ Ordered(First, 1, Len(First)) /\ Ordered(Second, 1, Len(Second))
  /\ \A k \in Merge!top.low .. mergeCounter - 1 :
       /\ \A j \in 1 .. Len(First) : mergeS[k] <= First[j]
       /\ \A j \in 1 .. Len(Second) : mergeS[k] <= Second[j]

(* The queues never hold more than what is left to merge; if the halves of the
   array fit they hold just that. *)
BuffersHold ==
  /\ Merge!At("fill") => /\ Merge!top.low <= mergeCounter
                         /\ mergeCounter <= Merge!top.high + 1
                         /\ Len(First) + Len(Second)
                              <= mergeCounter - Merge!top.low
                         /\ Small => Filled
  /\ Merge!At("merge") => /\ Merge!top.low <= mergeCounter
                          /\ Len(First) + Len(Second)
                               <= Merge!top.high + 1 - mergeCounter
                          /\ Small => Merged

(* The array with what is in the queues put back behind the counter. *)
PutBack ==
  [k \in 0 .. Merge!n - 1 |->
     IF Merge!At("merge") /\ mergeCounter <= k /\ k <= Merge!top.high
     THEN IF k < mergeCounter + Len(First) THEN First[k - mergeCounter + 1]
          ELSE Second[k - mergeCounter - Len(First) + 1]
     ELSE mergeS[k]]

(* a is a permutation of the array at first. *)
Rearranged(a) ==
  \E f \in Bijection(0 .. Merge!n - 1, 0 .. Merge!n - 1) :
    \A k \in 0 .. Merge!n - 1 : a[k] = mergeArray[f[k]]

(* The types, with the array that is sorted. *)
MergeTyped ==
  LET Buffers == [q : [0 .. QUEUESIZE -> Int], first : 0 .. QUEUESIZE - 1,
                  last : 0 .. QUEUESIZE - 1, count : 0 .. QUEUESIZE]
  IN  /\ mergeArray \in Arrays /\ mergeS \in [0 .. Merge!n - 1 -> Int]
      /\ calls \in Seq([low : 0 .. Merge!n, high : -1 .. Merge!n - 1,
           at : Merge!Steps])
      /\ buffer1 \in Buffers /\ buffer2 \in Buffers
      /\ mergeCounter \in 0 .. Merge!n

(* The inductive invariant. *)
MergeIInv ==
  /\ MergeTyped /\ IsQueue(buffer1, Int) /\ IsQueue(buffer2, Int)
  /\ CallsNested /\ BuffersHold
  /\ Small => HalvesSorted /\ Rearranged(PutBack)

(* Sets have the same size in the instance. *)
LEMMA MergeCardinality == \A S : Merge!Cardinality(S) = Cardinality(S)
BY DEF Merge!Cardinality, Cardinality

(* An array has the places from 0 to n - 1. *)
LEMMA ArrayType ==
  ASSUME mergeArray \in Arrays
  PROVE  Merge!n \in Nat /\ mergeArray \in [0 .. Merge!n - 1 -> Int]
BY ArrayAssumption, MergeCardinality DEF Merge!n

(* The middle of a range. *)
LEMMA Middles ==
  ASSUME NEW l \in Nat, NEW h \in Nat, l < h
  PROVE  /\ (l + h) \div 2 \in Nat
         /\ l <= (l + h) \div 2 /\ (l + h) \div 2 < h
         /\ \A z \in Nat : h - l + 1 <= 2 * z =>
              (l + h) \div 2 - l + 1 <= z /\ h - (l + h) \div 2 <= z
OBVIOUS

(* What follows from the types. *)
LEMMA MergeTypes ==
  ASSUME MergeIInv
  PROVE  /\ Merge!n \in Nat /\ mergeArray \in [0 .. Merge!n - 1 -> Int]
         /\ mergeS \in [0 .. Merge!n - 1 -> Int]
         /\ \A k \in 0 .. Merge!n - 1 : mergeS[k] \in Int
         /\ mergeCounter \in Nat /\ mergeCounter <= Merge!n
         /\ calls \in Seq([low : 0 .. Merge!n, high : -1 .. Merge!n - 1,
              at : Merge!Steps])
         /\ Len(calls) \in Nat /\ (Merge!Halt <=> Len(calls) = 0)
         /\ \A k \in 1 .. Len(calls) :
              /\ calls[k] \in [low : 0 .. Merge!n, high : -1 .. Merge!n - 1,
                   at : Merge!Steps]
              /\ calls[k].low \in Nat /\ calls[k].high \in Int
              /\ calls[k].high <= Merge!n - 1 /\ calls[k].low <= Merge!n
         /\ First \in Seq(Int) /\ Len(First) = buffer1.count
         /\ Second \in Seq(Int) /\ Len(Second) = buffer2.count
         /\ Len(First) \in Nat /\ Len(Second) \in Nat
         /\ \A k \in 1 .. Len(First) : First[k] \in Int
         /\ \A k \in 1 .. Len(Second) : Second[k] \in Int
         /\ (Merge!empty_queue(buffer1) <=> Len(First) = 0)
         /\ (Merge!empty_queue(buffer2) <=> Len(Second) = 0)
<1>1. /\ mergeArray \in Arrays /\ mergeS \in [0 .. Merge!n - 1 -> Int]
      /\ mergeCounter \in 0 .. Merge!n
      /\ calls \in Seq([low : 0 .. Merge!n, high : -1 .. Merge!n - 1,
           at : Merge!Steps])
  BY DEF MergeIInv, MergeTyped
<1>2. Merge!n \in Nat /\ mergeArray \in [0 .. Merge!n - 1 -> Int]
  BY <1>1, ArrayType
<1> DEFINE R == [low : 0 .. Merge!n, high : -1 .. Merge!n - 1, at : Merge!Steps]
<1>3. \A c \in R : /\ c.low \in Nat /\ c.high \in Int
                   /\ c.high <= Merge!n - 1 /\ c.low <= Merge!n
  BY <1>2
<1> HIDE DEF R
<1>4. /\ Len(calls) \in Nat /\ \A k \in 1 .. Len(calls) : calls[k] \in R
      /\ (calls = <<>> <=> Len(calls) = 0)
  <2>1. calls \in Seq(R) BY <1>1 DEF R
  <2> QED BY <2>1
<1>5. IsQueue(buffer1, Int) /\ IsQueue(buffer2, Int) BY DEF MergeIInv
<1>6. /\ First \in Seq(Int) /\ Len(First) = buffer1.count
      /\ (Merge!empty_queue(buffer1) <=> buffer1.count = 0)
  BY <1>5, QueueHolds, MergeQueue DEF First
<1>7. /\ Second \in Seq(Int) /\ Len(Second) = buffer2.count
      /\ (Merge!empty_queue(buffer2) <=> buffer2.count = 0)
  BY <1>5, QueueHolds, MergeQueue DEF Second
<1>8. \A q \in Seq(Int) : Len(q) \in Nat /\ \A k \in 1 .. Len(q) : q[k] \in Int
  OBVIOUS
<1>9. calls \in Seq([low : 0 .. Merge!n, high : -1 .. Merge!n - 1,
        at : Merge!Steps])
  BY <1>1
<1>10. \A k \in 1 .. Len(calls) :
         calls[k] \in [low : 0 .. Merge!n, high : -1 .. Merge!n - 1,
               at : Merge!Steps]
  BY <1>4 DEF R
<1>11. \A k \in 1 .. Len(calls) : /\ calls[k].low \in Nat
                                  /\ calls[k].high \in Int
                                  /\ calls[k].high <= Merge!n - 1
                                  /\ calls[k].low <= Merge!n
  BY <1>3, <1>4
<1>12. \A k \in 0 .. Merge!n - 1 : mergeS[k] \in Int BY <1>1
<1>13. mergeCounter \in Nat /\ mergeCounter <= Merge!n BY <1>1, <1>2
<1>14. (Merge!empty_queue(buffer1) <=> Len(First) = 0) BY <1>6
<1>15. (Merge!empty_queue(buffer2) <=> Len(Second) = 0) BY <1>7
<1>16. Merge!Halt <=> Len(calls) = 0 BY <1>4 DEF Merge!Halt
<1> QED BY <1>1, <1>2, <1>4, <1>6, <1>7, <1>8, <1>9, <1>10, <1>11, <1>12, <1>13,
           <1>14, <1>15, <1>16

(* The innermost call. *)
LEMMA TopCall ==
  ASSUME MergeIInv, ~Merge!Halt
  PROVE  /\ Len(calls) \in Nat /\ Len(calls) >= 1
         /\ Merge!top = calls[Len(calls)]
         /\ Merge!top \in [low : 0 .. Merge!n, high : -1 .. Merge!n - 1,
              at : Merge!Steps]
         /\ Merge!top.low \in Nat /\ Merge!top.high \in Int
         /\ Merge!top.high <= Merge!n - 1
         /\ Merge!top.low <= Merge!n /\ Merge!top.low <= Merge!top.high + 1
         /\ Merge!mid = Middle(Merge!top)
         /\ Merge!top.at # "begin" =>
              /\ Merge!top.low < Merge!top.high /\ Merge!mid \in Nat
              /\ Merge!top.high \in Nat
              /\ Merge!top.low <= Merge!mid /\ Merge!mid < Merge!top.high
              /\ Small => /\ Merge!mid - Merge!top.low + 1 <= QUEUESIZE
                          /\ Merge!top.high - Merge!mid <= QUEUESIZE
<1>1. Len(calls) \in Nat /\ Len(calls) >= 1 BY MergeTypes
<1>2. Len(calls) \in 1 .. Len(calls) BY <1>1
<1>3. /\ Merge!top \in [low : 0 .. Merge!n, high : -1 .. Merge!n - 1,
           at : Merge!Steps]
      /\ Merge!top.low \in Nat /\ Merge!top.high \in Int
      /\ Merge!top.high <= Merge!n - 1
      /\ Merge!top.low <= Merge!n /\ Merge!n \in Nat
  BY <1>2, MergeTypes DEF Merge!top
<1>4. /\ Merge!top.low <= Merge!top.high + 1
      /\ Merge!top.at # "begin" => Merge!top.low < Merge!top.high
  <2>1. Nested(calls, Len(calls)) BY DEF MergeIInv, CallsNested
  <2> QED BY <1>2, <2>1 DEF Nested, Merge!top
<1>5. ASSUME Merge!top.at # "begin"
      PROVE  /\ Merge!top.low < Merge!top.high /\ Merge!mid \in Nat
             /\ Merge!top.high \in Nat
             /\ Merge!top.low <= Merge!mid /\ Merge!mid < Merge!top.high
             /\ Small => /\ Merge!mid - Merge!top.low + 1 <= QUEUESIZE
                         /\ Merge!top.high - Merge!mid <= QUEUESIZE
  <2>1. Merge!top.low < Merge!top.high /\ Merge!top.high \in Nat
    BY <1>3, <1>4, <1>5
  <2>2. Small => Merge!top.high - Merge!top.low + 1 <= 2 * QUEUESIZE
          /\ QUEUESIZE \in Nat
    BY <1>3, QueueAssumption DEF Small
  <2> QED BY <1>3, <2>1, <2>2, Middles DEF Merge!mid
<1> QED BY <1>1, <1>3, <1>4, <1>5 DEF Merge!top, Merge!mid, Middle

(* The invariant holds at first. *)
LEMMA MergeStarts == ASSUME Merge!MergeInit PROVE MergeIInv
<1>1. /\ mergeArray \in Arrays /\ mergeS = mergeArray
      /\ calls = <<Merge!Call(0, Merge!n - 1)>>
      /\ buffer1 = Merge!init_queue /\ buffer2 = Merge!init_queue
      /\ mergeCounter = 0
  BY DEF Merge!MergeInit
<1>2. Merge!n \in Nat /\ mergeArray \in [0 .. Merge!n - 1 -> Int]
  BY <1>1, ArrayType
<1>3. /\ IsQueue(buffer1, Int) /\ First = <<>>
      /\ IsQueue(buffer2, Int) /\ Second = <<>>
  BY <1>1, QueueBegins, MergeQueue DEF First, Second
<1>4. /\ Len(calls) = 1
      /\ calls[1] = [low |-> 0, high |-> Merge!n - 1, at |-> "begin"]
      /\ Merge!top = calls[1] /\ ~Merge!Halt /\ Merge!top.at = "begin"
      /\ calls \in Seq([low : 0 .. Merge!n, high : -1 .. Merge!n - 1,
           at : Merge!Steps])
  <2>1. Merge!Call(0, Merge!n - 1) \in [low : 0 .. Merge!n,
          high : -1 .. Merge!n - 1, at : Merge!Steps]
    BY <1>2 DEF Merge!Call, Merge!Steps
  <2>2. calls = <<Merge!Call(0, Merge!n - 1)>> BY <1>1
  <2>3. \A R, c : c \in R => <<c>> \in Seq(R) /\ Len(<<c>>) = 1 /\ <<c>>[1] = c
                            /\ <<c>> # <<>>
    OBVIOUS
  <2> QED BY <2>1, <2>2, <2>3 DEF Merge!Call, Merge!top, Merge!Halt
<1>5. MergeTyped BY <1>1, <1>2, <1>3, <1>4 DEF MergeTyped, IsQueue
<1>6. CallsNested
  <2>1. Nested(calls, 1) BY <1>2, <1>4 DEF Nested
  <2> QED BY <1>4, <2>1 DEF CallsNested
<1>7. BuffersHold BY <1>4 DEF BuffersHold, Merge!At
<1>8. HalvesSorted BY <1>4 DEF HalvesSorted, Merge!At
<1>9. Rearranged(PutBack)
  <2> DEFINE D == 0 .. Merge!n - 1
             f == [k \in D |-> k]
  <2>1. f \in Bijection(D, D)
    BY DEF Bijection, Injection, Surjection, IsInjective
  <2>2. \A k \in D : f[k] = k OBVIOUS
  <2>3. \A k \in D : PutBack[k] = mergeArray[k]
    BY <1>1, <1>4 DEF PutBack, Merge!At
  <2> HIDE DEF f
  <2>4. \A k \in D : PutBack[k] = mergeArray[f[k]] BY <2>2, <2>3
  <2> QED BY <2>1, <2>4 DEF Rearranged
<1> QED BY <1>3, <1>5, <1>6, <1>7, <1>8, <1>9 DEF MergeIInv

(* The array stays the same rearrangement while it and the queues do not
   change and nothing is merged. *)
LEMMA SameArrangement ==
  ASSUME Rearranged(PutBack), mergeArray' = mergeArray, PutBack' = PutBack
  PROVE  Rearranged(PutBack)'
BY DEF Rearranged, Merge!n

(* Outside of the merging nothing is to be put back. *)
LEMMA NotMerging ==
  ASSUME ~Merge!At("merge"), ~Merge!At("merge")', mergeArray' = mergeArray,
        mergeS' = mergeS
  PROVE  PutBack' = PutBack
BY DEF PutBack, Merge!n

(* A call for a half is nested in the one that makes it. *)
LEMMA NestedPushed ==
  ASSUME NEW m \in Nat \ {0}, NEW q, NEW w, Nested(q, m),
         \A k \in 1 .. m : q[k].low \in Int /\ q[k].high \in Int,
         \A k \in 1 .. m - 1 : w[k] = q[k],
         w[m].low = q[m].low, w[m].high = q[m].high,
         w[m].low < w[m].high, w[m].at \in {"left", "right"},
         w[m + 1].low = HalfLow(w[m]), w[m + 1].high = HalfHigh(w[m]),
         w[m + 1].at = "begin"
  PROVE  Nested(w, m + 1)
<1>1. /\ w[m].low \in Int /\ w[m].high \in Int
      /\ m \in 1 .. m
  OBVIOUS
<1>2. /\ w[m + 1].low \in Int /\ w[m + 1].high \in Int
      /\ w[m].low <= w[m + 1].low /\ w[m + 1].high <= w[m].high
      /\ w[m + 1].low <= w[m + 1].high + 1
  BY <1>1 DEF HalfLow, HalfHigh, Middle
<1>3. \A k \in 1 .. m : w[k].low = q[k].low /\ w[k].high = q[k].high
  <2> TAKE k \in 1 .. m
  <2>1. CASE k = m BY <2>1
  <2>2. CASE k \in 1 .. m - 1 BY <2>2
  <2> QED BY <2>1, <2>2
<1>4. \A k \in 1 .. m + 1 : /\ w[k].low <= w[k].high + 1
                            /\ w[k].at # "begin" => w[k].low < w[k].high
  <2> TAKE k \in 1 .. m + 1
  <2>1. CASE k = m + 1 BY <1>2, <2>1
  <2>2. CASE k = m BY <1>1, <2>2
  <2>3. CASE k \in 1 .. m - 1
    <3>1. w[k] = q[k] /\ k \in 1 .. m BY <2>3
    <3> QED BY <3>1 DEF Nested
  <2> QED BY <2>1, <2>2, <2>3
<1>5. \A k \in 1 .. m : /\ w[k].at \in {"left", "right"}
                        /\ w[k + 1].low = HalfLow(w[k])
                        /\ w[k + 1].high = HalfHigh(w[k])
  <2> TAKE k \in 1 .. m
  <2>1. CASE k = m BY <2>1
  <2>2. CASE k \in 1 .. m - 1
    <3>1. w[k] = q[k] /\ k + 1 \in 1 .. m BY <2>2
    <3>2. w[k + 1].low = q[k + 1].low /\ w[k + 1].high = q[k + 1].high
      BY <1>3, <3>1
    <3> QED BY <2>2, <3>1, <3>2 DEF Nested
  <2> QED BY <2>1, <2>2
<1>6. \A k \in 1 .. m : \A j \in 1 .. k - 1 :
        HalfLow(w[j]) <= w[k].low /\ w[k].high <= HalfHigh(w[j])
  <2> TAKE k \in 1 .. m
  <2> TAKE j \in 1 .. k - 1
  <2>1. w[j] = q[j] BY j \in 1 .. m - 1
  <2>2. HalfLow(q[j]) <= q[k].low /\ q[k].high <= HalfHigh(q[j]) BY DEF Nested
  <2> QED BY <1>3, <2>1, <2>2
<1>7. \A j \in 1 .. m :
        HalfLow(w[j]) <= w[m + 1].low /\ w[m + 1].high <= HalfHigh(w[j])
  <2> TAKE j \in 1 .. m
  <2>1. CASE j = m BY <1>2, <2>1
  <2>2. CASE j \in 1 .. m - 1
    <3>1. HalfLow(w[j]) <= w[m].low /\ w[m].high <= HalfHigh(w[j])
      BY <1>1, <1>6, <2>2
    <3>2. w[j].low \in Int /\ w[j].high \in Int BY <1>3
    <3>3. HalfLow(w[j]) \in Int /\ HalfHigh(w[j]) \in Int
      BY <3>2 DEF HalfLow, HalfHigh, Middle
    <3> QED BY <1>1, <1>2, <3>1, <3>3
  <2> QED BY <2>1, <2>2
<1>8. \A k \in 1 .. m + 1 : \A j \in 1 .. k - 1 :
        HalfLow(w[j]) <= w[k].low /\ w[k].high <= HalfHigh(w[j])
  <2> TAKE k \in 1 .. m + 1
  <2> TAKE j \in 1 .. k - 1
  <2>1. CASE k = m + 1 BY <1>7, <2>1
  <2>2. CASE k \in 1 .. m BY <1>6, <2>2
  <2> QED BY <2>1, <2>2
<1>9. (m + 1) - 1 = m OBVIOUS
<1> QED BY <1>4, <1>5, <1>8, <1>9 DEF Nested

(* A call calls itself: the stack is one higher. *)
LEMMA Pushed ==
  ASSUME MergeIInv, NEW c, c = calls, NEW m, m = Len(calls), ~Merge!Halt,
         Merge!top.at # "begin" \/ Merge!top.low < Merge!top.high,
         NEW step \in {"left", "right"}, NEW l, NEW h, NEW u,
         u = [low |-> Merge!top.low, high |-> Merge!top.high, at |-> step],
         l = HalfLow(u), h = HalfHigh(u),
         calls' = Append(Merge!Goto(step), Merge!Call(l, h)),
         mergeArray' = mergeArray, mergeS' = mergeS, buffer1' = buffer1,
               buffer2' = buffer2, mergeCounter' = mergeCounter
  PROVE  /\ m \in Nat /\ m >= 1 /\ Len(calls') = m + 1
         /\ \A k \in 1 .. m - 1 : calls'[k] = c[k]
         /\ calls'[m] = u /\ calls'[m + 1] = Merge!Call(l, h)
         /\ Merge!top' = Merge!Call(l, h) /\ ~Merge!Halt'
         /\ MergeTyped' /\ CallsNested' /\ BuffersHold'
         /\ IsQueue(buffer1, Int)' /\ IsQueue(buffer2, Int)'
         /\ Merge!n' = Merge!n
         /\ PutBack' = [k \in 0 .. Merge!n - 1 |-> mergeS[k]]
<1> DEFINE R == [low : 0 .. Merge!n, high : -1 .. Merge!n - 1, at : Merge!Steps]
<1>1. /\ m \in Nat /\ m >= 1 /\ Merge!top = c[m] /\ Merge!n \in Nat
      /\ c \in Seq(R) /\ \A k \in 1 .. m : c[k] \in R
      /\ Merge!top \in R /\ Merge!top.low \in Nat /\ Merge!top.high \in Nat
      /\ Merge!top.high <= Merge!n - 1 /\ Merge!top.low < Merge!top.high
  <2>1. /\ Len(calls) \in Nat /\ Len(calls) >= 1
        /\ Merge!top = calls[Len(calls)]
        /\ Merge!top \in R /\ Merge!top.low \in Nat /\ Merge!top.high \in Int
        /\ Merge!top.high <= Merge!n - 1
        /\ Merge!top.at # "begin" => Merge!top.low < Merge!top.high
    BY TopCall
  <2>2. Merge!top.low < Merge!top.high BY <2>1
  <2>3. Merge!n \in Nat /\ calls \in Seq(R) /\ \A k \in 1 .. Len(calls) :
          calls[k] \in R
    BY MergeTypes
  <2>4. m \in Nat /\ m >= 1 BY <2>1
  <2>5. Merge!top.high \in Nat BY <2>1, <2>2
  <2> QED BY <2>1, <2>2, <2>3, <2>4, <2>5
<1>2. /\ u.low = Merge!top.low /\ u.high = Merge!top.high /\ u.at = step
      /\ u \in R
      /\ Middle(u) \in Nat /\ u.low <= Middle(u) /\ Middle(u) < u.high
      /\ u = [Merge!top EXCEPT !.at = step]
  <2>1. u.low = Merge!top.low /\ u.high = Merge!top.high /\ u.at = step OBVIOUS
  <2>2. step \in Merge!Steps BY DEF Merge!Steps
  <2> QED BY <1>1, <2>1, <2>2, Middles DEF Middle
<1>3. /\ l \in 0 .. Merge!n - 1 /\ h \in 0 .. Merge!n - 1 /\ u.low <= l
      /\ h <= u.high /\ l <= h
  BY <1>1, <1>2 DEF HalfLow, HalfHigh
<1>4. Merge!Call(l, h) \in R
        /\ Merge!Call(l, h) = [low |-> l, high |-> h, at |-> "begin"]
  BY <1>1, <1>3 DEF Merge!Call, Merge!Steps
<1>5. Merge!Goto(step) = [c EXCEPT ![m] = u]
  BY <1>1, <1>2 DEF Merge!Goto
<1> HIDE DEF R
<1>6. \A q \in Seq(R) : \A k \in 1 .. Len(q) : \A z, y \in R :
        LET w == Append([q EXCEPT ![k] = z], y)
        IN  /\ w \in Seq(R) /\ Len(w) = Len(q) + 1
            /\ \A j \in 1 .. Len(q) : w[j] = IF j = k THEN z ELSE q[j]
            /\ w[Len(q) + 1] = y
  OBVIOUS
<1>7. m \in 1 .. Len(c) BY <1>1
<1>8. /\ calls' \in Seq(R) /\ Len(calls') = m + 1
      /\ \A j \in 1 .. m : calls'[j] = IF j = m THEN u ELSE c[j]
      /\ calls'[m + 1] = Merge!Call(l, h)
  BY <1>1, <1>2, <1>4, <1>5, <1>6, <1>7
<1>9. m \in Nat /\ m >= 1 BY <1>1
<1>10. /\ \A k \in 1 .. m - 1 : calls'[k] = c[k]
      /\ calls'[m] = u
  BY <1>9, <1>8
<1>11. Merge!n' = Merge!n BY DEF Merge!n
<1>12. ~Merge!Halt' /\ Merge!top' = Merge!Call(l, h)
  <2>1. calls' # <<>> BY <1>1, <1>8
  <2> QED BY <1>1, <1>8, <2>1 DEF Merge!Halt, Merge!top
<1>13. Merge!top'.at = "begin" BY <1>4, <1>12
<1>14. MergeTyped' BY <1>8, <1>11 DEF MergeIInv, MergeTyped, R
<1>15. BuffersHold' BY <1>13 DEF BuffersHold, Merge!At
<1>16. CallsNested'
  <2>1. Nested(c, m) /\ c[1].low = 0 /\ c[1].high = Merge!n - 1
    BY DEF MergeIInv, CallsNested
  <2>2. \A k \in 1 .. m : c[k].low \in Int /\ c[k].high \in Int BY <1>1 DEF R
  <2>3. m \in Nat \ {0} BY <1>9
  <2>4. c[m] = Merge!top BY <1>1
  <2>5. Nested(calls', m + 1)
    <3>1. calls'[m].low = c[m].low /\ calls'[m].high = c[m].high
      BY <1>2, <1>10, <2>4
    <3>2. calls'[m].low < calls'[m].high /\ calls'[m].at \in {"left", "right"}
      BY <1>1, <1>2, <1>10
    <3>3. /\ calls'[m + 1].low = HalfLow(calls'[m])
          /\ calls'[m + 1].high = HalfHigh(calls'[m])
          /\ calls'[m + 1].at = "begin"
      <4>1. calls'[m] = u /\ calls'[m + 1] = Merge!Call(l, h) BY <1>8, <1>10
      <4>2. /\ Merge!Call(l, h).low = l /\ Merge!Call(l, h).high = h
            /\ Merge!Call(l, h).at = "begin"
        BY <1>4
      <4>3. l = HalfLow(u) /\ h = HalfHigh(u) OBVIOUS
      <4> QED BY ONLY <4>1, <4>2, <4>3
    <3> HIDE DEF R
    <3> QED BY <1>10, <2>1, <2>2, <2>3, <3>1, <3>2, <3>3, NestedPushed
  <2>6. calls'[1].low = 0 /\ calls'[1].high = Merge!n - 1
    <3>1. CASE m = 1 BY <1>2, <1>10, <2>1, <2>4, <3>1
    <3>2. CASE m # 1
      <4>1. 1 \in 1 .. m - 1 BY <2>3, <3>2
      <4> QED BY <1>10, <2>1, <4>1
    <3> QED BY <3>1, <3>2
  <2> QED BY <1>8, <1>11, <2>5, <2>6 DEF CallsNested
<1>17. PutBack' = [k \in 0 .. Merge!n - 1 |-> mergeS[k]]
  <2>1. ~Merge!At("merge")' BY <1>13 DEF Merge!At
  <2> QED BY <1>11, <2>1 DEF PutBack
<1>18. IsQueue(buffer1, Int)' /\ IsQueue(buffer2, Int)'
  BY DEF MergeIInv, IsQueue
<1> QED BY <1>1, <1>8, <1>10, <1>11, <1>12, <1>14, <1>15, <1>16, <1>17, <1>18

(* When the innermost call returns the others stay nested. *)
LEMMA NestedPopped ==
  ASSUME NEW m \in Nat \ {0}, NEW q, NEW w, Nested(q, m),
         \A k \in 1 .. m - 1 : w[k] = q[k]
  PROVE  Nested(w, m - 1)
<1>1. \A k \in 1 .. m - 1 : k \in 1 .. m /\ w[k] = q[k] OBVIOUS
<1>2. \A k \in 1 .. (m - 1) - 1 : /\ k \in 1 .. m - 1 /\ k + 1 \in 1 .. m - 1
                                  /\ w[k] = q[k] /\ w[k + 1] = q[k + 1]
  OBVIOUS
<1>3. \A k \in 1 .. m - 1 : \A j \in 1 .. k - 1 :
        j \in 1 .. m - 1 /\ w[j] = q[j]
  OBVIOUS
<1> QED BY <1>1, <1>2, <1>3 DEF Nested

(* They stay nested when the innermost one goes on. *)
LEMMA NestedMoved ==
  ASSUME NEW m \in Nat \ {0}, NEW q, NEW w, Nested(q, m),
         \A k \in 1 .. m - 1 : w[k] = q[k],
         w[m].low = q[m].low, w[m].high = q[m].high, q[m].low < q[m].high
  PROVE  Nested(w, m)
<1>1. \A k \in 1 .. m : w[k].low = q[k].low /\ w[k].high = q[k].high
  <2> TAKE k \in 1 .. m
  <2>1. CASE k = m BY <2>1
  <2>2. CASE k \in 1 .. m - 1 BY <2>2
  <2> QED BY <2>1, <2>2
<1>2. \A k \in 1 .. m : /\ w[k].low <= w[k].high + 1
                        /\ w[k].at # "begin" => w[k].low < w[k].high
  <2> TAKE k \in 1 .. m
  <2>1. CASE k = m BY <1>1, <2>1 DEF Nested
  <2>2. CASE k \in 1 .. m - 1 BY <2>2 DEF Nested
  <2> QED BY <2>1, <2>2
<1>3. \A k \in 1 .. m - 1 : /\ w[k] = q[k] /\ w[k + 1].low = q[k + 1].low
                            /\ w[k + 1].high = q[k + 1].high
  BY <1>1
<1>4. \A k \in 1 .. m : \A j \in 1 .. k - 1 : w[j] = q[j] OBVIOUS
<1> QED BY <1>1, <1>2, <1>3, <1>4 DEF Nested

(* The innermost call returns, its range sorted. *)
LEMMA Popped ==
  ASSUME MergeIInv, ~Merge!Halt, Merge!Return, mergeArray' = mergeArray,
        mergeS' = mergeS,
         buffer1' = buffer1, buffer2' = buffer2, mergeCounter' = mergeCounter,
         Small => /\ Ordered(mergeS, Merge!top.low, Merge!top.high)
                  /\ PutBack = [k \in 0 .. Merge!n - 1 |-> mergeS[k]]
  PROVE  MergeIInv'
<1> DEFINE R == [low : 0 .. Merge!n, high : -1 .. Merge!n - 1, at : Merge!Steps]
<1>1. PICK m : m = Len(calls) OBVIOUS
<1>2. PICK c : c = calls OBVIOUS
<1>3. /\ m \in Nat /\ m >= 1 /\ Merge!top = c[m]
  BY <1>1, <1>2, TopCall
<1>4. c \in Seq(R) /\ Len(c) = m /\ Merge!n \in Nat BY <1>1, <1>2, MergeTypes
<1>5. c[m].low \in Int /\ c[m].high \in Int BY <1>3, TopCall
<1> HIDE DEF R
<1>6. \A q \in Seq(R) : Len(q) >= 1 =>
        LET w == SubSeq(q, 1, Len(q) - 1)
        IN  /\ w \in Seq(R) /\ Len(w) = Len(q) - 1
            /\ \A k \in 1 .. Len(q) - 1 : w[k] = q[k]
            /\ (w = <<>> <=> Len(q) = 1)
  <2> TAKE q \in Seq(R)
  <2> HAVE Len(q) >= 1
  <2> DEFINE w == SubSeq(q, 1, Len(q) - 1)
  <2>1. Len(q) \in Nat /\ Len(q) >= 1 OBVIOUS
  <2>2. /\ w \in Seq(R) /\ Len(w) = Len(q) - 1
        /\ \A k \in 1 .. Len(q) - 1 : w[k] = q[k]
    <3>1. \A k \in 1 .. Len(q) - 1 : q[k] \in R BY <2>1
    <3>2. 1 \in Int /\ Len(q) - 1 \in Int BY <2>1
    <3> HIDE DEF w
    <3>3. /\ w \in Seq(R)
          /\ Len(w) = IF 1 <= Len(q) - 1 THEN Len(q) - 1 - 1 + 1 ELSE 0
          /\ \A k \in 1 .. Len(q) - 1 - 1 + 1 : w[k] = q[1 + k - 1]
      BY <3>1, <3>2, SubSeqProperties DEF w
    <3>4. ASSUME NEW k \in 1 .. Len(q) - 1 PROVE w[k] = q[k]
      <4>1. k \in 1 .. Len(q) - 1 - 1 + 1 /\ 1 + k - 1 = k BY <2>1
      <4>2. w[k] = q[1 + k - 1] BY <3>3, <4>1
      <4> QED BY <4>1, <4>2
    <3>5. Len(w) = IF 1 <= Len(q) - 1 THEN Len(q) - 1 - 1 + 1 ELSE 0 BY <3>3
    <3>6. ASSUME NEW x \in Nat, x >= 1,
                 NEW y, y = IF 1 <= x - 1 THEN x - 1 - 1 + 1 ELSE 0
          PROVE  y = x - 1
      <4>1. CASE x = 1 BY ONLY <3>6, <4>1
      <4>2. CASE x >= 2 BY ONLY <3>6, <4>2
      <4> QED BY ONLY <3>6, <4>1, <4>2
    <3>7. Len(w) = Len(q) - 1 BY ONLY <2>1, <3>5, <3>6
    <3> QED BY <3>3, <3>4, <3>7
  <2> HIDE DEF w
  <2>3. w = <<>> <=> Len(w) = 0 BY <2>2
  <2> QED BY <2>1, <2>2, <2>3 DEF w
<1>7. /\ calls' \in Seq(R) /\ Len(calls') = m - 1
      /\ \A k \in 1 .. m - 1 : calls'[k] = c[k]
      /\ (calls' = <<>> <=> m = 1)
  BY <1>2, <1>3, <1>4, <1>6 DEF Merge!Return
<1>8. Merge!n' = Merge!n BY DEF Merge!n
<1>9. MergeTyped' BY <1>7, <1>8 DEF MergeIInv, MergeTyped, R
<1>10. IsQueue(buffer1, Int)' /\ IsQueue(buffer2, Int)'
  BY DEF MergeIInv, IsQueue
<1>11. /\ Nested(c, m) /\ c[1].low = 0 /\ c[1].high = Merge!n - 1
  BY <1>1, <1>2 DEF MergeIInv, CallsNested
<1>12. Merge!Halt' <=> m = 1 BY <1>7 DEF Merge!Halt
<1>13. CallsNested'
  <2>1. Nested(calls', m - 1) BY <1>3, <1>7, <1>11, NestedPopped
  <2>2. ~Merge!Halt' => calls'[1] = c[1]
    <3>1. ~Merge!Halt' => 1 \in 1 .. m - 1 BY <1>3, <1>12
    <3> QED BY <1>7, <3>1
  <2> QED BY <1>7, <1>8, <1>11, <2>1, <2>2 DEF CallsNested
<1>14. ASSUME ~Merge!Halt'
       PROVE  /\ m - 1 \in 1 .. m - 1 /\ Merge!top' = c[m - 1]
              /\ c[m - 1].at \in {"left", "right"}
              /\ c[m].low = HalfLow(c[m - 1]) /\ c[m].high = HalfHigh(c[m - 1])
  <2>1. m - 1 \in 1 .. m - 1 /\ (m - 1) + 1 = m BY <1>3, <1>12, <1>14
  <2>2. Merge!top' = c[m - 1] BY <1>7, <2>1 DEF Merge!top
  <2> QED BY <1>11, <2>1, <2>2 DEF Nested
<1>15. ~Merge!At("fill")' /\ ~Merge!At("merge")' BY <1>14 DEF Merge!At
<1>16. BuffersHold' BY <1>15 DEF BuffersHold
<1>17. ASSUME Small PROVE HalvesSorted'
  <2>1. Ordered(mergeS, c[m].low, c[m].high) BY <1>3, <1>17
  <2>2. \A k \in 1 .. m :
          c[k].at = "right" => Ordered(mergeS, c[k].low, Middle(c[k]))
    BY <1>1, <1>2, <1>17 DEF MergeIInv, HalvesSorted
  <2>3. (Merge!Halt => Ordered(mergeS, 0, Merge!n - 1))'
    BY <1>8, <1>11, <1>12, <2>1 DEF Ordered
  <2>4. (\A k \in 1 .. Len(calls) :
           calls[k].at = "right"
                 => Ordered(mergeS, calls[k].low, Middle(calls[k])))'
    <3>1. \A k \in 1 .. m - 1 : k \in 1 .. m BY <1>3
    <3> QED BY <1>7, <2>2, <3>1 DEF Ordered
  <2>5. (Merge!At("left") => Ordered(mergeS, Merge!top.low, Merge!mid))'
    <3> SUFFICES ASSUME Merge!At("left")' PROVE Ordered(mergeS, Merge!top'.low,
            Merge!mid')
      BY DEF Ordered
    <3>1. ~Merge!Halt' /\ Merge!top'.at = "left" BY DEF Merge!At
    <3>2. c[m].low = Merge!top'.low /\ c[m].high = Middle(Merge!top')
      BY <1>14, <3>1 DEF HalfLow, HalfHigh
    <3>3. Merge!mid' = Middle(Merge!top') BY DEF Merge!mid, Middle
    <3> QED BY <2>1, <3>2, <3>3
  <2>6. (Merge!At("right") => /\ Ordered(mergeS, Merge!top.low, Merge!mid)
                              /\ Ordered(mergeS, Merge!mid + 1,
                                   Merge!top.high))'
    <3> SUFFICES ASSUME Merge!At("right")'
                 PROVE  Ordered(mergeS, Merge!top'.low, Merge!mid')
                       /\ Ordered(mergeS, Merge!mid' + 1, Merge!top'.high)
      BY DEF Ordered
    <3>1. ~Merge!Halt' /\ Merge!top'.at = "right" BY DEF Merge!At
    <3>2. c[m].low = Middle(Merge!top') + 1 /\ c[m].high = Merge!top'.high
      BY <1>14, <3>1 DEF HalfLow, HalfHigh
    <3>3. Merge!mid' = Middle(Merge!top') BY DEF Merge!mid, Middle
    <3>4. m - 1 \in 1 .. m BY <1>3, <1>14, <3>1
    <3> QED BY <1>14, <2>1, <2>2, <3>1, <3>2, <3>3, <3>4
  <2> QED BY <1>15, <2>3, <2>4, <2>5, <2>6 DEF HalvesSorted
<1>18. ASSUME Small PROVE Rearranged(PutBack)'
  <2>1. PutBack' = PutBack BY <1>8, <1>15, <1>18 DEF PutBack
  <2> QED BY <1>18, <2>1, SameArrangement DEF MergeIInv
<1>19. Small' <=> Small BY <1>8 DEF Small
<1> QED BY <1>9, <1>10, <1>13, <1>16, <1>17, <1>18, <1>19 DEF MergeIInv

(* A range of one place or none is sorted. *)
LEMMA NothingToSortKeeps ==
  ASSUME MergeIInv, Merge!NothingToSort
  PROVE  MergeIInv'
<1>1. ~Merge!Halt /\ Merge!top.at = "begin" /\ ~(Merge!top.low < Merge!top.high)
  BY DEF Merge!NothingToSort, Merge!At
<1>2. Merge!top.low \in Int /\ Merge!top.high \in Int BY <1>1, TopCall
<1>3. \A j, k \in Merge!top.low .. Merge!top.high : j = k BY <1>1, <1>2
<1>4. \A k \in Merge!top.low .. Merge!top.high : mergeS[k] <= mergeS[k]
  <2>1. \A k \in Merge!top.low .. Merge!top.high : k \in 0 .. Merge!n - 1
    BY <1>1, TopCall, MergeTypes
  <2> QED BY <2>1, MergeTypes
<1>5. Ordered(mergeS, Merge!top.low, Merge!top.high) BY <1>3, <1>4 DEF Ordered
<1>6. PutBack = [k \in 0 .. Merge!n - 1 |-> mergeS[k]]
  BY <1>1 DEF PutBack, Merge!At
<1> QED BY <1>1, <1>5, <1>6, Popped DEF Merge!NothingToSort

(* The first half is sorted by a call of its own. *)
LEMMA SortLeftKeeps == ASSUME MergeIInv, Merge!SortLeft PROVE MergeIInv'
<1> DEFINE u == [low |-> Merge!top.low, high |-> Merge!top.high, at |-> "left"]
<1>1. ~Merge!Halt /\ Merge!top.at = "begin" /\ Merge!top.low < Merge!top.high
  BY DEF Merge!SortLeft, Merge!At
<1>2. Merge!top.low = HalfLow(u) /\ Merge!mid = HalfHigh(u)
  BY DEF HalfLow, HalfHigh, Middle, Merge!mid
<1>3. PICK c : c = calls OBVIOUS
<1>4. PICK m : m = Len(calls) OBVIOUS
<1>5. PICK l : l = Merge!top.low OBVIOUS
<1>6. PICK h : h = Merge!mid OBVIOUS
<1>7. PICK z : z = u OBVIOUS
<1>8. calls' = Append(Merge!Goto("left"), Merge!Call(l, h))
  BY <1>5, <1>6 DEF Merge!SortLeft
<1>9. mergeArray' = mergeArray /\ mergeS' = mergeS /\ buffer1' = buffer1
        /\ buffer2' = buffer2 /\ mergeCounter' = mergeCounter
  BY DEF Merge!SortLeft
<1>10. /\ m \in Nat /\ m >= 1 /\ Len(calls') = m + 1
       /\ \A k \in 1 .. m - 1 : calls'[k] = c[k]
       /\ calls'[m] = z /\ calls'[m + 1] = Merge!Call(l, h)
       /\ Merge!top' = Merge!Call(l, h) /\ ~Merge!Halt'
       /\ MergeTyped' /\ CallsNested' /\ BuffersHold'
       /\ IsQueue(buffer1, Int)' /\ IsQueue(buffer2, Int)'
       /\ Merge!n' = Merge!n
       /\ PutBack' = [k \in 0 .. Merge!n - 1 |-> mergeS[k]]
  <2>1. l = HalfLow(z) /\ h = HalfHigh(z) BY <1>2, <1>5, <1>6, <1>7
  <2>2. "left" \in {"left", "right"} OBVIOUS
  <2> QED BY <1>1, <1>3, <1>4, <1>7, <1>8, <1>9, <2>1, <2>2, Pushed
<1>11. ASSUME Small PROVE HalvesSorted'
  <2>1. \A k \in 1 .. m :
          c[k].at = "right" => Ordered(mergeS, c[k].low, Middle(c[k]))
    BY <1>3, <1>4, <1>11 DEF MergeIInv, HalvesSorted
  <2>2. \A k \in 1 .. m + 1 :
          calls'[k].at = "right" =>
            Ordered(mergeS', calls'[k].low, Middle(calls'[k]))
    <3> TAKE k \in 1 .. m + 1
    <3>1. CASE k = m + 1 BY <1>10, <3>1 DEF Merge!Call
    <3>2. CASE k = m
      <4>1. calls'[k].at = "left" BY <1>7, <1>10, <3>2
      <4> QED BY <4>1
    <3>3. CASE k \in 1 .. m - 1
      <4>1. calls'[k] = c[k] /\ k \in 1 .. m BY <1>10, <3>3
      <4> QED BY <1>9, <2>1, <4>1
    <3> QED BY <1>10, <3>1, <3>2, <3>3
  <2>3. Merge!top'.at = "begin" BY <1>10 DEF Merge!Call
  <2> QED BY <1>10, <2>2, <2>3 DEF HalvesSorted, Merge!At
<1>12. ASSUME Small PROVE Rearranged(PutBack)'
  <2>1. PutBack' = PutBack BY <1>1, <1>10 DEF PutBack, Merge!At
  <2> QED BY <1>9, <1>12, <2>1, SameArrangement DEF MergeIInv
<1>13. Small' <=> Small BY <1>10 DEF Small
<1> QED BY <1>10, <1>11, <1>12, <1>13 DEF MergeIInv

(* So is the second half. *)
LEMMA SortRightKeeps == ASSUME MergeIInv, Merge!SortRight PROVE MergeIInv'
<1> DEFINE u == [low |-> Merge!top.low, high |-> Merge!top.high, at |-> "right"]
<1>1. ~Merge!Halt /\ Merge!top.at = "left" BY DEF Merge!SortRight, Merge!At
<1>2. Merge!mid + 1 = HalfLow(u) /\ Merge!top.high = HalfHigh(u)
  BY DEF HalfLow, HalfHigh, Middle, Merge!mid
<1>3. PICK c : c = calls OBVIOUS
<1>4. PICK m : m = Len(calls) OBVIOUS
<1>5. PICK l : l = Merge!mid + 1 OBVIOUS
<1>6. PICK h : h = Merge!top.high OBVIOUS
<1>7. PICK z : z = u OBVIOUS
<1>8. calls' = Append(Merge!Goto("right"), Merge!Call(l, h))
  BY <1>5, <1>6 DEF Merge!SortRight
<1>9. mergeArray' = mergeArray /\ mergeS' = mergeS /\ buffer1' = buffer1
        /\ buffer2' = buffer2 /\ mergeCounter' = mergeCounter
  BY DEF Merge!SortRight
<1>10. /\ m \in Nat /\ m >= 1 /\ Len(calls') = m + 1
       /\ \A k \in 1 .. m - 1 : calls'[k] = c[k]
       /\ calls'[m] = z /\ calls'[m + 1] = Merge!Call(l, h)
       /\ Merge!top' = Merge!Call(l, h) /\ ~Merge!Halt'
       /\ MergeTyped' /\ CallsNested' /\ BuffersHold'
       /\ IsQueue(buffer1, Int)' /\ IsQueue(buffer2, Int)'
       /\ Merge!n' = Merge!n
       /\ PutBack' = [k \in 0 .. Merge!n - 1 |-> mergeS[k]]
  <2>1. l = HalfLow(z) /\ h = HalfHigh(z) BY <1>2, <1>5, <1>6, <1>7
  <2>2. "right" \in {"left", "right"} OBVIOUS
  <2>3. z = [low |-> Merge!top.low, high |-> Merge!top.high, at |-> "right"]
    BY <1>7
  <2> HIDE DEF u
  <2> QED BY <1>1, <1>3, <1>4, <1>8, <1>9, <2>1, <2>2, <2>3, Pushed, SMTT(20)
<1>11. ASSUME Small PROVE HalvesSorted'
  <2>1. \A k \in 1 .. m :
          c[k].at = "right" => Ordered(mergeS, c[k].low, Middle(c[k]))
    BY <1>3, <1>4, <1>11 DEF MergeIInv, HalvesSorted
  <2>2. Ordered(mergeS, z.low, Middle(z))
    <3>1. Ordered(mergeS, Merge!top.low, Merge!mid)
      BY <1>1, <1>11 DEF MergeIInv, HalvesSorted, Merge!At
    <3>2. z.low = Merge!top.low /\ Middle(z) = Merge!mid
      BY <1>7 DEF Middle, Merge!mid
    <3> QED BY <3>1, <3>2
  <2>3. \A k \in 1 .. m + 1 :
          calls'[k].at = "right" =>
            Ordered(mergeS', calls'[k].low, Middle(calls'[k]))
    <3> TAKE k \in 1 .. m + 1
    <3>1. CASE k = m + 1 BY <1>10, <3>1 DEF Merge!Call
    <3>2. CASE k = m
      <4>1. calls'[k] = z BY <1>10, <3>2
      <4> QED BY <1>9, <2>2, <4>1
    <3>3. CASE k \in 1 .. m - 1
      <4>1. calls'[k] = c[k] /\ k \in 1 .. m BY <1>10, <3>3
      <4> QED BY <1>9, <2>1, <4>1
    <3> QED BY <1>10, <3>1, <3>2, <3>3
  <2>4. Merge!top'.at = "begin" BY <1>10 DEF Merge!Call
  <2> QED BY <1>10, <2>3, <2>4 DEF HalvesSorted, Merge!At
<1>12. ASSUME Small PROVE Rearranged(PutBack)'
  <2>1. PutBack' = PutBack BY <1>1, <1>10 DEF PutBack, Merge!At
  <2> QED BY <1>9, <1>12, <2>1, SameArrangement DEF MergeIInv
<1>13. Small' <=> Small BY <1>10 DEF Small
<1> QED BY <1>10, <1>11, <1>12, <1>13 DEF MergeIInv

(* The innermost call goes on to another step. *)
LEMMA Moved ==
  ASSUME MergeIInv, ~Merge!Halt, Merge!top.at # "begin", NEW step \in {"fill",
        "merge"},
         calls' = Merge!Goto(step), mergeArray' = mergeArray, mergeS' = mergeS
  PROVE  /\ Merge!n' = Merge!n /\ ~Merge!Halt' /\ Len(calls') = Len(calls)
         /\ Merge!top'.low = Merge!top.low
         /\ Merge!top'.high = Merge!top.high /\ Merge!top'.at = step
         /\ Merge!mid' = Merge!mid
         /\ calls' \in Seq([low : 0 .. Merge!n, high : -1 .. Merge!n - 1,
              at : Merge!Steps])
         /\ CallsNested'
         /\ Small => \A k \in 1 .. Len(calls') :
              calls'[k].at = "right" =>
                Ordered(mergeS', calls'[k].low, Middle(calls'[k]))
<1> DEFINE R == [low : 0 .. Merge!n, high : -1 .. Merge!n - 1, at : Merge!Steps]
<1>1. PICK m : m = Len(calls) OBVIOUS
<1>2. PICK c : c = calls OBVIOUS
<1>3. PICK u : u = [Merge!top EXCEPT !.at = step] OBVIOUS
<1>4. /\ m \in Nat /\ m >= 1 /\ Merge!top = c[m] /\ Merge!top \in R
      /\ Merge!top.low < Merge!top.high
  BY <1>1, <1>2, TopCall
<1>5. c \in Seq(R) /\ Len(c) = m /\ Merge!n \in Nat
      /\ \A k \in 1 .. m : c[k].low \in Int /\ c[k].high \in Int
  BY <1>1, <1>2, MergeTypes
<1>6. u \in R /\ u.low = Merge!top.low /\ u.high = Merge!top.high /\ u.at = step
  BY <1>3, <1>4 DEF Merge!Steps
<1>7. calls' = [c EXCEPT ![m] = u] BY <1>1, <1>2, <1>3 DEF Merge!Goto, Merge!top
<1> HIDE DEF R
<1>8. \A q \in Seq(R) : \A k \in 1 .. Len(q) : \A z \in R :
        LET w == [q EXCEPT ![k] = z]
        IN  /\ w \in Seq(R) /\ Len(w) = Len(q)
            /\ \A j \in 1 .. Len(q) : w[j] = IF j = k THEN z ELSE q[j]
            /\ Len(q) # 0
  OBVIOUS
<1>9. m \in 1 .. m BY <1>4
<1>10. /\ calls' \in Seq(R) /\ Len(calls') = m
       /\ \A j \in 1 .. m : calls'[j] = IF j = m THEN u ELSE c[j]
  BY <1>5, <1>6, <1>7, <1>8, <1>9
<1>11. calls'[m] = u BY <1>9, <1>10
<1>12. \A j \in 1 .. m - 1 : j \in 1 .. m /\ calls'[j] = c[j] BY <1>4, <1>10
<1>13. Merge!n' = Merge!n BY DEF Merge!n
<1>14. ~Merge!Halt' /\ Merge!top' = u
  <2>1. \A q : q = <<>> => Len(q) = 0 OBVIOUS
  <2> QED BY <1>4, <1>10, <1>11, <2>1 DEF Merge!Halt, Merge!top
<1>15. Merge!mid' = Merge!mid BY <1>6, <1>14 DEF Merge!mid
<1>16. CallsNested'
  <2>1. Nested(c, m) /\ c[1].low = 0 /\ c[1].high = Merge!n - 1
    BY <1>1, <1>2 DEF MergeIInv, CallsNested
  <2>2. Nested(calls', m)
    <3>1. calls'[m].low = c[m].low /\ calls'[m].high = c[m].high
            /\ c[m].low < c[m].high
      BY <1>4, <1>6, <1>11
    <3>2. m \in Nat \ {0} BY <1>4
    <3> QED BY <1>12, <2>1, <3>1, <3>2, NestedMoved
  <2>3. calls'[1].low = 0 /\ calls'[1].high = Merge!n - 1
    <3>1. CASE m = 1 BY <1>4, <1>6, <1>11, <2>1, <3>1
    <3>2. CASE m # 1
      <4>1. 1 \in 1 .. m - 1 BY <1>4, <3>2
      <4> QED BY <1>12, <2>1, <4>1
    <3> QED BY <3>1, <3>2
  <2> QED BY <1>10, <1>13, <2>2, <2>3 DEF CallsNested
<1>17. ASSUME Small, NEW k \in 1 .. m, calls'[k].at = "right"
       PROVE  Ordered(mergeS', calls'[k].low, Middle(calls'[k]))
  <2>1. k # m BY <1>6, <1>11, <1>17
  <2>2. k \in 1 .. m - 1 BY <1>4, <2>1
  <2>3. calls'[k] = c[k] BY <1>12, <2>2
  <2>4. c[k].at = "right" => Ordered(mergeS, c[k].low, Middle(c[k]))
    BY <1>1, <1>2, <1>17 DEF MergeIInv, HalvesSorted
  <2> QED BY <1>17, <2>3, <2>4
<1>18. calls' \in Seq([low : 0 .. Merge!n, high : -1 .. Merge!n - 1,
        at : Merge!Steps])
  BY <1>10 DEF R
<1> QED BY <1>1, <1>6, <1>10, <1>13, <1>14, <1>15, <1>16, <1>17, <1>18

(* Both halves are sorted, the queues are emptied. *)
LEMMA MergeBeginsKeeps ==
  ASSUME MergeIInv, Merge!MergeBegins
  PROVE  MergeIInv'
<1>1. /\ ~Merge!Halt /\ Merge!top.at = "right" /\ mergeArray' = mergeArray
      /\ mergeS' = mergeS
      /\ calls' = Merge!Goto("fill") /\ mergeCounter' = Merge!top.low
      /\ buffer1' = Merge!init_queue /\ buffer2' = Merge!init_queue
  BY DEF Merge!MergeBegins, Merge!At
<1>2. /\ Merge!n' = Merge!n /\ ~Merge!Halt' /\ Len(calls') = Len(calls)
      /\ Merge!top'.low = Merge!top.low /\ Merge!top'.high = Merge!top.high
      /\ Merge!top'.at = "fill"
      /\ Merge!mid' = Merge!mid
      /\ calls' \in Seq([low : 0 .. Merge!n, high : -1 .. Merge!n - 1,
           at : Merge!Steps])
      /\ CallsNested'
      /\ Small => \A k \in 1 .. Len(calls') :
           calls'[k].at = "right" =>
             Ordered(mergeS', calls'[k].low, Middle(calls'[k]))
  BY <1>1, Moved
<1>3. /\ Merge!top.low \in Nat /\ Merge!top.high \in Nat
      /\ Merge!top.high <= Merge!n - 1
      /\ Merge!mid \in Nat /\ Merge!top.low <= Merge!mid
      /\ Merge!mid < Merge!top.high /\ Merge!n \in Nat
  BY <1>1, TopCall, MergeTypes
<1>4. /\ IsQueue(buffer1, Int)' /\ First' = <<>>
      /\ IsQueue(buffer2, Int)' /\ Second' = <<>>
  BY <1>1, QueueBegins, MergeQueue DEF First, Second
<1>5. MergeTyped'
  <2>1. mergeCounter' \in 0 .. Merge!n BY <1>1, <1>3
  <2>2. mergeArray' \in Arrays /\ mergeS' \in [0 .. Merge!n - 1 -> Int]
    BY <1>1 DEF MergeIInv, MergeTyped
  <2> QED BY <1>2, <1>4, <2>1, <2>2 DEF MergeTyped, IsQueue
<1>6. Len(First') = 0 /\ Len(Second') = 0 /\ Len(<<>>) = 0 BY <1>4
<1>7. BuffersHold'
  <2>1. Filled' BY <1>1, <1>2, <1>3, <1>6 DEF Filled
  <2>2. ~Merge!At("merge")' BY <1>2 DEF Merge!At
  <2>3. Merge!top'.low <= mergeCounter'
          /\ mergeCounter' <= Merge!top'.high + 1
          /\ Len(First') + Len(Second') <= mergeCounter' - Merge!top'.low
    BY <1>1, <1>2, <1>3, <1>6
  <2> QED BY <2>1, <2>2, <2>3 DEF BuffersHold
<1>8. ASSUME Small PROVE HalvesSorted'
  <2>1. Ordered(mergeS, Merge!top.low, Merge!mid)
          /\ Ordered(mergeS, Merge!mid + 1, Merge!top.high)
    BY <1>1, <1>8 DEF MergeIInv, HalvesSorted, Merge!At
  <2>2. Ordered(mergeS', Merge!top'.low, Merge!mid')
          /\ Ordered(mergeS', Merge!mid' + 1, Merge!top'.high)
    BY <1>1, <1>2, <2>1
  <2> QED BY <1>2, <1>8, <2>2 DEF HalvesSorted, Merge!At
<1>9. ASSUME Small PROVE Rearranged(PutBack)'
  <2>1. ~Merge!At("merge") /\ ~Merge!At("merge")' BY <1>1, <1>2 DEF Merge!At
  <2>2. PutBack' = PutBack BY <1>1, <2>1, NotMerging
  <2> QED BY <1>1, <1>9, <2>2, SameArrangement DEF MergeIInv
<1>10. Small' <=> Small BY <1>2 DEF Small
<1> QED BY <1>2, <1>4, <1>5, <1>7, <1>8, <1>9, <1>10 DEF MergeIInv

(* What fits into a queue comes last, what does not is dropped. *)
LEMMA EnqueueKeeps ==
  ASSUME NEW q, IsQueue(q, Int), NEW z \in Int
  PROVE  /\ IsQueue(Merge!enqueue(q, z), Int)
         /\ Len(Contents(Merge!enqueue(q, z))) <= Len(Contents(q)) + 1
         /\ Len(Contents(q)) < QUEUESIZE =>
              Contents(Merge!enqueue(q, z)) = Append(Contents(q), z)
<1>1. /\ Contents(q) \in Seq(Int) /\ Len(Contents(q)) = q.count
      /\ q.count \in 0 .. QUEUESIZE
  BY QueueHolds, MergeQueue
<1>2. QUEUESIZE \in Int /\ QUEUESIZE > 0 BY QueueAssumption
<1>3. q.count \in Int /\ q.count <= QUEUESIZE BY <1>1, <1>2
<1>4. CASE q.count < QUEUESIZE
  <2>1. /\ IsQueue(Merge!enqueue(q, z), Int)
        /\ Contents(Merge!enqueue(q, z)) = Append(Contents(q), z)
    BY <1>4, EnqueueAppends, MergeQueue
  <2>2. \A w \in Seq(Int) :
          Len(Append(w, z)) = Len(w) + 1 /\ Len(w) \in Nat OBVIOUS
  <2> QED BY <1>1, <2>1, <2>2
<1>5. CASE q.count = QUEUESIZE
  <2>1. Merge!enqueue(q, z) = q BY <1>2, <1>5 DEF Merge!enqueue
  <2> QED BY <1>1, <1>2, <1>3, <1>5, <2>1
<1> QED BY <1>2, <1>3, <1>4, <1>5

(* One number is put into the queue of its half. *)
LEMMA FillBuffersKeeps ==
  ASSUME MergeIInv, Merge!FillBuffers
  PROVE  MergeIInv'
<1>1. /\ ~Merge!Halt /\ Merge!top.at = "fill"
      /\ mergeCounter <= Merge!top.high /\ mergeCounter' = mergeCounter + 1
      /\ mergeArray' = mergeArray /\ mergeS' = mergeS /\ calls' = calls
  BY DEF Merge!FillBuffers, Merge!At
<1>2. /\ Merge!top.low \in Nat /\ Merge!top.high \in Nat
      /\ Merge!top.high <= Merge!n - 1
      /\ Merge!mid \in Nat /\ Merge!top.low <= Merge!mid
      /\ Merge!mid < Merge!top.high /\ Merge!n \in Nat /\ mergeCounter \in Nat
      /\ Small => Merge!mid - Merge!top.low + 1 <= QUEUESIZE
           /\ Merge!top.high - Merge!mid <= QUEUESIZE
  BY <1>1, TopCall, MergeTypes
<1>3. /\ First \in Seq(Int) /\ Second \in Seq(Int)
      /\ IsQueue(buffer1, Int) /\ IsQueue(buffer2, Int)
  BY MergeTypes DEF MergeIInv
<1>4. /\ Merge!top.low <= mergeCounter
      /\ Len(First) + Len(Second) <= mergeCounter - Merge!top.low
      /\ Small => Filled
  BY <1>1 DEF MergeIInv, BuffersHold, Merge!At
<1>5. Merge!n' = Merge!n /\ Merge!top' = Merge!top /\ Merge!mid' = Merge!mid
        /\ (Merge!Halt' <=> Merge!Halt)
  BY <1>1 DEF Merge!n, Merge!top, Merge!mid, Merge!Halt
<1>6. \A step \in Merge!Steps : Merge!At(step)' <=> Merge!At(step)
  BY <1>5 DEF Merge!At
<1>7. mergeS[mergeCounter] \in Int
  <2>1. mergeCounter \in 0 .. Merge!n - 1 BY <1>1, <1>2
  <2> QED BY <2>1, MergeTypes
<1>8. QUEUESIZE \in Int BY QueueAssumption
<1>9. Len(First) \in Nat /\ Len(Second) \in Nat BY <1>3
<1>10. ASSUME mergeCounter <= Merge!mid
        /\ buffer1' = Merge!enqueue(buffer1, mergeS[mergeCounter])
        /\ buffer2' = buffer2
       PROVE  /\ IsQueue(buffer1, Int)' /\ IsQueue(buffer2, Int)'
              /\ Small => Filled'
              /\ Len(First') + Len(Second') <= mergeCounter' - Merge!top'.low
  <2>1. /\ IsQueue(buffer1, Int)' /\ Len(First') <= Len(First) + 1
        /\ Len(First) < QUEUESIZE
             => First' = Append(First, mergeS[mergeCounter])
    BY <1>3, <1>7, <1>10, EnqueueKeeps DEF First
  <2>2. IsQueue(buffer2, Int)' /\ Second' = Second
    BY <1>3, <1>10 DEF IsQueue, Second
  <2>3. Len(First') \in Nat
    <3>1. First' \in Seq(Int) BY <2>1, QueueHolds, MergeQueue DEF First
    <3> QED BY <3>1
  <2>4. ASSUME Small PROVE Filled'
    <3>1. /\ Len(First) = (IF mergeCounter <= Merge!mid THEN mergeCounter
                           ELSE Merge!mid + 1) - Merge!top.low
          /\ Len(Second)
               = IF mergeCounter <= Merge!mid THEN 0
                 ELSE mergeCounter - Merge!mid - 1
          /\ \A j \in 1 .. Len(First) : First[j] = mergeS[Merge!top.low + j - 1]
      BY <1>4, <2>4 DEF Filled
    <3>2. Len(First) = mergeCounter - Merge!top.low /\ Len(Second) = 0
      BY <1>10, <3>1
    <3>3. Len(First) < QUEUESIZE BY <1>2, <1>8, <1>10, <2>4, <3>2
    <3>4. /\ Len(First') = Len(First) + 1
          /\ \A j \in 1 .. Len(First) : First'[j] = First[j]
          /\ First'[Len(First) + 1] = mergeS[mergeCounter]
      <4>1. First' = Append(First, mergeS[mergeCounter]) BY <2>1, <3>3
      <4>2. \A q \in Seq(Int) : \A z \in Int :
              /\ Len(Append(q, z)) = Len(q) + 1
              /\ \A j \in 1 .. Len(q) : Append(q, z)[j] = q[j]
              /\ Append(q, z)[Len(q) + 1] = z
        OBVIOUS
      <4> QED BY <1>3, <1>7, <4>1, <4>2
    <3>5. \A j \in 1 .. Len(First') : First'[j] = mergeS[Merge!top.low + j - 1]
      <4> TAKE j \in 1 .. Len(First')
      <4>1. CASE j = Len(First) + 1
        <5>1. Merge!top.low \in Int /\ mergeCounter \in Int BY <1>2
        <5>2. Merge!top.low + j - 1 = mergeCounter BY ONLY <3>2, <4>1, <5>1
        <5> QED BY <3>4, <4>1, <5>2
      <4>2. CASE j # Len(First) + 1
        <5>1. j \in 1 .. Len(First) BY <1>9, <3>4, <4>2
        <5> QED BY <3>1, <3>4, <5>1
      <4> QED BY <4>1, <4>2
    <3>6. Len(First')
            = (IF mergeCounter' <= Merge!mid' THEN mergeCounter'
               ELSE Merge!mid' + 1) - Merge!top'.low
      BY <1>1, <1>2, <1>5, <1>10, <3>2, <3>4
    <3>7. Len(Second')
            = IF mergeCounter' <= Merge!mid' THEN 0
              ELSE mergeCounter' - Merge!mid' - 1
      BY <1>1, <1>2, <1>5, <1>10, <2>2, <3>2
    <3>8. \A j \in 1 .. Len(Second') : Second'[j] = mergeS'[Merge!mid' + j]
      BY <2>2, <3>2
    <3> QED BY <1>1, <1>5, <3>5, <3>6, <3>7, <3>8 DEF Filled
  <2>5. Len(First') + Len(Second') <= mergeCounter' - Merge!top'.low
    BY <1>1, <1>2, <1>4, <1>5, <1>9, <2>1, <2>2, <2>3
  <2> QED BY <2>1, <2>2, <2>4, <2>5
<1>11. ASSUME mergeCounter > Merge!mid
        /\ buffer2' = Merge!enqueue(buffer2, mergeS[mergeCounter])
        /\ buffer1' = buffer1
       PROVE  /\ IsQueue(buffer1, Int)' /\ IsQueue(buffer2, Int)'
              /\ Small => Filled'
              /\ Len(First') + Len(Second') <= mergeCounter' - Merge!top'.low
  <2>1. /\ IsQueue(buffer2, Int)' /\ Len(Second') <= Len(Second) + 1
        /\ Len(Second) < QUEUESIZE
             => Second' = Append(Second, mergeS[mergeCounter])
    BY <1>3, <1>7, <1>11, EnqueueKeeps DEF Second
  <2>2. IsQueue(buffer1, Int)' /\ First' = First
    BY <1>3, <1>11 DEF IsQueue, First
  <2>3. Len(Second') \in Nat
    <3>1. Second' \in Seq(Int) BY <2>1, QueueHolds, MergeQueue DEF Second
    <3> QED BY <3>1
  <2>4. ASSUME Small PROVE Filled'
    <3>1. /\ Len(First) = (IF mergeCounter <= Merge!mid THEN mergeCounter
                           ELSE Merge!mid + 1) - Merge!top.low
          /\ Len(Second)
               = IF mergeCounter <= Merge!mid THEN 0
                 ELSE mergeCounter - Merge!mid - 1
          /\ \A j \in 1 .. Len(First) : First[j] = mergeS[Merge!top.low + j - 1]
          /\ \A j \in 1 .. Len(Second) : Second[j] = mergeS[Merge!mid + j]
      BY <1>4, <2>4 DEF Filled
    <3>2. Len(First) = Merge!mid + 1 - Merge!top.low
            /\ Len(Second) = mergeCounter - Merge!mid - 1
      BY <1>2, <1>11, <3>1
    <3>3. Len(Second) < QUEUESIZE BY <1>1, <1>2, <1>8, <1>11, <2>4, <3>2
    <3>4. /\ Len(Second') = Len(Second) + 1
          /\ \A j \in 1 .. Len(Second) : Second'[j] = Second[j]
          /\ Second'[Len(Second) + 1] = mergeS[mergeCounter]
      <4>1. Second' = Append(Second, mergeS[mergeCounter]) BY <2>1, <3>3
      <4>2. \A q \in Seq(Int) : \A z \in Int :
              /\ Len(Append(q, z)) = Len(q) + 1
              /\ \A j \in 1 .. Len(q) : Append(q, z)[j] = q[j]
              /\ Append(q, z)[Len(q) + 1] = z
        OBVIOUS
      <4> QED BY <1>3, <1>7, <4>1, <4>2
    <3>5. \A j \in 1 .. Len(Second') : Second'[j] = mergeS[Merge!mid + j]
      <4> TAKE j \in 1 .. Len(Second')
      <4>1. CASE j = Len(Second) + 1
        <5>1. Merge!mid + j = mergeCounter BY <1>2, <3>2, <4>1
        <5> QED BY <3>4, <4>1, <5>1
      <4>2. CASE j # Len(Second) + 1
        <5>1. j \in 1 .. Len(Second) BY <1>9, <3>4, <4>2
        <5> QED BY <3>1, <3>4, <5>1
      <4> QED BY <4>1, <4>2
    <3>6. Len(First')
            = (IF mergeCounter' <= Merge!mid' THEN mergeCounter'
               ELSE Merge!mid' + 1) - Merge!top'.low
      BY <1>1, <1>2, <1>5, <1>11, <2>2, <3>2
    <3>7. Len(Second')
            = IF mergeCounter' <= Merge!mid' THEN 0
              ELSE mergeCounter' - Merge!mid' - 1
      BY <1>1, <1>2, <1>5, <1>11, <3>2, <3>4
    <3> QED BY <1>1, <1>5, <2>2, <3>1, <3>5, <3>6, <3>7 DEF Filled
  <2>5. Len(First') + Len(Second') <= mergeCounter' - Merge!top'.low
    BY <1>1, <1>2, <1>4, <1>5, <1>9, <2>1, <2>2, <2>3
  <2> QED BY <2>1, <2>2, <2>4, <2>5
<1>12. /\ IsQueue(buffer1, Int)' /\ IsQueue(buffer2, Int)'
       /\ Small => Filled'
       /\ Len(First') + Len(Second') <= mergeCounter' - Merge!top'.low
  BY <1>10, <1>11 DEF Merge!FillBuffers
<1>13. Merge!top'.low <= mergeCounter'
        /\ mergeCounter' <= Merge!top'.high + 1
        /\ mergeCounter' \in 0 .. Merge!n
  BY <1>1, <1>2, <1>4, <1>5
<1>14. MergeTyped'
  BY <1>1, <1>5, <1>12, <1>13 DEF MergeIInv, MergeTyped, IsQueue
<1>15. Small' <=> Small BY <1>5 DEF Small
<1>16. ~Merge!At("merge") /\ ~Merge!At("merge")' BY <1>1, <1>5 DEF Merge!At
<1>17. BuffersHold' BY <1>12, <1>13, <1>15, <1>16 DEF BuffersHold
<1>18. CallsNested' BY <1>1, <1>5 DEF MergeIInv, CallsNested
<1>19. HalvesSorted => HalvesSorted'
  BY <1>1, <1>5, <1>6 DEF HalvesSorted, Merge!Steps, Ordered
<1>20. Rearranged(PutBack) => Rearranged(PutBack)'
  <2>1. PutBack' = PutBack BY <1>1, <1>16, NotMerging
  <2> QED BY <1>1, <2>1, SameArrangement
<1> QED BY <1>12, <1>14, <1>15, <1>17, <1>18, <1>19, <1>20 DEF MergeIInv

(* The queues hold both halves. *)
LEMMA BuffersFilledKeeps ==
  ASSUME MergeIInv, Merge!BuffersFilled
  PROVE  MergeIInv'
<1>1. /\ ~Merge!Halt /\ Merge!top.at = "fill"
      /\ mergeCounter > Merge!top.high /\ mergeCounter' = Merge!top.low
      /\ mergeArray' = mergeArray /\ mergeS' = mergeS
      /\ calls' = Merge!Goto("merge")
      /\ buffer1' = buffer1 /\ buffer2' = buffer2
  BY DEF Merge!BuffersFilled, Merge!At
<1>2. /\ Merge!n' = Merge!n /\ ~Merge!Halt' /\ Len(calls') = Len(calls)
      /\ Merge!top'.low = Merge!top.low /\ Merge!top'.high = Merge!top.high
      /\ Merge!top'.at = "merge"
      /\ Merge!mid' = Merge!mid
      /\ calls' \in Seq([low : 0 .. Merge!n, high : -1 .. Merge!n - 1,
           at : Merge!Steps])
      /\ CallsNested'
      /\ Small => \A k \in 1 .. Len(calls') :
           calls'[k].at = "right" =>
             Ordered(mergeS', calls'[k].low, Middle(calls'[k]))
  BY <1>1, Moved
<1>3. /\ Merge!top.low \in Nat /\ Merge!top.high \in Nat
      /\ Merge!top.high <= Merge!n - 1
      /\ Merge!mid \in Nat /\ Merge!top.low <= Merge!mid
      /\ Merge!mid < Merge!top.high /\ Merge!n \in Nat /\ mergeCounter \in Nat
  BY <1>1, TopCall, MergeTypes
<1>4. /\ IsQueue(buffer1, Int)' /\ First' = First
      /\ IsQueue(buffer2, Int)' /\ Second' = Second
      /\ Len(First) \in Nat /\ Len(Second) \in Nat
  BY <1>1, MergeTypes DEF MergeIInv, IsQueue, First, Second
<1>5. /\ Merge!top.low <= mergeCounter /\ mergeCounter <= Merge!top.high + 1
      /\ Len(First) + Len(Second) <= mergeCounter - Merge!top.low
      /\ Small => Filled
  BY <1>1 DEF MergeIInv, BuffersHold, Merge!At
<1>6. mergeCounter = Merge!top.high + 1 BY <1>1, <1>3, <1>5
<1>7. MergeTyped'
  <2>1. mergeCounter' \in 0 .. Merge!n BY <1>1, <1>3
  <2> QED BY <1>1, <1>2, <1>4, <2>1 DEF MergeIInv, MergeTyped, IsQueue
<1>8. ASSUME Small
      PROVE  /\ Len(First) = Merge!mid + 1 - Merge!top.low
             /\ Len(Second) = Merge!top.high - Merge!mid
             /\ \A j \in 1 .. Len(First) :
                  First[j] = mergeS[Merge!top.low + j - 1]
             /\ \A j \in 1 .. Len(Second) : Second[j] = mergeS[Merge!mid + j]
             /\ Ordered(mergeS, Merge!top.low, Merge!mid)
             /\ Ordered(mergeS, Merge!mid + 1, Merge!top.high)
  <2>1. Filled BY <1>5, <1>8
  <2>2. /\ Len(First) = (IF mergeCounter <= Merge!mid THEN mergeCounter
                         ELSE Merge!mid + 1) - Merge!top.low
        /\ Len(Second)
             = IF mergeCounter <= Merge!mid THEN 0
               ELSE mergeCounter - Merge!mid - 1
    BY <2>1 DEF Filled
  <2>3. Len(First) = Merge!mid + 1 - Merge!top.low
          /\ Len(Second) = Merge!top.high - Merge!mid
    <3>1. ~(mergeCounter <= Merge!mid) BY <1>3, <1>6
    <3>2. /\ Len(First) \in Nat /\ Len(Second) \in Nat /\ mergeCounter \in Int
          /\ Merge!mid \in Int /\ Merge!top.low \in Int
          /\ Merge!top.high \in Int
      BY <1>3, <1>4
    <3>3. Len(First) = Merge!mid + 1 - Merge!top.low BY <2>2, <3>1, <3>2
    <3>4. Len(Second) = mergeCounter - Merge!mid - 1 BY <2>2, <3>1, <3>2
    <3>5. Len(Second) = Merge!top.high - Merge!mid BY <1>6, <3>2, <3>4
    <3> QED BY <3>3, <3>5
  <2>4. Ordered(mergeS, Merge!top.low, Merge!mid)
          /\ Ordered(mergeS, Merge!mid + 1, Merge!top.high)
    BY <1>1, <1>8 DEF MergeIInv, HalvesSorted, Merge!At
  <2> QED BY <2>1, <2>3, <2>4 DEF Filled
<1>9. ASSUME Small PROVE Merged'
  <2>1. Ordered(First, 1, Len(First))
    <3>1. \A j \in 1 .. Len(First) :
            Merge!top.low + j - 1 \in Merge!top.low .. Merge!mid
      <4>1. Len(First) = Merge!mid + 1 - Merge!top.low BY <1>8, <1>9
      <4>2. Merge!top.low \in Int /\ Merge!mid \in Int BY <1>3
      <4> QED BY ONLY <4>1, <4>2
    <3>2. \A j, k \in 1 .. Len(First) :
            j <= k => Merge!top.low + j - 1 <= Merge!top.low + k - 1
      BY <1>3, <1>4
    <3> QED BY <1>8, <1>9, <3>1, <3>2 DEF Ordered
  <2>2. Ordered(Second, 1, Len(Second))
    <3>1. \A j \in 1 .. Len(Second) :
            Merge!mid + j \in Merge!mid + 1 .. Merge!top.high
      BY <1>3, <1>4, <1>8, <1>9
    <3>2. \A j, k \in 1 .. Len(Second) :
            j <= k => Merge!mid + j <= Merge!mid + k
      BY <1>3, <1>4
    <3> QED BY <1>8, <1>9, <3>1, <3>2 DEF Ordered
  <2>3. \A k \in Merge!top'.low .. mergeCounter' - 1 : FALSE BY <1>1, <1>2, <1>3
  <2>4. Ordered(mergeS', Merge!top'.low, mergeCounter' - 1) BY <2>3 DEF Ordered
  <2>5. Len(First') + Len(Second') = Merge!top'.high + 1 - mergeCounter'
    <3>1. Len(First) = Merge!mid + 1 - Merge!top.low
            /\ Len(Second) = Merge!top.high - Merge!mid
      BY <1>8, <1>9
    <3>2. /\ Len(First') = Len(First) /\ Len(Second') = Len(Second)
          /\ Merge!top'.high = Merge!top.high /\ mergeCounter' = Merge!top.low
      BY <1>1, <1>2, <1>4
    <3>3. Merge!top.low \in Nat /\ Merge!top.high \in Nat /\ Merge!mid \in Nat
      BY <1>3
    <3>4. Len(First) + Len(Second) = Merge!top.high + 1 - Merge!top.low
      BY <3>1, <3>3
    <3> QED BY <3>2, <3>4
  <2> QED BY <1>4, <2>1, <2>2, <2>3, <2>4, <2>5 DEF Merged
<1>10. BuffersHold'
  <2>1. Len(First') + Len(Second') <= Merge!top'.high + 1 - mergeCounter'
    BY <1>1, <1>2, <1>3, <1>4, <1>5, <1>6
  <2>2. Merge!top'.low <= mergeCounter' BY <1>1, <1>2, <1>3
  <2>3. Small' <=> Small BY <1>2 DEF Small
  <2> QED BY <1>2, <1>9, <2>1, <2>2, <2>3 DEF BuffersHold, Merge!At
<1>11. ASSUME Small PROVE HalvesSorted'
  BY <1>2, <1>11 DEF HalvesSorted, Merge!At
<1>12. ASSUME Small PROVE Rearranged(PutBack)'
  <2>1. PutBack = [k \in 0 .. Merge!n - 1 |-> mergeS[k]]
    BY <1>1 DEF PutBack, Merge!At
  <2>2. ASSUME NEW k \in 0 .. Merge!n - 1, mergeCounter' <= k,
          k <= Merge!top'.high
        PROVE  (IF k < mergeCounter' + Len(First')
                THEN First'[k - mergeCounter' + 1]
                ELSE Second'[k - mergeCounter' - Len(First') + 1]) = mergeS[k]
    <3>1. k \in Int /\ Merge!top.low <= k /\ k <= Merge!top.high
      BY <1>1, <1>2, <1>3, <2>2
    <3>2. Len(First) = Merge!mid + 1 - Merge!top.low
            /\ Len(Second) = Merge!top.high - Merge!mid
      BY <1>8, <1>12
    <3>3. /\ Merge!top.low \in Int /\ Merge!top.high \in Int /\ Merge!mid \in Int
          /\ Len(First) \in Int /\ Len(Second) \in Int
      BY <1>3, <3>2
    <3>4. CASE k <= Merge!mid
      <4>1. /\ k < Merge!top.low + Len(First)
            /\ k - Merge!top.low + 1 \in 1 .. Len(First)
            /\ Merge!top.low + (k - Merge!top.low + 1) - 1 = k
        BY ONLY <3>1, <3>2, <3>4, <3>3
      <4>2. First[k - Merge!top.low + 1] = mergeS[k] BY <1>8, <1>12, <4>1
      <4> QED BY <1>1, <1>4, <4>1, <4>2
    <3>5. CASE k > Merge!mid
      <4>1. /\ ~(k < Merge!top.low + Len(First))
            /\ k - Merge!top.low - Len(First) + 1 = k - Merge!mid
            /\ k - Merge!mid \in 1 .. Len(Second)
            /\ Merge!mid + (k - Merge!mid) = k
        BY ONLY <3>1, <3>2, <3>5, <3>3
      <4>2. Second[k - Merge!mid] = mergeS[k] BY <1>8, <1>12, <4>1
      <4> QED BY <1>1, <1>4, <4>1, <4>2
    <3> QED BY <1>3, <3>1, <3>4, <3>5
  <2>3. PutBack' = PutBack BY <1>1, <1>2, <2>1, <2>2 DEF PutBack
  <2> QED BY <1>1, <1>12, <2>3, SameArrangement DEF MergeIInv
<1>13. Small' <=> Small BY <1>2 DEF Small
<1> QED BY <1>2, <1>4, <1>7, <1>10, <1>11, <1>12, <1>13 DEF MergeIInv

(* Rearranging once more. *)
LEMMA RearrangedAgain ==
  ASSUME Merge!n \in Nat, NEW a, NEW b, Rearranged(a),
         NEW r \in Bijection(0 .. Merge!n - 1, 0 .. Merge!n - 1),
         \A k \in 0 .. Merge!n - 1 : b[k] = a[r[k]]
  PROVE  Rearranged(b)
<1> DEFINE D == 0 .. Merge!n - 1
<1>1. PICK f \in Bijection(D, D) : \A k \in D : a[k] = mergeArray[f[k]]
  BY DEF Rearranged
<1> DEFINE g == [k \in D |-> f[r[k]]]
<1>2. /\ f \in [D -> D] /\ r \in [D -> D]
      /\ \A x, y \in D : f[x] = f[y] => x = y
      /\ \A x, y \in D : r[x] = r[y] => x = y
      /\ \A y \in D : \E x \in D : f[x] = y
      /\ \A y \in D : \E x \in D : r[x] = y
  BY <1>1 DEF Bijection, Injection, Surjection, IsInjective
<1> HIDE DEF D
<1>3. g \in [D -> D] /\ \A k \in D : g[k] = f[r[k]] BY <1>2
<1> HIDE DEF g
<1>4. \A x, y \in D : g[x] = g[y] => x = y BY <1>2, <1>3
<1>5. \A y \in D : \E x \in D : g[x] = y BY <1>2, <1>3
<1>6. g \in Bijection(D, D)
  BY <1>3, <1>4, <1>5 DEF Bijection, Injection, Surjection, IsInjective
<1>7. \A k \in D : b[k] = mergeArray[g[k]]
  <2> TAKE k \in D
  <2>1. r[k] \in D /\ b[k] = a[r[k]] BY <1>2 DEF D
  <2> QED BY <1>1, <1>3, <2>1
<1> QED BY <1>6, <1>7 DEF Rearranged, D

(* One element moves down from y to x and those between move up. *)
LEMMA Rotation ==
  ASSUME NEW N \in Nat, NEW x \in 0 .. N - 1, NEW y \in 0 .. N - 1, x <= y
  PROVE  [k \in 0 .. N - 1 |-> IF k = x THEN y
                               ELSE IF x < k /\ k <= y THEN k - 1 ELSE k]
           \in Bijection(0 .. N - 1, 0 .. N - 1)
<1> DEFINE D == 0 .. N - 1
           r == [k \in D |-> IF k = x THEN y
                             ELSE IF x < k /\ k <= y THEN k - 1 ELSE k]
<1>1. \A k \in D : r[k] = IF k = x THEN y
                          ELSE IF x < k /\ k <= y THEN k - 1 ELSE k
  OBVIOUS
<1>2. r \in [D -> D]
  <2>1. \A k \in D : (IF k = x THEN y
                      ELSE IF x < k /\ k <= y THEN k - 1 ELSE k) \in D
    OBVIOUS
  <2> QED BY <2>1
<1> HIDE DEF r
<1>3. \A j, k \in D : r[j] = r[k] => j = k BY <1>1
<1>4. \A z \in D : \E k \in D : r[k] = z
  <2> TAKE z \in D
  <2>1. CASE z = y BY <1>1, <2>1
  <2>2. CASE x <= z /\ z < y
    <3>1. z + 1 \in D /\ r[z + 1] = z BY <1>1, <2>2
    <3> QED BY <3>1
  <2>3. CASE z < x \/ z > y
    <3>1. r[z] = z BY <1>1, <2>3
    <3> QED BY <3>1
  <2> QED BY <2>1, <2>2, <2>3
<1>5. r \in Bijection(D, D)
  BY <1>2, <1>3, <1>4 DEF Bijection, Injection, Surjection, IsInjective
<1> QED BY <1>5 DEF r

(* What the tail of a sequence holds. *)
LEMMA TailOf ==
  ASSUME NEW q \in Seq(Int), q # <<>>
  PROVE  /\ Len(q) \in Nat /\ Len(q) >= 1 /\ Head(q) = q[1]
         /\ Tail(q) \in Seq(Int) /\ Len(Tail(q)) = Len(q) - 1
         /\ \A k \in 1 .. Len(q) - 1 : Tail(q)[k] = q[k + 1]
OBVIOUS

(* The smaller of the two heads, or the head of the only queue that is not
   empty, gets its place. *)
LEMMA TakeHeadKeeps == ASSUME MergeIInv, Merge!TakeHead PROVE MergeIInv'
<1>1. /\ ~Merge!Halt /\ Merge!top.at = "merge"
      /\ mergeCounter' = mergeCounter + 1
      /\ mergeArray' = mergeArray /\ calls' = calls
      /\ ~(Merge!empty_queue(buffer1) /\ Merge!empty_queue(buffer2))
  BY DEF Merge!TakeHead, Merge!At
<1>2. /\ Merge!top.low \in Nat /\ Merge!top.high \in Nat
      /\ Merge!top.high <= Merge!n - 1
      /\ Merge!n \in Nat /\ mergeCounter \in Nat
  BY <1>1, TopCall, MergeTypes
<1>3. /\ First \in Seq(Int) /\ Second \in Seq(Int)
      /\ IsQueue(buffer1, Int) /\ IsQueue(buffer2, Int)
      /\ Len(First) \in Nat /\ Len(Second) \in Nat
      /\ (Merge!empty_queue(buffer1) <=> Len(First) = 0)
      /\ (Merge!empty_queue(buffer2) <=> Len(Second) = 0)
      /\ \A k \in 1 .. Len(First) : First[k] \in Int
      /\ \A k \in 1 .. Len(Second) : Second[k] \in Int
      /\ mergeS \in [0 .. Merge!n - 1 -> Int]
      /\ \A k \in 0 .. Merge!n - 1 : mergeS[k] \in Int
  BY MergeTypes DEF MergeIInv
<1>4. /\ Merge!top.low <= mergeCounter
      /\ Len(First) + Len(Second) <= Merge!top.high + 1 - mergeCounter
      /\ Small => Merged
  BY <1>1 DEF MergeIInv, BuffersHold, Merge!At
<1>5. Merge!n' = Merge!n /\ Merge!top' = Merge!top /\ Merge!mid' = Merge!mid
        /\ (Merge!Halt' <=> Merge!Halt)
  BY <1>1 DEF Merge!n, Merge!top, Merge!mid, Merge!Halt
<1>6. Merge!At("merge") /\ Merge!At("merge")' /\ \A step \in Merge!Steps :
        Merge!At(step)' <=> Merge!At(step)
  BY <1>1, <1>5 DEF Merge!At
<1>7. Small' <=> Small BY <1>5 DEF Small
<1>8. mergeCounter <= Merge!top.high /\ mergeCounter \in 0 .. Merge!n - 1
  <2>1. Len(First) + Len(Second) \in Nat /\ Len(First) + Len(Second) > 0
    BY <1>1, <1>3
  <2>2. mergeCounter <= Merge!top.high BY <1>2, <1>4, <2>1
  <2> QED BY <1>2, <2>2
<1>9. PICK a : a = Len(First) OBVIOUS
<1>10. PICK b : b = Len(Second) OBVIOUS
<1>11. PICK f : f = First OBVIOUS
<1>12. PICK g : g = Second OBVIOUS
<1>13. PICK x : x = mergeCounter OBVIOUS
<1>14. PICK l : l = Merge!top.low OBVIOUS
<1>15. PICK h : h = Merge!top.high OBVIOUS
<1>16. PICK N : N = Merge!n OBVIOUS
<1>17. PICK c : c = mergeS OBVIOUS
<1>18. /\ l \in Nat /\ h \in Nat /\ h <= N - 1 /\ N \in Nat /\ x \in Nat
       /\ a \in Nat /\ b \in Nat /\ l <= x /\ x <= h /\ a + b <= h + 1 - x
       /\ a + b >= 1 /\ x \in 0 .. N - 1
  BY <1>1, <1>2, <1>3, <1>4, <1>8, <1>9, <1>10, <1>13, <1>14, <1>15, <1>16
<1>19. /\ c \in [0 .. N - 1 -> Int] /\ \A k \in 0 .. N - 1 : c[k] \in Int
       /\ \A k \in 1 .. a : f[k] \in Int
       /\ \A k \in 1 .. b : g[k] \in Int
  BY <1>3, <1>9, <1>10, <1>11, <1>12, <1>16, <1>17
<1>20. ASSUME Small
       PROVE  /\ a + b = h + 1 - x /\ Ordered(c, l, x - 1)
              /\ Ordered(f, 1, a) /\ Ordered(g, 1, b)
              /\ \A k \in l .. x - 1 : /\ \A j \in 1 .. a : c[k] <= f[j]
                                       /\ \A j \in 1 .. b : c[k] <= g[j]
  BY <1>4, <1>9, <1>10, <1>11, <1>12, <1>13, <1>14, <1>15, <1>17, <1>20
    DEF Merged
<1>21. ASSUME NEW k \in 0 .. N - 1
       PROVE  /\ PutBack[k] = IF x <= k /\ k <= h
                              THEN IF k < x + a THEN f[k - x + 1]
                                   ELSE g[k - x - a + 1]
                              ELSE c[k]
              /\ PutBack'[k] =
                   IF x + 1 <= k /\ k <= h
                   THEN IF k < x + 1 + Len(First') THEN First'[k - (x + 1) + 1]
                        ELSE Second'[k - (x + 1) - Len(First') + 1]
                   ELSE mergeS'[k]
  BY <1>1, <1>5, <1>6, <1>9, <1>11, <1>12, <1>13, <1>15, <1>16, <1>17
    DEF PutBack
<1>22. \A k \in l .. x : k \in 0 .. N - 1 BY <1>18
<1>23. ASSUME Merge!FirstIsNext,
        mergeS' = [mergeS EXCEPT ![mergeCounter] = Merge!headq(buffer1)],
              buffer1' = Merge!dequeue(buffer1), buffer2' = buffer2
       PROVE  /\ mergeS' \in [0 .. N - 1 -> Int]
              /\ IsQueue(buffer1, Int)' /\ IsQueue(buffer2, Int)'
              /\ Len(First') + Len(Second') <= a + b - 1
              /\ Small => Merged' /\ Rearranged(PutBack')
  <2>1. ~Merge!empty_queue(buffer1) /\ a >= 1
        /\ (b > 0 => Merge!headq(buffer1) <= Merge!headq(buffer2))
    BY <1>3, <1>9, <1>10, <1>18, <1>23 DEF Merge!FirstIsNext
  <2>2. /\ IsQueue(buffer1, Int)' /\ f # <<>>
        /\ Merge!headq(buffer1) = Head(f) /\ First' = Tail(f)
    BY <1>3, <1>11, <1>23, <2>1, DequeueTakesHead, MergeQueue DEF First
  <2>3. /\ Len(First') = a - 1 /\ Merge!headq(buffer1) = f[1] /\ f[1] \in Int
        /\ \A k \in 1 .. a - 1 : First'[k] = f[k + 1]
    <3>1. f \in Seq(Int) /\ Len(f) = a BY <1>3, <1>9, <1>11
    <3>2. 1 \in 1 .. a BY <1>18, <2>1
    <3> QED BY <1>19, <2>2, <3>1, <3>2, TailOf
  <2>4. IsQueue(buffer2, Int)' /\ Second' = g /\ Len(Second') = b
    BY <1>3, <1>10, <1>12, <1>23 DEF IsQueue, Second
  <2>5. mergeS' = [c EXCEPT ![x] = f[1]] BY <1>13, <1>17, <1>23, <2>3
  <2>6. /\ mergeS' \in [0 .. N - 1 -> Int] /\ mergeS'[x] = f[1]
        /\ \A k \in 0 .. N - 1 : k # x => mergeS'[k] = c[k]
    BY <1>18, <1>19, <2>3, <2>5
  <2>7. \A j \in 1 .. b : f[1] <= g[j]  \/ ~Small
    <3> SUFFICES ASSUME Small, NEW j \in 1 .. b PROVE f[1] <= g[j] OBVIOUS
    <3>1. b >= 1 /\ 1 \in 1 .. b BY <1>18
    <3>2. Merge!headq(buffer2) = g[1]
      <4>1. ~Merge!empty_queue(buffer2) BY <1>3, <1>10, <3>1
      <4>2. g # <<>> /\ Merge!headq(buffer2) = Head(g)
        BY <1>3, <1>12, <4>1, DequeueTakesHead, MergeQueue DEF Second
      <4> QED BY <1>3, <1>12, <4>2, TailOf
    <3>3. g[1] <= g[j] BY <1>20, <3>1 DEF Ordered
    <3>4. f[1] <= g[1] BY <1>18, <2>1, <2>3, <3>1, <3>2
    <3>5. f[1] \in Int /\ g[1] \in Int /\ g[j] \in Int BY <1>19, <2>3, <3>1
    <3> QED BY <3>3, <3>4, <3>5
  <2>8. ASSUME Small PROVE Merged'
    <3>1. Len(First') + Len(Second') = Merge!top'.high + 1 - mergeCounter'
      <4>1. Merge!top'.high = h /\ mergeCounter' = x + 1
        BY <1>1, <1>5, <1>13, <1>15
      <4>2. (a - 1) + b = h + 1 - (x + 1) BY <1>18, <1>20, <2>8
      <4> QED BY <2>3, <2>4, <4>1, <4>2
    <3>2. Ordered(mergeS', l, x)
      <4> SUFFICES ASSUME NEW j \in l .. x, NEW k \in l .. x, j <= k
                   PROVE  mergeS'[j] <= mergeS'[k]
        BY DEF Ordered
      <4>1. CASE k = x /\ j = x BY <2>3, <2>6, <4>1
      <4>2. CASE k = x /\ j # x
        <5>1. j \in l .. x - 1 /\ j \in 0 .. N - 1 /\ 1 \in 1 .. a
          BY <1>18, <2>1, <4>2
        <5>2. c[j] <= f[1] BY <1>20, <2>8, <5>1
        <5> QED BY <2>6, <4>2, <5>1, <5>2
      <4>3. CASE k # x
        <5>1. /\ j \in l .. x - 1 /\ k \in l .. x - 1 /\ j # x
              /\ j \in 0 .. N - 1 /\ k \in 0 .. N - 1
          BY <1>18, <4>3
        <5>2. c[j] <= c[k] BY <1>20, <2>8, <5>1 DEF Ordered
        <5> QED BY <2>6, <4>3, <5>1, <5>2
      <4> QED BY <4>1, <4>2, <4>3
    <3>3. Ordered(First', 1, a - 1)
      <4> SUFFICES ASSUME NEW j \in 1 .. a - 1, NEW k \in 1 .. a - 1, j <= k
                   PROVE  First'[j] <= First'[k]
        BY DEF Ordered
      <4>1. j + 1 \in 1 .. a /\ k + 1 \in 1 .. a /\ j + 1 <= k + 1 BY <1>18
      <4>2. f[j + 1] <= f[k + 1] BY <1>20, <2>8, <4>1 DEF Ordered
      <4> QED BY <2>3, <4>2
    <3>4. ASSUME NEW k \in l .. x
          PROVE  /\ \A j \in 1 .. a - 1 : mergeS'[k] <= First'[j]
                 /\ \A j \in 1 .. b : mergeS'[k] <= g[j]
      <4>1. \A j \in 1 .. a - 1 : j + 1 \in 1 .. a BY <1>18
      <4>2. CASE k = x
        <5>1. 1 \in 1 .. a /\ \A j \in 1 .. a - 1 : 1 <= j + 1 BY <1>18, <2>1
        <5>2. \A j \in 1 .. a - 1 : f[1] <= f[j + 1]
          BY <1>20, <2>8, <4>1, <5>1 DEF Ordered
        <5> QED BY <2>3, <2>6, <2>7, <2>8, <4>2, <5>2
      <4>3. CASE k # x
        <5>1. k \in l .. x - 1 /\ k \in 0 .. N - 1 BY <1>18, <1>22, <4>3
        <5>2. mergeS'[k] = c[k] BY <2>6, <4>3, <5>1
        <5>3. /\ \A j \in 1 .. a : c[k] <= f[j]
              /\ \A j \in 1 .. b : c[k] <= g[j]
          BY <1>20, <2>8, <5>1
        <5> QED BY <2>3, <4>1, <5>2, <5>3
      <4> QED BY <4>2, <4>3
    <3>5. Merge!top'.low = l /\ mergeCounter' - 1 = x
      BY <1>1, <1>5, <1>13, <1>14, <1>18
    <3>6. Ordered(Second', 1, Len(Second')) BY <1>20, <2>4, <2>8
    <3> QED BY <2>3, <2>4, <3>1, <3>2, <3>3, <3>4, <3>5, <3>6 DEF Merged
  <2>9. ASSUME Small PROVE Rearranged(PutBack')
    <3>1. ASSUME NEW k \in 0 .. N - 1 PROVE PutBack'[k] = PutBack[k]
      <4>1. CASE k = x
        <5>1. /\ PutBack'[k] = mergeS'[k]
              /\ PutBack[k] = f[k - x + 1] /\ k - x + 1 = 1
          BY <1>18, <1>21, <2>1, <4>1
        <5> QED BY <2>6, <4>1, <5>1
      <4>2. CASE x < k /\ k <= h /\ k < x + a
        <5>1. /\ PutBack[k] = f[k - x + 1]
              /\ PutBack'[k] = First'[k - (x + 1) + 1]
          BY <1>18, <1>21, <2>3, <4>2
        <5>2. k - (x + 1) + 1 = k - x /\ k - x \in 1 .. a - 1 BY <1>18, <4>2
        <5> QED BY <2>3, <5>1, <5>2
      <4>3. CASE x < k /\ k <= h /\ ~(k < x + a)
        <5>1. /\ PutBack[k] = g[k - x - a + 1]
              /\ PutBack'[k] = g[k - (x + 1) - (a - 1) + 1]
          BY <1>18, <1>21, <2>3, <2>4, <4>3
        <5>2. k - (x + 1) - (a - 1) + 1 = k - x - a + 1 BY <1>18
        <5> QED BY <5>1, <5>2
      <4>4. CASE k < x \/ k > h
        <5>1. PutBack[k] = c[k] /\ PutBack'[k] = mergeS'[k] /\ k # x
          BY <1>18, <1>21, <4>4
        <5> QED BY <2>6, <5>1
      <4> QED BY <1>18, <4>1, <4>2, <4>3, <4>4
    <3>2. PutBack' = PutBack BY <1>5, <1>16, <3>1 DEF PutBack
    <3> QED BY <2>9, <3>2 DEF MergeIInv
  <2>10. Len(First') + Len(Second') <= a + b - 1 BY <1>18, <2>3, <2>4
  <2> QED BY <2>2, <2>4, <2>6, <2>8, <2>9, <2>10
<1>24. ASSUME ~Merge!FirstIsNext,
        mergeS' = [mergeS EXCEPT ![mergeCounter] = Merge!headq(buffer2)],
              buffer2' = Merge!dequeue(buffer2), buffer1' = buffer1
       PROVE  /\ mergeS' \in [0 .. N - 1 -> Int]
              /\ IsQueue(buffer1, Int)' /\ IsQueue(buffer2, Int)'
              /\ Len(First') + Len(Second') <= a + b - 1
              /\ Small => Merged' /\ Rearranged(PutBack')
  <2>1. ~Merge!empty_queue(buffer2) /\ b >= 1
        /\ (a > 0 => ~(Merge!headq(buffer1) <= Merge!headq(buffer2)))
    BY <1>3, <1>9, <1>10, <1>18, <1>24 DEF Merge!FirstIsNext
  <2>2. /\ IsQueue(buffer2, Int)' /\ g # <<>>
        /\ Merge!headq(buffer2) = Head(g) /\ Second' = Tail(g)
    BY <1>3, <1>12, <1>24, <2>1, DequeueTakesHead, MergeQueue DEF Second
  <2>3. /\ Len(Second') = b - 1 /\ Merge!headq(buffer2) = g[1] /\ g[1] \in Int
        /\ \A k \in 1 .. b - 1 : Second'[k] = g[k + 1]
    <3>1. g \in Seq(Int) /\ Len(g) = b BY <1>3, <1>10, <1>12
    <3>2. 1 \in 1 .. b BY <1>18, <2>1
    <3> QED BY <1>19, <2>2, <3>1, <3>2, TailOf
  <2>4. IsQueue(buffer1, Int)' /\ First' = f /\ Len(First') = a
    BY <1>3, <1>9, <1>11, <1>24 DEF IsQueue, First
  <2>5. mergeS' = [c EXCEPT ![x] = g[1]] BY <1>13, <1>17, <1>24, <2>3
  <2>6. /\ mergeS' \in [0 .. N - 1 -> Int] /\ mergeS'[x] = g[1]
        /\ \A k \in 0 .. N - 1 : k # x => mergeS'[k] = c[k]
    BY <1>18, <1>19, <2>3, <2>5
  <2>7. \A j \in 1 .. a : g[1] <= f[j] \/ ~Small
    <3> SUFFICES ASSUME Small, NEW j \in 1 .. a PROVE g[1] <= f[j] OBVIOUS
    <3>1. a >= 1 /\ 1 \in 1 .. a BY <1>18
    <3>2. Merge!headq(buffer1) = f[1]
      <4>1. ~Merge!empty_queue(buffer1) BY <1>3, <1>9, <3>1
      <4>2. f # <<>> /\ Merge!headq(buffer1) = Head(f)
        BY <1>3, <1>11, <4>1, DequeueTakesHead, MergeQueue DEF First
      <4> QED BY <1>3, <1>11, <4>2, TailOf
    <3>3. f[1] <= f[j] BY <1>20, <3>1 DEF Ordered
    <3>4. ~(f[1] <= g[1]) BY <1>18, <2>1, <2>3, <3>1, <3>2
    <3>5. f[1] \in Int /\ g[1] \in Int /\ f[j] \in Int BY <1>19, <2>3, <3>1
    <3> QED BY <3>3, <3>4, <3>5
  <2>8. ASSUME Small PROVE Merged'
    <3>1. Len(First') + Len(Second') = Merge!top'.high + 1 - mergeCounter'
      <4>1. Merge!top'.high = h /\ mergeCounter' = x + 1
        BY <1>1, <1>5, <1>13, <1>15
      <4>2. a + (b - 1) = h + 1 - (x + 1) BY <1>18, <1>20, <2>8
      <4> QED BY <2>3, <2>4, <4>1, <4>2
    <3>2. Ordered(mergeS', l, x)
      <4> SUFFICES ASSUME NEW j \in l .. x, NEW k \in l .. x, j <= k
                   PROVE  mergeS'[j] <= mergeS'[k]
        BY DEF Ordered
      <4>1. CASE k = x /\ j = x BY <2>3, <2>6, <4>1
      <4>2. CASE k = x /\ j # x
        <5>1. j \in l .. x - 1 /\ j \in 0 .. N - 1 /\ 1 \in 1 .. b
          BY <1>18, <2>1, <4>2
        <5>2. c[j] <= g[1] BY <1>20, <2>8, <5>1
        <5> QED BY <2>6, <4>2, <5>1, <5>2
      <4>3. CASE k # x
        <5>1. /\ j \in l .. x - 1 /\ k \in l .. x - 1 /\ j # x
              /\ j \in 0 .. N - 1 /\ k \in 0 .. N - 1
          BY <1>18, <4>3
        <5>2. c[j] <= c[k] BY <1>20, <2>8, <5>1 DEF Ordered
        <5> QED BY <2>6, <4>3, <5>1, <5>2
      <4> QED BY <4>1, <4>2, <4>3
    <3>3. Ordered(Second', 1, b - 1)
      <4> SUFFICES ASSUME NEW j \in 1 .. b - 1, NEW k \in 1 .. b - 1, j <= k
                   PROVE  Second'[j] <= Second'[k]
        BY DEF Ordered
      <4>1. j + 1 \in 1 .. b /\ k + 1 \in 1 .. b /\ j + 1 <= k + 1 BY <1>18
      <4>2. g[j + 1] <= g[k + 1] BY <1>20, <2>8, <4>1 DEF Ordered
      <4> QED BY <2>3, <4>2
    <3>4. ASSUME NEW k \in l .. x
          PROVE  /\ \A j \in 1 .. a : mergeS'[k] <= f[j]
                 /\ \A j \in 1 .. b - 1 : mergeS'[k] <= Second'[j]
      <4>1. \A j \in 1 .. b - 1 : j + 1 \in 1 .. b BY <1>18
      <4>2. CASE k = x
        <5>1. 1 \in 1 .. b /\ \A j \in 1 .. b - 1 : 1 <= j + 1 BY <1>18, <2>1
        <5>2. \A j \in 1 .. b - 1 : g[1] <= g[j + 1]
          BY <1>20, <2>8, <4>1, <5>1 DEF Ordered
        <5> QED BY <2>3, <2>6, <2>7, <2>8, <4>2, <5>2
      <4>3. CASE k # x
        <5>1. k \in l .. x - 1 /\ k \in 0 .. N - 1 BY <1>18, <1>22, <4>3
        <5>2. mergeS'[k] = c[k] BY <2>6, <4>3, <5>1
        <5>3. /\ \A j \in 1 .. a : c[k] <= f[j]
              /\ \A j \in 1 .. b : c[k] <= g[j]
          BY <1>20, <2>8, <5>1
        <5> QED BY <2>3, <4>1, <5>2, <5>3
      <4> QED BY <4>2, <4>3
    <3>5. Merge!top'.low = l /\ mergeCounter' - 1 = x
      BY <1>1, <1>5, <1>13, <1>14, <1>18
    <3>6. Ordered(First', 1, Len(First')) BY <1>20, <2>4, <2>8
    <3> QED BY <2>3, <2>4, <3>1, <3>2, <3>3, <3>4, <3>5, <3>6 DEF Merged
  <2>9. ASSUME Small PROVE Rearranged(PutBack')
    <3> DEFINE r == [k \in 0 .. N - 1 |->
                       IF k = x THEN x + a
                       ELSE IF x < k /\ k <= x + a THEN k - 1 ELSE k]
    <3>1. x + a <= h /\ x + a \in 0 .. N - 1 /\ x <= x + a
      BY <1>18, <1>20, <2>1, <2>9
    <3>2. r \in Bijection(0 .. N - 1, 0 .. N - 1) BY <1>18, <3>1, Rotation
    <3>3. \A k \in 0 .. N - 1 :
            r[k] = IF k = x THEN x + a
                   ELSE IF x < k /\ k <= x + a THEN k - 1 ELSE k
      OBVIOUS
    <3> HIDE DEF r
    <3>4. ASSUME NEW k \in 0 .. N - 1 PROVE PutBack'[k] = PutBack[r[k]]
      <4>1. CASE k = x
        <5>1. /\ r[k] = x + a
              /\ PutBack'[k] = mergeS'[k]
              /\ PutBack[x + a] = g[x + a - x - a + 1] /\ x + a - x - a + 1 = 1
          BY <1>18, <1>21, <3>1, <3>3, <4>1
        <5> QED BY <2>6, <4>1, <5>1
      <4>2. CASE x < k /\ k <= x + a
        <5>1. /\ r[k] = k - 1 /\ k - 1 \in 0 .. N - 1 /\ x <= k - 1
              /\ k - 1 <= h /\ k - 1 < x + a /\ k <= h
          BY <1>18, <3>1, <3>3, <4>2
        <5>2. /\ PutBack'[k] = f[k - (x + 1) + 1]
              /\ PutBack[k - 1] = f[(k - 1) - x + 1]
          BY <1>18, <1>21, <2>4, <4>2, <5>1
        <5>3. k - (x + 1) + 1 = (k - 1) - x + 1 BY <1>18
        <5> QED BY <5>1, <5>2, <5>3
      <4>3. CASE x + a < k /\ k <= h
        <5>1. r[k] = k BY <1>18, <3>3, <4>3
        <5>2. /\ PutBack[k] = g[k - x - a + 1]
              /\ PutBack'[k] = Second'[k - (x + 1) - a + 1]
          BY <1>18, <1>21, <2>4, <4>3
        <5>3. /\ k - (x + 1) - a + 1 = k - x - a
              /\ k - x - a \in 1 .. b - 1
          BY <1>18, <1>20, <2>9, <4>3
        <5> QED BY <2>3, <5>1, <5>2, <5>3
      <4>4. CASE k < x \/ k > h
        <5>1. r[k] = k /\ k # x BY <1>18, <3>1, <3>3, <4>4
        <5>2. PutBack[k] = c[k] /\ PutBack'[k] = mergeS'[k]
          BY <1>18, <1>21, <4>4
        <5> QED BY <2>6, <5>1, <5>2
      <4> QED BY <1>18, <3>1, <4>1, <4>2, <4>3, <4>4
    <3>5. Rearranged(PutBack) BY <2>9 DEF MergeIInv
    <3>6. Merge!n \in Nat BY <1>2
    <3>7. r \in Bijection(0 .. Merge!n - 1, 0 .. Merge!n - 1) BY <1>16, <3>2
    <3>8. \A k \in 0 .. Merge!n - 1 : PutBack'[k] = PutBack[r[k]] BY <1>16, <3>4
    <3> QED
      <4>1. PICK p : p = PutBack' OBVIOUS
      <4>2. PICK q : q = PutBack OBVIOUS
      <4>3. Rearranged(q) /\ \A k \in 0 .. Merge!n - 1 : p[k] = q[r[k]]
        BY <3>5, <3>8, <4>1, <4>2
      <4>4. Rearranged(p) BY <3>6, <3>7, <4>3, RearrangedAgain
      <4> QED BY <4>1, <4>4
  <2>10. Len(First') + Len(Second') <= a + b - 1 BY <1>18, <2>3, <2>4
  <2> QED BY <2>2, <2>4, <2>6, <2>8, <2>9, <2>10
<1>25. /\ mergeS' \in [0 .. N - 1 -> Int]
       /\ IsQueue(buffer1, Int)' /\ IsQueue(buffer2, Int)'
       /\ Len(First') + Len(Second') <= a + b - 1
       /\ Small => Merged' /\ Rearranged(PutBack')
  BY <1>23, <1>24 DEF Merge!TakeHead
<1>26. MergeTyped'
  <2>1. mergeS' \in [0 .. Merge!n' - 1 -> Int] BY <1>5, <1>16, <1>25
  <2>2. mergeCounter' \in 0 .. Merge!n' BY <1>1, <1>2, <1>5, <1>8
  <2> QED BY <1>1, <1>5, <1>25, <2>1, <2>2 DEF MergeIInv, MergeTyped, IsQueue
<1>27. BuffersHold'
  <2>1. ~Merge!At("fill")' BY <1>1, <1>5 DEF Merge!At
  <2>2. Merge!top'.low <= mergeCounter' BY <1>1, <1>2, <1>4, <1>5
  <2>3. Len(First') \in Nat /\ Len(Second') \in Nat
    <3>1. First' \in Seq(Int) /\ Second' \in Seq(Int)
      BY <1>25, QueueHolds, MergeQueue DEF First, Second
    <3> QED BY <3>1
  <2>4. Len(First') + Len(Second') <= Merge!top'.high + 1 - mergeCounter'
    <3>1. Merge!top'.high = h /\ mergeCounter' = x + 1
      BY <1>1, <1>5, <1>13, <1>15
    <3>2. a + b - 1 <= h + 1 - (x + 1) BY <1>18
    <3> QED BY <1>18, <1>25, <2>3, <3>1, <3>2
  <2> QED BY <1>7, <1>25, <2>1, <2>2, <2>4 DEF BuffersHold
<1>28. CallsNested' BY <1>1, <1>5 DEF MergeIInv, CallsNested
<1>29. ASSUME Small PROVE HalvesSorted'
  <2>1. PICK w : w = calls OBVIOUS
  <2>2. PICK m : m = Len(calls) OBVIOUS
  <2>3. m \in Nat /\ m >= 1 /\ Merge!top = w[m] BY <1>1, <2>1, <2>2, TopCall
  <2>4. ASSUME NEW k \in 1 .. m, w[k].at = "right"
        PROVE  Ordered(mergeS', w[k].low, Middle(w[k]))
    <3>1. k # m BY <1>1, <2>3, <2>4
    <3>2. HalfLow(w[k]) <= Merge!top.low
      <4>1. m \in 1 .. m /\ k \in 1 .. m - 1 BY <2>3, <3>1
      <4>2. Nested(w, m) BY <2>1, <2>2 DEF MergeIInv, CallsNested
      <4> QED BY <2>3, <4>1, <4>2 DEF Nested
    <3>3. w[k].low \in Nat /\ w[k].high \in Int BY <2>1, <2>2, MergeTypes
    <3>4. Middle(w[k]) \in Int BY <3>3 DEF Middle
    <3>5. Middle(w[k]) + 1 <= l BY <1>14, <2>4, <3>2 DEF HalfLow
    <3>6. Ordered(c, w[k].low, Middle(w[k]))
      BY <1>17, <1>29, <2>1, <2>2, <2>4 DEF MergeIInv, HalvesSorted
    <3>7. \A j \in w[k].low .. Middle(w[k]) : mergeS'[j] = c[j]
      <4> TAKE j \in w[k].low .. Middle(w[k])
      <4>1. j \in 0 .. N - 1 /\ j # x BY <1>18, <3>3, <3>4, <3>5
      <4>2. CASE Merge!FirstIsNext
              /\ mergeS' = [mergeS EXCEPT ![mergeCounter]
                   = Merge!headq(buffer1)]
        BY <1>13, <1>17, <1>19, <4>1, <4>2
      <4>3. CASE ~Merge!FirstIsNext
              /\ mergeS' = [mergeS EXCEPT ![mergeCounter]
                   = Merge!headq(buffer2)]
        BY <1>13, <1>17, <1>19, <4>1, <4>3
      <4> QED BY <4>2, <4>3 DEF Merge!TakeHead
    <3> QED BY <3>6, <3>7 DEF Ordered
  <2>5. \A k \in 1 .. Len(calls') :
          calls'[k].at = "right"
                => Ordered(mergeS', calls'[k].low, Middle(calls'[k]))
    BY <1>1, <2>1, <2>2, <2>4
  <2> QED BY <1>1, <1>5, <2>5 DEF HalvesSorted, Merge!At
<1>30. ASSUME Small PROVE Rearranged(PutBack)'
  <2>1. Rearranged(PutBack') BY <1>25, <1>30
  <2> QED BY <1>1, <1>5, <2>1 DEF Rearranged
<1> QED BY <1>7, <1>25, <1>26, <1>27, <1>28, <1>29, <1>30 DEF MergeIInv

(* Both queues are empty, the range is merged. *)
LEMMA MergeEndsKeeps == ASSUME MergeIInv, Merge!MergeEnds PROVE MergeIInv'
<1>1. /\ ~Merge!Halt /\ Merge!top.at = "merge" /\ mergeArray' = mergeArray
      /\ mergeS' = mergeS /\ mergeCounter' = mergeCounter
      /\ buffer1' = buffer1 /\ buffer2' = buffer2 /\ Merge!Return
      /\ Len(First) = 0 /\ Len(Second) = 0
  BY MergeTypes DEF Merge!MergeEnds, Merge!At
<1>2. /\ Merge!top.low \in Nat /\ Merge!top.high \in Nat /\ mergeCounter \in Nat
  BY <1>1, TopCall, MergeTypes
<1>3. ASSUME Small PROVE mergeCounter = Merge!top.high + 1
        /\ Ordered(mergeS, Merge!top.low, Merge!top.high)
  <2>1. Merged BY <1>1, <1>3 DEF MergeIInv, BuffersHold, Merge!At
  <2>2. Len(First) + Len(Second) = Merge!top.high + 1 - mergeCounter
    BY <2>1 DEF Merged
  <2>3. Merge!top.high + 1 - mergeCounter = 0 BY <1>1, <2>2
  <2>4. mergeCounter = Merge!top.high + 1 BY <1>2, <2>3
  <2>5. mergeCounter - 1 = Merge!top.high BY <1>2, <2>4
  <2> QED BY <2>1, <2>4, <2>5 DEF Merged
<1>4. ASSUME Small PROVE PutBack = [k \in 0 .. Merge!n - 1 |-> mergeS[k]]
  <2>1. mergeCounter = Merge!top.high + 1 BY <1>3, <1>4
  <2>2. Merge!n \in Nat BY MergeTypes
  <2>3. \A k \in 0 .. Merge!n - 1 : ~(mergeCounter <= k /\ k <= Merge!top.high)
    BY <1>2, <2>1, <2>2
  <2> QED BY <2>3 DEF PutBack
<1> QED BY <1>1, <1>3, <1>4, Popped

(* Every step keeps the invariant. *)
LEMMA MergeIInvKept ==
  ASSUME MergeIInv, [Merge!MergeNext]_(Merge!mergeVars)
  PROVE  MergeIInv'
<1>1. CASE Merge!SortLeft BY <1>1, SortLeftKeeps
<1>2. CASE Merge!NothingToSort BY <1>2, NothingToSortKeeps
<1>3. CASE Merge!SortRight BY <1>3, SortRightKeeps
<1>4. CASE Merge!MergeBegins BY <1>4, MergeBeginsKeeps
<1>5. CASE Merge!FillBuffers BY <1>5, FillBuffersKeeps
<1>6. CASE Merge!BuffersFilled BY <1>6, BuffersFilledKeeps
<1>7. CASE Merge!TakeHead BY <1>7, TakeHeadKeeps
<1>8. CASE Merge!MergeEnds BY <1>8, MergeEndsKeeps
<1>9. CASE UNCHANGED Merge!mergeVars
  <2>1. /\ mergeArray' = mergeArray /\ mergeS' = mergeS /\ calls' = calls
        /\ mergeCounter' = mergeCounter
        /\ buffer1' = buffer1 /\ buffer2' = buffer2
    BY <1>9 DEF Merge!mergeVars
  <2>2. /\ Merge!n' = Merge!n /\ Merge!top' = Merge!top
        /\ Merge!mid' = Merge!mid /\ First' = First /\ Second' = Second
        /\ (Merge!Halt' <=> Merge!Halt)
    BY <2>1 DEF Merge!n, Merge!top, Merge!mid, First, Second, Merge!Halt
  <2>3. \A step \in Merge!Steps : Merge!At(step)' <=> Merge!At(step)
    BY <2>2 DEF Merge!At
  <2>4. Small' <=> Small BY <2>2 DEF Small
  <2>5. MergeTyped' BY <2>1, <2>2 DEF MergeIInv, MergeTyped
  <2>6. IsQueue(buffer1, Int)' /\ IsQueue(buffer2, Int)'
    BY <2>1 DEF MergeIInv, IsQueue
  <2>7. CallsNested' BY <2>1, <2>2 DEF MergeIInv, CallsNested
  <2>8. BuffersHold'
    BY <2>1, <2>2, <2>3, <2>4
      DEF MergeIInv, BuffersHold, Filled, Merged, Merge!Steps
  <2>9. HalvesSorted => HalvesSorted'
    BY <2>1, <2>2, <2>3 DEF HalvesSorted, Merge!Steps
  <2>10. Rearranged(PutBack) => Rearranged(PutBack)'
    <3>1. Merge!At("merge")' <=> Merge!At("merge") BY <2>3 DEF Merge!Steps
    <3>2. PutBack' = PutBack BY <2>1, <2>2, <3>1 DEF PutBack
    <3> QED BY <2>1, <3>2, SameArrangement
  <2> QED BY <2>4, <2>5, <2>6, <2>7, <2>8, <2>9, <2>10 DEF MergeIInv
<1> QED
  BY <1>1, <1>2, <1>3, <1>4, <1>5, <1>6, <1>7, <1>8, <1>9 DEF Merge!MergeNext

(* As many places hold a number before and after the rearrangement. *)
LEMMA MergeIsRight == ASSUME MergeIInv PROVE Merge!SortsArray
<1> SUFFICES ASSUME Merge!Halt, Merge!n <= 2 * QUEUESIZE
             PROVE  /\ \A j, k \in 0 .. Merge!n - 1 :
                         j <= k => mergeS[j] <= mergeS[k]
                    /\ \A z : Merge!Occurs(mergeS,
                         z) = Merge!Occurs(mergeArray, z)
  BY DEF Merge!SortsArray
<1>1. Small BY DEF Small
<1>2. Ordered(mergeS, 0, Merge!n - 1) BY <1>1 DEF MergeIInv, HalvesSorted
<1>3. /\ Merge!n \in Nat /\ mergeArray \in [0 .. Merge!n - 1 -> Int]
      /\ mergeS \in [0 .. Merge!n - 1 -> Int]
  BY MergeTypes
<1> DEFINE D == 0 .. Merge!n - 1
<1>4. \A k \in D : PutBack[k] = mergeS[k] BY DEF PutBack, Merge!At
<1>5. PICK f \in Bijection(D, D) : \A k \in D : mergeS[k] = mergeArray[f[k]]
  BY <1>1, <1>4 DEF MergeIInv, Rearranged
<1>6. ASSUME NEW z PROVE Merge!Occurs(mergeS, z) = Merge!Occurs(mergeArray, z)
  <2> DEFINE A == {k \in DOMAIN mergeS : mergeS[k] = z}
             B == {k \in DOMAIN mergeArray : mergeArray[k] = z}
             g == [k \in A |-> f[k]]
  <2>1. A = {k \in D : mergeS[k] = z} /\ B = {k \in D : mergeArray[k] = z}
    BY <1>3
  <2>2. /\ f \in [D -> D] /\ \A x, y \in D : f[x] = f[y] => x = y
        /\ \A y \in D : \E x \in D : f[x] = y
    BY <1>5 DEF Bijection, Injection, Surjection, IsInjective
  <2>3. IsFiniteSet(D) BY <1>3, FS_Interval
  <2> HIDE DEF D, A, B
  <2>4. g \in [A -> B] BY <1>5, <2>1, <2>2
  <2>5. \A x, y \in A : g[x] = g[y] => x = y BY <2>1, <2>2
  <2>6. \A y \in B : \E x \in A : g[x] = y BY <1>5, <2>1, <2>2
  <2> HIDE DEF g
  <2>7. g \in Bijection(A, B)
    BY <2>4, <2>5, <2>6 DEF Bijection, Injection, Surjection, IsInjective
  <2>8. IsFiniteSet(A) /\ IsFiniteSet(B) BY <2>1, <2>3, FS_Subset
  <2>9. Cardinality(A) = Cardinality(B)
    BY <2>7, <2>8, FS_Bijection DEF ExistsBijection
  <2> QED BY <2>9, MergeCardinality DEF Merge!Occurs, A, B
<1> QED BY <1>2, <1>6 DEF Ordered

(* Any array of at most twice QUEUESIZE numbers is sorted at the end: it is in
   order and has each number as often as at first (merge_sort.c 2-43). *)
THEOREM ArraySorted == Merge!MergeSpec => []Merge!SortsArray
<1> QED BY MergeStarts, MergeIInvKept, MergeIsRight, PTL DEF Merge!MergeSpec

(* Both sorts sort: the vertices of any graph, and any array that fits. *)
THEOREM BothSort == Top!TopSpec /\ Merge!MergeSpec => []Sorts
<1>1. Top!SortsVertices /\ Merge!SortsArray => Sorts BY DEF Sorts
<1> QED BY <1>1, TopologicalOrder, ArraySorted, PTL
-----------------------------------------------------------------------------
(* The types of the small programs.  Where the inductive invariant that a
   theorem of theirs rests on bounds a variable less than its type does, the
   rest is invariant on its own.                                           *)

(* Counter. *)
LEMMA CountTypes == Count!CountSpec => []Count!CountTypeOK
<1>1. Count!CountInit => Count!CountTypeOK
  BY DEF Count!CountInit, Count!CountTypeOK
<1>2. Count!CountTypeOK /\ [Count!CountNext]_Count!countVars => Count!CountTypeOK'
  <2> SUFFICES ASSUME Count!CountTypeOK, [Count!CountNext]_Count!countVars
               PROVE  Count!CountTypeOK'
    OBVIOUS
  <2> USE DEF Count!CountTypeOK
  <2>1. CASE UNCHANGED Count!countVars BY <2>1 DEF Count!countVars
  <2>2. CASE Count!CreateThreadFails BY <2>2 DEF Count!CreateThreadFails
  <2>3. CASE Count!JoinAndExit BY <2>3 DEF Count!JoinAndExit
  <2>4. ASSUME NEW t \in CounterThreads, Count!CreateThread(t) PROVE Count!CountTypeOK'
    <3>1. increments \in Int BY CounterAssumption
    <3> QED BY <2>4, <3>1 DEF Count!CreateThread
  <2>5. ASSUME NEW t \in CounterThreads, Count!LeaveLoop(t) PROVE Count!CountTypeOK'
    BY <2>5 DEF Count!LeaveLoop, Count!Goto
  <2>6. ASSUME NEW t \in CounterThreads, Count!LockMutex(t) PROVE Count!CountTypeOK'
    BY <2>6 DEF Count!LockMutex, Count!Goto
  <2>7. ASSUME NEW t \in CounterThreads, Count!LoadCount(t) PROVE Count!CountTypeOK'
    BY <2>7 DEF Count!LoadCount, Count!Goto
  <2>8. ASSUME NEW t \in CounterThreads, Count!StoreCount(t) PROVE Count!CountTypeOK'
    <3> DEFINE next == CASE Count!this.threadPrints -> "print"
                         [] Count!this.locks /\ ~Count!this.threadPrints -> "unlock"
                         [] OTHER -> "loop"
    <3>1. next \in {"print", "unlock", "loop"} OBVIOUS
    <3>2. at' = [at EXCEPT ![t] = next] /\ UNCHANGED <<counting, increments, main>>
      BY <2>8 DEF Count!StoreCount, Count!Goto
    <3> HIDE DEF next
    <3>3. at' \in [CounterThreads -> {"none", "loop", "load", "store", "print",
                                      "unlock", "done"}]
      BY <3>1, <3>2
    <3>4. loaded[t] \in Nat /\ left[t] \in Int OBVIOUS
    <3>5. counter' \in Nat /\ left' \in [CounterThreads -> Int]
      BY <2>8, <3>4 DEF Count!StoreCount
    <3> QED BY <2>8, <3>2, <3>3, <3>5 DEF Count!StoreCount
  <2>9. ASSUME NEW t \in CounterThreads, Count!PrintCount(t) PROVE Count!CountTypeOK'
    BY <2>9 DEF Count!PrintCount, Count!Goto
  <2>10. ASSUME NEW t \in CounterThreads, Count!UnlockMutex(t) PROVE Count!CountTypeOK'
    BY <2>10 DEF Count!UnlockMutex, Count!Goto
  <2> QED BY <2>1, <2>2, <2>3, <2>4, <2>5, <2>6, <2>7, <2>8, <2>9, <2>10
          DEF Count!CountNext
<1> QED BY <1>1, <1>2, PTL DEF Count!CountSpec

(* MqSemaphore. *)
LEMMA SemTypes == Sem!SemSpec => []Sem!SemTypeOK
<1>1. Sem!SemInit => Sem!SemTypeOK
  BY BoundAssumption DEF Sem!SemInit, Sem!SemTypeOK, Sem!sem, Sem!SemaphoreMain, Sem!TestMain
<1>2. Sem!SemTypeOK /\ [Sem!SemNext]_Sem!semVars => Sem!SemTypeOK'
  <2> SUFFICES ASSUME Sem!SemTypeOK, [Sem!SemNext]_Sem!semVars PROVE Sem!SemTypeOK'
    OBVIOUS
  <2>1. semProgram' = semProgram
    BY DEF Sem!SemNext, Sem!semVars, Sem!Start, Sem!Kill, Sem!sem_open, Sem!OpenQueue,
           Sem!producer, Sem!consumer, Sem!SemaphoreThread, Sem!semaphore_init,
           Sem!semaphore_wait, Sem!semaphore_signal, Sem!TestThread
  <2>2. Sem!sem' = Sem!sem BY <2>1 DEF Sem!sem
  <2>3. Sem!sem.init_value \in Nat /\ Sem!sem.max_value \in Nat
    BY DEF Sem!sem, Sem!SemaphoreMain, Sem!TestMain
  <2>4. /\ tokens \in Nat /\ tokens <= Sem!sem.max_value /\ runs \in Nat /\ MaxRuns \in Nat
    BY <2>3, BoundAssumption DEF Sem!SemTypeOK
  <2>5. Sem!mq_send => tokens' \in 0 .. Sem!sem.max_value
    BY <2>3, <2>4 DEF Sem!mq_send
  <2>6. Sem!mq_receive => tokens' \in 0 .. Sem!sem.max_value
    BY <2>3, <2>4 DEF Sem!mq_receive
  <2> USE DEF Sem!SemTypeOK
  <2>7. CASE UNCHANGED Sem!semVars BY <2>2, <2>7 DEF Sem!semVars
  <2>8. ASSUME NEW p \in Processes, Sem!Start(p) PROVE Sem!SemTypeOK'
    <3>1. runs' \in 0 .. MaxRuns BY <2>4, <2>8 DEF Sem!Start
    <3>2. Sem!sem.init_value \in 0 .. Sem!sem.init_value BY <2>3
    <3>3. toSend' \in [Processes -> 0 .. Sem!sem.init_value] BY <2>8, <3>2 DEF Sem!Start
    <3> QED BY <2>1, <2>2, <2>8, <3>1, <3>3 DEF Sem!Start
  <2>9. ASSUME NEW p \in Processes, Sem!Kill(p) PROVE Sem!SemTypeOK'
    BY <2>1, <2>2, <2>9 DEF Sem!Kill
  <2>10. ASSUME NEW p \in Processes, Sem!OpenQueue(p) PROVE Sem!SemTypeOK'
    <3>1. CASE toSend[p] > 0
      <4>1. toSend[p] - 1 \in 0 .. Sem!sem.init_value BY <2>3, <3>1
      <4>2. toSend' \in [Processes -> 0 .. Sem!sem.init_value]
        BY <2>10, <3>1, <4>1 DEF Sem!OpenQueue
      <4> QED BY <2>1, <2>2, <2>5, <2>10, <3>1, <4>2 DEF Sem!OpenQueue
    <3>2. CASE ~(toSend[p] > 0) BY <2>1, <2>2, <2>10, <3>2 DEF Sem!OpenQueue
    <3> QED BY <3>1, <3>2
  <2>11. ASSUME NEW p \in Processes, Sem!producer(p) \/ Sem!consumer(p) PROVE Sem!SemTypeOK'
    BY <2>1, <2>2, <2>5, <2>6, <2>11 DEF Sem!producer, Sem!consumer, Sem!SemaphoreThread
  <2>12. ASSUME NEW p \in Processes, NEW kind \in Sem!Kinds,
                Sem!semaphore_wait(p, kind) \/ Sem!semaphore_signal(p, kind)
         PROVE  Sem!SemTypeOK'
    BY <2>1, <2>2, <2>5, <2>6, <2>12
    DEF Sem!semaphore_wait, Sem!semaphore_signal, Sem!TestThread
  <2> QED BY <2>7, <2>8, <2>9, <2>10, <2>11, <2>12
          DEF Sem!SemNext, Sem!sem_open, Sem!semaphore_init
<1> QED BY <1>1, <1>2, PTL DEF Sem!SemSpec

(* Tso: besides what TimestampOrder rests on, the row and the flags. *)
LEMMA TsoTypes == Tso!TsoSpec => []Tso!TsoTypeOK
<1> DEFINE More == /\ row \in 1 .. NumRows + 1
                   /\ {deadlock, underWrite, underRead, readBack} \subseteq BOOLEAN
<1>1. Tso!TsoInit => More
  <2>1. 1 \in 1 .. NumRows + 1 BY BoundAssumption
  <2> QED BY <2>1 DEF Tso!TsoInit
<1>2. More /\ [Tso!TsoNext]_Tso!tsoVars => More'
  <2> SUFFICES ASSUME More, [Tso!TsoNext]_Tso!tsoVars PROVE More'
    OBVIOUS
  <2>1. row <= NumRows => row + 1 \in 1 .. NumRows + 1 BY BoundAssumption
  <2>2. row' \in {row, row + 1} /\ (row' # row => row <= NumRows)
    BY DEF Tso!TsoNext, Tso!tsoVars, Tso!Ignore, Tso!AcceptRead, Tso!AcceptWrite,
           Tso!RejectRead, Tso!RejectWrite, Tso!Reject, Tso!NextColumn
  <2>3. row' \in 1 .. NumRows + 1 BY <2>1, <2>2
  <2>4. {deadlock, underWrite, underRead, readBack}' \subseteq BOOLEAN
    BY DEF Tso!TsoNext, Tso!tsoVars, Tso!history, Tso!Ignore, Tso!AcceptRead, Tso!AcceptWrite,
           Tso!RejectRead, Tso!RejectWrite, Tso!Reject
  <2> QED BY <2>3, <2>4
<1>3. More /\ TsoIInv => Tso!TsoTypeOK
  <2> SUFFICES ASSUME More, TsoIInv PROVE Tso!TsoTypeOK
    OBVIOUS
  <2>1. TsoTyped BY DEF TsoIInv
  <2>2. Len(ts) = 2 BY <2>1 DEF TsoTyped
  <2> QED BY <2>1, <2>2 DEF TsoTyped, Timestamps, Tso!TsoTypeOK
<1> QED BY <1>1, <1>2, <1>3, TsoInitIInv, TsoStepIInv, PTL DEF Tso!TsoSpec

(* FileLock and SharedRecords: part of what their theorems rest on. *)
LEMMA LockTypes == Flock!LockSpec => []Flock!LockTypeOK
<1>1. LockIInv => Flock!LockTypeOK BY DEF LockIInv
<1> QED BY <1>1, LockInitIInv, LockStepIInv, PTL DEF Flock!LockSpec

(* SharedRecords. *)
LEMMA RecordTypes == Rec!RecordSpec => []Rec!RecordTypeOK
<1>1. RecIInv => Rec!RecordTypeOK BY DEF RecIInv
<1> QED BY <1>1, RecInitIInv, RecStepIInv, PTL DEF Rec!RecordSpec

(* PingPong: the number is with one process, or in one pipe, or lost. *)
With(p, places) == IF doing[p] \in places THEN 1 ELSE 0

PingTyped == /\ doing \in [{"parent", "child"} ->
                            {"close", "read", "write", "exit", "dead"}]
             /\ ends \in [{"parent", "child"} -> SUBSET Ball!AllEnds]
             /\ inPipe \in [Ball!Pipe -> Nat]

OneNumber == With("child", {"close", "write"}) + With("parent", {"write"})
               + inPipe["ping"] + inPipe["pong"] <= 1

(* It stays one number, so that a pipe has none or one. *)
LEMMA PingTypes == Ball!PingSpec => []Ball!PingTypeOK
<1>1. Ball!PingInit => PingTyped /\ OneNumber
  BY DEF Ball!PingInit, PingTyped, OneNumber, With, Ball!Pipe
<1>2. PingTyped /\ OneNumber /\ [Ball!PingNext]_Ball!pingVars => (PingTyped /\ OneNumber)'
  <2> SUFFICES ASSUME PingTyped, OneNumber, [Ball!PingNext]_Ball!pingVars
               PROVE  PingTyped' /\ OneNumber'
    OBVIOUS
  <2>1. /\ doing["child"] \in {"close", "read", "write", "exit", "dead"}
        /\ doing["parent"] \in {"close", "read", "write", "exit", "dead"}
        /\ inPipe["ping"] \in Nat /\ inPipe["pong"] \in Nat
    BY DEF PingTyped, Ball!Pipe
  <2>2. CASE UNCHANGED Ball!pingVars
    BY <2>2 DEF Ball!pingVars, PingTyped, OneNumber, With
  <2>3. ASSUME NEW p \in {"parent", "child"}, Ball!Die(p), UNCHANGED inPipe
        PROVE  PingTyped' /\ OneNumber'
    <3>1. PingTyped' BY <2>3 DEF PingTyped, Ball!Die
    <3>2. /\ doing'["child"] \in {doing["child"], "dead"}
          /\ doing'["parent"] \in {doing["parent"], "dead"}
      BY <2>3 DEF PingTyped, Ball!Die
    <3>3. OneNumber' BY <2>1, <2>3, <3>2 DEF OneNumber, With
    <3> QED BY <3>1, <3>3
  <2>4. CASE Ball!ChildCloses
    <3>1. PingTyped' BY <2>4 DEF PingTyped, Ball!ChildCloses
    <3>2. doing'["child"] = "write" /\ doing'["parent"] = doing["parent"] /\ inPipe' = inPipe
          /\ doing["child"] = "close"
      BY <2>4 DEF PingTyped, Ball!ChildCloses
    <3>3. OneNumber' BY <2>1, <3>2 DEF OneNumber, With
    <3> QED BY <3>1, <3>3
  <2>5. CASE Ball!ParentCloses
    <3>1. PingTyped' BY <2>5 DEF PingTyped, Ball!ParentCloses
    <3>2. doing'["parent"] = "read" /\ doing'["child"] = doing["child"] /\ inPipe' = inPipe
      BY <2>5 DEF PingTyped, Ball!ParentCloses
    <3>3. OneNumber' BY <2>1, <3>2 DEF OneNumber, With
    <3> QED BY <3>1, <3>3
  <2>6. ASSUME doing["child"] = "write", Ball!Write("child", "pong", "read")
        PROVE  PingTyped' /\ OneNumber'
    <3>1. CASE Ball!Someone(<<"pong", "read">>)
      <4>1. /\ doing' = [doing EXCEPT !["child"] = "read"] /\ UNCHANGED ends
            /\ inPipe' = [inPipe EXCEPT !["pong"] = @ + 1]
        BY <2>6, <3>1 DEF Ball!Write
      <4>2. PingTyped' BY <4>1 DEF PingTyped, Ball!Pipe
      <4>3. /\ doing'["child"] = "read" /\ doing'["parent"] = doing["parent"]
            /\ inPipe'["ping"] = inPipe["ping"] /\ inPipe'["pong"] = inPipe["pong"] + 1
        BY <4>1 DEF PingTyped, Ball!Pipe
      <4>4. OneNumber' BY <2>1, <2>6, <4>3 DEF OneNumber, With
      <4> QED BY <4>2, <4>4
    <3>2. CASE ~Ball!Someone(<<"pong", "read">>) BY <2>3, <2>6, <3>2 DEF Ball!Write
    <3> QED BY <3>1, <3>2
  <2>7. ASSUME doing["parent"] = "write", Ball!Write("parent", "ping", "read")
        PROVE  PingTyped' /\ OneNumber'
    <3>1. CASE Ball!Someone(<<"ping", "read">>)
      <4>1. /\ doing' = [doing EXCEPT !["parent"] = "read"] /\ UNCHANGED ends
            /\ inPipe' = [inPipe EXCEPT !["ping"] = @ + 1]
        BY <2>7, <3>1 DEF Ball!Write
      <4>2. PingTyped' BY <4>1 DEF PingTyped, Ball!Pipe
      <4>3. /\ doing'["parent"] = "read" /\ doing'["child"] = doing["child"]
            /\ inPipe'["pong"] = inPipe["pong"] /\ inPipe'["ping"] = inPipe["ping"] + 1
        BY <4>1 DEF PingTyped, Ball!Pipe
      <4>4. OneNumber' BY <2>1, <2>7, <4>3 DEF OneNumber, With
      <4> QED BY <4>2, <4>4
    <3>2. CASE ~Ball!Someone(<<"ping", "read">>) BY <2>3, <2>7, <3>2 DEF Ball!Write
    <3> QED BY <3>1, <3>2
  <2>8. ASSUME NEW p \in {"parent", "child"}, NEW q \in {"ping", "pong"},
               doing[p] = "read", Ball!Read(p, q, "write", "exit")
        PROVE  PingTyped' /\ OneNumber'
    <3>1. CASE inPipe[q] > 0 /\ inPipe' = [inPipe EXCEPT ![q] = @ - 1]
               /\ doing' = [doing EXCEPT ![p] = "write"] /\ UNCHANGED ends
      <4>1. inPipe[q] \in Nat /\ inPipe[q] - 1 \in Nat BY <2>1, <3>1
      <4>2. PingTyped' BY <3>1, <4>1 DEF PingTyped, Ball!Pipe
      <4>3. /\ doing'[p] = "write" /\ \A r \in {"parent", "child"} \ {p} : doing'[r] = doing[r]
            /\ inPipe'[q] = inPipe[q] - 1
            /\ \A r \in {"ping", "pong"} \ {q} : inPipe'[r] = inPipe[r]
        BY <3>1 DEF PingTyped, Ball!Pipe
      <4>4. OneNumber' BY <2>1, <2>8, <4>3 DEF OneNumber, With
      <4> QED BY <4>2, <4>4
    <3>2. CASE doing' = [doing EXCEPT ![p] = "exit"] /\ UNCHANGED <<ends, inPipe>>
      <4>1. PingTyped' BY <3>2 DEF PingTyped
      <4>2. /\ doing'["child"] \in {doing["child"], "exit"}
            /\ doing'["parent"] \in {doing["parent"], "exit"}
        BY <3>2 DEF PingTyped
      <4>3. OneNumber' BY <2>1, <3>2, <4>2 DEF OneNumber, With
      <4> QED BY <4>1, <4>3
    <3> QED BY <2>8, <3>1, <3>2 DEF Ball!Read
  <2> QED BY <2>2, <2>3, <2>4, <2>5, <2>6, <2>7, <2>8
          DEF Ball!PingNext, Ball!Child, Ball!Parent, Ball!ChildWrites, Ball!ChildReads,
              Ball!ParentReads, Ball!ParentWrites, Ball!Exit, Ball!Killed
<1>3. PingTyped /\ OneNumber => Ball!PingTypeOK
  <2> SUFFICES ASSUME PingTyped, OneNumber PROVE Ball!PingTypeOK
    OBVIOUS
  <2>1. inPipe["ping"] \in Nat /\ inPipe["pong"] \in Nat BY DEF PingTyped, Ball!Pipe
  <2>2. inPipe["ping"] <= 1 /\ inPipe["pong"] <= 1 BY <2>1 DEF OneNumber, With
  <2>3. inPipe \in [Ball!Pipe -> 0 .. 1] BY <2>1, <2>2 DEF PingTyped, Ball!Pipe
  <2> QED BY <2>3 DEF PingTyped, Ball!PingTypeOK
<1> QED BY <1>1, <1>2, <1>3, PTL DEF Ball!PingSpec

(* SingleLane: no more vehicles wait than the FIFO holds. *)
LEMMA LaneTypes == Lane!LaneSpec => []Lane!LaneTypeOK
<1> USE DEF Lane!LaneTypeOK
<1>1. Lane!LaneInit => Lane!LaneTypeOK BY DEF Lane!LaneInit
<1>2. Lane!LaneTypeOK /\ [Lane!LaneNext]_Lane!laneVars => Lane!LaneTypeOK'
  <2> SUFFICES ASSUME Lane!LaneTypeOK, [Lane!LaneNext]_Lane!laneVars PROVE Lane!LaneTypeOK'
    OBVIOUS
  <2>1. CASE UNCHANGED Lane!laneVars BY <2>1 DEF Lane!laneVars
  <2>2. Lane!Found \in [Bridges -> 0 .. 2] BY DEF Lane!Found
  <2>3. ASSUME NEW b \in Bridges, Lane!Bridge(b) PROVE Lane!LaneTypeOK'
    <3>1. CASE Lane!MakeFifo(b)   BY <3>1 DEF Lane!MakeFifo
    <3>2. CASE Lane!OpenFails(b)  BY <3>2 DEF Lane!OpenFails
    <3>3. CASE Lane!OpenToRead(b) BY <2>2, <3>3 DEF Lane!OpenToRead
    <3>4. CASE Lane!OpenDummy(b)  BY <2>2, <3>4 DEF Lane!OpenDummy
    <3>5. CASE Lane!EnterBridge(b)
      <4>1. CASE reading[b] \in Bridges
        <5>1. waiting[reading[b]] - 1 \in 0 .. 2
          BY <3>5, <4>1 DEF Lane!EnterBridge
        <5> QED BY <3>5, <4>1, <5>1 DEF Lane!EnterBridge
      <4>2. CASE reading[b] \notin Bridges
        BY <3>5, <4>2 DEF Lane!EnterBridge
      <4> QED BY <4>1, <4>2
    <3>6. CASE Lane!LaneEnds(b)   BY <3>6 DEF Lane!LaneEnds
    <3>7. CASE Lane!Exits(b)      BY <3>7 DEF Lane!Exits, Lane!Gone
    <3>8. CASE Lane!BridgeEnds(b) BY <3>8 DEF Lane!BridgeEnds, Lane!Gone
    <3> QED BY <2>3, <3>1, <3>2, <3>3, <3>4, <3>5, <3>6, <3>7, <3>8 DEF Lane!Bridge
  <2>4. ASSUME NEW e \in Entrances, Lane!Entrance(e) PROVE Lane!LaneTypeOK'
    <3>1. CASE Lane!OpenLaneFails(e) BY <3>1 DEF Lane!OpenLaneFails
    <3>2. CASE Lane!OpenLane(e)      BY <2>2, <3>2 DEF Lane!OpenLane
    <3>3. CASE Lane!JoinLane(e)
      <4>1. lane[e] \in Bridges BY <3>3 DEF Lane!JoinLane, Lane!HasReader
      <4>2. waiting[lane[e]] + 1 \in 0 .. 2 BY <3>3, <4>1 DEF Lane!JoinLane
      <4> QED BY <3>3, <4>1, <4>2 DEF Lane!JoinLane
    <3>4. CASE Lane!BrokenLane(e)    BY <3>4 DEF Lane!BrokenLane, Lane!Leaves
    <3>5. CASE Lane!EntranceEnds(e)  BY <3>5 DEF Lane!EntranceEnds, Lane!Leaves
    <3> QED BY <2>4, <3>1, <3>2, <3>3, <3>4, <3>5 DEF Lane!Entrance, Lane!Writes
  <2> QED BY <2>1, <2>3, <2>4 DEF Lane!LaneNext
<1> QED BY <1>1, <1>2, PTL DEF Lane!LaneSpec

(* AverageServer: main has a request once it has started a thread. *)
AskedOnce == \A t \in Clients : avgThread[t] # "none" => avgMsgs \in Clients

(* A thread that starts gets a request, never an empty variable. *)
LEMMA AverageTypes == Avg!Spec => []Avg!TypeOK
<1> USE DEF Avg!TypeOK, Avg!None
<1>1. Avg!Init => Avg!TypeOK /\ AskedOnce
  <2>1. <<>> \in Seq(Clients) /\ <<>> \in Seq(Seq(Clients)) OBVIOUS
  <2> QED BY <2>1 DEF Avg!Init, AskedOnce
<1>2. Avg!TypeOK /\ AskedOnce /\ [Avg!Next]_Avg!vars => (Avg!TypeOK /\ AskedOnce)'
  <2> SUFFICES ASSUME Avg!TypeOK, AskedOnce, [Avg!Next]_Avg!vars
               PROVE  Avg!TypeOK' /\ AskedOnce'
    OBVIOUS
  <2> USE DEF AskedOnce, Avg!serverVars, Avg!threadVars, Avg!clientVars
  <2>1. CASE UNCHANGED Avg!vars BY <2>1 DEF Avg!vars
  <2>2. CASE Avg!MakeFifo BY <2>2 DEF Avg!MakeFifo
  <2>3. CASE Avg!OpenFifo BY <2>3 DEF Avg!OpenFifo
  <2>4. CASE Avg!ReadRequest
    <3>1. Head(pipe) \in Clients /\ Tail(pipe) \in Seq(Clients)
      BY <2>4 DEF Avg!ReadRequest
    <3> QED BY <2>4, <3>1 DEF Avg!ReadRequest
  <2>5. ASSUME Avg!Die, avgNamed' \in BOOLEAN PROVE Avg!TypeOK' /\ AskedOnce'
    BY <2>5 DEF Avg!Die
  <2>6. CASE Avg!Stop BY <2>5, <2>6 DEF Avg!Stop, Avg!Exit
  <2>7. ASSUME NEW t \in Clients, Avg!OpenClientFifoFails(t) \/ Avg!BrokenPipe(t)
        PROVE  Avg!TypeOK' /\ AskedOnce'
    BY <2>5, <2>7 DEF Avg!OpenClientFifoFails, Avg!BrokenPipe, Avg!Exit
  <2>8. ASSUME NEW t \in Clients, Avg!NameFifo(t) PROVE Avg!TypeOK' /\ AskedOnce'
    BY <2>8 DEF Avg!NameFifo, Avg!ThreadMoves
  <2>9. ASSUME NEW t \in Clients, Avg!OpenClientFifo(t) PROVE Avg!TypeOK' /\ AskedOnce'
    BY <2>9 DEF Avg!OpenClientFifo, Avg!ThreadMoves
  <2>10. ASSUME NEW t \in Clients, Avg!average(t) PROVE Avg!TypeOK' /\ AskedOnce'
    <3>1. avgThread[t] = "average" BY <2>10 DEF Avg!average, Avg!ThreadMoves
    <3>2. avgMsgs \in Clients BY <3>1
    <3>3. Append(sum[t], avgMsgs) \in Seq(Clients) BY <3>2
    <3> QED BY <2>10, <3>3 DEF Avg!average, Avg!ThreadMoves
  <2>11. ASSUME NEW t \in Clients, Avg!Respond(t) PROVE Avg!TypeOK' /\ AskedOnce'
    <3>1. sum[t] \in Seq(Clients) OBVIOUS
    <3>2. \A c \in Clients : Append(reply[c], sum[t]) \in Seq(Seq(Clients)) BY <3>1
    <3>3. reply' = [reply EXCEPT ![name[t]] = Append(@, sum[t])]
      BY <2>11 DEF Avg!Respond
    <3>4. reply' \in [Clients -> Seq(Seq(Clients))] BY <3>2, <3>3
    <3> QED BY <2>11, <3>4 DEF Avg!Respond, Avg!ThreadMoves
  <2>12. ASSUME NEW c \in Clients,
                \/ Avg!OpenServer(c) \/ Avg!ServerOpened(c) \/ Avg!OpenOwn(c)
                \/ Avg!Killed(c)
         PROVE  Avg!TypeOK' /\ AskedOnce'
    <3>1. \E to \in {"idle", "connect", "opening", "mkfifo", "write", "openOwn", "read",
                     "exit", "exited"} : avgClient' = [avgClient EXCEPT ![c] = to]
      BY <2>12 DEF Avg!OpenServer, Avg!ServerOpened, Avg!OpenOwn, Avg!Killed,
                   Avg!ClientMoves
    <3>2. /\ UNCHANGED <<avgProgram, avgServer, avgNamed, avgMsgs, avgThread, name, sum,
                         pipe, fifo, reply, avgPrinted>>
          /\ avgTogether' \in BOOLEAN
      BY <2>12 DEF Avg!OpenServer, Avg!ServerOpened, Avg!OpenOwn, Avg!Killed,
                   Avg!ClientMoves, Avg!Overlap
    <3> QED BY <3>1, <3>2
  <2>13. ASSUME NEW c \in Clients, Avg!MakeOwnFifo(c) PROVE Avg!TypeOK' /\ AskedOnce'
    BY <2>13 DEF Avg!MakeOwnFifo, Avg!ClientMoves, Avg!Overlap
  <2>14. ASSUME NEW c \in Clients, Avg!SendRequest(c) PROVE Avg!TypeOK' /\ AskedOnce'
    BY <2>14 DEF Avg!SendRequest, Avg!ClientMoves
  <2>15. ASSUME NEW c \in Clients, Avg!ReadAnswer(c) PROVE Avg!TypeOK' /\ AskedOnce'
    <3>1. reply[c] \in Seq(Seq(Clients)) OBVIOUS
    <3>2. reply[c] # <<>> =>
            Head(reply[c]) \in Seq(Clients) /\ Tail(reply[c]) \in Seq(Seq(Clients))
      BY <3>1
    <3>3. /\ reply' \in [Clients -> Seq(Seq(Clients))]
          /\ avgPrinted' \in [Clients -> Seq(Clients)]
      BY <2>15, <3>2 DEF Avg!ReadAnswer
    <3> QED BY <2>15, <3>3 DEF Avg!ReadAnswer, Avg!ClientMoves
  <2>16. ASSUME NEW c \in Clients, Avg!cleanup(c) PROVE Avg!TypeOK' /\ AskedOnce'
    BY <2>16 DEF Avg!cleanup, Avg!ClientMoves
  <2> QED BY <2>1, <2>2, <2>3, <2>4, <2>6, <2>7, <2>8, <2>9, <2>10, <2>11, <2>12,
             <2>13, <2>14, <2>15, <2>16
          DEF Avg!Next, Avg!process
<1> QED BY <1>1, <1>2, PTL DEF Avg!Spec

(* MessageCounter: besides what NumMessagesBounded rests on, the starts of
   the consumer and what was noted. *)
LEMMA MessageTypes == Msg!MsgSpec => []Msg!MsgTypeOK
<1> DEFINE More == /\ consStarts \in 0 .. MaxConsumers
                   /\ reused \in BOOLEAN /\ mixed \in BOOLEAN
<1>1. Msg!MsgInit => More
  <2>1. 0 \in 0 .. MaxConsumers BY BoundAssumption
  <2> QED BY <2>1 DEF Msg!MsgInit
<1>2. More /\ [Msg!MsgNext]_Msg!msgVars => More'
  <2> SUFFICES ASSUME More, [Msg!MsgNext]_Msg!msgVars PROVE More'
    OBVIOUS
  <2>1. \/ UNCHANGED consStarts
        \/ consStarts < MaxConsumers /\ consStarts' = consStarts + 1
    BY DEF Msg!MsgNext, Msg!msgVars, Msg!ProducerStarts, Msg!ResetMessages, Msg!WaitEmpty,
           Msg!ProducerLocks, Msg!ProducerReads, Msg!Increase, Msg!ProducerUnlocks,
           Msg!PostFull, Msg!ProducerInterrupted, Msg!ProducerKilled, Msg!ProducerStops,
           Msg!ProducerStep, Msg!ConsumerStarts, Msg!ConsumerOpens, Msg!WaitFull,
           Msg!ConsumerLocks, Msg!ConsumerReads, Msg!Decrease, Msg!ConsumerUnlocks,
           Msg!PostEmpty, Msg!ConsumerKilled, Msg!ConsumerStep
  <2>2. consStarts' \in 0 .. MaxConsumers BY <2>1, BoundAssumption
  <2>3. reused' \in BOOLEAN /\ mixed' \in BOOLEAN
    BY DEF Msg!MsgNext, Msg!msgVars, Msg!ProducerStarts, Msg!ResetMessages, Msg!WaitEmpty,
           Msg!ProducerLocks, Msg!ProducerReads, Msg!Increase, Msg!ProducerUnlocks,
           Msg!PostFull, Msg!ProducerInterrupted, Msg!ProducerKilled, Msg!ProducerStops,
           Msg!ProducerStep, Msg!ConsumerStarts, Msg!ConsumerOpens, Msg!WaitFull,
           Msg!ConsumerLocks, Msg!ConsumerReads, Msg!Decrease, Msg!ConsumerUnlocks,
           Msg!PostEmpty, Msg!ConsumerKilled, Msg!ConsumerStep
  <2> QED BY <2>2, <2>3
<1>3. More /\ MsgIInv => Msg!MsgTypeOK
  <2> SUFFICES ASSUME More, MsgIInv PROVE Msg!MsgTypeOK
    OBVIOUS
  <2>1. MsgTyped BY DEF MsgIInv
  <2>2. made \in Nat /\ made <= MaxProducers
    <3>1. made \in 0 .. MaxProducers BY <2>1 DEF MsgTyped
    <3> QED BY <3>1, MessageAssumption
  <2>3. 1 .. made \subseteq Msg!Generations
    BY <2>2, MessageAssumption DEF Msg!Generations
  <2>4. cons.opened \in Seq(1 .. made) BY <2>1 DEF MsgTyped
  <2>5. cons.opened \in Seq(Msg!Generations)
    <3>1. \A i \in 1 .. Len(cons.opened) : cons.opened[i] \in Msg!Generations
      <4>1. ASSUME NEW i \in 1 .. Len(cons.opened) PROVE cons.opened[i] \in 1 .. made
        BY <2>4, ElementOfSeq
      <4> QED BY <2>3, <4>1
    <3>2. cons.opened \in [1 .. Len(cons.opened) -> Msg!Generations] /\ Len(cons.opened) \in Nat
      BY <2>4, <3>1
    <3> QED BY <3>2
  <2>6. names \in 0 .. MaxProducers BY <2>1, <2>2, MessageAssumption DEF MsgTyped
  <2> QED BY <2>1, <2>5, <2>6 DEF MsgTyped, Msg!MsgTypeOK
<1> QED BY <1>1, <1>2, <1>3, MsgInitIInv, MsgStepIInv, PTL DEF Msg!MsgSpec

(* MqBatch: no queue holds more than its maximum, and nobody has more to send
   or to take. *)
Bounded ==
  /\ \A q \in Batch!Queues : curmsgs[q] <= Batch!prog.maxmsg
  /\ \A w \in MqWriters : /\ mqWriter[w].left \in 0 .. Batch!prog.sends
                          /\ mqWriter[w].at = "send" => mqWriter[w].left > 0
                          /\ mqWriter[w].mqd <= mqMade
  /\ \A r \in MqReaders : /\ mqReader[r].left \in 0 .. Batch!prog.maxmsg
                          /\ mqReader[r].mqd <= mqMade
  /\ rivals \subseteq MqReaders

(* The sizes of the three pairs are positive. *)
LEMMA BatchSizes ==
  ASSUME batch \in {"mqread", "example", "mqname"}
  PROVE  /\ Batch!prog.maxmsg \in Nat \ {0} /\ Batch!prog.sends \in Nat \ {0}
<1>1. CASE batch = "mqread" BY <1>1 DEF Batch!prog, Batch!Mqread
<1>2. CASE batch = "example" BY <1>2 DEF Batch!prog, Batch!Example
<1>3. CASE batch = "mqname"
  <2>1. Batch!prog = Batch!Mqname BY <1>3 DEF Batch!prog
  <2>2. NAMES \in Nat \ {0} BY BatchAssumption
  <2>3. 2 * NAMES \in Nat \ {0} BY <2>2
  <2> QED BY <2>1, <2>2, <2>3 DEF Batch!Mqname
<1> QED BY <1>1, <1>2, <1>3

(* No queue of messages, and no count of a reader, exceeds the maximum. *)
LEMMA BatchTypes == Batch!BatchSpec => []Batch!BatchTypeOK
<1>1. Batch!BatchInit => Bounded
  <2> SUFFICES ASSUME Batch!BatchInit PROVE Bounded
    OBVIOUS
  <2>1. Batch!prog.maxmsg \in Nat /\ Batch!prog.sends \in Nat
    BY BatchSizes DEF Batch!BatchInit
  <2> QED BY <2>1 DEF Batch!BatchInit, Bounded, Batch!Idle
<1>2. BatchIInv /\ Bounded /\ [Batch!BatchNext]_Batch!batchVars => Bounded'
  <2> SUFFICES ASSUME BatchIInv, Bounded, [Batch!BatchNext]_Batch!batchVars PROVE Bounded'
    OBVIOUS
  <2>1. BatchTyped /\ BatchTyped' BY BatchStepIInv DEF BatchIInv
  <2>2. batch' = batch
    BY DEF Batch!BatchNext, Batch!batchVars, Batch!WriterOpens, Batch!Send, Batch!WriterDies,
           Batch!ReaderOpens, Batch!ReaderWorks, Batch!Count, Batch!Receive,
           Batch!ReaderEnds, Batch!ReaderDies
  <2>3. Batch!prog' = Batch!prog BY <2>2, SameBatch
  <2>4. Batch!prog.maxmsg \in Nat \ {0} /\ Batch!prog.sends \in Nat \ {0}
    BY <2>1, BatchSizes DEF BatchTyped
  <2>5. /\ mqMade \in Nat /\ mqMade' \in Nat /\ mqName \in 0 .. mqMade
        /\ curmsgs \in [Batch!Queues -> Nat]
        /\ mqWriter \in [MqWriters -> WriterRecord]
        /\ mqReader \in [MqReaders -> ReaderRecord]
    BY <2>1 DEF BatchTyped
  <2>6. \A w \in MqWriters : mqWriter[w] \in WriterRecord BY <2>5
  <2>7. \A r \in MqReaders : mqReader[r] \in ReaderRecord BY <2>5
  <2>8. /\ \A w \in MqWriters : mqWriter[w].mqd \in Nat /\ mqWriter[w].left \in Int
        /\ \A r \in MqReaders : mqReader[r].mqd \in Nat /\ mqReader[r].left \in Int
    BY <2>6, <2>7 DEF WriterRecord, ReaderRecord
  <2>9. CASE UNCHANGED Batch!batchVars
    BY <2>3, <2>9 DEF Batch!batchVars, Bounded
  <2>10. ASSUME NEW makes \in BOOLEAN, Batch!OpenQueue(makes)
         PROVE  mqName' <= mqMade' /\ mqMade <= mqMade' /\ mqName' \in Nat
    BY <2>5, <2>10 DEF Batch!OpenQueue, Batch!Opened
  <2>11. ASSUME NEW w \in MqWriters, Batch!WriterOpens(w) PROVE Bounded'
    <3> DEFINE one == IF mqName' = 0 THEN [Batch!Idle EXCEPT !.at = "end"]
                      ELSE [at |-> "send", mqd |-> mqName', left |-> Batch!prog.sends]
    <3>1. /\ Batch!OpenQueue(Batch!prog.writerMakes)
          /\ mqWriter' = [mqWriter EXCEPT ![w] = one]
          /\ UNCHANGED <<curmsgs, mqReader, rivals>>
      BY <2>11 DEF Batch!WriterOpens
    <3>2. Batch!prog.writerMakes \in BOOLEAN
      BY <2>1 DEF BatchTyped, Batch!prog, Batch!Mqread, Batch!Example, Batch!Mqname
    <3>3. mqName' <= mqMade' /\ mqMade <= mqMade' /\ mqName' \in Nat BY <2>10, <3>1, <3>2
    <3>4. /\ one.left \in 0 .. Batch!prog.sends /\ (one.at = "send" => one.left > 0)
          /\ one.mqd <= mqMade'
      BY <2>4, <3>3 DEF Batch!Idle
    <3> HIDE DEF one
    <3>5. mqWriter'[w] = one /\ \A v \in MqWriters \ {w} : mqWriter'[v] = mqWriter[v]
      BY <2>5, <3>1
    <3>6. \A v \in MqWriters : /\ mqWriter'[v].left \in 0 .. Batch!prog.sends
                               /\ mqWriter'[v].at = "send" => mqWriter'[v].left > 0
                               /\ mqWriter'[v].mqd <= mqMade'
      <4> TAKE v \in MqWriters
      <4>1. CASE v = w BY <3>4, <3>5, <4>1
      <4>2. CASE v # w BY <2>5, <2>8, <3>3, <3>5, <4>2 DEF Bounded
      <4> QED BY <4>1, <4>2
    <3>7. \A r \in MqReaders : mqReader[r].mqd <= mqMade'
      BY <2>5, <2>8, <3>3 DEF Bounded
    <3> QED BY <2>3, <3>1, <3>6, <3>7 DEF Bounded
  <2>12. ASSUME NEW w \in MqWriters, Batch!Send(w) PROVE Bounded'
    <3>1. PICK one : one = [mqWriter[w] EXCEPT !.left = @ - 1,
                              !.at = IF mqWriter[w].left = 1 THEN "end" ELSE @]
      OBVIOUS
    <3>2. /\ mqWriter' = [mqWriter EXCEPT ![w] = one]
          /\ mqWriter[w].at = "send" /\ curmsgs[mqWriter[w].mqd] < Batch!prog.maxmsg
          /\ curmsgs' = [curmsgs EXCEPT ![mqWriter[w].mqd] = @ + 1]
          /\ UNCHANGED <<mqMade, mqReader, rivals>>
      BY <2>5, <2>12, <3>1 DEF Batch!Send
    <3>3. mqWriter[w].left \in 1 .. Batch!prog.sends /\ mqWriter[w].mqd <= mqMade
      BY <2>4, <2>8, <3>2 DEF Bounded
    <3>4. one.left = mqWriter[w].left - 1 /\ one.mqd = mqWriter[w].mqd
          /\ (one.at = "send" => mqWriter[w].left # 1)
      BY <2>6, <3>1 DEF WriterRecord
    <3>5. /\ one.left \in 0 .. Batch!prog.sends /\ (one.at = "send" => one.left > 0)
          /\ one.mqd <= mqMade
      BY <2>4, <2>8, <3>3, <3>4
    <3>6. mqWriter'[w] = one /\ \A v \in MqWriters \ {w} : mqWriter'[v] = mqWriter[v]
      BY <2>5, <3>2
    <3>7. \A q \in Batch!Queues : curmsgs'[q] <= Batch!prog.maxmsg
      BY <2>4, <2>5, <3>2 DEF Bounded
    <3>8. \A v \in MqWriters : /\ mqWriter'[v].left \in 0 .. Batch!prog.sends
                               /\ mqWriter'[v].at = "send" => mqWriter'[v].left > 0
                               /\ mqWriter'[v].mqd <= mqMade
      BY <3>5, <3>6 DEF Bounded
    <3> QED BY <2>3, <3>2, <3>7, <3>8 DEF Bounded
  <2>13. ASSUME NEW w \in MqWriters, Batch!WriterDies(w) PROVE Bounded'
    <3>1. /\ mqWriter' = [mqWriter EXCEPT ![w].at = "end"]
          /\ UNCHANGED <<mqMade, curmsgs, mqReader, rivals>>
      BY <2>13 DEF Batch!WriterDies
    <3>2. \A v \in MqWriters : /\ mqWriter'[v].left = mqWriter[v].left
                               /\ mqWriter'[v].mqd = mqWriter[v].mqd
                               /\ mqWriter'[v].at \in {mqWriter[v].at, "end"}
      BY <2>5, <2>6, <3>1 DEF WriterRecord
    <3> QED BY <2>3, <3>1, <3>2 DEF Bounded
  <2>14. ASSUME NEW r \in MqReaders, NEW one,
                mqReader' = [mqReader EXCEPT ![r] = one],
                one.left \in 0 .. Batch!prog.maxmsg, one.mqd \in Nat, one.mqd <= mqMade',
                mqMade <= mqMade', UNCHANGED mqWriter,
                rivals' \subseteq MqReaders,
                \A q \in Batch!Queues : curmsgs'[q] <= Batch!prog.maxmsg
         PROVE  Bounded'
    <3>1. mqReader'[r] = one /\ \A v \in MqReaders \ {r} : mqReader'[v] = mqReader[v]
      BY <2>5, <2>14
    <3>2. \A v \in MqReaders : /\ mqReader'[v].left \in 0 .. Batch!prog.maxmsg
                               /\ mqReader'[v].mqd <= mqMade'
      <4> TAKE v \in MqReaders
      <4>1. CASE v = r BY <2>14, <3>1, <4>1
      <4>2. CASE v # r BY <2>5, <2>8, <2>14, <3>1, <4>2 DEF Bounded
      <4> QED BY <4>1, <4>2
    <3>3. \A w \in MqWriters : mqWriter[w].mqd <= mqMade'
      BY <2>5, <2>8, <2>14 DEF Bounded
    <3> QED BY <2>3, <2>14, <3>2, <3>3 DEF Bounded
  <2>15. /\ \A q \in Batch!Queues : curmsgs[q] <= Batch!prog.maxmsg
         /\ \A r \in MqReaders : /\ mqReader[r].left \in 0 .. Batch!prog.maxmsg
                                 /\ mqReader[r].mqd <= mqMade
         /\ rivals \subseteq MqReaders
         /\ mqMade <= mqMade
    BY <2>5 DEF Bounded
  <2>16. ASSUME NEW r \in MqReaders, NEW to \in {"exit", "end"},
                mqReader' = [mqReader EXCEPT ![r].at = to],
                UNCHANGED <<mqMade, curmsgs, mqWriter, rivals>>
         PROVE  Bounded'
    <3>1. PICK one : one = [mqReader[r] EXCEPT !.at = to] OBVIOUS
    <3>2. mqReader' = [mqReader EXCEPT ![r] = one] BY <2>16, <3>1
    <3>3. one.left = mqReader[r].left /\ one.mqd = mqReader[r].mqd
      BY <2>7, <3>1 DEF ReaderRecord
    <3> QED BY <2>5, <2>8, <2>14, <2>15, <2>16, <3>2, <3>3
  <2>17. ASSUME NEW r \in MqReaders, Batch!ReaderOpens(r) PROVE Bounded'
    <3>1. CASE mqName = 0 /\ Batch!prog.counts
      BY <2>16, <2>17, <3>1 DEF Batch!ReaderOpens
    <3>2. CASE ~(mqName = 0 /\ Batch!prog.counts)
      <4>1. PICK one : one = [mqReader[r] EXCEPT !.mqd = mqName',
                          !.at = IF Batch!prog.counts THEN "count" ELSE "receive",
                          !.left = IF Batch!prog.counts THEN 0 ELSE Batch!Forever]
        OBVIOUS
      <4>2. /\ mqReader' = [mqReader EXCEPT ![r] = one]
            /\ Batch!OpenQueue(~Batch!prog.counts)
            /\ UNCHANGED <<curmsgs, mqWriter, rivals>>
        BY <2>5, <2>17, <3>2, <4>1 DEF Batch!ReaderOpens
      <4>3. mqName' <= mqMade' /\ mqMade <= mqMade' /\ mqName' \in Nat BY <2>10, <4>2
      <4>4. one.mqd = mqName' /\ one.left \in {0, 1}
        BY <2>7, <4>1 DEF ReaderRecord, Batch!Forever
      <4>5. one.left \in 0 .. Batch!prog.maxmsg BY <2>4, <4>4
      <4>6. rivals' \subseteq MqReaders BY <4>2 DEF Bounded
      <4> QED BY <2>14, <2>15, <4>2, <4>3, <4>4, <4>5, <4>6
    <3> QED BY <3>1, <3>2
  <2>18. ASSUME NEW r \in MqReaders, Batch!Count(r) PROVE Bounded'
    <3>1. PICK one : one = [mqReader[r] EXCEPT !.at = "receive",
                                               !.left = curmsgs[mqReader[r].mqd]]
      OBVIOUS
    <3>2. /\ mqReader' = [mqReader EXCEPT ![r] = one]
          /\ mqReader[r].at = "count"
          /\ UNCHANGED <<mqMade, curmsgs, mqWriter, rivals>>
      BY <2>5, <2>18, <3>1 DEF Batch!Count
    <3>3. one.mqd = mqReader[r].mqd /\ one.left = curmsgs[mqReader[r].mqd]
      BY <2>7, <3>1 DEF ReaderRecord
    <3>4. mqReader[r].mqd \in Batch!Queues
      BY <2>1, <3>2, MadeInQueues DEF BatchTyped
    <3>5. one.left \in 0 .. Batch!prog.maxmsg BY <2>4, <2>5, <2>15, <3>3, <3>4
    <3> QED BY <2>5, <2>8, <2>14, <2>15, <3>2, <3>3, <3>5
  <2>19. ASSUME NEW r \in MqReaders, Batch!Receive(r) PROVE Bounded'
    <3>1. PICK one : one = IF Batch!prog.counts
                           THEN [mqReader[r] EXCEPT !.left = Batch!TakesOne(@)]
                           ELSE mqReader[r]
      OBVIOUS
    <3>2. /\ mqReader' = [mqReader EXCEPT ![r] = one]
          /\ mqReader[r].left > 0
          /\ curmsgs' = [curmsgs EXCEPT ![mqReader[r].mqd] = @ - 1]
          /\ UNCHANGED <<mqMade, mqWriter>>
      BY <2>5, <2>19, <3>1 DEF Batch!Receive
    <3>3. one.mqd = mqReader[r].mqd /\ one.left \in {mqReader[r].left, mqReader[r].left - 1}
      BY <2>7, <3>1 DEF ReaderRecord, Batch!TakesOne
    <3>4. mqReader[r].left \in 0 .. Batch!prog.maxmsg BY DEF Bounded
    <3>5. one.left \in 0 .. Batch!prog.maxmsg BY <2>4, <3>2, <3>3, <3>4
    <3>6. \A q \in Batch!Queues : curmsgs'[q] <= Batch!prog.maxmsg
      BY <2>4, <2>5, <2>15, <3>2
    <3>7. rivals' \subseteq MqReaders BY <2>15, <2>19 DEF Batch!Receive
    <3> QED BY <2>5, <2>8, <2>14, <2>15, <3>2, <3>3, <3>5, <3>6, <3>7
  <2>20. ASSUME NEW r \in MqReaders, Batch!ReaderEnds(r) \/ Batch!ReaderDies(r)
         PROVE  Bounded'
    BY <2>16, <2>20 DEF Batch!ReaderEnds, Batch!ReaderDies, Batch!Exits
  <2> QED BY <2>9, <2>11, <2>12, <2>13, <2>17, <2>18, <2>19, <2>20
          DEF Batch!BatchNext, Batch!ReaderWorks
<1>3. BatchIInv /\ Bounded => Batch!BatchTypeOK
  <2> SUFFICES ASSUME BatchIInv, Bounded PROVE Batch!BatchTypeOK
    OBVIOUS
  <2>1. BatchTyped BY DEF BatchIInv
  <2>2. Batch!prog.maxmsg \in Nat /\ Batch!prog.sends \in Nat
    BY <2>1, BatchSizes DEF BatchTyped
  <2>3. mqMade \in Nat BY <2>1 DEF BatchTyped
  <2>4. mqMade \in Batch!Queues \cup {0}
    <3>1. CASE mqMade = 0 BY <3>1
    <3>2. CASE mqMade # 0
      <4>1. mqMade \in 1 .. mqMade BY <2>3, <3>2
      <4> QED BY <4>1, MadeInQueues
    <3> QED BY <3>1, <3>2
  <2>5. curmsgs \in [Batch!Queues -> 0 .. Batch!prog.maxmsg]
    BY <2>1, <2>2 DEF BatchTyped, Bounded
  <2>6. mqWriter \in [MqWriters -> [at : {"off", "send", "end"}, mqd : 0 .. mqMade,
                                    left : 0 .. Batch!prog.sends]]
    <3>1. ASSUME NEW w \in MqWriters
          PROVE  mqWriter[w] \in [at : {"off", "send", "end"}, mqd : 0 .. mqMade,
                                  left : 0 .. Batch!prog.sends]
      <4>1. mqWriter[w] \in WriterRecord BY <2>1 DEF BatchTyped
      <4>2. mqWriter[w].mqd \in 0 .. mqMade BY <2>3, <4>1 DEF WriterRecord, Bounded
      <4>3. mqWriter[w].left \in 0 .. Batch!prog.sends BY DEF Bounded
      <4> QED BY <4>1, <4>2, <4>3 DEF WriterRecord
    <3> QED BY <2>1, <3>1 DEF BatchTyped
  <2>7. mqReader \in [MqReaders -> [at : {"off", "count", "receive", "exit", "end"},
                                    mqd : 0 .. mqMade, left : 0 .. Batch!prog.maxmsg]]
    <3>1. ASSUME NEW r \in MqReaders
          PROVE  mqReader[r] \in [at : {"off", "count", "receive", "exit", "end"},
                                  mqd : 0 .. mqMade, left : 0 .. Batch!prog.maxmsg]
      <4>1. mqReader[r] \in ReaderRecord BY <2>1 DEF BatchTyped
      <4>2. mqReader[r].mqd \in 0 .. mqMade BY <2>3, <4>1 DEF ReaderRecord, Bounded
      <4>3. mqReader[r].left \in 0 .. Batch!prog.maxmsg BY DEF Bounded
      <4> QED BY <4>1, <4>2, <4>3 DEF ReaderRecord
    <3> QED BY <2>1, <3>1 DEF BatchTyped
  <2>8. rivals \subseteq MqReaders BY DEF Bounded
  <2> QED BY <2>1, <2>4, <2>5, <2>6, <2>7, <2>8 DEF BatchTyped, Batch!BatchTypeOK
<1> QED BY <1>1, <1>2, <1>3, BatchInitIInv, BatchStepIInv, PTL DEF Batch!BatchSpec

(* TwoFifos: besides the types, who has opened what. *)
Opens == /\ p1.at # "off" => p1.fdr # 0
         /\ p2.at \notin {"off", "opening1", "openRead"} => p2.fdr # 0
         /\ p2.at # "off" => p2Runs > 0

TwoRecords == /\ p1 \in [at : P1Sites, fdr : 0 .. MaxP1, fdw : 0 .. MaxP1,
                         buffer : Seq(Two!Texts)]
              /\ p2 \in [at : P2Sites, fdr : 0 .. MaxP1, fdw : 0 .. MaxP1,
                         lines : 0 .. MaxLines, line : Two!Texts \cup {Two!Empty},
                         buffer : Seq(Two!Texts)]

TwoRest == /\ {FIFO1, FIFO2} \subseteq 0 .. MaxP1
           /\ inFIFO1 \in [Two!P1Run -> Seq(Two!Texts)]
           /\ inFIFO2 \in [Two!P1Run -> Seq(Two!Texts)]
           /\ p1Runs \in 0 .. MaxP1 /\ p2Runs \in 0 .. MaxP2 /\ p2Killed \in BOOLEAN

(* A process that is off is of the types. *)
TwoOff ==
  /\ Two!P1Off \in [at : P1Sites, fdr : 0 .. MaxP1, fdw : 0 .. MaxP1,
                    buffer : Seq(Two!Texts)]
  /\ Two!P2Off \in [at : P2Sites, fdr : 0 .. MaxP1, fdw : 0 .. MaxP1,
                    lines : 0 .. MaxLines, line : Two!Texts \cup {Two!Empty},
                    buffer : Seq(Two!Texts)]
  /\ Two!P1Off.at = "off" /\ Two!P2Off.at = "off"

(* It is: 0 stands for no FIFO. *)
LEMMA OffHaveTypes == TwoOff
<1>1. 0 \in 0 .. MaxP1 /\ 0 \in 0 .. MaxLines BY FifoAssumption
<1>2. <<>> \in Seq(Two!Texts) OBVIOUS
<1> QED BY <1>1, <1>2 DEF TwoOff, Two!P1Off, Two!P2Off, P1Sites, P2Sites

(* No step of p1 leaves the types. *)
LEMMA TwoP1Step ==
  ASSUME TwoRecords, TwoRest, Opens,
         Two!MakeFIFO1 \/ Two!P1Steps \/ Two!P1Dies
  PROVE  TwoRecords' /\ TwoRest' /\ Opens'
<1> USE DEF TwoRecords, TwoRest, Opens, Two!fifoVars, P1Sites
<1>1. TwoOff BY OffHaveTypes
<1>2. CASE Two!MakeFIFO1
  <2>1. p1Runs' \in 0 .. MaxP1 /\ p1Runs' # 0 BY <1>2, FifoAssumption DEF Two!MakeFIFO1
  <2>2. 0 \in 0 .. MaxP1 BY FifoAssumption
  <2>3. CASE FIFO1 # 0
    BY <1>1, <1>2, <2>1, <2>2, <2>3 DEF TwoOff, Two!MakeFIFO1, Two!P1Exits
  <2>4. CASE FIFO1 = 0
    BY <1>2, <2>1, <2>4 DEF Two!MakeFIFO1
  <2> QED BY <2>3, <2>4
<1>3. 0 \in 0 .. MaxP1 BY FifoAssumption
<1>4. CASE Two!MakeFIFO2
  BY <1>1, <1>3, <1>4 DEF TwoOff, Two!MakeFIFO2, Two!P1Only
<1>5. CASE Two!P1OpenFIFO1 BY <1>5 DEF Two!P1OpenFIFO1, Two!P1Only
<1>6. CASE Two!P1OpenFIFO2
  BY <1>1, <1>3, <1>6 DEF TwoOff, Two!P1OpenFIFO2, Two!P1Only
<1>7. CASE Two!P1Opened BY <1>7 DEF Two!P1Opened, Two!P1Only
<1>8. CASE Two!P1Read
  <2>1. p1.fdr \in Two!P1Run BY <1>8, FifoAssumption DEF Two!P1Read, Two!P1Only, Two!P1Run
  <2>2. inFIFO1[p1.fdr] \in Seq(Two!Texts) BY <2>1
  <2>3. <<>> \in Seq(Two!Texts) OBVIOUS
  <2> QED BY <1>8, <2>2, <2>3 DEF Two!P1Read, Two!P1Only
<1>9. CASE Two!P1Write
  <2>1. <<>> \in Seq(Two!Texts) OBVIOUS
  <2>2. \A r \in Two!P1Run : inFIFO2[r] \o p1.buffer \in Seq(Two!Texts) OBVIOUS
  <2>3. inFIFO2' \in [Two!P1Run -> Seq(Two!Texts)] BY <1>9, <2>2 DEF Two!P1Write
  <2> QED BY <1>1, <1>9, <2>1, <2>3 DEF TwoOff, Two!P1Write, Two!P1Only
<1>10. CASE Two!P1Dies
  BY <1>1, <1>3, <1>10 DEF TwoOff, Two!P1Dies, Two!P1Exits
<1> QED BY <1>2, <1>4, <1>5, <1>6, <1>7, <1>8, <1>9, <1>10 DEF Two!P1Steps

(* Nor does a step of p2, or of whoever types lines for it. *)
LEMMA TwoP2Step ==
  ASSUME TwoRecords, TwoRest, Opens,
         Two!P2OpenFIFO1 \/ Two!P2Steps \/ Two!fgets \/ Two!P2Dies
  PROVE  TwoRecords' /\ TwoRest' /\ Opens'
<1> USE DEF TwoRecords, TwoRest, Opens, Two!fifoVars, P2Sites
<1>1. TwoOff BY OffHaveTypes
<1>2. 0 \in 0 .. MaxP1 BY FifoAssumption
<1>3. CASE Two!P2OpenFIFO1
  <2>1. p2Runs' \in 0 .. MaxP2 /\ p2Runs' > 0 BY <1>3, FifoAssumption DEF Two!P2OpenFIFO1
  <2> QED BY <1>1, <1>2, <1>3, <2>1 DEF TwoOff, Two!P2OpenFIFO1, Two!P2Exits
<1>4. CASE Two!P2Opened1 BY <1>4 DEF Two!P2Opened1, Two!P2Only
<1>5. CASE Two!P2OpenFIFO2 BY <1>1, <1>5 DEF TwoOff, Two!P2OpenFIFO2, Two!P2Only
<1>6. CASE Two!P2Opened2 BY <1>6 DEF Two!P2Opened2, Two!P2Only
<1>7. CASE Two!fgets
  <2>1. p2.lines + 1 \in 0 .. MaxLines /\ p2.lines + 1 \in 1 .. MaxLines
    BY <1>7, FifoAssumption DEF Two!fgets
  <2>2. p2Runs \in 1 .. MaxP2 BY <1>7, FifoAssumption DEF Two!fgets, Two!P2Only
  <2>3. <<p2Runs, p2.lines + 1>> \in Two!Texts BY <2>1, <2>2 DEF Two!Texts
  <2>4. PICK text \in Two!Texts \cup {Two!Empty} :
          p2' = [p2 EXCEPT !.at = "write", !.line = text, !.lines = @ + 1, !.buffer = <<>>]
    BY <1>7, <2>3 DEF Two!fgets, Two!P2Only
  <2>5. <<>> \in Seq(Two!Texts) OBVIOUS
  <2> QED BY <1>7, <2>1, <2>4, <2>5 DEF Two!fgets, Two!P2Only
<1>8. CASE Two!P2Write
  <2>1. p2.line # Two!Empty => p2.line \in Two!Texts OBVIOUS
  <2>2. ASSUME p2.line # Two!Empty
        PROVE  \A r \in Two!P1Run : Append(inFIFO1[r], p2.line) \in Seq(Two!Texts)
    BY <2>1, <2>2
  <2>3. inFIFO1' \in [Two!P1Run -> Seq(Two!Texts)]
    <3>1. CASE p2.line = Two!Empty \/ UNCHANGED inFIFO1
      BY <1>8, <3>1 DEF Two!P2Write
    <3>2. CASE /\ p2.line # Two!Empty
               /\ inFIFO1' = [inFIFO1 EXCEPT ![p2.fdw] = Append(@, p2.line)]
      BY <2>2, <3>2
    <3> QED BY <1>8, <3>1, <3>2 DEF Two!P2Write
  <2> QED BY <1>1, <1>8, <2>3 DEF TwoOff, Two!P2Write, Two!P2Only
<1>9. CASE Two!P2Read
  <2>1. p2.fdr \in Two!P1Run BY <1>9, FifoAssumption DEF Two!P2Read, Two!P2Only, Two!P1Run
  <2>2. inFIFO2[p2.fdr] \in Seq(Two!Texts) BY <2>1
  <2>3. <<>> \in Seq(Two!Texts) OBVIOUS
  <2> QED BY <1>9, <2>2, <2>3 DEF Two!P2Read, Two!P2Only
<1>10. CASE Two!P2Dies
  BY <1>1, <1>2, <1>10 DEF TwoOff, Two!P2Dies, Two!P2Exits
<1> QED BY <1>3, <1>4, <1>5, <1>6, <1>7, <1>8, <1>9, <1>10 DEF Two!P2Steps

(* All steps together. *)
LEMMA TwoTypes == Two!TwoSpec => []Two!TwoTypeOK
<1>1. Two!TwoInit => TwoRecords /\ TwoRest /\ Opens
  <2>1. 0 \in 0 .. MaxP1 /\ 0 \in 0 .. MaxP2 BY FifoAssumption
  <2>2. <<>> \in Seq(Two!Texts) OBVIOUS
  <2> QED BY <2>1, <2>2, OffHaveTypes
          DEF Two!TwoInit, TwoRecords, TwoRest, Opens, TwoOff
<1>2. TwoRecords /\ TwoRest /\ Opens /\ [Two!TwoNext]_Two!twoVars
        => (TwoRecords /\ TwoRest /\ Opens)'
  <2>1. TwoRecords /\ TwoRest /\ Opens /\ UNCHANGED Two!twoVars
          => TwoRecords' /\ TwoRest' /\ Opens'
    BY DEF Two!twoVars, Two!fifoVars, TwoRecords, TwoRest, Opens
  <2> QED BY <2>1, TwoP1Step, TwoP2Step DEF Two!TwoNext
<1>3. TwoRecords /\ TwoRest => Two!TwoTypeOK
  <2> SUFFICES ASSUME TwoRecords, TwoRest PROVE Two!TwoTypeOK
    OBVIOUS
  <2>1. /\ p1.at \in P1Sites /\ p1.fdr \in 0 .. MaxP1 /\ p1.fdw \in 0 .. MaxP1
        /\ p1.buffer \in Seq(Two!Texts)
    BY DEF TwoRecords
  <2>2. /\ p2.at \in P2Sites /\ p2.fdr \in 0 .. MaxP1 /\ p2.fdw \in 0 .. MaxP1
        /\ p2.buffer \in Seq(Two!Texts) /\ p2.line \in Two!Texts \cup {Two!Empty}
        /\ p2.lines \in 0 .. MaxLines
    BY DEF TwoRecords
  <2> QED BY <2>1, <2>2 DEF TwoRest, P1Sites, P2Sites, Two!TwoTypeOK
<1> QED BY <1>1, <1>2, <1>3, PTL DEF Two!TwoSpec

(* MqServer: besides the types, who has a queue, and what a server that is off
   leaves behind. *)
MqPlaces ==
  /\ \A r \in Mq!Runs :
       /\ workers[r].at \in {"average", "send"} => workers[r].half # Mq!None
       /\ workers[r].at # "none" => msgs # Mq!None /\ server = "on"
  /\ \A c \in Clients : client[c].at # "off" => client[c].run # 0 /\ client[c].mqdc # 0
  /\ generation <= IF server = "on" THEN starts ELSE starts + 1

(* The types, with an answer that is averaged from a request or none. *)
WorkerTypes == [at : {"none", "open", "average", "send"}, mqdc : {0} \cup Mq!Runs,
                half : Answer]
ClientTypes == [at : {"off", "connect", "send", "receive", "exit"},
                run : {0} \cup Mq!Runs, mqdc : {0} \cup Mq!Runs, mqds : Nat, got : Answer]

MqBase ==
  /\ mqProgram \in {"mqserver1", "mqserver2", "mqserver_multithread"}
  /\ server \in {"off", "on"} /\ starts \in 0 .. MaxStarts
  /\ named \in BOOLEAN /\ generation \in Nat \ {0}
  /\ serverQueue \in Seq(Mq!Request) /\ msgs \in Mq!Request \cup {Mq!None}
  /\ workers \in [Mq!Runs -> WorkerTypes]
  /\ clientQueue \in [Mq!Names -> {0} \cup Mq!Runs]
  /\ replies \in [Mq!Runs -> Seq(Mq!Request \cup {Mq!Torn})]
  /\ client \in [Clients -> ClientTypes]
  /\ clientRuns \in 0 .. MaxClientRuns
  /\ killed \subseteq Clients /\ serverFaults \in BOOLEAN /\ together \in BOOLEAN

(* No thread, and no client that is off, is outside the types. *)
LEMMA NobodyWorks == Mq!NoWorker \in WorkerTypes /\ Mq!NoWorker.at = "none"
<1> QED BY DEF WorkerTypes, Mq!NoWorker, Answer

LEMMA NobodyAsks == Mq!OffClient \in ClientTypes /\ Mq!OffClient.at = "off"
<1> QED BY DEF ClientTypes, Mq!OffClient, Answer

(* Steps of the server and its threads leave the clients alone. *)
LEMMA MqServerTypes ==
  ASSUME MqBase, MqPlaces,
         UNCHANGED <<mqProgram, client, clientRuns, clientQueue, killed, together>>,
         serverFaults' \in BOOLEAN,
         server' \in {"off", "on"}, starts' \in 0 .. MaxStarts, named' \in BOOLEAN,
         generation' \in Nat \ {0},
         generation' <= IF server' = "on" THEN starts' ELSE starts' + 1,
         serverQueue' \in Seq(Mq!Request), msgs' \in Mq!Request \cup {Mq!None},
         workers' \in [Mq!Runs -> WorkerTypes],
         replies' \in [Mq!Runs -> Seq(Mq!Request \cup {Mq!Torn})],
         \A r \in Mq!Runs :
           /\ workers'[r].at \in {"average", "send"} => workers'[r].half # Mq!None
           /\ workers'[r].at # "none" => msgs' # Mq!None /\ server' = "on"
  PROVE  MqBase' /\ MqPlaces'
<1> QED BY DEF MqBase, MqPlaces

(* A server that exits or is killed takes its threads with it. *)
LEMMA MqStops ==
  ASSUME MqBase, MqPlaces, server = "on",
         \/ Mq!ServerExits /\ (UNCHANGED serverFaults \/ serverFaults' = TRUE)
         \/ Mq!ServerKilled
  PROVE  MqBase' /\ MqPlaces'
<1>1. /\ UNCHANGED <<mqProgram, client, clientRuns, clientQueue, killed, together, starts,
                     replies>>
      /\ server' = "off" /\ serverFaults' \in BOOLEAN /\ named' \in BOOLEAN
      /\ generation' \in {generation, generation + 1}
      /\ serverQueue' \in {<<>>, serverQueue} /\ msgs' = Mq!None
      /\ workers' = [r \in Mq!Runs |-> Mq!NoWorker]
  BY DEF MqBase, Mq!ServerExits, Mq!ServerKilled, Mq!clientVars, Mq!queueVars
<1>2. generation \in Nat \ {0} /\ generation <= starts /\ starts \in 0 .. MaxStarts
  BY DEF MqBase, MqPlaces
<1>3. generation' \in Nat \ {0} /\ generation' <= starts + 1
  <2>1. starts \in Nat BY <1>2, BoundAssumption
  <2>2. CASE generation' = generation BY <1>2, <2>1, <2>2
  <2>3. CASE generation' = generation + 1 BY <1>2, <2>1, <2>3
  <2> QED BY <1>1, <2>2, <2>3
<1>4. workers' \in [Mq!Runs -> WorkerTypes] BY <1>1, NobodyWorks
<1>5. \A r \in Mq!Runs : workers'[r].at = "none" BY <1>1, NobodyWorks
<1>6. serverQueue' \in Seq(Mq!Request)
  <2>1. serverQueue \in Seq(Mq!Request) /\ <<>> \in Seq(Mq!Request) BY DEF MqBase
  <2> QED BY ONLY <1>1, <2>1
<1>7. replies' \in [Mq!Runs -> Seq(Mq!Request \cup {Mq!Torn})] BY <1>1 DEF MqBase
<1> QED BY <1>1, <1>2, <1>3, <1>4, <1>5, <1>6, <1>7, MqServerTypes

(* A step of a thread keeps the types. *)
LEMMA MqWorks ==
  ASSUME MqBase, MqPlaces, NEW r \in Mq!Runs, Mq!ThreadWorks(r)
  PROVE  MqBase' /\ MqPlaces'
<1>1. workers[r].at # "none" /\ workers[r] \in WorkerTypes
  BY DEF MqBase, Mq!ThreadWorks, Mq!OpenClientQueue, Mq!Average, Mq!Reply
<1>2. server = "on" /\ msgs \in Mq!Request BY <1>1 DEF MqBase, MqPlaces
<1>3. msgs # Mq!None BY <1>1 DEF MqPlaces
<1>4. CASE Mq!ServerExits /\ UNCHANGED serverFaults BY <1>2, <1>4, MqStops
<1>5. ASSUME NEW one \in WorkerTypes, workers' = [workers EXCEPT ![r] = one],
             one.at \in {"average", "send"} => one.half # Mq!None,
             Mq!WorkerStep(r), replies' \in [Mq!Runs -> Seq(Mq!Request \cup {Mq!Torn})]
      PROVE  MqBase' /\ MqPlaces'
  <2>1. workers' \in [Mq!Runs -> WorkerTypes] BY <1>5 DEF MqBase
  <2>2. /\ UNCHANGED <<mqProgram, server, starts, named, generation, serverQueue, msgs,
                       client, clientRuns, clientQueue, killed, serverFaults, together>>
    BY <1>5 DEF Mq!WorkerStep, Mq!clientVars, Mq!ghostVars
  <2>3. workers'[r] = one /\ \A s \in Mq!Runs \ {r} : workers'[s] = workers[s]
    BY <1>5 DEF MqBase
  <2>4. \A s \in Mq!Runs :
          /\ workers'[s].at \in {"average", "send"} => workers'[s].half # Mq!None
          /\ workers'[s].at # "none" => msgs' # Mq!None /\ server' = "on"
    BY <1>2, <1>3, <1>5, <2>2, <2>3 DEF MqPlaces
  <2>5. /\ serverFaults \in BOOLEAN /\ server \in {"off", "on"} /\ starts \in 0 .. MaxStarts
        /\ named \in BOOLEAN /\ generation \in Nat \ {0}
        /\ generation <= IF server = "on" THEN starts ELSE starts + 1
        /\ serverQueue \in Seq(Mq!Request) /\ msgs \in Mq!Request \cup {Mq!None}
    BY DEF MqBase, MqPlaces
  <2> QED BY <1>5, <2>1, <2>2, <2>4, <2>5, MqServerTypes
<1>6. replies \in [Mq!Runs -> Seq(Mq!Request \cup {Mq!Torn})] BY DEF MqBase
<1>7. CASE Mq!OpenClientQueue(r)
  <2>1. PICK q : q = clientQueue[Mq!CLIENT_MQ(msgs.id)] OBVIOUS
  <2>2. CASE q = 0 BY <1>4, <1>7, <2>1, <2>2 DEF Mq!OpenClientQueue
  <2>3. CASE q # 0
    <3>1. Mq!CLIENT_MQ(msgs.id) \in Mq!Names
      BY <1>2 DEF Mq!CLIENT_MQ, Mq!Names, Mq!Request
    <3>2. q \in {0} \cup Mq!Runs BY <2>1, <3>1 DEF MqBase
    <3>3. [at |-> "average", mqdc |-> q, half |-> msgs] \in WorkerTypes
      BY <1>2, <3>2 DEF WorkerTypes, Answer
    <3>4. /\ workers' = [workers EXCEPT ![r] = [at |-> "average", mqdc |-> q, half |-> msgs]]
          /\ Mq!WorkerStep(r) /\ UNCHANGED replies
      BY <1>7, <2>1, <2>3 DEF Mq!OpenClientQueue
    <3> QED BY <1>3, <1>5, <1>6, <3>3, <3>4
  <2> QED BY <2>2, <2>3
<1>8. CASE Mq!Average(r)
  <2>1. PICK half : workers' = [workers EXCEPT ![r].at = "send",
                                  ![r].half = IF half = msgs THEN msgs ELSE Mq!Torn]
    BY <1>8 DEF Mq!Average
  <2>2. PICK one : one = [workers[r] EXCEPT !.at = "send",
                            !.half = IF half = msgs THEN msgs ELSE Mq!Torn]
    OBVIOUS
  <2>3. workers' = [workers EXCEPT ![r] = one] BY <2>1, <2>2 DEF MqBase
  <2>4. one \in WorkerTypes BY <1>1, <1>2, <2>2 DEF WorkerTypes, Answer
  <2>5. Mq!Torn # Mq!None BY DEF Mq!Torn, Mq!None
  <2>6. one.half # Mq!None BY <1>1, <1>3, <2>2, <2>5 DEF WorkerTypes
  <2>7. Mq!WorkerStep(r) /\ UNCHANGED replies BY <1>8 DEF Mq!Average
  <2> QED BY <1>5, <1>6, <2>3, <2>4, <2>6, <2>7
<1>9. CASE Mq!Reply(r)
  <2>1. workers[r].half \in Mq!Request \cup {Mq!Torn}
    BY <1>1, <1>9 DEF Mq!Reply, WorkerTypes, Answer, MqPlaces
  <2>2. \A s \in Mq!Runs : Append(replies[s], workers[r].half) \in Seq(Mq!Request \cup {Mq!Torn})
    BY <1>6, <2>1
  <2>3. /\ replies' = [replies EXCEPT ![workers[r].mqdc] = Append(@, workers[r].half)]
        /\ workers' = [workers EXCEPT ![r] = Mq!NoWorker] /\ Mq!WorkerStep(r)
    BY <1>9 DEF Mq!Reply
  <2>4. replies' \in [Mq!Runs -> Seq(Mq!Request \cup {Mq!Torn})] BY <1>6, <2>2, <2>3
  <2> QED BY <1>5, <2>3, <2>4, NobodyWorks
<1> QED BY <1>7, <1>8, <1>9 DEF Mq!ThreadWorks

(* So does a request that is received, *)
LEMMA MqReceives ==
  ASSUME MqBase, MqPlaces, Mq!Receive
  PROVE  MqBase' /\ MqPlaces'
<1>1. /\ server = "on" /\ serverQueue # <<>>
      /\ msgs' = Head(serverQueue) /\ serverQueue' = Tail(serverQueue)
      /\ workers' = [workers EXCEPT ![msgs'.run].at = "open"]
      /\ UNCHANGED <<mqProgram, server, starts, named, generation, client, clientRuns,
                     clientQueue, replies, killed, serverFaults, together>>
  BY DEF Mq!Receive, Mq!clientVars, Mq!queueVars, Mq!ghostVars
<1>2. serverQueue \in Seq(Mq!Request) BY DEF MqBase
<1>3. msgs' \in Mq!Request /\ serverQueue' \in Seq(Mq!Request) BY <1>1, <1>2
<1>4. msgs'.run \in Mq!Runs BY <1>3 DEF Mq!Request
<1>5. msgs' # Mq!None
  <2>1. msgs'.id \in Clients BY <1>3 DEF Mq!Request
  <2> QED BY <2>1, ClientAssumption DEF Mq!None
<1>6. workers \in [Mq!Runs -> WorkerTypes] BY DEF MqBase
<1>7. workers' \in [Mq!Runs -> WorkerTypes] BY <1>1, <1>4, <1>6 DEF WorkerTypes
<1>8. \A r \in Mq!Runs : \/ workers'[r] = workers[r]
                         \/ workers'[r].at = "open"
  BY <1>1, <1>4, <1>6 DEF WorkerTypes
<1>9. \A r \in Mq!Runs :
        /\ workers'[r].at \in {"average", "send"} => workers'[r].half # Mq!None
        /\ workers'[r].at # "none" => msgs' # Mq!None /\ server' = "on"
  BY <1>1, <1>5, <1>8 DEF MqPlaces
<1>10. /\ serverFaults \in BOOLEAN /\ server \in {"off", "on"} /\ starts \in 0 .. MaxStarts
       /\ named \in BOOLEAN /\ generation \in Nat \ {0}
       /\ generation <= IF server = "on" THEN starts ELSE starts + 1
       /\ replies \in [Mq!Runs -> Seq(Mq!Request \cup {Mq!Torn})]
  BY DEF MqBase, MqPlaces
<1> QED BY <1>1, <1>3, <1>7, <1>9, <1>10, MqServerTypes

(* and a server that starts, on a queue of a generation up to its own. *)
LEMMA MqServerStarts ==
  ASSUME MqBase, MqPlaces, Mq!ServerStarts
  PROVE  MqBase' /\ MqPlaces'
<1>1. /\ server = "off" /\ server' = "on" /\ starts < MaxStarts /\ starts' = starts + 1
      /\ named' = TRUE
      /\ UNCHANGED <<mqProgram, generation, serverQueue, msgs, workers, client, clientRuns,
                     clientQueue, replies, killed, serverFaults, together>>
  BY DEF Mq!ServerStarts, Mq!clientVars, Mq!queueVars, Mq!ghostVars
<1>2. starts \in 0 .. MaxStarts /\ generation \in Nat \ {0} /\ generation <= starts + 1
  BY <1>1 DEF MqBase, MqPlaces
<1>3. starts' \in 0 .. MaxStarts BY <1>1, <1>2, BoundAssumption
<1> QED BY <1>1, <1>2, <1>3 DEF MqBase, MqPlaces

(* Steps of a client leave the server alone. *)
LEMMA MqClientTypes ==
  ASSUME MqBase, MqPlaces, NEW c \in Clients, NEW one \in ClientTypes,
         client' = [client EXCEPT ![c] = one],
         one.at # "off" => one.run # 0 /\ one.mqdc # 0,
         UNCHANGED <<mqProgram, server, starts, named, generation, msgs, workers,
                     serverFaults>>,
         serverQueue' \in Seq(Mq!Request),
         clientQueue' \in [Mq!Names -> {0} \cup Mq!Runs],
         replies' \in [Mq!Runs -> Seq(Mq!Request \cup {Mq!Torn})],
         clientRuns' \in 0 .. MaxClientRuns, killed' \subseteq Clients,
         together' \in BOOLEAN
  PROVE  MqBase' /\ MqPlaces'
<1>1. client' \in [Clients -> ClientTypes] BY DEF MqBase
<1>2. client'[c] = one /\ \A d \in Clients \ {c} : client'[d] = client[d] BY DEF MqBase
<1>3. MqBase' BY <1>1 DEF MqBase
<1>4. \A d \in Clients : client'[d].at # "off" => client'[d].run # 0 /\ client'[d].mqdc # 0
  BY <1>2 DEF MqPlaces
<1>5. MqPlaces' BY <1>4 DEF MqPlaces
<1> QED BY <1>3, <1>5

(* A step of a client keeps the types. *)
LEMMA MqClientWorks ==
  ASSUME MqBase, MqPlaces, NEW c \in Clients,
         Mq!ClientStarts(c) \/ Mq!ClientKilled(c) \/ Mq!ClientWorks(c)
  PROVE  MqBase' /\ MqPlaces'
<1>1. /\ client \in [Clients -> ClientTypes] /\ client[c] \in ClientTypes
      /\ serverQueue \in Seq(Mq!Request) /\ clientQueue \in [Mq!Names -> {0} \cup Mq!Runs]
      /\ replies \in [Mq!Runs -> Seq(Mq!Request \cup {Mq!Torn})]
      /\ clientRuns \in 0 .. MaxClientRuns /\ killed \subseteq Clients
      /\ together \in BOOLEAN /\ generation \in Nat
  BY DEF MqBase
<1>2. client[c].at # "off" => client[c].run # 0 /\ client[c].mqdc # 0 BY DEF MqPlaces
<1>3. Mq!CLIENT_MQ(c) \in Mq!Names BY DEF Mq!CLIENT_MQ, Mq!Names
<1>4. [clientQueue EXCEPT ![Mq!CLIENT_MQ(c)] = 0] \in [Mq!Names -> {0} \cup Mq!Runs]
  BY <1>1
<1>5. CASE Mq!ClientStarts(c)
  <2>1. clientRuns + 1 \in Mq!Runs /\ clientRuns + 1 \in 0 .. MaxClientRuns
        /\ clientRuns + 1 # 0
    BY <1>1, <1>5, ClientAssumption DEF Mq!ClientStarts, Mq!Runs
  <2>2. PICK mqdc : mqdc = IF clientQueue[Mq!CLIENT_MQ(c)] = 0 THEN clientRuns + 1
                           ELSE clientQueue[Mq!CLIENT_MQ(c)]
    OBVIOUS
  <2>3. mqdc \in Mq!Runs /\ mqdc # 0
    <3>1. clientQueue[Mq!CLIENT_MQ(c)] \in {0} \cup Mq!Runs BY <1>1, <1>3
    <3> QED BY <2>1, <2>2, <3>1
  <2>4. PICK one : one = [at |-> "connect", run |-> clientRuns + 1, mqdc |-> mqdc,
                          mqds |-> 0, got |-> Mq!None]
    OBVIOUS
  <2>5. one \in ClientTypes /\ one.run # 0 /\ one.mqdc # 0
    BY <2>1, <2>3, <2>4 DEF ClientTypes, Answer
  <2>6. /\ client' = [client EXCEPT ![c] = one]
        /\ clientQueue' = [clientQueue EXCEPT ![Mq!CLIENT_MQ(c)] = mqdc]
        /\ clientRuns' = clientRuns + 1 /\ together' \in BOOLEAN
        /\ UNCHANGED <<mqProgram, server, starts, named, generation, serverQueue, msgs,
                       workers, replies, killed, serverFaults>>
    BY <1>5, <2>2, <2>4 DEF Mq!ClientStarts, Mq!serverVars
  <2>7. clientQueue' \in [Mq!Names -> {0} \cup Mq!Runs] BY <1>1, <2>3, <2>6
  <2> QED BY <1>1, <2>1, <2>5, <2>6, <2>7, MqClientTypes
<1>6. CASE Mq!ClientKilled(c)
  <2>1. /\ client' = [client EXCEPT ![c] = Mq!OffClient] /\ killed' = killed \cup {c}
        /\ UNCHANGED <<mqProgram, server, starts, named, generation, serverQueue, msgs,
                       workers, clientRuns, clientQueue, replies, serverFaults, together>>
    BY <1>6 DEF Mq!ClientKilled, Mq!ClientStep, Mq!queueVars
  <2> QED BY <1>1, <2>1, NobodyAsks, MqClientTypes
<1>7. CASE Mq!Connect(c)
  <2>1. /\ UNCHANGED <<mqProgram, server, starts, named, generation, serverQueue, msgs,
                       workers, clientRuns, replies, killed, serverFaults, together>>
        /\ client[c].at = "connect"
    BY <1>7 DEF Mq!Connect, Mq!ClientStep, Mq!ghostVars
  <2>2. clientQueue' \in [Mq!Names -> {0} \cup Mq!Runs]
    BY <1>1, <1>4, <1>7 DEF Mq!Connect, Mq!Unlink
  <2>3. CASE named
    <3>1. PICK one : one = [client[c] EXCEPT !.at = "send", !.mqds = generation] OBVIOUS
    <3>2. client' = [client EXCEPT ![c] = one] BY <1>1, <1>7, <2>3, <3>1 DEF Mq!Connect
    <3>3. one \in ClientTypes /\ one.run = client[c].run /\ one.mqdc = client[c].mqdc
      BY <1>1, <3>1 DEF ClientTypes
    <3> QED BY <1>1, <1>2, <2>1, <2>2, <3>2, <3>3, MqClientTypes
  <2>4. CASE ~named
    <3>1. client' = [client EXCEPT ![c] = Mq!OffClient] BY <1>7, <2>4 DEF Mq!Connect
    <3> QED BY <1>1, <2>1, <2>2, <3>1, NobodyAsks, MqClientTypes
  <2> QED BY <2>3, <2>4
<1>8. CASE Mq!Send(c)
  <2>1. /\ UNCHANGED <<mqProgram, server, starts, named, generation, msgs, workers,
                       clientRuns, clientQueue, replies, killed, serverFaults, together>>
        /\ client[c].at = "send" /\ client' = [client EXCEPT ![c].at = "receive"]
    BY <1>8 DEF Mq!Send, Mq!ClientStep, Mq!queueVars, Mq!ghostVars
  <2>2. client[c].run \in Mq!Runs BY <1>1, <1>2, <2>1 DEF ClientTypes
  <2>3. [id |-> c, run |-> client[c].run] \in Mq!Request BY <2>2 DEF Mq!Request
  <2>4. serverQueue' \in Seq(Mq!Request) BY <1>1, <1>8, <2>3 DEF Mq!Send
  <2>5. PICK one : one = [client[c] EXCEPT !.at = "receive"] OBVIOUS
  <2>6. client' = [client EXCEPT ![c] = one] BY <1>1, <2>1, <2>5
  <2>7. one \in ClientTypes /\ one.run = client[c].run /\ one.mqdc = client[c].mqdc
    BY <1>1, <2>5 DEF ClientTypes
  <2> QED BY <1>1, <1>2, <2>1, <2>4, <2>6, <2>7, MqClientTypes
<1>9. CASE Mq!ReceiveReply(c)
  <2>1. /\ UNCHANGED <<mqProgram, server, starts, named, generation, serverQueue, msgs,
                       workers, clientRuns, clientQueue, killed, serverFaults, together>>
        /\ client[c].at = "receive" /\ replies[client[c].mqdc] # <<>>
        /\ client' = [client EXCEPT ![c].at = "exit",
                                    ![c].got = Head(replies[client[c].mqdc])]
        /\ replies' = [replies EXCEPT ![client[c].mqdc] = Tail(@)]
    BY <1>9 DEF Mq!ReceiveReply, Mq!ClientStep, Mq!ghostVars
  <2>2. client[c].mqdc \in Mq!Runs BY <1>1, <1>2, <2>1 DEF ClientTypes
  <2>3. PICK got, rest : got = Head(replies[client[c].mqdc])
                           /\ rest = Tail(replies[client[c].mqdc])
    OBVIOUS
  <2>4. /\ got \in Mq!Request \cup {Mq!Torn}
        /\ rest \in Seq(Mq!Request \cup {Mq!Torn})
    <3>1. replies[client[c].mqdc] \in Seq(Mq!Request \cup {Mq!Torn}) BY <1>1, <2>2
    <3> QED BY <2>1, <2>3, <3>1
  <2>5. replies' \in [Mq!Runs -> Seq(Mq!Request \cup {Mq!Torn})]
    <3>1. replies' = [replies EXCEPT ![client[c].mqdc] = rest] BY <2>1, <2>3
    <3> QED BY <1>1, <2>4, <3>1
  <2>6. PICK one : one = [client[c] EXCEPT !.at = "exit", !.got = got] OBVIOUS
  <2>7. client' = [client EXCEPT ![c] = one] BY <1>1, <2>1, <2>3, <2>6
  <2>8. one \in ClientTypes /\ one.run = client[c].run /\ one.mqdc = client[c].mqdc
    BY <1>1, <2>4, <2>6 DEF ClientTypes, Answer
  <2> QED BY <1>1, <1>2, <2>1, <2>5, <2>7, <2>8, MqClientTypes
<1>10. CASE Mq!ClientExits(c)
  <2>1. /\ UNCHANGED <<mqProgram, server, starts, named, generation, serverQueue, msgs,
                       workers, clientRuns, replies, killed, serverFaults, together>>
        /\ client' = [client EXCEPT ![c] = Mq!OffClient]
        /\ clientQueue' = [clientQueue EXCEPT ![Mq!CLIENT_MQ(c)] = 0]
    BY <1>10 DEF Mq!ClientExits, Mq!ClientStep, Mq!Unlink, Mq!ghostVars
  <2> QED BY <1>1, <1>4, <2>1, NobodyAsks, MqClientTypes
<1> QED BY <1>5, <1>6, <1>7, <1>8, <1>9, <1>10 DEF Mq!ClientWorks

(* All steps together. *)
LEMMA ServerTypes == Mq!MqSpec => []Mq!MqTypeOK
<1>1. Mq!MqInit => MqBase /\ MqPlaces
  <2> SUFFICES ASSUME Mq!MqInit PROVE MqBase /\ MqPlaces
    OBVIOUS
  <2>1. 0 \in 0 .. MaxStarts /\ 0 \in 0 .. MaxClientRuns
    BY BoundAssumption, ClientAssumption
  <2>2. <<>> \in Seq(Mq!Request) /\ <<>> \in Seq(Mq!Request \cup {Mq!Torn}) OBVIOUS
  <2>3. /\ workers \in [Mq!Runs -> WorkerTypes] /\ client \in [Clients -> ClientTypes]
    BY NobodyWorks, NobodyAsks DEF Mq!MqInit
  <2>4. /\ serverQueue \in Seq(Mq!Request)
        /\ replies \in [Mq!Runs -> Seq(Mq!Request \cup {Mq!Torn})]
    BY <2>2 DEF Mq!MqInit
  <2>5. clientQueue \in [Mq!Names -> {0} \cup Mq!Runs] /\ msgs \in Mq!Request \cup {Mq!None}
    BY DEF Mq!MqInit
  <2>6. /\ mqProgram \in {"mqserver1", "mqserver2", "mqserver_multithread"}
        /\ server = "off" /\ starts = 0 /\ named = FALSE /\ generation = 1
        /\ clientRuns = 0 /\ killed = {} /\ serverFaults = FALSE /\ together = FALSE
    BY DEF Mq!MqInit
  <2>7. /\ mqProgram \in {"mqserver1", "mqserver2", "mqserver_multithread"}
        /\ server \in {"off", "on"} /\ starts \in 0 .. MaxStarts /\ named \in BOOLEAN
        /\ generation \in Nat \ {0} /\ clientRuns \in 0 .. MaxClientRuns
        /\ killed \subseteq Clients /\ serverFaults \in BOOLEAN /\ together \in BOOLEAN
    <3>1. starts \in 0 .. MaxStarts BY ONLY <2>1, <2>6
    <3>2. clientRuns \in 0 .. MaxClientRuns BY ONLY <2>1, <2>6
    <3>3. generation \in Nat \ {0} BY ONLY <2>6
    <3>4. named \in BOOLEAN /\ serverFaults \in BOOLEAN /\ together \in BOOLEAN BY ONLY <2>6
    <3>5. server \in {"off", "on"} /\ killed \subseteq Clients BY ONLY <2>6
    <3> QED BY ONLY <2>6, <3>1, <3>2, <3>3, <3>4, <3>5
  <2>8. MqBase BY ONLY <2>3, <2>4, <2>5, <2>7, Zenon DEF MqBase
  <2>9. MqPlaces BY NobodyWorks, NobodyAsks DEF Mq!MqInit, MqPlaces
  <2> QED BY <2>8, <2>9
<1>2. MqBase /\ MqPlaces /\ [Mq!MqNext]_Mq!mqVars => (MqBase /\ MqPlaces)'
  <2> SUFFICES ASSUME MqBase, MqPlaces, [Mq!MqNext]_Mq!mqVars PROVE MqBase' /\ MqPlaces'
    OBVIOUS
  <2>1. CASE UNCHANGED Mq!mqVars
    BY <2>1 DEF Mq!mqVars, Mq!serverVars, Mq!clientVars, Mq!queueVars, Mq!ghostVars,
                MqBase, MqPlaces
  <2>2. CASE Mq!Interrupted \/ Mq!ServerKilled
    BY <2>2, MqStops DEF Mq!Interrupted, Mq!ServerKilled
  <2> QED BY <2>1, <2>2, MqServerStarts, MqReceives, MqWorks, MqClientWorks DEF Mq!MqNext
<1>3. MqBase /\ MqPlaces => Mq!MqTypeOK
  <2> SUFFICES ASSUME MqBase, MqPlaces PROVE Mq!MqTypeOK
    OBVIOUS
  <2>1. starts \in 0 .. MaxStarts /\ generation \in Nat \ {0} /\ generation <= starts + 1
    BY DEF MqBase, MqPlaces
  <2>2. generation \in 1 .. MaxStarts + 1 BY <2>1, BoundAssumption
  <2>3. clientRuns \in {0} \cup Mq!Runs
    <3>1. clientRuns \in 0 .. MaxClientRuns BY DEF MqBase
    <3> QED BY <3>1, ClientAssumption DEF Mq!Runs
  <2>4. \A r \in Mq!Runs : replies[r] \in Seq(Mq!Request \cup {Mq!Torn}) BY DEF MqBase
  <2> QED BY <2>2, <2>3, <2>4 DEF MqBase, WorkerTypes, ClientTypes, Answer, Mq!MqTypeOK
<1> QED BY <1>1, <1>2, <1>3, PTL DEF Mq!MqSpec

(* Bfs, Topsort, Prim and MergeSort: part of what their theorems rest on. *)
LEMMA AlgorithmTypes ==
  /\ Bfs!BfsSpec => []Bfs!BfsTypeOK
  /\ Top!TopSpec => []Top!TopTypeOK
  /\ Prim!PrimSpec => []Prim!PrimTypeOK
  /\ Merge!MergeSpec => []Merge!MergeTypeOK
<1>1. Bfs!BfsInit => BfsIInv BY BfsStarts
<1>2. BfsIInv => Bfs!BfsTypeOK BY DEF BfsIInv
<1>3. Bfs!BfsSpec => []Bfs!BfsTypeOK
  BY <1>1, <1>2, BfsIInvKept, PTL DEF Bfs!BfsSpec
<1>4. Top!TopInit => TopIInv BY TopStarts
<1>5. TopIInv => Top!TopTypeOK BY DEF TopIInv
<1>6. Top!TopSpec => []Top!TopTypeOK
  BY <1>4, <1>5, TopIInvKept, PTL DEF Top!TopSpec
<1>7. Prim!PrimInit => PrimIInv BY PrimStarts
<1>8. PrimIInv => Prim!PrimTypeOK BY DEF PrimIInv
<1>9. Prim!PrimSpec => []Prim!PrimTypeOK
  BY <1>7, <1>8, PrimIInvKept, PTL DEF Prim!PrimSpec
<1>10. MergeIInv => Merge!MergeTypeOK
  <2> SUFFICES ASSUME MergeIInv PROVE Merge!MergeTypeOK
    OBVIOUS
  <2>1. MergeTyped BY DEF MergeIInv
  <2>2. mergeArray \in [0 .. Merge!n - 1 -> Int] BY <2>1, ArrayType DEF MergeTyped
  <2> QED BY <2>1, <2>2 DEF MergeTyped, Merge!MergeTypeOK
<1>11. Merge!MergeSpec => []Merge!MergeTypeOK
  BY <1>10, MergeStarts, MergeIInvKept, PTL DEF Merge!MergeSpec
<1> QED BY <1>3, <1>6, <1>9, <1>11

(* All the small programs: what runs side by side with the others. *)
SmallPrograms ==
  /\ Count!CountSpec /\ Sem!SemSpec /\ Mq!MqSpec /\ Msg!MsgSpec /\ Ball!PingSpec
  /\ Flock!LockSpec /\ Tso!TsoSpec /\ Avg!Spec /\ Lane!LaneSpec /\ Rec!RecordSpec
  /\ Two!TwoSpec /\ Batch!BatchSpec /\ Bfs!BfsSpec /\ Top!TopSpec /\ Prim!PrimSpec
  /\ Merge!MergeSpec

(* Every variable of the small programs and the algorithms stays in its type:
   no queue, FIFO or buffer holds more than it may, no count leaves its range
   (the value of the message-queue semaphore, the vehicles in the lane, the
   one number of the ping-pong), and every index is one of its array. *)
THEOREM TypesCorrect == SmallPrograms => []TypesOK
<1>1. /\ Count!CountTypeOK /\ Sem!SemTypeOK /\ Mq!MqTypeOK /\ Msg!MsgTypeOK
      /\ Ball!PingTypeOK /\ Flock!LockTypeOK /\ Tso!TsoTypeOK /\ Avg!TypeOK
      /\ Lane!LaneTypeOK /\ Rec!RecordTypeOK /\ Two!TwoTypeOK /\ Batch!BatchTypeOK
      /\ Bfs!BfsTypeOK /\ Top!TopTypeOK /\ Prim!PrimTypeOK /\ Merge!MergeTypeOK
      => TypesOK
  BY DEF TypesOK
<1> QED BY <1>1, CountTypes, SemTypes, ServerTypes, MessageTypes, PingTypes, LockTypes,
           TsoTypes, AverageTypes, LaneTypes, RecordTypes, TwoTypes, BatchTypes,
           AlgorithmTypes, PTL
        DEF SmallPrograms
=============================================================================
