------------------------- MODULE PhilosophersProofs -------------------------
(***************************************************************************)
(* Proofs about Philosophers, for any number of philosophers and any       *)
(* finite set of runs that share the chopsticks.                           *)
(***************************************************************************)
EXTENDS Philosophers, TLAPS

USE PhilosophersAssumption

(* The chopstick to the right of the last philosopher is chopstick 0. *)
LEMMA RightOf ==
  ASSUME NEW t \in Threads
  PROVE  /\ t[2] \in Id /\ t[1] \in Runs /\ t = <<t[1], t[2]>>
         /\ Right(t) = IF t[2] = NUM_PHILOSOPHERS - 1 THEN 0 ELSE t[2] + 1
         /\ Right(t) \in Id /\ Left(t) \in Id /\ Right(t) # Left(t)
<1>1. t[2] \in Id /\ t[1] \in Runs /\ t = <<t[1], t[2]>>
  BY DEF Threads
<1>2. CASE t[2] = NUM_PHILOSOPHERS - 1
  <2>1. t[2] + 1 = NUM_PHILOSOPHERS BY <1>1, <1>2 DEF Id
  <2>2. NUM_PHILOSOPHERS % NUM_PHILOSOPHERS = 0 OBVIOUS
  <2> QED BY <1>1, <1>2, <2>1, <2>2 DEF Right, Left, Id
<1>3. CASE t[2] # NUM_PHILOSOPHERS - 1
  <2>1. t[2] + 1 \in Nat /\ t[2] + 1 < NUM_PHILOSOPHERS BY <1>1, <1>3 DEF Id
  <2>2. (t[2] + 1) % NUM_PHILOSOPHERS = t[2] + 1 BY <2>1
  <2> QED BY <1>1, <1>3, <2>1, <2>2 DEF Right, Left, Id
<1> QED BY <1>1, <1>2, <1>3

(* First and Second name the two chopsticks of a philosopher. *)
LEMMA TwoChopsticks ==
  ASSUME NEW t \in Threads
  PROVE  /\ First(t) \in Id /\ Second(t) \in Id /\ First(t) # Second(t)
         /\ {First(t), Second(t)} = {Left(t), Right(t)}
  BY RightOf DEF First, Second, StartsRight

(* A second chopstick has an even number; a first one has an odd number,
   except that of the last philosopher of an odd table. *)
LEMMA Parity ==
  ASSUME NEW t \in Threads
  PROVE  /\ Second(t) % 2 = 0
         /\ First(t) % 2 = 0 => /\ First(t) = 0
                                /\ Second(t) = NUM_PHILOSOPHERS - 1
<1>1. CASE t[2] % 2 = 0
  <2>1. Second(t) = t[2] /\ First(t) = Right(t)
    BY <1>1 DEF First, Second, Left, StartsRight
  <2>2. t[2] \in Nat BY RightOf DEF Id
  <2>3. (t[2] + 1) % 2 = 1 BY <1>1, <2>2
  <2> QED BY <1>1, <2>1, <2>2, <2>3, RightOf
<1>2. CASE t[2] % 2 # 0
  <2>1. First(t) = t[2] /\ Second(t) = Right(t)
    BY <1>2 DEF First, Second, Left, StartsRight
  <2>2. t[2] \in Nat BY RightOf DEF Id
  <2>3. (t[2] + 1) % 2 = 0 BY <1>2, <2>2
  <2>4. 0 % 2 = 0 OBVIOUS
  <2> QED BY <1>2, <2>1, <2>2, <2>3, <2>4, RightOf
<1> QED BY <1>1, <1>2
-----------------------------------------------------------------------------
(* What main has done so far: the chopsticks it has opened exist, and the
   threads it has not created are nowhere. *)
MainDone ==
  \A r \in Runs :
    /\ main[r] = "idle" => i[r] = 0
    /\ main[r] = "open" => \A c \in Id : c < i[r] => chopsticks[c] # Missing
    /\ main[r] \in {"create", "join"} => \A c \in Id : chopsticks[c] # Missing
    /\ main[r] \in {"idle", "open", "exited"} =>
         \A p \in Id : pc[<<r, p>>] = "none"
    /\ main[r] = "create" =>
         \A p \in Id : p >= i[r] => pc[<<r, p>>] = "none"

(* OneHolder in the form that is used and kept: what somebody holds has the
   value 0, what nobody holds has not, nothing is held twice. *)
Held(c)  == \E t \in Threads : c \in Hands(t)
NotTwice == \A t, u \in Threads : t # u => Hands(t) \cap Hands(u) = {}
Counts   == \A c \in Id : chopsticks[c] = 0 <=> Held(c)

IInv == TypeOK /\ MainDone /\ Counts /\ NotTwice

(* What a philosopher holds are chopsticks. *)
LEMMA HandsType == ASSUME NEW t \in Threads PROVE Hands(t) \subseteq Id
  BY RightOf, TwoChopsticks DEF Hands

(* It holds at first. *)
LEMMA InitIInv == Init => IInv
<1> SUFFICES ASSUME Init PROVE IInv OBVIOUS
<1>1. TypeOK BY DEF Init, TypeOK, Missing
<1>2. MainDone BY DEF Init, MainDone, Threads
<1>3. \A t \in Threads : Hands(t) = {} BY DEF Init, Hands
<1> QED BY <1>1, <1>2, <1>3 DEF IInv, Counts, NotTwice, Held, Init, Missing

(* A step that leaves the chopsticks and the philosophers who hold any. *)
LEMMA SameHands ==
  ASSUME NEW t \in Threads, pc'[t] = pc[t] PROVE Hands(t)' = Hands(t)
  BY DEF Hands, First, Left, Right, StartsRight

(* The steps of a main process, on chopsticks nobody lost. *)
LEMMA MainStepIInv ==
  ASSUME IInv, NEW r \in Runs,
         Start(r) \/ Open(r) \/ OpenFails(r) \/ Create(r) \/ NextLoop(r) \/ Kill(r)
  PROVE  IInv'
<1> USE DEF IInv
<1>1. TypeOK'
  <2> USE DEF TypeOK, At
  <2>1. CASE Start(r)     BY <2>1 DEF Start
  <2>2. CASE Open(r)      BY <2>2 DEF Open, Id
  <2>3. CASE OpenFails(r) BY <2>3 DEF OpenFails
  <2>4. CASE Create(r)
    <3>1. <<r, i[r]>> \in Threads BY <2>4 DEF Create, Id, Threads
    <3> QED BY <2>4, <3>1 DEF Create
  <2>5. CASE NextLoop(r)  BY <2>5 DEF NextLoop
  <2>6. CASE Kill(r)      BY <2>6 DEF Kill
  <2> QED BY <2>1, <2>2, <2>3, <2>4, <2>5, <2>6
<1>2. MainDone'
  <2>1. CASE Start(r) BY <2>1 DEF Start, MainDone, TypeOK, Id, At
  <2>2. CASE Open(r)
    BY <2>2 DEF Open, MainDone, TypeOK, Id, At, Missing
  <2>3. CASE OpenFails(r) BY <2>3 DEF OpenFails, MainDone, TypeOK, At
  <2>4. CASE Create(r)
    BY <2>4 DEF Create, MainDone, TypeOK, Id, At, Threads
  <2>5. CASE NextLoop(r) BY <2>5 DEF NextLoop, MainDone, TypeOK, Id, At
  <2>6. CASE Kill(r) BY <2>6 DEF Kill, MainDone
  <2> QED BY <2>1, <2>2, <2>3, <2>4, <2>5, <2>6
<1>3. \A t \in Threads : Hands(t)' = Hands(t)
  <2> SUFFICES ASSUME NEW t \in Threads PROVE Hands(t)' = Hands(t) OBVIOUS
  <2>1. CASE Create(r)
    <3>1. CASE t = <<r, i[r]>>
      <4>1. pc[t] = "none" /\ pc'[t] = "hungry"
        BY <2>1, <3>1 DEF Create, MainDone, TypeOK, Id, At, Threads
      <4> QED BY <4>1 DEF Hands
    <3>2. CASE t # <<r, i[r]>>
      BY <2>1, <3>2, SameHands DEF Create, TypeOK
    <3> QED BY <3>1, <3>2
  <2>2. CASE ~Create(r)
    BY <2>2, SameHands DEF Start, Open, OpenFails, NextLoop, Kill
  <2> QED BY <2>1, <2>2
<1>4. \A c \in Id : chopsticks'[c] = 0 <=> chopsticks[c] = 0
  BY DEF TypeOK, Start, Open, OpenFails, Create, NextLoop, Kill, Id, Missing
<1> QED BY <1>1, <1>2, <1>3, <1>4 DEF Counts, NotTwice, Held

(* The other philosophers and main do not notice a philosopher's step. *)
LEMMA OthersHands ==
  ASSUME TypeOK, NEW t \in Threads, NEW from, NEW to, Step(t, from, to),
         NEW u \in Threads, u # t
  PROVE  Hands(u)' = Hands(u)
  BY SameHands DEF Step, TypeOK

(* A philosopher's move keeps the types and what main has done. *)
LEMMA StepMain ==
  ASSUME IInv, NEW t \in Threads, NEW from, from # "none",
         NEW to \in {"hungry", "first", "eating", "last"}, Step(t, from, to),
         chopsticks' \in [Id -> {0, 1}] \/ chopsticks' \in [Id -> {Missing, 0, 1}],
         \A c \in Id : chopsticks'[c] = Missing <=> chopsticks[c] = Missing
  PROVE  TypeOK' /\ MainDone'
<1>1. TypeOK'
  BY DEF IInv, TypeOK, Step
<1>2. pc[t] # "none" /\ t = <<t[1], t[2]>> /\ t[1] \in Runs /\ t[2] \in Id
  BY RightOf DEF Step
<1>3. \A r \in Runs, p \in Id : pc[<<r, p>>] = "none" => pc'[<<r, p>>] = "none"
  BY <1>2 DEF Step, IInv, TypeOK, Threads
<1>4. MainDone'
  BY <1>3 DEF IInv, MainDone, Step
<1> QED BY <1>1, <1>4

(* Taking a chopstick that is on the table. *)
LEMMA Takes ==
  ASSUME IInv, NEW t \in Threads, NEW from, from # "none",
         NEW to \in {"hungry", "first", "eating", "last"}, Step(t, from, to),
         NEW c \in Id, SemWait(c), Hands(t)' = Hands(t) \cup {c}
  PROVE  IInv'
<1>1. chopsticks[c] = 1 /\ chopsticks' = [chopsticks EXCEPT ![c] = 0]
  <2>1. chopsticks[c] \in {Missing, 0, 1} BY DEF IInv, TypeOK
  <2>2. chopsticks[c] = 1 BY <2>1 DEF SemWait, Missing
  <2>3. chopsticks[c] - 1 = 0 BY <2>2
  <2> QED BY <2>2, <2>3 DEF SemWait
<1>2. TypeOK' /\ MainDone'
  <2>1. chopsticks' \in [Id -> {Missing, 0, 1}] BY <1>1 DEF IInv, TypeOK
  <2>2. \A d \in Id : chopsticks'[d] = Missing <=> chopsticks[d] = Missing
    BY <1>1 DEF IInv, TypeOK, Missing
  <2> QED BY <2>1, <2>2, StepMain
<1>3. \A u \in Threads \ {t} : Hands(u)' = Hands(u)
  BY OthersHands DEF IInv
<1>4. \A u \in Threads : c \notin Hands(u)
  BY <1>1 DEF IInv, Counts, Held
<1>5. Counts'
  BY <1>1, <1>3, <1>4 DEF IInv, TypeOK, Counts, Held
<1>6. NotTwice'
  BY <1>3, <1>4 DEF IInv, NotTwice
<1> QED BY <1>2, <1>5, <1>6 DEF IInv

(* Putting down a chopstick one holds. *)
LEMMA Puts ==
  ASSUME IInv, NEW t \in Threads, NEW from, from # "none",
         NEW to \in {"hungry", "first", "eating", "last"}, Step(t, from, to),
         NEW c \in Hands(t), SemPost(c), Hands(t)' = Hands(t) \ {c}
  PROVE  IInv'
<1>0. c \in Id BY HandsType
<1>1. chopsticks[c] = 0 /\ chopsticks' = [chopsticks EXCEPT ![c] = 1]
  <2>1. chopsticks[c] = 0 BY <1>0 DEF IInv, Counts, Held
  <2>2. chopsticks[c] + 1 = 1 BY <2>1
  <2> QED BY <2>1, <2>2 DEF SemPost
<1>2. TypeOK' /\ MainDone'
  <2>1. chopsticks' \in [Id -> {Missing, 0, 1}] BY <1>1 DEF IInv, TypeOK
  <2>2. \A d \in Id : chopsticks'[d] = Missing <=> chopsticks[d] = Missing
    BY <1>0, <1>1 DEF IInv, TypeOK, Missing
  <2> QED BY <2>1, <2>2, StepMain
<1>3. \A u \in Threads \ {t} : Hands(u)' = Hands(u)
  BY OthersHands DEF IInv
<1>4. \A u \in Threads \ {t} : c \notin Hands(u)
  BY DEF IInv, NotTwice
<1>5. Counts'
  BY <1>0, <1>1, <1>3, <1>4 DEF IInv, TypeOK, Counts, Held
<1>6. NotTwice'
  BY <1>3 DEF IInv, NotTwice
<1> QED BY <1>2, <1>5, <1>6 DEF IInv

(* The steps of a philosopher. *)
LEMMA PhilosopherIInv ==
  ASSUME IInv, NEW t \in Threads, philosopher(t) PROVE IInv'
<1>0. pc \in [Threads -> {"none", "hungry", "first", "eating", "last"}]
  BY DEF IInv, TypeOK
<1>1. CASE TakeFirst(t)
  <2>1. Step(t, "hungry", "first") /\ SemWait(First(t)) BY <1>1 DEF TakeFirst
  <2>2. Hands(t) = {} /\ Hands(t)' = {First(t)}
    BY <1>0, <2>1 DEF Hands, Step, First, Left, Right, StartsRight
  <2> QED BY <2>1, <2>2, Takes, TwoChopsticks
<1>2. CASE TakeSecond(t)
  <2>1. Step(t, "first", "eating") /\ SemWait(Second(t)) BY <1>2 DEF TakeSecond
  <2>2. Hands(t) = {First(t)} /\ Hands(t)' = {Left(t), Right(t)}
    BY <1>0, <2>1 DEF Hands, Step, Left, Right
  <2> QED BY <2>1, <2>2, Takes, TwoChopsticks
<1>3. CASE PutLeft(t)
  <2>1. Step(t, "eating", "last") /\ SemPost(Left(t)) BY <1>3 DEF PutLeft
  <2>2. Hands(t) = {Left(t), Right(t)} /\ Hands(t)' = {Right(t)}
    BY <1>0, <2>1 DEF Hands, Step, Left, Right
  <2> QED BY <2>1, <2>2, Puts, RightOf
<1>4. CASE PutRight(t)
  <2>1. Step(t, "last", "hungry") /\ SemPost(Right(t)) BY <1>4 DEF PutRight
  <2>2. Hands(t) = {Right(t)} /\ Hands(t)' = {}
    BY <1>0, <2>1 DEF Hands, Step, Left, Right
  <2> QED BY <2>1, <2>2, Puts
<1> QED BY <1>1, <1>2, <1>3, <1>4 DEF philosopher

(* Every step keeps it. *)
LEMMA StepIInv == IInv /\ [Next]_vars => IInv'
<1> SUFFICES ASSUME IInv, [Next]_vars PROVE IInv' OBVIOUS
<1>1. CASE Next BY <1>1, MainStepIInv, PhilosopherIInv DEF Next
<1>2. CASE UNCHANGED vars
  <2>1. \A t \in Threads : Hands(t)' = Hands(t)
    BY <1>2, SameHands DEF vars
  <2>2. TypeOK' /\ MainDone'
    BY <1>2 DEF vars, IInv, TypeOK, MainDone
  <2> QED BY <1>2, <2>1, <2>2 DEF vars, IInv, Counts, NotTwice, Held
<1> QED BY <1>1, <1>2

(* It holds in every reachable state. *)
LEMMA Invariance == Spec => []IInv
  BY InitIInv, StepIInv, PTL DEF Spec

(* The type invariant, for tables of any size and any number of runs. *)
THEOREM TypeCorrect == Spec => []TypeOK
  BY Invariance, PTL DEF IInv

(* A chopstick is never in two hands, not even of two runs, and is on the
   table exactly when it is in none. *)
THEOREM ChopsticksExclusive == Spec => []OneHolder
<1>1. IInv => OneHolder
  BY DEF IInv, Counts, NotTwice, Held, OneHolder
<1> QED BY <1>1, Invariance, PTL

(* Why the order works: who holds one chopstick waits for an even one, which
   the other philosopher who wants it takes last too; he therefore eats.  The
   exception, chopstick 0 of an odd table, is taken first by the last
   philosopher alone, whose second chopstick nobody takes first. *)
LEMMA SomebodyUnblocked ==
  ASSUME IInv, Seated # {} PROVE \E t \in Seated : ~Blocked(t)
<1> SUFFICES ASSUME \A t \in Seated : Blocked(t) PROVE FALSE OBVIOUS
<1>1. \A t \in Threads : pc[t] \in {"none", "hungry", "first"}
  BY DEF Seated, Blocked, IInv, TypeOK
<1>2. \A t \in Threads : Hands(t) = IF pc[t] = "first" THEN {First(t)} ELSE {}
  BY <1>1 DEF Hands
<1>3. ASSUME NEW t \in Threads, pc[t] = "first"
      PROVE  \E u \in Threads : pc[u] = "first" /\ First(u) = Second(t)
  <2>1. Blocked(t) /\ chopsticks[Second(t)] = 0
    BY <1>3 DEF Seated, Blocked
  <2>2. PICK u \in Threads : Second(t) \in Hands(u)
    BY <2>1, TwoChopsticks DEF IInv, Counts, Held
  <2> QED BY <1>2, <2>2
<1>4. \A t \in Threads : pc[t] # "first"
  <2> SUFFICES ASSUME NEW t \in Threads, pc[t] = "first" PROVE FALSE OBVIOUS
  <2>1. PICK u \in Threads : pc[u] = "first" /\ First(u) = Second(t)
    BY <1>3
  <2>2. First(u) = 0 /\ Second(u) = NUM_PHILOSOPHERS - 1
    BY <2>1, Parity
  <2>3. PICK w \in Threads : pc[w] = "first" /\ First(w) = Second(u)
    BY <1>3, <2>1
  <2>4. First(w) = 0 BY <2>3, Parity
  <2> QED BY <2>2, <2>3, <2>4
<1>5. PICK t \in Threads : pc[t] # "none" BY DEF Seated
<1>6. chopsticks[First(t)] = 0
  BY <1>1, <1>4, <1>5 DEF Seated, Blocked
<1>7. PICK u \in Threads : First(t) \in Hands(u)
  BY <1>6, TwoChopsticks DEF IInv, Counts, Held
<1> QED BY <1>2, <1>4, <1>7

(* No circle of waiting philosophers, at a table of any size. *)
THEOREM DeadlockFree == Spec => []NoCircularWait
<1>1. IInv => NoCircularWait
  BY SomebodyUnblocked DEF NoCircularWait
<1> QED BY <1>1, Invariance, PTL
=============================================================================
