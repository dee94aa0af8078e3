--------------------------- MODULE ProgramsProofs ---------------------------
(***************************************************************************)
(* The safety of the small programs, for any number of processes, records, *)
(* items and runs, and of the five programs of SignalBuffer, for any       *)
(* number of threads and every minimum and maximum, a minimum above the    *)
(* maximum included.                                                       *)
(***************************************************************************)
EXTENDS SignalBuffer, Programs, Sequences, FiniteSetTheorems, TLAPS

-----------------------------------------------------------------------------
(* How many elements of K a function maps into L, and how that changes with
   one of its values. *)
CountOf(f, K, L) == Cardinality({k \in K : f[k] \in L})
One(x, K, l, L) == IF x \in K /\ l \in L THEN 1 ELSE 0

(* One value changes: the count loses the old place and gains the new one. *)
LEMMA CountAfterMove ==
  ASSUME NEW f, NEW g, NEW t, NEW to, NEW K, NEW L, IsFiniteSet(K),
         \A k \in K : g[k] = IF k = t THEN to ELSE f[k]
  PROVE  /\ CountOf(f, K, L) \in Nat /\ CountOf(g, K, L) \in Nat
         /\ CountOf(g, K, L) = CountOf(f, K, L)
              + One(t, K, to, L) - One(t, K, f[t], L)
<1> DEFINE Before == {k \in K : f[k] \in L}
           After  == {k \in K : g[k] \in L}
<1>1. IsFiniteSet(Before) /\ IsFiniteSet(After)
  BY FS_Subset
<1>2. Cardinality(Before) \in Nat /\ Cardinality(After) \in Nat
  BY <1>1, FS_CardinalityType
<1>3. /\ t \in K /\ to \in L => After = Before \cup {t}
      /\ t \in K /\ to \notin L => After = Before \ {t}
      /\ t \notin K => After = Before
  OBVIOUS
<1>4. t \in K => (t \in Before <=> f[t] \in L)
  OBVIOUS
<1> HIDE DEF Before, After
<1>5. t \in K /\ to \in L => Cardinality(After) =
        IF t \in Before THEN Cardinality(Before) ELSE Cardinality(Before) + 1
  <2>1. Cardinality(Before \cup {t}) =
          IF t \in Before THEN Cardinality(Before) ELSE Cardinality(Before) + 1
    BY <1>1, FS_AddElement
  <2> QED BY <1>3, <2>1, Zenon
<1>6. t \in K /\ to \notin L => Cardinality(After) =
        IF t \in Before THEN Cardinality(Before) - 1 ELSE Cardinality(Before)
  BY <1>1, <1>3, FS_RemoveElement, Zenon
<1>7. t \notin K => Cardinality(After) = Cardinality(Before)
  BY <1>3, Zenon
<1>8. Cardinality(After) = Cardinality(Before)
        + One(t, K, to, L) - One(t, K, f[t], L)
  BY <1>2, <1>4, <1>5, <1>6, <1>7 DEF One
<1> QED BY <1>2, <1>8 DEF Before, After, CountOf
-----------------------------------------------------------------------------
(* What the proofs use of the programs: the bounds, that either all of their
   threads wait for conditions or none does, and when they signal. *)

EdgesSignalled ==
  producer.waits => /\ consumer.bound + 1 \in producer.signals
                    /\ producer.bound - 1 \in consumer.signals

ChangesSignalled ==
  \A n \in Nat : /\ n > consumer.bound => n \in producer.signals
                 /\ n < producer.bound => n \in consumer.signals

(* The record that describes each program. *)
LEMMA Described ==
  /\ program = "practice3b" =>
       /\ producer = Practice3bProducer /\ consumer = Practice3bConsumer
       /\ MainOf(program) = Practice3bMain
  /\ program = "exercise3b" =>
       /\ producer = Exercise3bProducer /\ consumer = Exercise3bConsumer
       /\ MainOf(program) = Exercise3bMain
  /\ program = "produconsu2" =>
       /\ producer = Produconsu2Producer /\ consumer = Produconsu2Consumer
       /\ MainOf(program) = Produconsu2Main
  /\ program \in {"produconsu", "producerconsumer1"} =>
       /\ producer = ProduconsuProducer /\ consumer = ProduconsuConsumer
       /\ MainOf(program) = ProduconsuMain
  BY Zenon DEF producer, consumer, MainOf, Producerconsumer1Producer,
               Producerconsumer1Consumer, Producerconsumer1Main

(* The bounds and the signals of every program, in the terms of the proofs. *)
LEMMA ProgramFacts ==
  ASSUME program \in Programs
  PROVE  /\ producer.bound \in Nat \ {0} /\ consumer.bound \in Nat
         /\ consumer.waits <=> producer.waits
         /\ EdgesSignalled
         /\ program \in {"practice3b", "produconsu2"} => ChangesSignalled
         /\ MainOf(program).first \in 0 .. producer.bound
<1> USE SignalBufferAssumption
    DEF EdgesSignalled, ChangesSignalled, MAX_SIZE, MAX_BUFFER_SIZE
<1>1. CASE program = "practice3b"
  <2>1. /\ producer = Practice3bProducer /\ consumer = Practice3bConsumer
        /\ MainOf(program) = Practice3bMain
    BY <1>1, Described, Zenon
  <2>2. /\ producer.bound = max_units /\ consumer.bound = min_units
        /\ producer.waits /\ consumer.waits
        /\ producer.signals = {n \in Nat : n > min_units}
        /\ consumer.signals = {n \in Nat : n < max_units}
        /\ MainOf(program).first = 0
    BY <2>1 DEF Practice3bProducer, Practice3bConsumer, Practice3bMain
  <2> QED BY <1>1, <2>2
<1>2. CASE program = "exercise3b"
  <2>1. /\ producer = Exercise3bProducer /\ consumer = Exercise3bConsumer
        /\ MainOf(program) = Exercise3bMain
    BY <1>2, Described, Zenon
  <2>2. /\ producer.bound = MAX_SIZE /\ consumer.bound = 0
        /\ producer.waits /\ consumer.waits
        /\ producer.signals = {1}
        /\ consumer.signals = {MAX_SIZE - 1}
        /\ MainOf(program).first = 5
    BY <2>1 DEF Exercise3bProducer, Exercise3bConsumer, Exercise3bMain
  <2> QED BY <1>2, <2>2
<1>3. CASE program = "produconsu2"
  <2>1. /\ producer = Produconsu2Producer /\ consumer = Produconsu2Consumer
        /\ MainOf(program) = Produconsu2Main
    BY <1>3, Described, Zenon
  <2>2. /\ producer.bound = MAX_BUFFER_SIZE /\ consumer.bound = 0
        /\ producer.waits /\ consumer.waits
        /\ producer.signals = Nat
        /\ consumer.signals = Nat
        /\ MainOf(program).first = 0
    BY <2>1 DEF Produconsu2Producer, Produconsu2Consumer, Produconsu2Main
  <2> QED BY <1>3, <2>2
<1>4. CASE program \in {"produconsu", "producerconsumer1"}
  <2>1. /\ producer = ProduconsuProducer /\ consumer = ProduconsuConsumer
        /\ MainOf(program) = ProduconsuMain
    BY <1>4, Described, Zenon
  <2>2. /\ producer.bound = MAX_BUFFER_SIZE /\ consumer.bound = 0
        /\ ~producer.waits /\ ~consumer.waits
        /\ producer.signals = {}
        /\ consumer.signals = {}
        /\ MainOf(program).first = 0
    BY <2>1 DEF ProduconsuProducer, ProduconsuConsumer, ProduconsuMain
  <2> QED BY <1>4, <2>2
<1> QED BY <1>1, <1>2, <1>3, <1>4 DEF Programs

(* main creates threads of both kinds. *)
LEMMA BothKinds ==
  ASSUME program \in Programs
  PROVE  /\ MainOf(program).threads \subseteq Thread
         /\ Producers \cap MainOf(program).threads # {}
         /\ Consumers \cap MainOf(program).threads # {}
<1>1. /\ (CHOOSE p \in Producers : TRUE) \in Producers
      /\ (CHOOSE c \in Consumers : TRUE) \in Consumers
  BY SignalBufferAssumption
<1>2. MainOf(program).threads \in {Thread, TwoThreads}
  BY Described DEF Programs, Practice3bMain, Exercise3bMain, Produconsu2Main,
                   ProduconsuMain
<1>3. CASE MainOf(program).threads = Thread
  BY <1>3, SignalBufferAssumption DEF Thread
<1>4. CASE MainOf(program).threads = TwoThreads
  BY <1>1, <1>4 DEF Thread, TwoThreads
<1> QED BY <1>2, <1>3, <1>4

(* No step changes the program, so its description stays. *)
LEMMA SameProgram ==
  ASSUME program' = program
  PROVE  /\ producer' = producer /\ consumer' = consumer
         /\ MainOf(program)' = MainOf(program)
  BY DEF producer, consumer, MainOf
-----------------------------------------------------------------------------
(* The mutual exclusion and the bounds, together with where a thread cannot
   be: a thread that main does not create is nowhere, and nobody waits in
   the programs that only try again. *)

OnlyCreated == \A t \in Thread \ MainOf(program).threads : thread[t] = "none"
WaitsIfItMay == \A t \in Thread : thread[t] = "waiting" => producer.waits

Base == TypeOK /\ LooksUnderMutex /\ InBounds /\ OnlyCreated /\ WaitsIfItMay

(* main starts with a count in bounds and nobody created. *)
LEMMA BaseInit == Init => Base
<1> SUFFICES ASSUME Init PROVE Base OBVIOUS
<1>1. count \in 0 .. producer.bound /\ count \in Nat
  <2>1. /\ producer.bound \in Nat
        /\ MainOf(program).first \in 0 .. producer.bound
    BY ProgramFacts DEF Init
  <2> QED BY <2>1 DEF Init
<1>2. TypeOK /\ LooksUnderMutex /\ InBounds
  BY <1>1, SignalBufferAssumption DEF Init, TypeOK, LooksUnderMutex, InBounds, Thread
<1>3. OnlyCreated /\ WaitsIfItMay
  BY DEF Init, OnlyCreated, WaitsIfItMay
<1> QED BY <1>2, <1>3 DEF Base

(* main's steps. *)
LEMMA BaseMain ==
  ASSUME Base, (\E t \in Thread : Create(t)) \/ CreateFails \/ UNCHANGED vars
  PROVE  Base'
<1>1. program' = program BY DEF Create, CreateFails, vars
<1> USE <1>1, SameProgram, ProgramFacts
    DEF Base, TypeOK, LooksUnderMutex, InBounds, OnlyCreated, WaitsIfItMay
<1>2. ASSUME NEW t \in Thread, Create(t) PROVE Base'
  BY <1>2 DEF Create, NextToCreate
<1>3. CASE CreateFails BY <1>3 DEF CreateFails
<1>4. CASE UNCHANGED vars BY <1>4 DEF vars
<1> QED BY <1>2, <1>3, <1>4

(* The steps of a thread on the mutex and the conditions.  A wake-up gives
   no thread the mutex. *)
LEMMA BaseSync ==
  ASSUME Base, NEW t \in Thread, NEW others \in {Producers, Consumers},
         \/ Lock(t) \/ SpuriousWake(t) \/ Unlock(t) \/ Signal(t, others)
         \/ CondWait(t, producer) \/ TryLater(t, producer)
         \/ CondWait(t, consumer) \/ TryLater(t, consumer)
  PROVE  Base'
<1>1. program' = program
  BY DEF Lock, SpuriousWake, Unlock, Signal, CondWait, TryLater, Move
<1> USE <1>1, SameProgram, ProgramFacts, SignalBufferAssumption
    DEF Base, TypeOK, LooksUnderMutex, InBounds, OnlyCreated, WaitsIfItMay, Move, Thread
<1>2. CASE Lock(t)
  <2>1. CASE Move(t, "lock", "test")  BY <1>2, <2>1 DEF Lock
  <2>2. CASE Move(t, "woken", "test") BY <1>2, <2>2 DEF Lock
  <2> QED BY <1>2, <2>1, <2>2 DEF Lock
<1>3. CASE SpuriousWake(t) BY <1>3 DEF SpuriousWake
<1>4. CASE Unlock(t)       BY <1>4 DEF Unlock
<1>5. CASE Signal(t, others)
  BY <1>5 DEF Signal, Asleep
<1>6. CASE CondWait(t, producer) BY <1>6 DEF CondWait
<1>7. CASE TryLater(t, producer) BY <1>7 DEF TryLater
<1>8. CASE CondWait(t, consumer) BY <1>8 DEF CondWait
<1>9. CASE TryLater(t, consumer) BY <1>9 DEF TryLater
<1> QED BY <1>2, <1>3, <1>4, <1>5, <1>6, <1>7, <1>8, <1>9

(* The count moves by one, away from the bound that was tested. *)
LEMMA BaseCount ==
  ASSUME Base, NEW t \in Thread, Increase(t) \/ Decrease(t)
  PROVE  Base'
<1>1. program' = program BY DEF Increase, Decrease, Change, Move
<1> USE <1>1, SameProgram, ProgramFacts, SignalBufferAssumption
    DEF Base, TypeOK, LooksUnderMutex, InBounds, OnlyCreated, WaitsIfItMay, Move, Change
<1>2. CASE Increase(t) BY <1>2 DEF Increase, HasSpace
<1>3. CASE Decrease(t) BY <1>3 DEF Decrease, HasUnit
<1> QED BY <1>2, <1>3

(* Every step keeps Base. *)
LEMMA BaseStep == Base /\ [Next]_vars => Base'
<1> SUFFICES ASSUME Base, [Next]_vars PROVE Base' OBVIOUS
<1>1. ASSUME NEW t \in Producers, ProducerMoves(t) PROVE Base'
  BY <1>1, BaseSync, BaseCount DEF ProducerMoves, Thread
<1>2. ASSUME NEW t \in Consumers, ConsumerMoves(t) PROVE Base'
  BY <1>2, BaseSync, BaseCount DEF ConsumerMoves, Thread
<1>3. ASSUME NEW t \in Thread, SpuriousWake(t) PROVE Base'
  BY <1>3, BaseSync
<1> QED BY <1>1, <1>2, <1>3, BaseMain DEF Next
-----------------------------------------------------------------------------
(* The threads of kind K that sleep are matched by the n units (or places)
   that they could take: Awake counts the threads that will deal with one. *)

Tests == {"woken", "test"}
Awake(K, O) == Cardinality(AboutToTest(K)) + Cardinality(AboutToSignal(O))
Enough(K, O, n) == Asleep(K) # {} => n <= Awake(K, O)

(* The sets that are counted are finite. *)
LEMMA FiniteKinds ==
  ASSUME NEW K \in {Producers, Consumers}
  PROVE  /\ K \in SUBSET Thread /\ IsFiniteSet(K)
         /\ Cardinality(AboutToTest(K)) \in Nat
         /\ Cardinality(AboutToSignal(K)) \in Nat
<1>1. K \in SUBSET Thread /\ IsFiniteSet(K)
  BY SignalBufferAssumption DEF Thread
<1>2. IsFiniteSet(AboutToTest(K)) /\ IsFiniteSet(AboutToSignal(K))
  BY <1>1, FS_Subset DEF AboutToTest, AboutToSignal
<1> QED BY <1>1, <1>2, FS_CardinalityType

(* Awake in terms of CountOf, before and after a step. *)
LEMMA AwakeCounts ==
  ASSUME NEW K \in {Producers, Consumers}, NEW O \in {Producers, Consumers}
  PROVE  /\ Awake(K, O) = CountOf(thread, K, Tests) + CountOf(thread, O, {"signal"})
         /\ Awake(K, O)' = CountOf(thread', K, Tests) + CountOf(thread', O, {"signal"})
         /\ Awake(K, O) \in Nat /\ Awake(K, O)' \in Nat
<1>1. /\ Cardinality(AboutToTest(K)) = CountOf(thread, K, Tests)
      /\ Cardinality(AboutToTest(K)') = CountOf(thread', K, Tests)
  BY Zenon DEF CountOf, AboutToTest, Tests
<1>2. /\ Cardinality(AboutToSignal(O)) = CountOf(thread, O, {"signal"})
      /\ Cardinality(AboutToSignal(O)') = CountOf(thread', O, {"signal"})
  <2>1. /\ AboutToSignal(O) = {u \in O : thread[u] \in {"signal"}}
        /\ AboutToSignal(O)' = {u \in O : thread'[u] \in {"signal"}}
    BY DEF AboutToSignal
  <2> QED BY <2>1, Zenon DEF CountOf
<1>3. /\ Cardinality(AboutToTest(K)) \in Nat /\ Cardinality(AboutToSignal(O)) \in Nat
      /\ Cardinality(AboutToTest(K)') \in Nat /\ Cardinality(AboutToSignal(O)') \in Nat
  <2>1. /\ IsFiniteSet(AboutToTest(K)') /\ IsFiniteSet(AboutToSignal(O)')
    BY FiniteKinds, FS_Subset DEF AboutToTest, AboutToSignal
  <2> QED BY FiniteKinds, <2>1, FS_CardinalityType
<1> QED BY <1>1, <1>2, <1>3 DEF Awake

(* What a step that moves one thread does to Awake. *)
LEMMA AwakeMoves ==
  ASSUME NEW t \in Thread, NEW to,
         \A u \in Thread : thread'[u] = IF u = t THEN to ELSE thread[u],
         NEW K \in {Producers, Consumers}, NEW O \in {Producers, Consumers}
  PROVE  /\ Awake(K, O) \in Nat /\ Awake(K, O)' \in Nat
         /\ Awake(K, O)' = Awake(K, O)
              + One(t, K, to, Tests) - One(t, K, thread[t], Tests)
              + One(t, O, to, {"signal"}) - One(t, O, thread[t], {"signal"})
<1>1. /\ IsFiniteSet(K) /\ IsFiniteSet(O)
      /\ \A k \in K : thread'[k] = IF k = t THEN to ELSE thread[k]
      /\ \A k \in O : thread'[k] = IF k = t THEN to ELSE thread[k]
  BY FiniteKinds
<1>2. \A L : /\ CountOf(thread, K, L) \in Nat /\ CountOf(thread', K, L) \in Nat
             /\ CountOf(thread', K, L) = CountOf(thread, K, L)
                  + One(t, K, to, L) - One(t, K, thread[t], L)
  BY <1>1, CountAfterMove, SMT
<1>3. \A L : /\ CountOf(thread, O, L) \in Nat /\ CountOf(thread', O, L) \in Nat
             /\ CountOf(thread', O, L) = CountOf(thread, O, L)
                  + One(t, O, to, L) - One(t, O, thread[t], L)
  BY <1>1, CountAfterMove, SMT
<1> QED BY <1>2, <1>3, AwakeCounts DEF One

(* A signal of a thread of O that wakes a sleeper of K is traded for a thread
   that will test, and matters to nobody else. *)
LEMMA AwakeSignals ==
  ASSUME NEW K \in {Producers, Consumers}, NEW O \in {Producers, Consumers},
         K # O, NEW t \in O, NEW s \in K,
         thread[t] = "signal", thread[s] = "waiting",
         \A u \in Thread : thread'[u] = IF u = s THEN "woken"
                                        ELSE IF u = t THEN "unlock" ELSE thread[u]
  PROVE  Awake(K, O)' = Awake(K, O) /\ Awake(O, K)' = Awake(O, K)
<1> DEFINE h == [u \in Thread |-> IF u = t THEN "unlock" ELSE thread[u]]
<1>1. s # t /\ s \notin O /\ t \notin K /\ s \in Thread /\ t \in Thread
  BY SignalBufferAssumption DEF Thread
<1>2. h[s] = "waiting"
  BY <1>1
<1>3. \A S \in {K, O} : /\ IsFiniteSet(S)
                        /\ \A u \in S : h[u] = IF u = t THEN "unlock" ELSE thread[u]
                        /\ \A u \in S : thread'[u] = IF u = s THEN "woken" ELSE h[u]
  BY FiniteKinds
<1> HIDE DEF h
<1>4. \A S \in {K, O} : \A L :
        /\ CountOf(thread, S, L) \in Nat /\ CountOf(h, S, L) \in Nat
        /\ CountOf(thread', S, L) \in Nat
        /\ CountOf(h, S, L) = CountOf(thread, S, L)
             + One(t, S, "unlock", L) - One(t, S, "signal", L)
        /\ CountOf(thread', S, L) = CountOf(h, S, L)
             + One(s, S, "woken", L) - One(s, S, "waiting", L)
  BY <1>2, <1>3, CountAfterMove, SMT
<1>5. /\ CountOf(thread', K, Tests) = CountOf(thread, K, Tests) + 1
      /\ CountOf(thread', O, Tests) = CountOf(thread, O, Tests)
      /\ CountOf(thread', O, {"signal"}) = CountOf(thread, O, {"signal"}) - 1
      /\ CountOf(thread', K, {"signal"}) = CountOf(thread, K, {"signal"})
  BY <1>1, <1>4 DEF One, Tests
<1> QED BY <1>4, <1>5, AwakeCounts

(* Enough stays true in a step that moves thread t and turns n into m, if m
   is not more than before by more than Awake is, or is no unit at all. *)
LEMMA EnoughMoves ==
  ASSUME NEW t \in Thread, NEW to,
         \A u \in Thread : thread'[u] = IF u = t THEN to ELSE thread[u],
         NEW K \in {Producers, Consumers}, NEW O \in {Producers, Consumers},
         NEW n \in Int, NEW m \in Int, Enough(K, O, n),
         \/ m <= 0
         \/ /\ t \in K => to # "waiting"
            /\ m - n <= One(t, K, to, Tests) - One(t, K, thread[t], Tests)
                        + One(t, O, to, {"signal"}) - One(t, O, thread[t], {"signal"})
  PROVE  Asleep(K)' # {} => m <= Awake(K, O)'
<1>1. Awake(K, O) \in Nat /\ Awake(K, O)' \in Nat
  BY AwakeCounts
<1>2. CASE m <= 0
  BY <1>1, <1>2
<1>3. CASE /\ t \in K => to # "waiting"
           /\ m - n <= One(t, K, to, Tests) - One(t, K, thread[t], Tests)
                       + One(t, O, to, {"signal"}) - One(t, O, thread[t], {"signal"})
  <2>1. Asleep(K)' # {} => Asleep(K) # {}
    BY <1>3, FiniteKinds DEF Asleep
  <2>2. Awake(K, O)' = Awake(K, O)
          + One(t, K, to, Tests) - One(t, K, thread[t], Tests)
          + One(t, O, to, {"signal"}) - One(t, O, thread[t], {"signal"})
    BY AwakeMoves
  <2> QED BY <1>1, <1>3, <2>1, <2>2 DEF Enough, One
<1> QED BY <1>2, <1>3
-----------------------------------------------------------------------------
(* SleepersMatchUnits is inductive beside Base, in programs that signal every
   change that matters. *)
Room   == producer.bound - count
Supply == count - consumer.bound

Matched == Enough(Consumers, Producers, Supply) /\ Enough(Producers, Consumers, Room)

(* Matched is the property of the two programs it is about. *)
LEMMA MatchedIsSleepers ==
  SleepersMatchUnits <=> (program \in {"practice3b", "produconsu2"} => Matched)
  BY DEF SleepersMatchUnits, Matched, Enough, Awake, Room, Supply

(* What the steps of one thread need to show. *)
LEMMA MatchedMoves ==
  ASSUME Base, Matched, NEW t \in Thread, NEW to, count' \in Nat, program' = program,
         \A u \in Thread : thread'[u] = IF u = t THEN to ELSE thread[u],
         \/ Supply' <= 0
         \/ /\ t \in Consumers => to # "waiting"
            /\ Supply' - Supply <=
                 One(t, Consumers, to, Tests) - One(t, Consumers, thread[t], Tests)
                 + One(t, Producers, to, {"signal"}) - One(t, Producers, thread[t], {"signal"}),
         \/ Room' <= 0
         \/ /\ t \in Producers => to # "waiting"
            /\ Room' - Room <=
                 One(t, Producers, to, Tests) - One(t, Producers, thread[t], Tests)
                 + One(t, Consumers, to, {"signal"}) - One(t, Consumers, thread[t], {"signal"})
  PROVE  Matched'
<1>1. Supply \in Int /\ Supply' \in Int /\ Room \in Int /\ Room' \in Int
  BY ProgramFacts, SameProgram DEF Base, TypeOK, Supply, Room
<1>2. Asleep(Consumers)' # {} => Supply' <= Awake(Consumers, Producers)'
  BY <1>1, EnoughMoves DEF Matched
<1>3. Asleep(Producers)' # {} => Room' <= Awake(Producers, Consumers)'
  BY <1>1, EnoughMoves DEF Matched
<1> QED BY <1>2, <1>3 DEF Matched, Enough

(* A move, one thread at a time. *)
LEMMA MoveIsPointwise ==
  ASSUME TypeOK, NEW t \in Thread, NEW from, NEW to, Move(t, from, to)
  PROVE  /\ thread[t] = from /\ program' = program
         /\ \A u \in Thread : thread'[u] = IF u = t THEN to ELSE thread[u]
  BY DEF TypeOK, Move

(* Steps that leave the count alone: nobody falls asleep or stops to test. *)
LEMMA MatchedQuiet ==
  ASSUME Base, Matched, NEW t \in Thread, NEW from, NEW to,
         thread[t] = from, program' = program, count' = count,
         \A u \in Thread : thread'[u] = IF u = t THEN to ELSE thread[u],
         to # "waiting", from # "signal", from \in Tests => to \in Tests
  PROVE  Matched'
<1>1. Supply' = Supply /\ Room' = Room /\ count' \in Nat /\ Supply \in Int /\ Room \in Int
  BY ProgramFacts, SameProgram DEF Base, TypeOK, Supply, Room
<1>2. /\ Supply' - Supply <=
           One(t, Consumers, to, Tests) - One(t, Consumers, thread[t], Tests)
           + One(t, Producers, to, {"signal"}) - One(t, Producers, thread[t], {"signal"})
      /\ Room' - Room <=
           One(t, Producers, to, Tests) - One(t, Producers, thread[t], Tests)
           + One(t, Consumers, to, {"signal"}) - One(t, Consumers, thread[t], {"signal"})
  BY <1>1 DEF One
<1> QED BY <1>1, <1>2, MatchedMoves

(* The steps that leave the count alone and put nobody to sleep. *)
LEMMA MatchedThread ==
  ASSUME Base, Matched, NEW t \in Thread,
         Create(t) \/ Lock(t) \/ Unlock(t) \/ SpuriousWake(t)
  PROVE  Matched'
<1> USE DEF Base, Tests
<1>1. CASE Create(t)
  <2>1. /\ thread[t] = "none" /\ program' = program /\ count' = count
        /\ \A u \in Thread : thread'[u] = IF u = t THEN "lock" ELSE thread[u]
    BY <1>1 DEF Create, NextToCreate, TypeOK
  <2> QED BY <2>1, MatchedQuiet
<1>2. CASE Lock(t)
  <2>1. count' = count BY <1>2 DEF Lock
  <2>2. CASE Move(t, "lock", "test")
    BY <2>1, <2>2, MoveIsPointwise, MatchedQuiet
  <2>3. CASE Move(t, "woken", "test")
    BY <2>1, <2>3, MoveIsPointwise, MatchedQuiet
  <2> QED BY <1>2, <2>2, <2>3 DEF Lock
<1>3. CASE Unlock(t)
  BY <1>3, MoveIsPointwise, MatchedQuiet DEF Unlock
<1>4. CASE SpuriousWake(t)
  BY <1>4, MoveIsPointwise, MatchedQuiet DEF SpuriousWake
<1> QED BY <1>1, <1>2, <1>3, <1>4

(* A thread falls asleep, or gives up, when there is nothing for its kind. *)
LEMMA MatchedBlocked ==
  ASSUME Base, Matched, NEW t,
         \/ t \in Producers /\ ~HasSpace /\ (CondWait(t, producer) \/ TryLater(t, producer))
         \/ t \in Consumers /\ ~HasUnit /\ (CondWait(t, consumer) \/ TryLater(t, consumer))
  PROVE  Matched'
<1>1. PICK to \in {"waiting", "unlock"} : Move(t, "test", to)
  BY DEF CondWait, TryLater
<1>2. t \in Thread /\ count' = count
  BY DEF CondWait, TryLater, Thread
<1>3. /\ thread[t] = "test" /\ program' = program
      /\ \A u \in Thread : thread'[u] = IF u = t THEN to ELSE thread[u]
  BY <1>1, <1>2, MoveIsPointwise DEF Base
<1>4. /\ Supply' = Supply /\ Room' = Room /\ count' \in Nat
      /\ Supply \in Int /\ Room \in Int
  BY <1>2, <1>3, ProgramFacts, SameProgram DEF Base, TypeOK, Supply, Room
<1>5. CASE t \in Producers /\ ~HasSpace
  <2>1. Room' <= 0 /\ t \notin Consumers
    BY <1>4, <1>5, ProgramFacts, SignalBufferAssumption
       DEF HasSpace, Room, Base, TypeOK
  <2>2. Supply' - Supply <=
          One(t, Consumers, to, Tests) - One(t, Consumers, thread[t], Tests)
          + One(t, Producers, to, {"signal"}) - One(t, Producers, thread[t], {"signal"})
    BY <1>1, <1>3, <1>4, <2>1 DEF One
  <2> QED BY <1>2, <1>3, <1>4, <2>1, <2>2, MatchedMoves
<1>6. CASE t \in Consumers /\ ~HasUnit
  <2>1. Supply' <= 0 /\ t \notin Producers
    BY <1>4, <1>6, ProgramFacts, SignalBufferAssumption
       DEF HasUnit, Supply, Base, TypeOK
  <2>2. Room' - Room <=
          One(t, Producers, to, Tests) - One(t, Producers, thread[t], Tests)
          + One(t, Consumers, to, {"signal"}) - One(t, Consumers, thread[t], {"signal"})
    BY <1>1, <1>3, <1>4, <2>1 DEF One
  <2> QED BY <1>2, <1>3, <1>4, <2>1, <2>2, MatchedMoves
<1> QED BY <1>5, <1>6

(* A unit more is a signal more for the consumers, or is below their minimum;
   a unit less is a consumer less that will test. *)
LEMMA MatchedIncrease ==
  ASSUME Base, Matched, ChangesSignalled, NEW t \in Producers, Increase(t)
  PROVE  Matched'
<1> DEFINE to == IF count + 1 \in producer.signals THEN "signal" ELSE "unlock"
<1>1. t \in Thread /\ t \notin Consumers /\ count' = count + 1 /\ Move(t, "test", to)
  BY SignalBufferAssumption DEF Thread, Increase, Change
<1>2. to \in {"signal", "unlock"} /\ (to = "unlock" => count + 1 \notin producer.signals)
  OBVIOUS
<1> HIDE DEF to
<1>3. /\ thread[t] = "test" /\ program' = program
      /\ \A u \in Thread : thread'[u] = IF u = t THEN to ELSE thread[u]
  BY <1>1, MoveIsPointwise DEF Base
<1>4. /\ Supply' = Supply + 1 /\ Room' = Room - 1 /\ count' \in Nat
      /\ Supply \in Int /\ Room \in Int
  BY <1>1, <1>3, ProgramFacts, SameProgram DEF Base, TypeOK, Supply, Room
<1>5. \/ Supply' <= 0
      \/ Supply' - Supply <=
           One(t, Consumers, to, Tests) - One(t, Consumers, thread[t], Tests)
           + One(t, Producers, to, {"signal"}) - One(t, Producers, thread[t], {"signal"})
  <2>1. CASE to = "signal" BY <1>1, <1>3, <1>4, <2>1 DEF One
  <2>2. CASE to = "unlock"
    <3>1. ~(count + 1 > consumer.bound)
      BY <1>2, <2>2 DEF ChangesSignalled, Base, TypeOK
    <3> QED BY <1>4, <3>1, ProgramFacts DEF Supply, Base, TypeOK
  <2> QED BY <1>2, <2>1, <2>2
<1>6. Room' - Room <=
        One(t, Producers, to, Tests) - One(t, Producers, thread[t], Tests)
        + One(t, Consumers, to, {"signal"}) - One(t, Consumers, thread[t], {"signal"})
  BY <1>1, <1>3, <1>4 DEF One, Tests
<1> QED BY <1>1, <1>2, <1>3, <1>4, <1>5, <1>6, MatchedMoves

(* The same for a unit less and the producers. *)
LEMMA MatchedDecrease ==
  ASSUME Base, Matched, ChangesSignalled, NEW t \in Consumers, Decrease(t)
  PROVE  Matched'
<1> DEFINE to == IF count - 1 \in consumer.signals THEN "signal" ELSE "unlock"
<1>1. t \in Thread /\ t \notin Producers /\ count' = count - 1 /\ Move(t, "test", to)
  BY SignalBufferAssumption DEF Thread, Decrease, Change
<1>2. to \in {"signal", "unlock"} /\ (to = "unlock" => count - 1 \notin consumer.signals)
  OBVIOUS
<1> HIDE DEF to
<1>3. /\ thread[t] = "test" /\ program' = program
      /\ \A u \in Thread : thread'[u] = IF u = t THEN to ELSE thread[u]
  BY <1>1, MoveIsPointwise DEF Base
<1>4. /\ Supply' = Supply - 1 /\ Room' = Room + 1 /\ count' \in Nat
      /\ Supply \in Int /\ Room \in Int
  BY <1>1, <1>3, ProgramFacts, SameProgram
     DEF Base, TypeOK, Supply, Room, Decrease, HasUnit
<1>5. \/ Room' <= 0
      \/ Room' - Room <=
           One(t, Producers, to, Tests) - One(t, Producers, thread[t], Tests)
           + One(t, Consumers, to, {"signal"}) - One(t, Consumers, thread[t], {"signal"})
  <2>1. CASE to = "signal" BY <1>1, <1>3, <1>4, <2>1 DEF One
  <2>2. CASE to = "unlock"
    <3>1. ~(count - 1 < producer.bound)
      BY <1>1, <1>2, <1>4, <2>2 DEF ChangesSignalled
    <3> QED BY <1>4, <3>1, ProgramFacts DEF Room, Base, TypeOK
  <2> QED BY <1>2, <2>1, <2>2
<1>6. Supply' - Supply <=
        One(t, Consumers, to, Tests) - One(t, Consumers, thread[t], Tests)
        + One(t, Producers, to, {"signal"}) - One(t, Producers, thread[t], {"signal"})
  BY <1>1, <1>3, <1>4 DEF One, Tests
<1> QED BY <1>1, <1>2, <1>3, <1>4, <1>5, <1>6, MatchedMoves

(* pthread_cond_signal finds nobody asleep or wakes one of the other kind. *)
LEMMA MatchedSignal ==
  ASSUME Base, Matched, NEW K \in {Producers, Consumers}, NEW O \in {Producers, Consumers},
         K # O, NEW t \in O, Signal(t, K)
  PROVE  Matched'
<1>1. t \in Thread /\ t \notin K /\ thread[t] = "signal" /\ count' = count /\ program' = program
  BY SignalBufferAssumption DEF Thread, Signal
<1>2. /\ Supply' = Supply /\ Room' = Room /\ Supply \in Int /\ Room \in Int
  BY <1>1, ProgramFacts, SameProgram DEF Base, TypeOK, Supply, Room
<1>3. CASE Asleep(K) = {}
  <2>1. \A u \in Thread : thread'[u] = IF u = t THEN "unlock" ELSE thread[u]
    BY <1>1, <1>3 DEF Signal, Base, TypeOK
  <2>2. Asleep(K)' = {} /\ (Asleep(O)' # {} => Asleep(O) # {})
    BY <1>1, <1>3, <2>1, FiniteKinds DEF Asleep
  <2>3. Awake(O, K)' = Awake(O, K) /\ Awake(O, K) \in Nat
    BY <1>1, <2>1, AwakeMoves DEF One, Tests
  <2> QED BY <1>2, <2>2, <2>3 DEF Matched, Enough
<1>4. CASE Asleep(K) # {}
  <2>1. PICK s \in Asleep(K) : thread' = [thread EXCEPT ![t] = "unlock", ![s] = "woken"]
    BY <1>4 DEF Signal
  <2>2. s \in K /\ s \in Thread /\ thread[s] = "waiting"
    BY FiniteKinds DEF Asleep
  <2>3. \A u \in Thread : thread'[u] = IF u = s THEN "woken"
                                       ELSE IF u = t THEN "unlock" ELSE thread[u]
    BY <1>1, <2>1, <2>2 DEF Base, TypeOK
  <2>4. Awake(K, O)' = Awake(K, O) /\ Awake(O, K)' = Awake(O, K)
    BY <1>1, <2>2, <2>3, AwakeSignals
  <2>5. (Asleep(K)' # {} => Asleep(K) # {}) /\ (Asleep(O)' # {} => Asleep(O) # {})
    BY <1>4, <2>3, FiniteKinds DEF Asleep
  <2> QED BY <1>2, <2>4, <2>5 DEF Matched, Enough
<1> QED BY <1>3, <1>4

(* Every step keeps Matched. *)
LEMMA MatchedStep ==
  ASSUME Base, Matched, ChangesSignalled, [Next]_vars
  PROVE  Matched'
<1>1. ASSUME NEW t \in Thread, Create(t) \/ SpuriousWake(t) PROVE Matched'
  BY <1>1, MatchedThread
<1>2. CASE CreateFails \/ UNCHANGED vars
  <2>1. program' = program /\ count' = count /\ thread' = thread
    BY <1>2 DEF CreateFails, vars
  <2> QED BY <2>1, SameProgram
          DEF Matched, Enough, Asleep, Awake, AboutToTest, AboutToSignal, Supply, Room
<1>3. ASSUME NEW t \in Producers, ProducerMoves(t) PROVE Matched'
  <2>1. Producers # Consumers /\ t \in Thread BY SignalBufferAssumption DEF Thread
  <2> QED BY <1>3, <2>1, MatchedThread, MatchedBlocked, MatchedIncrease, MatchedSignal
          DEF ProducerMoves
<1>4. ASSUME NEW t \in Consumers, ConsumerMoves(t) PROVE Matched'
  <2>1. Producers # Consumers /\ t \in Thread BY SignalBufferAssumption DEF Thread
  <2> QED BY <1>4, <2>1, MatchedThread, MatchedBlocked, MatchedDecrease, MatchedSignal
          DEF ConsumerMoves
<1> QED BY <1>1, <1>2, <1>3, <1>4 DEF Next
-----------------------------------------------------------------------------
(* The first two parts of NotAllAsleep are inductive beside Base: it is
   enough that the edges are signalled. *)
ConsumerAwake ==
  Consumers \cap MainOf(program).threads \subseteq Asleep(Consumers)
    => ~HasUnit \/ AboutToSignal(Producers) # {}
ProducerAwake ==
  Producers \cap MainOf(program).threads \subseteq Asleep(Producers)
    => ~HasSpace \/ AboutToSignal(Consumers) # {}
SomeAwake == ConsumerAwake /\ ProducerAwake

(* The third part follows: all asleep, nobody is about to signal, so there is
   neither a unit nor a place. *)
LEMMA AwakeImplies == ASSUME Base, SomeAwake
                      PROVE  NotAllAsleep
<1>1. SUFFICES ASSUME MainOf(program).threads = Asleep(Thread)
               PROVE  consumer.bound >= producer.bound
  BY DEF SomeAwake, ConsumerAwake, ProducerAwake, NotAllAsleep
<1>2. /\ Consumers \cap MainOf(program).threads \subseteq Asleep(Consumers)
      /\ Producers \cap MainOf(program).threads \subseteq Asleep(Producers)
  BY <1>1 DEF Asleep
<1>3. AboutToSignal(Producers) = {} /\ AboutToSignal(Consumers) = {}
  BY <1>1 DEF AboutToSignal, Asleep, Base, OnlyCreated, Thread
<1>4. ~HasUnit /\ ~HasSpace
  BY <1>2, <1>3 DEF SomeAwake, ConsumerAwake, ProducerAwake
<1> QED BY <1>4, ProgramFacts DEF HasUnit, HasSpace, Base, TypeOK

(* A thread that moves without a signal sent puts its kind to sleep only when
   there is nothing for it. *)
LEMMA AwakeQuiet ==
  ASSUME Base, SomeAwake, NEW t \in Thread, NEW to,
         program' = program, count' = count,
         \A u \in Thread : thread'[u] = IF u = t THEN to ELSE thread[u],
         thread[t] # "signal",
         \/ to # "waiting"
         \/ t \in Producers /\ ~HasSpace
         \/ t \in Consumers /\ ~HasUnit
  PROVE  SomeAwake'
<1>1. /\ HasUnit' = HasUnit /\ HasSpace' = HasSpace
      /\ MainOf(program)' = MainOf(program)
  BY SameProgram DEF HasUnit, HasSpace
<1>2. Producers \cap Consumers = {} /\ Producers \subseteq Thread /\ Consumers \subseteq Thread
  BY SignalBufferAssumption DEF Thread
<1>3. /\ AboutToSignal(Producers) # {} => AboutToSignal(Producers)' # {}
      /\ AboutToSignal(Consumers) # {} => AboutToSignal(Consumers)' # {}
  BY <1>2 DEF AboutToSignal
<1>4. ConsumerAwake'
  <2>1. CASE t \in Consumers /\ ~HasUnit BY <1>1, <2>1 DEF ConsumerAwake
  <2>2. CASE to # "waiting" \/ t \notin Consumers
    <3>1. Asleep(Consumers)' \subseteq Asleep(Consumers)
      BY <1>2, <2>2 DEF Asleep
    <3> QED BY <1>1, <1>3, <3>1 DEF ConsumerAwake, SomeAwake
  <2> QED BY <1>2, <2>1, <2>2
<1>5. ProducerAwake'
  <2>1. CASE t \in Producers /\ ~HasSpace BY <1>1, <2>1 DEF ProducerAwake
  <2>2. CASE to # "waiting" \/ t \notin Producers
    <3>1. Asleep(Producers)' \subseteq Asleep(Producers)
      BY <1>2, <2>2 DEF Asleep
    <3> QED BY <1>1, <1>3, <3>1 DEF ProducerAwake, SomeAwake
  <2> QED BY <1>2, <2>1, <2>2
<1> QED BY <1>4, <1>5 DEF SomeAwake

(* The holder of the mutex is the only thread past its test, so nobody else is
   about to signal while it changes the count: before, all of the other kind
   slept only because there was nothing for them, and this is the edge. *)
LEMMA AwakeIncrease ==
  ASSUME Base, SomeAwake, NEW t \in Producers, Increase(t)
  PROVE  SomeAwake'
<1>1. t \in Thread /\ t \notin Consumers
  BY SignalBufferAssumption DEF Thread
<1>2. /\ count' = count + 1 /\ program' = program /\ thread[t] = "test"
      /\ \A u \in Thread : thread'[u] =
           IF u = t THEN (IF count + 1 \in producer.signals THEN "signal" ELSE "unlock")
                    ELSE thread[u]
  BY <1>1 DEF Increase, Change, Move, Base, TypeOK
<1>3. /\ count \in Nat /\ producer.bound \in Nat /\ consumer.bound \in Nat
      /\ EdgesSignalled /\ MainOf(program)' = MainOf(program) /\ consumer' = consumer
  BY <1>2, ProgramFacts, SameProgram DEF Base, TypeOK
<1>4. ProducerAwake'
  <2>1. t \in MainOf(program).threads
    BY <1>1, <1>2 DEF Base, OnlyCreated
  <2>2. t \notin Asleep(Producers)'
    BY <1>1, <1>2 DEF Asleep
  <2> QED BY <1>3, <2>1, <2>2 DEF ProducerAwake
<1>5. ConsumerAwake'
  <2>1. SUFFICES ASSUME (Consumers \cap MainOf(program).threads \subseteq Asleep(Consumers))',
                        HasUnit'
                 PROVE  AboutToSignal(Producers)' # {}
    BY DEF ConsumerAwake
  <2>2. Consumers \cap MainOf(program).threads \subseteq Asleep(Consumers)
    BY <1>1, <1>2, <1>3, <2>1 DEF Asleep, Thread
  <2>3. AboutToSignal(Producers) = {}
    BY <1>1, <1>2 DEF AboutToSignal, Base, LooksUnderMutex, InBounds, Thread
  <2>4. ~(count > consumer.bound)
    BY <2>2, <2>3 DEF SomeAwake, ConsumerAwake, HasUnit
  <2>5. count + 1 = consumer.bound + 1
    BY <1>2, <1>3, <2>1, <2>4 DEF HasUnit
  <2>6. producer.waits
    <3>1. Asleep(Consumers) # {} BY <2>2, BothKinds DEF Base, TypeOK
    <3> QED BY <3>1 DEF Asleep, Base, WaitsIfItMay, Thread
  <2>7. count + 1 \in producer.signals
    BY <1>3, <2>5, <2>6 DEF EdgesSignalled
  <2>8. t \in AboutToSignal(Producers)'
    BY <1>1, <1>2, <2>7 DEF AboutToSignal
  <2> QED BY <2>8
<1> QED BY <1>4, <1>5 DEF SomeAwake

(* The same at the upper edge. *)
LEMMA AwakeDecrease ==
  ASSUME Base, SomeAwake, NEW t \in Consumers, Decrease(t)
  PROVE  SomeAwake'
<1>1. t \in Thread /\ t \notin Producers
  BY SignalBufferAssumption DEF Thread
<1>2. /\ count' = count - 1 /\ program' = program /\ thread[t] = "test"
      /\ \A u \in Thread : thread'[u] =
           IF u = t THEN (IF count - 1 \in consumer.signals THEN "signal" ELSE "unlock")
                    ELSE thread[u]
  BY <1>1 DEF Decrease, Change, Move, Base, TypeOK
<1>3. /\ count \in 0 .. producer.bound /\ producer.bound \in Nat /\ consumer.bound \in Nat
      /\ EdgesSignalled /\ MainOf(program)' = MainOf(program) /\ producer' = producer
  BY <1>2, ProgramFacts, SameProgram DEF Base, TypeOK, LooksUnderMutex, InBounds
<1>4. ConsumerAwake'
  <2>1. t \in MainOf(program).threads
    BY <1>1, <1>2 DEF Base, OnlyCreated
  <2>2. t \notin Asleep(Consumers)'
    BY <1>1, <1>2 DEF Asleep
  <2> QED BY <1>3, <2>1, <2>2 DEF ConsumerAwake
<1>5. ProducerAwake'
  <2>1. SUFFICES ASSUME (Producers \cap MainOf(program).threads \subseteq Asleep(Producers))',
                        HasSpace'
                 PROVE  AboutToSignal(Consumers)' # {}
    BY DEF ProducerAwake
  <2>2. Producers \cap MainOf(program).threads \subseteq Asleep(Producers)
    BY <1>1, <1>2, <1>3, <2>1 DEF Asleep, Thread
  <2>3. AboutToSignal(Consumers) = {}
    BY <1>1, <1>2 DEF AboutToSignal, Base, LooksUnderMutex, InBounds, Thread
  <2>4. ~(count < producer.bound)
    BY <2>2, <2>3 DEF SomeAwake, ProducerAwake, HasSpace
  <2>5. count - 1 = producer.bound - 1
    BY <1>3, <2>4
  <2>6. producer.waits
    <3>1. Asleep(Producers) # {} BY <2>2, BothKinds DEF Base, TypeOK
    <3> QED BY <3>1 DEF Asleep, Base, WaitsIfItMay, Thread
  <2>7. count - 1 \in consumer.signals
    BY <1>3, <2>5, <2>6 DEF EdgesSignalled
  <2>8. t \in AboutToSignal(Consumers)'
    BY <1>1, <1>2, <2>7 DEF AboutToSignal
  <2> QED BY <2>8
<1> QED BY <1>4, <1>5 DEF SomeAwake

(* A thread that signals is awake itself, and one of the others is after it. *)
LEMMA AwakeSignal ==
  ASSUME Base, SomeAwake,
         NEW K \in {Producers, Consumers}, NEW O \in {Producers, Consumers},
         K # O, NEW t \in O, Signal(t, K)
  PROVE  SomeAwake'
<1>1. /\ K \in SUBSET Thread /\ t \in Thread /\ t \notin K /\ thread[t] = "signal"
      /\ count' = count /\ program' = program
      /\ {K, O} = {Producers, Consumers}
  BY SignalBufferAssumption DEF Thread, Signal
<1>2. MainOf(program)' = MainOf(program) /\ K \cap MainOf(program).threads # {}
  BY <1>1, SameProgram, BothKinds DEF Base, TypeOK
<1>3. t \in O \cap MainOf(program).threads /\ t \notin Asleep(O)'
  BY <1>1 DEF Signal, Asleep, Base, TypeOK, OnlyCreated
<1>4. ~(K \cap MainOf(program).threads \subseteq Asleep(K)')
  <2>1. CASE Asleep(K) = {}
    <3>1. \A u \in K : thread'[u] = thread[u]
      BY <1>1, <2>1 DEF Signal, Base, TypeOK
    <3>2. Asleep(K)' = {} BY <2>1, <3>1 DEF Asleep
    <3> QED BY <1>2, <3>2
  <2>2. CASE Asleep(K) # {}
    <3>1. PICK s \in Asleep(K) : thread' = [thread EXCEPT ![t] = "unlock", ![s] = "woken"]
      BY <2>2 DEF Signal
    <3>2. s \in K /\ s \in Thread /\ thread[s] = "waiting" BY <1>1 DEF Asleep
    <3>3. s \in MainOf(program).threads BY <3>2 DEF Base, OnlyCreated
    <3>4. thread'[s] = "woken" BY <1>1, <3>1, <3>2 DEF Base, TypeOK
    <3> QED BY <3>2, <3>3, <3>4 DEF Asleep
  <2> QED BY <2>1, <2>2
<1>5. CASE K = Producers /\ O = Consumers
  BY <1>2, <1>3, <1>4, <1>5 DEF SomeAwake, ConsumerAwake, ProducerAwake
<1>6. CASE K = Consumers /\ O = Producers
  BY <1>2, <1>3, <1>4, <1>6 DEF SomeAwake, ConsumerAwake, ProducerAwake
<1> QED BY <1>1, <1>5, <1>6

(* Every step keeps SomeAwake. *)
LEMMA AwakeStep ==
  ASSUME Base, SomeAwake, [Next]_vars
  PROVE  SomeAwake'
<1> USE DEF Base
<1>1. ASSUME NEW t \in Thread, Create(t) PROVE SomeAwake'
  <2>1. /\ thread[t] = "none" /\ program' = program /\ count' = count
        /\ \A u \in Thread : thread'[u] = IF u = t THEN "lock" ELSE thread[u]
    BY <1>1 DEF Create, NextToCreate, TypeOK
  <2> QED BY <2>1, AwakeQuiet
<1>2. ASSUME NEW t \in Thread, Lock(t) PROVE SomeAwake'
  <2>1. count' = count BY <1>2 DEF Lock
  <2>2. CASE Move(t, "lock", "test")
    BY <2>1, <2>2, MoveIsPointwise, AwakeQuiet
  <2>3. CASE Move(t, "woken", "test")
    BY <2>1, <2>3, MoveIsPointwise, AwakeQuiet
  <2> QED BY <1>2, <2>2, <2>3 DEF Lock
<1>3. ASSUME NEW t \in Thread, Unlock(t) \/ SpuriousWake(t) PROVE SomeAwake'
  <2>1. CASE Unlock(t)
    BY <2>1, MoveIsPointwise, AwakeQuiet DEF Unlock
  <2>2. CASE SpuriousWake(t)
    BY <2>2, MoveIsPointwise, AwakeQuiet DEF SpuriousWake
  <2> QED BY <1>3, <2>1, <2>2
<1>4. ASSUME NEW t,
             \/ t \in Producers /\ ~HasSpace /\ (CondWait(t, producer) \/ TryLater(t, producer))
             \/ t \in Consumers /\ ~HasUnit /\ (CondWait(t, consumer) \/ TryLater(t, consumer))
      PROVE  SomeAwake'
  <2>1. PICK to \in {"waiting", "unlock"} : Move(t, "test", to)
    BY <1>4 DEF CondWait, TryLater
  <2>2. t \in Thread /\ count' = count
    BY <1>4 DEF CondWait, TryLater, Thread
  <2>3. /\ thread[t] = "test" /\ program' = program
        /\ \A u \in Thread : thread'[u] = IF u = t THEN to ELSE thread[u]
    BY <2>1, <2>2, MoveIsPointwise
  <2> QED BY <1>4, <2>2, <2>3, AwakeQuiet
<1>5. CASE CreateFails \/ UNCHANGED vars
  <2>1. program' = program /\ count' = count /\ thread' = thread
    BY <1>5 DEF CreateFails, vars
  <2> QED BY <2>1, SameProgram
          DEF SomeAwake, ConsumerAwake, ProducerAwake, Asleep, AboutToSignal,
              HasUnit, HasSpace
<1>6. ASSUME NEW t \in Producers, ProducerMoves(t) PROVE SomeAwake'
  <2>1. Producers # Consumers /\ t \in Thread BY SignalBufferAssumption DEF Thread
  <2> QED BY <1>2, <1>3, <1>4, <1>6, <2>1, AwakeIncrease, AwakeSignal DEF ProducerMoves
<1>7. ASSUME NEW t \in Consumers, ConsumerMoves(t) PROVE SomeAwake'
  <2>1. Producers # Consumers /\ t \in Thread BY SignalBufferAssumption DEF Thread
  <2> QED BY <1>2, <1>3, <1>4, <1>7, <2>1, AwakeDecrease, AwakeSignal DEF ConsumerMoves
<1> QED BY <1>1, <1>3, <1>5, <1>6, <1>7 DEF Next
-----------------------------------------------------------------------------
(* The whole invariant. *)
SignalIInv == Base /\ SleepersMatchUnits /\ SomeAwake

(* The invariant holds at first, is kept by every step, and so always holds. *)
LEMMA SignalInitIInv == Init => SignalIInv
<1> SUFFICES ASSUME Init PROVE SignalIInv OBVIOUS
<1>1. Base BY BaseInit
<1>2. Asleep(Producers) = {} /\ Asleep(Consumers) = {}
  BY DEF Init, Asleep, Thread
<1>3. SleepersMatchUnits BY <1>2 DEF SleepersMatchUnits
<1>4. SomeAwake
  BY <1>1, <1>2, BothKinds DEF SomeAwake, ConsumerAwake, ProducerAwake, Base, TypeOK
<1> QED BY <1>1, <1>3, <1>4 DEF SignalIInv

(* The program that runs never changes. *)
LEMMA StepKeepsProgram == [Next]_vars => program' = program
  BY DEF Next, vars, Create, CreateFails, ProducerMoves, ConsumerMoves, Lock,
         CondWait, TryLater, SpuriousWake, Change, Increase, Decrease, Signal,
         Unlock, Move

(* Every step keeps it. *)
LEMMA SignalStepIInv == SignalIInv /\ [Next]_vars => SignalIInv'
<1> SUFFICES ASSUME SignalIInv, [Next]_vars PROVE SignalIInv' OBVIOUS
<1>1. Base /\ SomeAwake /\ SleepersMatchUnits BY DEF SignalIInv
<1>2. Base' BY <1>1, BaseStep
<1>3. SomeAwake' BY <1>1, AwakeStep
<1>4. SleepersMatchUnits'
  <2>1. program' = program BY StepKeepsProgram
  <2>2. CASE program \in {"practice3b", "produconsu2"}
    <3>1. ChangesSignalled BY <1>1, <2>2, ProgramFacts DEF Base, TypeOK
    <3>2. Matched BY <1>1, <2>2, MatchedIsSleepers
    <3>3. Matched' BY <1>1, <3>1, <3>2, MatchedStep
    <3> QED BY <3>3, MatchedIsSleepers, PTL
  <2>3. CASE program \notin {"practice3b", "produconsu2"}
    BY <2>1, <2>3 DEF SleepersMatchUnits
  <2> QED BY <2>2, <2>3
<1> QED BY <1>2, <1>3, <1>4 DEF SignalIInv

(* It holds in every reachable state. *)
LEMMA SignalInvariance == Spec => []SignalIInv
  BY SignalInitIInv, SignalStepIInv, PTL DEF Spec

(* The state has its type in every reachable state: among others the count,
   which the program decreases without looking at its sign, is a natural. *)
THEOREM BufferTypes == Spec => []TypeOK
  BY SignalInvariance, PTL DEF SignalIInv, Base

(* A consumer takes a unit only above the minimum that it has tested under the
   mutex; nothing else lowers the count. *)
LEMMA KeepsMinimum == Base /\ [Next]_vars => [StaysAboveMinimum]_vars
<1> SUFFICES ASSUME Base, Next PROVE StaysAboveMinimum OBVIOUS
<1>1. count \in Nat /\ consumer.bound \in Nat
  BY ProgramFacts DEF Base, TypeOK
<1>2. ASSUME NEW t \in Consumers, Decrease(t) PROVE StaysAboveMinimum
  <2>1. program' = program /\ count' = count - 1 /\ count > consumer.bound
    BY <1>2 DEF Decrease, Change, Move, HasUnit
  <2> QED BY <1>1, <2>1, SameProgram DEF StaysAboveMinimum
<1>3. ASSUME NEW t \in Producers, Increase(t) PROVE StaysAboveMinimum
  <2>1. program' = program /\ count' = count + 1
    BY <1>3 DEF Increase, Change, Move
  <2> QED BY <1>1, <2>1, SameProgram DEF StaysAboveMinimum
<1>4. \/ \E t \in Consumers : Decrease(t)
      \/ \E t \in Producers : Increase(t)
      \/ program' = program /\ count' = count
  BY DEF Next, Create, CreateFails, ProducerMoves, ConsumerMoves, Lock, Signal,
         Unlock, CondWait, TryLater, SpuriousWake, Move
<1> QED BY <1>2, <1>3, <1>4, SameProgram DEF StaysAboveMinimum

(* Whoever looks at the count holds the mutex, the count neither falls below 0
   nor passes the maximum, and once it has reached the minimum it never falls
   below it, however many threads wake up together (requirements 4-7 of
   producerconsumer1.c, 10-11 of exercise3b.c and 12-13 of practice3b.c). *)
THEOREM MeetsRequirements == Spec => Requirements
<1>1. SignalIInv => Base BY DEF SignalIInv
<1>2. SignalIInv => LooksUnderMutex /\ InBounds BY <1>1 DEF Base
<1>3. SignalIInv /\ [Next]_vars => [StaysAboveMinimum]_vars BY <1>1, KeepsMinimum
<1> QED BY <1>2, <1>3, SignalInvariance, PTL DEF Spec, Requirements

(* No wake-up is lost where every change is signalled (practice3b.c 67-71 and
   113-117, produconsu2.c 43 and 84): each unit that sleeping consumers could
   take has a thread that will test the count or send a signal, and so has
   each free place that sleeping producers could fill. *)
THEOREM SleepersMatched == Spec => []SleepersMatchUnits
  BY SignalInvariance, PTL DEF SignalIInv

(* In all five programs, also in exercise3b.c, which signals only as the count
   leaves an edge (lines 62 and 122), the threads of a kind never all sleep
   while one could go on, and all threads sleep together only if the minimum
   is not below the maximum. *)
THEOREM SomebodyAwake == Spec => []NotAllAsleep
<1>1. SignalIInv => NotAllAsleep BY AwakeImplies DEF SignalIInv
<1> QED BY <1>1, SignalInvariance, PTL

(* No wake-up is lost, in any of the five programs, for any number of threads. *)
THEOREM NoWakeUpLost == Spec => []NoLostWakeUp
BY SleepersMatched, SomebodyAwake, PTL DEF NoLostWakeUp

-----------------------------------------------------------------------------
(* FileLock: who is past the lock holds it, and has written its pid. *)
LockHeld ==
  \A p \in LockPids :
    /\ atLock[p] \in {"truncate", "write", "sleep"} => holder = p
    /\ locking = "oneinstance" /\ atLock[p] = "sleep" => pidFile = p

LockIInv == Flock!LockTypeOK /\ LockHeld

(* It holds at first. *)
LEMMA LockInitIInv == Flock!LockInit => LockIInv
  BY DEF Flock!LockInit, LockIInv, Flock!LockTypeOK, LockHeld

(* Every step keeps it. *)
LEMMA LockStepIInv == LockIInv /\ [Flock!LockNext]_(Flock!lockVars) => LockIInv'
<1> SUFFICES ASSUME LockIInv, Flock!LockNext PROVE LockIInv'
  <2> CASE UNCHANGED Flock!lockVars
    BY DEF LockIInv, Flock!LockTypeOK, LockHeld, Flock!lockVars
  <2> QED OBVIOUS
<1> USE LockAssumption DEF LockIInv, Flock!LockTypeOK, LockHeld, Flock!LockStep
<1> PICK p \in LockPids :
      \/ Flock!Open(p) \/ Flock!lockRegion(p) \/ Flock!Truncate(p)
      \/ Flock!WritePid(p) \/ Flock!Flock(p) \/ Flock!Close(p)
  BY DEF Flock!LockNext
<1>1. CASE Flock!Open(p) BY <1>1 DEF Flock!Open
<1>2. CASE Flock!lockRegion(p) BY <1>2 DEF Flock!lockRegion
<1>3. CASE Flock!Truncate(p) BY <1>3 DEF Flock!Truncate
<1>4. CASE Flock!WritePid(p) BY <1>4 DEF Flock!WritePid
<1>5. CASE Flock!Flock(p) BY <1>5 DEF Flock!Flock
<1>6. CASE Flock!Close(p) BY <1>6 DEF Flock!Close
<1> QED BY <1>1, <1>2, <1>3, <1>4, <1>5, <1>6

(* One instance runs, and the pid file names it (oneinstance.c 2). *)
THEOREM OnlyOneInstance == Flock!LockSpec => []OneInstance
<1>1. LockIInv => OneInstance
  <2> SUFFICES ASSUME LockIInv PROVE OneInstance OBVIOUS
  <2> DEFINE past == {p \in LockPids : atLock[p] \in {"truncate", "write", "sleep"}}
  <2>1. past \subseteq {holder} BY DEF LockIInv, LockHeld
  <2>2. IsFiniteSet({holder}) /\ Cardinality({holder}) = 1 BY FS_Singleton
  <2>3. Cardinality(past) <= 1 BY <2>1, <2>2, FS_Subset
  <2>4. locking = "oneinstance" =>
          \A p \in LockPids : atLock[p] = "sleep" => pidFile = p
    BY DEF LockIInv, LockHeld
  <2>5. Flock!Cardinality(past) = Cardinality(past)
    BY DEF Flock!Cardinality, Cardinality
  <2>6. Flock!OneInstance BY <2>3, <2>4, <2>5 DEF Flock!OneInstance
  <2> QED BY <2>6 DEF OneInstance
<1> QED BY <1>1, LockInitIInv, LockStepIInv, PTL DEF Flock!LockSpec
-----------------------------------------------------------------------------
(* Tso: the timestamps of an item are the greatest of the operations that were
   accepted, those of the reads as long as none was accepted after a younger. *)
Greatest(stamp, S) == stamp \in S /\ \A t \in S : t <= stamp

Stamped ==
  /\ \A x \in Items : /\ Greatest(wts[x], writes[x])
                      /\ ~readBack => Greatest(rts[x], reads[x])
  /\ ~underWrite
  /\ underRead => readBack

Timestamps == Stamps \cup {0}

TsoTyped == /\ ts \in [1 .. 2 -> Stamps] /\ col \in 1 .. 2
            /\ rts \in [Items -> Timestamps] /\ wts \in [Items -> Timestamps]
            /\ reads \in [Items -> SUBSET Timestamps]
            /\ writes \in [Items -> SUBSET Timestamps]

TsoIInv == TsoTyped /\ Stamped

(* What Max returns. *)
LEMMA MaxIsGreatest ==
  ASSUME NEW S \in SUBSET Nat, NEW n \in S, Greatest(n, S)
  PROVE  Tso!Max(S) = n
<1>1. \A m \in S : (\A t \in S : m >= t) => m = n BY DEF Greatest
<1>2. \A t \in S : n >= t BY DEF Greatest
<1> QED BY <1>1, <1>2 DEF Tso!Max

(* It holds at first. *)
LEMMA TsoInitIInv == Tso!TsoInit => TsoIInv
<1> SUFFICES ASSUME Tso!TsoInit PROVE TsoIInv OBVIOUS
<1> USE TsoAssumption DEF Tso!TsoInit
<1>1. TsoTyped BY DEF TsoTyped, Timestamps
<1>2. Stamped BY DEF Stamped, Greatest
<1> QED BY <1>1, <1>2 DEF TsoIInv

(* Every step keeps it. *)
LEMMA TsoStepIInv == TsoIInv /\ [Tso!TsoNext]_(Tso!tsoVars) => TsoIInv'
<1> SUFFICES ASSUME TsoIInv, Tso!TsoNext PROVE TsoIInv'
  <2> CASE UNCHANGED Tso!tsoVars
    BY DEF TsoIInv, TsoTyped, Stamped, Tso!tsoVars, Tso!history
  <2> QED OBVIOUS
<1>1. Timestamps \subseteq Nat BY TsoAssumption DEF Timestamps
<1>2. Len(ts) = 2 BY DEF TsoIInv, TsoTyped
<1>3. Tso!NextColumn => col' \in 1 .. 2
  BY <1>2 DEF Tso!NextColumn, TsoIInv, TsoTyped
<1>4. \A x \in Items : Tso!Max(writes[x]) = wts[x]
  BY <1>1, MaxIsGreatest DEF TsoIInv, TsoTyped, Stamped, Greatest
<1>5. ~readBack => \A x \in Items : Tso!Max(reads[x]) = rts[x]
  BY <1>1, MaxIsGreatest DEF TsoIInv, TsoTyped, Stamped, Greatest
<1>6. /\ ts[col] \in Stamps /\ ts[col] \in Nat
      /\ \A x \in Items : wts[x] \in Nat /\ rts[x] \in Nat
  BY <1>1, TsoAssumption DEF TsoIInv, TsoTyped
<1>7. CASE Tso!Ignore
  BY <1>3, <1>7 DEF Tso!Ignore, Tso!history, TsoIInv, TsoTyped, Stamped
<1>8. ASSUME NEW x \in Items, Tso!AcceptRead(x) PROVE TsoIInv'
  <2>1. /\ ts[col] >= wts[x]
        /\ rts' = [rts EXCEPT ![x] = ts[col]]
        /\ reads' = [reads EXCEPT ![x] = @ \cup {ts[col]}]
        /\ underWrite' = (underWrite \/ Tso!Max(writes[x]) > ts[col])
        /\ readBack' = (readBack \/ Tso!Max(reads[x]) > ts[col])
        /\ UNCHANGED <<ts, wts, writes, underRead>>
        /\ col' \in 1 .. 2
    BY <1>3, <1>8 DEF Tso!AcceptRead
  <2>2. ~underWrite'
    <3>1. ~underWrite BY DEF TsoIInv, Stamped
    <3>2. ~(Tso!Max(writes[x]) > ts[col]) BY <1>4, <1>6, <2>1
    <3> QED BY <2>1, <3>1, <3>2
  <2>3. readBack => readBack' BY <2>1
  <2>4. ~readBack' => \A y \in Items : Greatest(rts'[y], reads'[y])
    <3> SUFFICES ASSUME ~readBack', NEW y \in Items PROVE Greatest(rts'[y], reads'[y])
      OBVIOUS
    <3>1. Greatest(rts[y], reads[y]) BY <2>3 DEF TsoIInv, Stamped
    <3>2. rts[x] <= ts[col]
      <4>1. ~(Tso!Max(reads[x]) > ts[col]) BY <2>1, Zenon
      <4>2. Tso!Max(reads[x]) = rts[x] BY <1>5, <2>3
      <4> QED BY <1>6, <4>1, <4>2
    <3>3. reads \in [Items -> SUBSET Nat] BY <1>1 DEF TsoIInv, TsoTyped
    <3>4. CASE y = x
      <4>1. rts'[y] = ts[col] /\ reads'[y] = reads[y] \cup {ts[col]}
        BY <2>1, <3>4 DEF TsoIInv, TsoTyped
      <4> QED BY <1>6, <3>1, <3>2, <3>3, <3>4, <4>1 DEF Greatest
    <3>5. CASE y # x BY <2>1, <3>1, <3>5 DEF TsoIInv, TsoTyped
    <3> QED BY <3>4, <3>5
  <2>5. underRead' => readBack' BY <2>1, <2>3 DEF TsoIInv, Stamped
  <2>6. TsoTyped' BY <1>6, <2>1 DEF TsoIInv, TsoTyped, Timestamps
  <2> QED BY <2>1, <2>2, <2>4, <2>5, <2>6 DEF TsoIInv, Stamped
<1>9. ASSUME NEW x \in Items, Tso!AcceptWrite(x) PROVE TsoIInv'
  <2>1. /\ ts[col] >= wts[x] /\ ts[col] >= rts[x]
        /\ wts' = [wts EXCEPT ![x] = ts[col]]
        /\ writes' = [writes EXCEPT ![x] = @ \cup {ts[col]}]
        /\ underWrite' = (underWrite \/ Tso!Max(writes[x]) > ts[col])
        /\ underRead' = (underRead \/ Tso!Max(reads[x]) > ts[col])
        /\ UNCHANGED <<ts, rts, reads, readBack>>
        /\ col' \in 1 .. 2
    BY <1>3, <1>9 DEF Tso!AcceptWrite
  <2>2. ~underWrite'
    <3>1. ~underWrite BY DEF TsoIInv, Stamped
    <3>2. ~(Tso!Max(writes[x]) > ts[col]) BY <1>4, <1>6, <2>1
    <3> QED BY <2>1, <3>1, <3>2
  <2>3. underRead' => readBack'
    <3>1. ~readBack => ~(Tso!Max(reads[x]) > ts[col]) BY <1>5, <1>6, <2>1
    <3> QED BY <2>1, <3>1 DEF TsoIInv, Stamped
  <2>4. \A y \in Items : Greatest(wts'[y], writes'[y])
    <3> SUFFICES ASSUME NEW y \in Items PROVE Greatest(wts'[y], writes'[y])
      OBVIOUS
    <3>1. Greatest(wts[y], writes[y]) BY DEF TsoIInv, Stamped
    <3>2. wts[x] <= ts[col] BY <1>6, <2>1
    <3>3. writes \in [Items -> SUBSET Nat] BY <1>1 DEF TsoIInv, TsoTyped
    <3>4. CASE y = x
      <4>1. wts'[y] = ts[col] /\ writes'[y] = writes[y] \cup {ts[col]}
        BY <2>1, <3>4 DEF TsoIInv, TsoTyped
      <4> QED BY <1>6, <3>1, <3>2, <3>3, <3>4, <4>1 DEF Greatest
    <3>5. CASE y # x BY <2>1, <3>1, <3>5 DEF TsoIInv, TsoTyped
    <3> QED BY <3>4, <3>5
  <2>5. TsoTyped' BY <1>6, <2>1 DEF TsoIInv, TsoTyped, Timestamps
  <2> QED BY <2>1, <2>2, <2>3, <2>4, <2>5 DEF TsoIInv, Stamped
<1>10. CASE Tso!Reject
  BY <1>10 DEF Tso!Reject, Tso!history, TsoIInv, TsoTyped, Stamped
<1> QED BY <1>7, <1>8, <1>9, <1>10 DEF Tso!TsoNext, Tso!RejectRead, Tso!RejectWrite

(* No operation is accepted after a younger write of its item, and no write
   after a younger read unless the reads went back (tso.py 110-123). *)
THEOREM TimestampOrder == Tso!TsoSpec => []AcceptedInTimestampOrder
<1>1. TsoIInv => AcceptedInTimestampOrder
  BY DEF TsoIInv, Stamped, AcceptedInTimestampOrder, Tso!AcceptedInTimestampOrder
<1> QED BY <1>1, TsoInitIInv, TsoStepIInv, PTL DEF Tso!TsoSpec
-----------------------------------------------------------------------------
(* SharedRecords: what a process has opened, and that it has copied nothing
   before it waited for the semaphore. *)
OpenedBy(p) ==
  /\ place[p] \notin {"start", "end"} => has[p].sem # Rec!Nothing
  /\ place[p] \in {"size", "wait", "copy"} => has[p].mem # Rec!Nothing
  /\ place[p] \in {"start", "openMem"} => has[p].mem = Rec!Nothing
  /\ has[p].mem # Rec!Nothing => has[p].sem \in guards[has[p].mem]
  /\ place[p] \notin {"copy", "unlinkSem", "unlinkMem"} \/ has[p].mem = Rec!Nothing
       => has[p].copied = 0 /\ has[p].found = {}

(* One process at a time copies under a semaphore, which is 0 meanwhile. *)
Alone ==
  \A p \in Rec!People : place[p] = "copy" =>
    /\ value[has[p].sem] = 0
    /\ \A q \in Rec!People : place[q] = "copy" /\ has[q].sem = has[p].sem => q = p

(* The records of a memory that goes with one semaphore are whole, unless a
   writer writes them: it or the death of it holds the semaphore. *)
Whole(m) == written[m] \in {{}, Rec!Records}

InHand(p, m) ==
  IF has[p].mem = m
  THEN IF p \in Writers
       THEN written[m] \in {1 .. has[p].copied, Rec!Records}
       ELSE Whole(m) /\ has[p].found = written[m] \cap (1 .. has[p].copied)
  ELSE Whole(m)

Kept ==
  \A m, s \in Writers : guards[m] = {s} =>
    /\ value[s] = 1 => Whole(m)
    /\ \A p \in Rec!People : place[p] = "copy" /\ has[p].sem = s => InHand(p, m)

Untouched == \A m \in Writers : guards[m] = {} => written[m] = {}

(* A reader that has posted the semaphore has found all or nothing. *)
FoundWhole ==
  \A r \in Readers : \A s \in Writers :
    place[r] \in {"unlinkSem", "unlinkMem"} /\ has[r].mem # Rec!Nothing
      /\ guards[has[r].mem] = {s} => has[r].found \in {{}, Rec!Records}

RecIInv == /\ Rec!RecordTypeOK /\ (\A p \in Rec!People : OpenedBy(p))
           /\ Alone /\ Kept /\ Untouched /\ FoundWhole

(* It holds at first. *)
LEMMA RecInitIInv == Rec!RecordInit => RecIInv
<1> SUFFICES ASSUME Rec!RecordInit PROVE RecIInv OBVIOUS
<1> USE RecordAssumption DEF Rec!RecordInit, Rec!HasNothing, Rec!Nothing, Rec!People
<1>1. Rec!RecordTypeOK BY DEF Rec!RecordTypeOK, Rec!Objects
<1>2. \A p \in Rec!People : OpenedBy(p) BY DEF OpenedBy
<1>3. Alone BY DEF Alone
<1>4. Kept BY DEF Kept, Whole
<1>5. Untouched BY DEF Untouched
<1>6. FoundWhole BY DEF FoundWhole
<1> QED BY <1>1, <1>2, <1>3, <1>4, <1>5, <1>6 DEF RecIInv

(* A step of p that neither takes nor gives the semaphore, nor copies. *)
LEMMA AsideStep ==
  ASSUME RecIInv, NEW p \in Rec!People,
         Rec!RecordTypeOK', OpenedBy(p)',
         place'[p] # "copy",
         UNCHANGED <<value, written, guards>>,
         \A q \in Rec!People \ {p} : place'[q] = place[q] /\ has'[q] = has[q],
         place'[p] \in {"unlinkSem", "unlinkMem"} =>
           \/ place[p] \in {"unlinkSem", "unlinkMem"} /\ has'[p] = has[p]
           \/ has'[p].mem = Rec!Nothing
  PROVE  RecIInv'
<1>1. \A q \in Rec!People : OpenedBy(q)'
  <2> SUFFICES ASSUME NEW q \in Rec!People PROVE OpenedBy(q)' OBVIOUS
  <2>1. CASE q = p BY <2>1
  <2>2. CASE q # p
    <3>1. OpenedBy(q) BY DEF RecIInv
    <3> QED BY <2>2, <3>1 DEF OpenedBy
  <2> QED BY <2>1, <2>2
<1>2. \A q \in Rec!People : place'[q] = "copy" =>
        q # p /\ place[q] = "copy" /\ has'[q] = has[q]
  OBVIOUS
<1>3. Alone' BY <1>2 DEF RecIInv, Alone
<1>4. Kept' BY <1>2 DEF RecIInv, Kept, InHand, Whole
<1>5. Untouched' BY DEF RecIInv, Untouched
<1>6. FoundWhole' BY DEF RecIInv, FoundWhole, Rec!People
<1> QED BY <1>1, <1>3, <1>4, <1>5, <1>6 DEF RecIInv

(* What is common to all steps: the type of what a process has, and what the
   end of a process leaves of it. *)
LEMMA EndsFacts ==
  ASSUME RecIInv, NEW p \in Rec!People, NEW from, Rec!Ends(p, from)
  PROVE  /\ place[p] = from /\ place' = [place EXCEPT ![p] = "end"]
         /\ has' = [has EXCEPT ![p] = Rec!HasNothing]
         /\ place'[p] = "end" /\ has'[p] = Rec!HasNothing
         /\ \A q \in Rec!People \ {p} : place'[q] = place[q] /\ has'[q] = has[q]
         /\ OpenedBy(p)'
<1> USE DEF Rec!Ends, Rec!Moves, RecIInv, Rec!RecordTypeOK
<1>1. /\ place[p] = from /\ place' = [place EXCEPT ![p] = "end"]
      /\ has' = [has EXCEPT ![p] = Rec!HasNothing]
  OBVIOUS
<1>2. /\ place'[p] = "end" /\ has'[p] = Rec!HasNothing
      /\ \A q \in Rec!People \ {p} : place'[q] = place[q] /\ has'[q] = has[q]
  BY <1>1
<1>3. OpenedBy(p)' BY <1>2 DEF OpenedBy, Rec!HasNothing
<1> QED BY <1>1, <1>2, <1>3

(* sem_open makes a semaphore or finds the one of the name. *)
LEMMA OpenSemStep == ASSUME RecIInv, NEW p \in Rec!People, Rec!OpenSem(p) PROVE RecIInv'
<1> USE DEF RecIInv, Rec!RecordTypeOK
<1>1. CASE p \in Readers /\ SEM = Rec!Nothing
  <2>1. Rec!Ends(p, "start") /\ UNCHANGED <<SEM, SHM, value, sized, written, guards>>
    BY <1>1 DEF Rec!OpenSem
  <2>2. Rec!RecordTypeOK'
    <3>1. /\ place' = [place EXCEPT ![p] = "end"] /\ has' = [has EXCEPT ![p] = Rec!HasNothing]
      BY <2>1, EndsFacts
    <3>2. Rec!HasNothing \in [sem : Rec!Objects, mem : Rec!Objects, copied : 0 .. ARRAY_SIZE,
                              found : SUBSET Rec!Records]
      BY RecordAssumption DEF Rec!HasNothing, Rec!Objects
    <3> QED BY <2>1, <3>1, <3>2
  <2> QED BY <2>1, <2>2, EndsFacts, AsideStep
<1>2. CASE ~(p \in Readers /\ SEM = Rec!Nothing)
  <2>1. /\ place[p] = "start" /\ place' = [place EXCEPT ![p] = "openMem"]
        /\ SEM' = IF SEM = Rec!Nothing THEN p ELSE SEM
        /\ has' = [has EXCEPT ![p].sem = SEM']
        /\ UNCHANGED <<SHM, value, sized, written, guards>>
    BY <1>2 DEF Rec!OpenSem, Rec!Moves
  <2>2. SEM' \in Writers /\ SEM' # Rec!Nothing
    BY <1>2, <2>1, RecordAssumption DEF Rec!People, Rec!Objects, Rec!Nothing
  <2>3. Rec!RecordTypeOK' BY <2>1, <2>2 DEF Rec!Objects
  <2>4. /\ place'[p] = "openMem" /\ has'[p].sem = SEM'
        /\ has'[p].mem = has[p].mem /\ has'[p].copied = has[p].copied
        /\ has'[p].found = has[p].found
    BY <2>1
  <2>5. OpenedBy(p)' BY <2>1, <2>2, <2>4 DEF OpenedBy
  <2>6. \A q \in Rec!People \ {p} : place'[q] = place[q] /\ has'[q] = has[q] BY <2>1
  <2> QED BY <2>1, <2>3, <2>4, <2>5, <2>6, AsideStep
<1> QED BY <1>1, <1>2

(* ftruncate gives an object its zeros. *)
LEMMA RecTruncateStep == ASSUME RecIInv, NEW p \in Rec!People, Rec!Truncate(p) PROVE RecIInv'
<1> USE DEF RecIInv, Rec!RecordTypeOK
<1>1. /\ place[p] = "size" /\ place' = [place EXCEPT ![p] = "wait"]
      /\ sized' = sized \cup {has[p].mem}
      /\ UNCHANGED <<SEM, SHM, value, written, guards, has>>
  BY DEF Rec!Truncate, Rec!Moves
<1>2. has[p].mem \in Writers BY <1>1 DEF OpenedBy, Rec!Objects
<1>3. Rec!RecordTypeOK' BY <1>1, <1>2
<1>4. place'[p] = "wait" BY <1>1
<1>5. OpenedBy(p)' BY <1>1, <1>4 DEF OpenedBy
<1>6. \A q \in Rec!People \ {p} : place'[q] = place[q] BY <1>1
<1> QED BY <1>1, <1>3, <1>4, <1>5, <1>6, AsideStep

(* sem_unlink takes the name, not the semaphore. *)
LEMMA UnlinkSemStep == ASSUME RecIInv, NEW p \in Rec!People, Rec!UnlinkSem(p) PROVE RecIInv'
<1> USE DEF RecIInv, Rec!RecordTypeOK
<1>1. SEM' = Rec!Nothing /\ UNCHANGED <<SHM, value, sized, written, guards>>
  BY DEF Rec!UnlinkSem
<1>2. CASE Rec!Ends(p, "unlinkSem")
  <2>1. Rec!RecordTypeOK'
    BY <1>1, <1>2, EndsFacts, RecordAssumption DEF Rec!HasNothing, Rec!Objects
  <2> QED BY <1>1, <1>2, <2>1, EndsFacts, AsideStep
<1>3. CASE Rec!Moves(p, "unlinkSem", "unlinkMem") /\ UNCHANGED has
  <2>1. place[p] = "unlinkSem" /\ place' = [place EXCEPT ![p] = "unlinkMem"]
    BY <1>3 DEF Rec!Moves
  <2>2. place'[p] = "unlinkMem" BY <2>1
  <2>3. Rec!RecordTypeOK' BY <1>1, <1>3, <2>1 DEF Rec!Objects
  <2>4. OpenedBy(p)' BY <1>1, <1>3, <2>1, <2>2 DEF OpenedBy
  <2>5. \A q \in Rec!People \ {p} : place'[q] = place[q] BY <2>1
  <2> QED BY <1>1, <1>3, <2>1, <2>2, <2>3, <2>4, <2>5, AsideStep
<1> QED BY <1>2, <1>3 DEF Rec!UnlinkSem

(* shm_unlink takes the name, not the memory. *)
LEMMA UnlinkMemStep == ASSUME RecIInv, NEW p \in Rec!People, Rec!UnlinkMem(p) PROVE RecIInv'
<1> USE DEF RecIInv, Rec!RecordTypeOK
<1>1. /\ Rec!Ends(p, "unlinkMem") /\ SHM' = Rec!Nothing
      /\ UNCHANGED <<SEM, value, sized, written, guards>>
  BY DEF Rec!UnlinkMem
<1>2. Rec!RecordTypeOK'
  BY <1>1, EndsFacts, RecordAssumption DEF Rec!HasNothing, Rec!Objects
<1> QED BY <1>1, <1>2, EndsFacts, AsideStep

(* A killed process stops; what it wrote and holds stays. *)
LEMMA RecKilledStep == ASSUME RecIInv, NEW p \in Rec!People, Rec!Killed(p) PROVE RecIInv'
<1> USE DEF RecIInv, Rec!RecordTypeOK
<1>1. Rec!Ends(p, place[p]) /\ UNCHANGED <<SEM, SHM, value, sized, written, guards>>
  BY DEF Rec!Killed, Rec!kernelVars
<1>2. Rec!RecordTypeOK'
  BY <1>1, EndsFacts, RecordAssumption DEF Rec!HasNothing, Rec!Objects
<1> QED BY <1>1, <1>2, EndsFacts, AsideStep

(* A memory that is opened along with a second semaphore is given up; one that
   is opened for the first time is empty. *)
LEMMA OpenMemStep == ASSUME RecIInv, NEW p \in Rec!People, Rec!OpenMem(p) PROVE RecIInv'
<1> USE DEF RecIInv, Rec!RecordTypeOK
<1>1. CASE p \in Readers /\ SHM = Rec!Nothing
  <2>1. /\ place[p] = "openMem" /\ place' = [place EXCEPT ![p] = "unlinkSem"]
        /\ UNCHANGED <<SEM, SHM, value, sized, written, guards, has>>
    BY <1>1 DEF Rec!OpenMem, Rec!Moves
  <2>2. place'[p] = "unlinkSem" BY <2>1
  <2>3. Rec!RecordTypeOK' BY <2>1
  <2>4. OpenedBy(p)' /\ has[p].mem = Rec!Nothing BY <2>1, <2>2 DEF OpenedBy
  <2>5. \A q \in Rec!People \ {p} : place'[q] = place[q] BY <2>1
  <2> QED BY <2>1, <2>2, <2>3, <2>4, <2>5, AsideStep
<1>2. CASE ~(p \in Readers /\ SHM = Rec!Nothing)
  <2> DEFINE o == SHM'
  <2>1. /\ place[p] = "openMem"
        /\ place' = [place EXCEPT ![p] = IF p \in Writers THEN "size" ELSE "wait"]
        /\ SHM' = IF SHM = Rec!Nothing THEN p ELSE SHM
        /\ has' = [has EXCEPT ![p].mem = o]
        /\ guards' = [guards EXCEPT ![o] = @ \cup {has[p].sem}]
        /\ UNCHANGED <<SEM, value, sized, written>>
    BY <1>2 DEF Rec!OpenMem, Rec!Moves
  <2>2. o \in Writers /\ o # Rec!Nothing
    BY <1>2, <2>1, RecordAssumption DEF Rec!People, Rec!Objects, Rec!Nothing
  <2>3. has[p].sem \in Writers /\ has[p].mem = Rec!Nothing
    BY <2>1 DEF OpenedBy, Rec!Objects
  <2> HIDE DEF o
  <2>4. Rec!RecordTypeOK'
    <3>1. {SEM', SHM'} \subseteq Rec!Objects BY <2>1, <2>2 DEF Rec!Objects, o
    <3>2. guards' \in [Writers -> SUBSET Writers] BY <2>1, <2>2, <2>3
    <3> QED BY <2>1, <2>2, <3>1, <3>2 DEF Rec!Objects
  <2>5. /\ place'[p] \in {"size", "wait"}
        /\ has'[p].mem = o /\ has'[p].sem = has[p].sem
        /\ has'[p].copied = has[p].copied /\ has'[p].found = has[p].found
        /\ \A q \in Rec!People \ {p} : place'[q] = place[q] /\ has'[q] = has[q]
    BY <2>1
  <2>6. /\ guards'[o] = guards[o] \cup {has[p].sem}
        /\ \A m \in Writers \ {o} : guards'[m] = guards[m]
    BY <2>1, <2>2
  <2>7. \A q \in Rec!People : place'[q] = "copy" =>
          q # p /\ place[q] = "copy" /\ has'[q] = has[q]
    BY <2>5
  <2>8. \A q \in Rec!People : OpenedBy(q)'
    <3> SUFFICES ASSUME NEW q \in Rec!People PROVE OpenedBy(q)' OBVIOUS
    <3>1. CASE q = p
      <4>1. OpenedBy(p) OBVIOUS
      <4> QED BY <2>1, <2>2, <2>3, <2>5, <2>6, <3>1, <4>1 DEF OpenedBy
    <3>2. CASE q # p
      <4>1. OpenedBy(q) OBVIOUS
      <4>2. place'[q] = place[q] /\ has'[q] = has[q] BY <2>5, <3>2
      <4>3. has[q].mem # Rec!Nothing => has[q].mem \in Writers BY DEF Rec!Objects
      <4>4. has[q].mem # Rec!Nothing => has[q].sem \in guards'[has[q].mem]
        BY <2>6, <4>1, <4>3 DEF OpenedBy
      <4> QED BY <4>1, <4>2, <4>4 DEF OpenedBy
    <3> QED BY <3>1, <3>2
  <2>9. Alone' BY <2>1, <2>7 DEF Alone
  <2>10. Kept'
    <3> SUFFICES ASSUME NEW m \in Writers, NEW s \in Writers, guards'[m] = {s}
                 PROVE  /\ value[s] = 1 => Whole(m)
                        /\ \A q \in Rec!People :
                             place'[q] = "copy" /\ has'[q].sem = s => InHand(q, m)'
      BY <2>1 DEF Kept, Whole
    <3>1. CASE guards[m] = {s}
      BY <2>1, <2>7, <3>1 DEF Kept, InHand, Whole
    <3>2. CASE guards[m] # {s}
      <4>1. guards[m] = {} BY <2>6, <3>2
      <4>2. Whole(m) /\ written'[m] = {} BY <2>1, <4>1 DEF Untouched, Whole
      <4>3. \A q \in Rec!People : place[q] = "copy" => has[q].mem # m
        BY <4>1, RecordAssumption DEF OpenedBy, Rec!Nothing
      <4> QED BY <2>7, <4>2, <4>3 DEF InHand, Whole
    <3> QED BY <3>1, <3>2
  <2>11. Untouched' BY <2>1, <2>6 DEF Untouched
  <2>12. FoundWhole'
    <3> SUFFICES ASSUME NEW r \in Readers, NEW s \in Writers,
                        place'[r] \in {"unlinkSem", "unlinkMem"}, has'[r].mem # Rec!Nothing,
                        guards'[has'[r].mem] = {s}
                 PROVE  has'[r].found \in {{}, Rec!Records}
      BY DEF FoundWhole
    <3>1. r \in Rec!People /\ r # p BY <2>5 DEF Rec!People
    <3>2. place[r] = place'[r] /\ has'[r] = has[r] BY <2>5, <3>1
    <3>3. has[r].mem \in Writers BY <3>1, <3>2 DEF Rec!Objects
    <3>4. has[r].sem \in guards[has[r].mem] BY <3>1, <3>2 DEF OpenedBy
    <3> DEFINE m == has[r].mem
    <3>5. guards'[m] = {s} BY <3>2
    <3>6. m = o => guards[m] = {s} BY <2>6, <3>4, <3>5
    <3>7. m # o => guards[m] = {s} BY <2>6, <3>3, <3>5
    <3> QED BY <3>2, <3>6, <3>7 DEF FoundWhole
  <2> QED BY <2>4, <2>8, <2>9, <2>10, <2>11, <2>12
<1> QED BY <1>1, <1>2

(* Who gets the semaphore finds what goes with it whole. *)
LEMMA WaitStep == ASSUME RecIInv, NEW p \in Rec!People, Rec!sem_wait(p) PROVE RecIInv'
<1> USE DEF RecIInv, Rec!RecordTypeOK
<1> DEFINE o == has[p].sem
<1>1. /\ place[p] = "wait" /\ place' = [place EXCEPT ![p] = "copy"]
      /\ value[o] > 0 /\ value' = [value EXCEPT ![o] = @ - 1]
      /\ UNCHANGED <<SEM, SHM, sized, written, guards, has>>
  BY DEF Rec!sem_wait, Rec!Moves
<1>2. /\ o \in Writers
      /\ has[p].mem # Rec!Nothing /\ o \in guards[has[p].mem]
      /\ has[p].copied = 0 /\ has[p].found = {}
  BY <1>1 DEF OpenedBy, Rec!Objects
<1> HIDE DEF o
<1>3. value[o] = 1 /\ value'[o] = 0 /\ \A s \in Writers \ {o} : value'[s] = value[s]
  BY <1>1, <1>2
<1>4. place'[p] = "copy" /\ \A q \in Rec!People \ {p} : place'[q] = place[q]
  BY <1>1
<1>5. Rec!RecordTypeOK' BY <1>1, <1>3
<1>6. \A q \in Rec!People : OpenedBy(q)'
  <2> SUFFICES ASSUME NEW q \in Rec!People PROVE OpenedBy(q)' OBVIOUS
  <2>1. OpenedBy(q) OBVIOUS
  <2>2. CASE q = p BY <1>1, <1>4, <2>1, <2>2 DEF OpenedBy
  <2>3. CASE q # p BY <1>1, <1>4, <2>1, <2>3 DEF OpenedBy
  <2> QED BY <2>2, <2>3
<1>7. \A q \in Rec!People : place[q] = "copy" => has[q].sem # o
  BY <1>3 DEF Alone
<1>8. Alone'
  <2> SUFFICES ASSUME NEW q \in Rec!People, place'[q] = "copy"
               PROVE  /\ value'[has[q].sem] = 0
                      /\ \A r \in Rec!People :
                           place'[r] = "copy" /\ has[r].sem = has[q].sem => r = q
    BY <1>1 DEF Alone
  <2>1. CASE q = p BY <1>3, <1>4, <1>7, <2>1 DEF o
  <2>2. CASE q # p
    <3>1. place[q] = "copy" /\ has[q].sem # o BY <1>4, <1>7, <2>2
    <3>2. has[q].sem \in Writers BY <3>1 DEF OpenedBy, Rec!Objects
    <3> QED BY <1>3, <1>4, <3>1, <3>2 DEF Alone, o
  <2> QED BY <2>1, <2>2
<1>9. Kept'
  <2> SUFFICES ASSUME NEW m \in Writers, NEW s \in Writers, guards[m] = {s}
               PROVE  /\ value'[s] = 1 => Whole(m)
                      /\ \A q \in Rec!People :
                           place'[q] = "copy" /\ has[q].sem = s => InHand(q, m)
    BY <1>1 DEF Kept, InHand, Whole
  <2>1. value'[s] = 1 => Whole(m) BY <1>3 DEF Kept
  <2>2. ASSUME NEW q \in Rec!People, place'[q] = "copy", has[q].sem = s
        PROVE  InHand(q, m)
    <3>1. CASE q = p
      <4>1. Whole(m) BY <1>3, <2>2, <3>1 DEF Kept, o
      <4>2. 1 .. has[p].copied = {} BY <1>2
      <4> QED BY <1>2, <3>1, <4>1, <4>2 DEF InHand, Whole
    <3>2. CASE q # p BY <1>4, <2>2, <3>2 DEF Kept
    <3> QED BY <3>1, <3>2
  <2> QED BY <2>1, <2>2
<1>10. Untouched' BY <1>1 DEF Untouched
<1>11. FoundWhole' BY <1>1, <1>4 DEF FoundWhole, Rec!People
<1> QED BY <1>5, <1>6, <1>8, <1>9, <1>10, <1>11

(* The semaphore is posted by the one that has it, with all records copied. *)
LEMMA PostStep == ASSUME RecIInv, NEW p \in Rec!People, Rec!sem_post(p) PROVE RecIInv'
<1> USE DEF RecIInv, Rec!RecordTypeOK
<1> DEFINE o == has[p].sem
<1>1. /\ has[p].copied = ARRAY_SIZE
      /\ value' = [value EXCEPT ![o] = @ + 1]
      /\ UNCHANGED <<SEM, SHM, sized, written, guards>>
      /\ place[p] = "copy"
  BY DEF Rec!sem_post, Rec!Moves, Rec!Ends
<1>2. /\ o \in Writers /\ has[p].mem # Rec!Nothing /\ has[p].mem \in Writers
      /\ o \in guards[has[p].mem] /\ value[o] = 0
  BY <1>1 DEF OpenedBy, Alone, Rec!Objects
<1>3. value'[o] = 1 /\ \A s \in Writers \ {o} : value'[s] = value[s]
  BY <1>1, <1>2
<1>4. /\ \A q \in Rec!People \ {p} : place'[q] = place[q] /\ has'[q] = has[q]
      /\ \/ p \in Writers /\ place'[p] = "end" /\ has'[p] = Rec!HasNothing
         \/ p \in Readers /\ place'[p] = "unlinkSem" /\ has'[p] = has[p]
      /\ OpenedBy(p)'
      /\ Rec!RecordTypeOK'
  <2>1. CASE p \in Writers /\ Rec!Ends(p, "copy")
    <3>1. Rec!RecordTypeOK'
      <4>1. value' \in [Writers -> 0 .. 1] BY <1>1, <1>2
      <4>2. /\ place' = [place EXCEPT ![p] = "end"]
            /\ has' = [has EXCEPT ![p] = Rec!HasNothing]
        BY <2>1, EndsFacts
      <4>3. /\ Rec!HasNothing \in [sem : Rec!Objects, mem : Rec!Objects,
                                   copied : 0 .. ARRAY_SIZE, found : SUBSET Rec!Records]
        BY RecordAssumption DEF Rec!HasNothing, Rec!Objects
      <4> QED BY <1>1, <4>1, <4>2, <4>3
    <3> QED BY <2>1, <3>1, EndsFacts
  <2>2. CASE p \in Readers /\ Rec!Moves(p, "copy", "unlinkSem") /\ UNCHANGED has
    <3>1. place' = [place EXCEPT ![p] = "unlinkSem"] /\ place'[p] = "unlinkSem"
      BY <2>2 DEF Rec!Moves
    <3>2. OpenedBy(p)' BY <1>1, <1>2, <2>2, <3>1 DEF OpenedBy
    <3>3. Rec!RecordTypeOK' BY <1>1, <1>2, <1>3, <2>2, <3>1
    <3> QED BY <2>2, <3>1, <3>2, <3>3
  <2> QED BY <2>1, <2>2 DEF Rec!sem_post
<1>5. place'[p] # "copy" BY <1>4
<1>6. \A q \in Rec!People : OpenedBy(q)'
  <2> SUFFICES ASSUME NEW q \in Rec!People, q # p PROVE OpenedBy(q)' BY <1>4
  <2>1. OpenedBy(q) OBVIOUS
  <2> QED BY <1>1, <1>4, <2>1 DEF OpenedBy
<1>7. \A q \in Rec!People : place'[q] = "copy" =>
        q # p /\ place[q] = "copy" /\ has'[q] = has[q] /\ has[q].sem # o
  BY <1>1, <1>4, <1>5 DEF Alone
<1>8. Alone'
  <2> SUFFICES ASSUME NEW q \in Rec!People, place'[q] = "copy"
               PROVE  /\ value'[has'[q].sem] = 0
                      /\ \A r \in Rec!People :
                           place'[r] = "copy" /\ has'[r].sem = has'[q].sem => r = q
    BY DEF Alone
  <2>1. has[q].sem \in Writers BY <1>7 DEF OpenedBy, Rec!Objects
  <2> QED BY <1>3, <1>7, <2>1 DEF Alone
<1>9. \A m \in Writers : guards[m] = {o} => Whole(m)
  <2> SUFFICES ASSUME NEW m \in Writers, guards[m] = {o} PROVE Whole(m) OBVIOUS
  <2>1. InHand(p, m) BY <1>1, <1>2 DEF Kept, o
  <2> QED BY <1>1, <2>1 DEF InHand, Whole, Rec!Records
<1>10. Kept'
  <2> SUFFICES ASSUME NEW m \in Writers, NEW s \in Writers, guards[m] = {s}
               PROVE  /\ value'[s] = 1 => Whole(m)
                      /\ \A q \in Rec!People :
                           place'[q] = "copy" /\ has'[q].sem = s => InHand(q, m)'
    BY <1>1 DEF Kept, Whole
  <2>1. value'[s] = 1 => Whole(m) BY <1>3, <1>9 DEF Kept
  <2>2. ASSUME NEW q \in Rec!People, place'[q] = "copy", has'[q].sem = s
        PROVE  InHand(q, m)'
    <3>1. InHand(q, m) BY <1>7, <2>2 DEF Kept
    <3> QED BY <1>1, <1>7, <2>2, <3>1 DEF InHand, Whole
  <2> QED BY <2>1, <2>2
<1>11. Untouched' BY <1>1 DEF Untouched
<1>12. FoundWhole'
  <2> SUFFICES ASSUME NEW r \in Readers, NEW s \in Writers,
                      place'[r] \in {"unlinkSem", "unlinkMem"}, has'[r].mem # Rec!Nothing,
                      guards[has'[r].mem] = {s}
               PROVE  has'[r].found \in {{}, Rec!Records}
    BY <1>1 DEF FoundWhole
  <2>1. r \in Rec!People BY DEF Rec!People
  <2>2. CASE r = p
    <3>1. p \notin Writers /\ has'[p] = has[p] BY <1>4, <2>2, RecordAssumption
    <3>2. s = o BY <1>2, <2>2, <3>1
    <3>3. InHand(p, has[p].mem) BY <1>1, <1>2, <2>2, <3>1, <3>2 DEF Kept, o
    <3>4. has[p].found = written[has[p].mem] \cap Rec!Records /\ Whole(has[p].mem)
      BY <1>1, <3>1, <3>3 DEF InHand, Rec!Records
    <3> QED BY <2>2, <3>1, <3>4 DEF Whole
  <2>3. CASE r # p BY <1>4, <2>1, <2>3 DEF FoundWhole
  <2> QED BY <2>2, <2>3
<1> QED BY <1>4, <1>6, <1>8, <1>10, <1>11, <1>12

(* Only the one that has the semaphore of a memory touches its records. *)
LEMMA CopyStep == ASSUME RecIInv, NEW p \in Rec!People, Rec!Copy(p) PROVE RecIInv'
<1> USE DEF RecIInv, Rec!RecordTypeOK
<1> DEFINE m == has[p].mem  i == has[p].copied + 1
<1>1. i \in Rec!Records /\ UNCHANGED <<SEM, SHM, value, sized, guards>>
  BY DEF Rec!Copy
<1>2. CASE Rec!Ends(p, "copy") /\ UNCHANGED written
  <2>1. Rec!RecordTypeOK'
    BY <1>1, <1>2, EndsFacts, RecordAssumption DEF Rec!HasNothing, Rec!Objects
  <2> QED BY <1>1, <1>2, <2>1, EndsFacts, AsideStep
<1>3. CASE /\ Rec!Moves(p, "copy", "copy")
           /\ \/ /\ p \in Writers
                 /\ has' = [has EXCEPT ![p].copied = i]
                 /\ written' = [written EXCEPT ![m] = @ \cup {i}]
              \/ /\ p \in Readers
                 /\ has' = [has EXCEPT ![p].copied = i,
                                       ![p].found = @ \cup (written[m] \cap {i})]
                 /\ UNCHANGED written
  <2>1. place[p] = "copy" /\ place' = place BY <1>3 DEF Rec!Moves
  <2>2. /\ has[p].sem \in Writers /\ m # Rec!Nothing /\ m \in Writers
        /\ has[p].sem \in guards[m]
    BY <2>1 DEF OpenedBy, Rec!Objects
  <2>3. has[p].copied \in 0 .. ARRAY_SIZE /\ i \in 1 .. ARRAY_SIZE
        /\ 1 .. i = (1 .. has[p].copied) \cup {i}
    BY <1>1, RecordAssumption, SMTT(15) DEF Rec!Records
  <2>4. /\ has'[p].sem = has[p].sem /\ has'[p].mem = m /\ has'[p].copied = i
        /\ \A q \in Rec!People \ {p} : has'[q] = has[q]
        /\ \A n \in Writers \ {m} : written'[n] = written[n]
        /\ p \in Writers => written'[m] = written[m] \cup {i}
        /\ p \in Readers => /\ written' = written
                            /\ has'[p].found = has[p].found \cup (written[m] \cap {i})
    <3>1. CASE /\ p \in Writers
               /\ has' = [has EXCEPT ![p].copied = i]
               /\ written' = [written EXCEPT ![m] = @ \cup {i}]
      BY <2>2, <3>1, RecordAssumption
    <3>2. CASE /\ p \in Readers
               /\ has' = [has EXCEPT ![p].copied = i,
                                     ![p].found = @ \cup (written[m] \cap {i})]
               /\ UNCHANGED written
      BY <2>2, <3>2, RecordAssumption
    <3> QED BY <1>3, <3>1, <3>2
  <2>5. Rec!RecordTypeOK'
    <3>1. CASE /\ p \in Writers
               /\ has' = [has EXCEPT ![p].copied = i]
               /\ written' = [written EXCEPT ![m] = @ \cup {i}]
      <4>1. has' \in [Rec!People -> [sem : Rec!Objects, mem : Rec!Objects,
                                     copied : 0 .. ARRAY_SIZE, found : SUBSET Rec!Records]]
        BY <2>3, <3>1
      <4>2. written' \in [Writers -> SUBSET Rec!Records] BY <1>1, <3>1
      <4> QED BY <1>1, <2>1, <4>1, <4>2
    <3>2. CASE /\ p \in Readers
               /\ has' = [has EXCEPT ![p].copied = i,
                                     ![p].found = @ \cup (written[m] \cap {i})]
               /\ UNCHANGED written
      <4>1. has' \in [Rec!People -> [sem : Rec!Objects, mem : Rec!Objects,
                                     copied : 0 .. ARRAY_SIZE, found : SUBSET Rec!Records]]
        <5> DEFINE f == has[p].found \cup (written[m] \cap {i})
        <5>1. f \in SUBSET Rec!Records BY <1>1
        <5>2. has' = [has EXCEPT ![p].copied = i, ![p].found = f] BY <3>2
        <5>3. i \in 0 .. ARRAY_SIZE BY <2>3
        <5> HIDE DEF f, i
        <5> QED BY <5>1, <5>2, <5>3
      <4> QED BY <1>1, <2>1, <3>2, <4>1
    <3> QED BY <1>3, <3>1, <3>2
  <2> HIDE DEF m, i
  <2>6. \A q \in Rec!People : OpenedBy(q)'
    <3> SUFFICES ASSUME NEW q \in Rec!People PROVE OpenedBy(q)' OBVIOUS
    <3>1. CASE q = p BY <1>1, <2>1, <2>2, <2>4, <3>1 DEF OpenedBy
    <3>2. CASE q # p
      <4>1. OpenedBy(q) OBVIOUS
      <4> QED BY <1>1, <2>1, <2>4, <3>2, <4>1 DEF OpenedBy
    <3> QED BY <3>1, <3>2
  <2>7. \A q \in Rec!People : has'[q].sem = has[q].sem BY <2>4
  <2>8. Alone' BY <1>1, <2>1, <2>7 DEF Alone
  <2>9. Kept'
    <3> SUFFICES ASSUME NEW n \in Writers, NEW s \in Writers, guards[n] = {s}
                 PROVE  /\ value[s] = 1 => Whole(n)'
                        /\ \A q \in Rec!People :
                             place[q] = "copy" /\ has[q].sem = s => InHand(q, n)'
      BY <1>1, <2>1, <2>7 DEF Kept
    <3>1. value[s] = 1 => n # m BY <2>1, <2>2 DEF Alone
    <3>2. value[s] = 1 => Whole(n)' BY <2>4, <3>1 DEF Kept, Whole
    <3>3. ASSUME NEW q \in Rec!People, place[q] = "copy", has[q].sem = s PROVE InHand(q, n)'
      <4>1. InHand(q, n) BY <3>3 DEF Kept
      <4>2. CASE q # p
        <5>1. n # m BY <2>1, <2>2, <3>3, <4>2 DEF Alone
        <5>2. written'[n] = written[n] /\ has'[q] = has[q] BY <2>4, <4>2, <5>1
        <5> QED BY <4>1, <5>2 DEF InHand, Whole
      <4>3. CASE q = p /\ n # m
        <5>1. written'[n] = written[n] /\ has'[q].mem # n /\ has[q].mem # n
          BY <2>4, <4>3 DEF m
        <5> QED BY <4>1, <5>1 DEF InHand, Whole
      <4>4. CASE q = p /\ n = m
        <5>1. CASE p \in Writers
          <6>1. written[m] \in {1 .. has[p].copied, Rec!Records}
            BY <4>1, <4>4, <5>1 DEF InHand, m
          <6>2. written'[m] = written[m] \cup {i} BY <2>4, <5>1
          <6>3. Rec!Records \cup {i} = Rec!Records BY <1>1
          <6>4. written'[m] = 1 .. i \/ written'[m] = Rec!Records
            BY <2>3, <6>1, <6>2, <6>3
          <6> QED BY <2>4, <4>4, <5>1, <6>4 DEF InHand
        <5>2. CASE p \notin Writers
          <6>1. p \in Readers BY <5>2 DEF Rec!People
          <6>2. Whole(m) /\ has[p].found = written[m] \cap (1 .. has[p].copied)
            BY <4>1, <4>4, <5>2 DEF InHand, m
          <6>3. has'[p].found = written[m] \cap (1 .. i) /\ written' = written
            BY <2>3, <2>4, <6>1, <6>2
          <6> QED BY <2>4, <4>4, <5>2, <6>2, <6>3 DEF InHand, Whole
        <5> QED BY <5>1, <5>2
      <4> QED BY <4>2, <4>3, <4>4
    <3> QED BY <3>2, <3>3
  <2>10. Untouched'
    <3>1. guards[m] # {} BY <2>2
    <3> QED BY <1>1, <2>4, <3>1 DEF Untouched
  <2>11. FoundWhole'
    <3> SUFFICES ASSUME NEW r \in Readers, NEW s \in Writers,
                        place'[r] \in {"unlinkSem", "unlinkMem"}, has'[r].mem # Rec!Nothing,
                        guards'[has'[r].mem] = {s}
                 PROVE  has'[r].found \in {{}, Rec!Records}
      BY DEF FoundWhole
    <3>1. r \in Rec!People BY DEF Rec!People
    <3>2. r # p BY <1>1, <2>1
    <3>3. place[r] = place'[r] /\ has'[r] = has[r] BY <1>1, <2>1, <2>4, <3>1, <3>2
    <3>4. guards' = guards BY <1>1, <2>1
    <3> QED BY <3>3, <3>4 DEF FoundWhole
  <2> QED BY <2>5, <2>6, <2>8, <2>9, <2>10, <2>11
<1> QED BY <1>2, <1>3 DEF Rec!Copy

(* Every step keeps it. *)
LEMMA RecStepIInv == RecIInv /\ [Rec!RecordNext]_(Rec!recordVars) => RecIInv'
<1> SUFFICES ASSUME RecIInv, Rec!RecordNext PROVE RecIInv'
  <2> CASE UNCHANGED Rec!recordVars
    BY DEF RecIInv, Rec!RecordTypeOK, OpenedBy, Alone, Kept, InHand, Whole, Untouched,
           FoundWhole, Rec!recordVars, Rec!kernelVars
  <2> QED OBVIOUS
<1> QED
  BY OpenSemStep, OpenMemStep, RecTruncateStep, WaitStep, CopyStep, PostStep,
     UnlinkSemStep, UnlinkMemStep, RecKilledStep DEF Rec!RecordNext

(* A reader finds all the records or none (pr61r.c 108-120), wherever processes
   are killed, as long as one semaphore goes with the memory. *)
THEOREM AllOrNothing == Rec!RecordSpec => []ReadsAllOrNothing
<1>1. RecIInv => ReadsAllOrNothing
  <2> SUFFICES ASSUME RecIInv, NEW r \in Readers, has[r].copied = ARRAY_SIZE,
                      Rec!Cardinality(guards[has[r].mem]) = 1
               PROVE  has[r].found \in {{}, Rec!Records}
    BY DEF ReadsAllOrNothing, Rec!ReadsAllOrNothing
  <2> USE DEF RecIInv, Rec!RecordTypeOK
  <2>1. r \in Rec!People /\ r \notin Writers BY RecordAssumption DEF Rec!People
  <2>2. CASE place[r] \notin {"copy", "unlinkSem", "unlinkMem"} \/ has[r].mem = Rec!Nothing
    BY <2>1, <2>2 DEF OpenedBy
  <2>3. CASE place[r] \in {"copy", "unlinkSem", "unlinkMem"} /\ has[r].mem # Rec!Nothing
    <3> DEFINE m == has[r].mem
    <3>1. m \in Writers /\ has[r].sem \in guards[m] /\ guards[m] \subseteq Writers
      BY <2>1, <2>3 DEF OpenedBy, Rec!Objects
    <3>2. IsFiniteSet(guards[m]) BY <3>1, FS_Subset, RecordAssumption
    <3>3. Rec!Cardinality(guards[m]) = Cardinality(guards[m])
      BY DEF Rec!Cardinality, Cardinality
    <3>4. PICK s : guards[m] = {s} BY <3>2, <3>3, FS_Singleton
    <3>5. s = has[r].sem /\ s \in Writers BY <3>1, <3>4
    <3>6. CASE place[r] = "copy"
      <4>1. InHand(r, m) BY <2>1, <3>1, <3>4, <3>5, <3>6 DEF Kept
      <4> QED BY <2>1, <4>1 DEF InHand, Whole, Rec!Records
    <3>7. CASE place[r] # "copy" BY <2>3, <3>4, <3>5, <3>7 DEF FoundWhole
    <3> QED BY <3>6, <3>7
  <2> QED BY <2>2, <2>3
<1> QED BY <1>1, RecInitIInv, RecStepIInv, PTL DEF Rec!RecordSpec
-----------------------------------------------------------------------------
(* MessageCounter: the types, and which generation is whose. *)
MsgTyped ==
  /\ made \in 0 .. MaxProducers /\ prodStarts \in 0 .. MaxProducers /\ made <= prodStarts
  /\ names \in {0, made}
  /\ full \in [Msg!Generations -> Nat] /\ empty \in [Msg!Generations -> Nat]
  /\ semMutex \in [Msg!Generations -> Nat] /\ numMessages \in [Msg!Generations -> Int]
  /\ prod \in [at : {"off", "init", "waitEmpty", "waitMutex", "read", "write",
                     "postMutex", "postFull"},
               gen : 0 .. MaxProducers, read : Int]
  /\ prod.at # "off" => prod.gen = made /\ made > 0
  /\ cons \in [at : {"off", "open", "waitFull", "waitMutex", "read", "write",
                     "postMutex", "postEmpty"},
               opened : Seq(1 .. made), read : Int]
  /\ cons.at \notin {"off", "open"} => Len(cons.opened) = 4
  /\ ~mixed => \A i \in 1 .. Len(cons.opened) : cons.opened[i] = cons.opened[1]

(* The producer, or the consumer, is at one of these places with the objects of
   generation g. *)
ProdIn(g, S) == IF prod.at \in S /\ prod.gen = g THEN 1 ELSE 0
ConsIn(g, S) == IF cons.at \in S /\ cons.opened[1] = g THEN 1 ELSE 0

(* Messages added and not yet posted, places taken and not yet filled, and the
   producer's hold of the mutex; then the same of the consumer. *)
Added(g)        == ProdIn(g, {"postMutex", "postFull"})
PlaceTaken(g)   == ProdIn(g, {"waitMutex", "read", "write"})
ProducerHas(g)  == ProdIn(g, {"read", "write", "postMutex"})
MessageTaken(g) == ConsIn(g, {"waitMutex", "read", "write"})
Removed(g)      == ConsIn(g, {"postMutex", "postEmpty"})
ConsumerHas(g)  == ConsIn(g, {"read", "write", "postMutex"})

(* numMessages counts every unit of full and every message under way, and
   leaves room for every unit of empty: the deaths of producers and consumers
   lose units, they make none. *)
Balanced(g) ==
  /\ numMessages[g] >= (full[g] + Added(g)) + MessageTaken(g)
  /\ MSG_COUNT >= ((numMessages[g] + empty[g]) + PlaceTaken(g)) + Removed(g)
  /\ (semMutex[g] + ProducerHas(g)) + ConsumerHas(g) <= 1

(* What was read under the mutex is still so; a generation not yet used is as
   it was made. *)
Current(g) ==
  /\ (prod.at = "write" /\ prod.gen = g) => prod.read = numMessages[g]
  /\ (cons.at = "write" /\ cons.opened[1] = g) => cons.read = numMessages[g]
  /\ (g > made \/ (prod.at = "init" /\ prod.gen = g)) =>
       full[g] = 0 /\ empty[g] = MSG_COUNT /\ numMessages[g] = 0

Counted(g) == Balanced(g) /\ Current(g)

MsgIInv == MsgTyped /\ (~reused /\ ~mixed => \A g \in Msg!Generations : Counted(g))

(* It holds at first. *)
LEMMA MsgInitIInv == Msg!MsgInit => MsgIInv
<1> SUFFICES ASSUME Msg!MsgInit PROVE MsgIInv OBVIOUS
<1> USE MessageAssumption
    DEF Msg!MsgInit, Msg!NoProducer, Msg!NoConsumer
<1>1. MsgTyped BY DEF MsgTyped
<1>2. \A g \in Msg!Generations : Counted(g)
  BY DEF Counted, Balanced, Current, Added, PlaceTaken, ProducerHas, MessageTaken,
         Removed, ConsumerHas, ProdIn, ConsIn, Msg!Generations
<1> QED BY <1>1, <1>2 DEF MsgIInv

(* A step of the producer at the semaphores and the memory of its own
   generation. *)
LEMMA ProducerTyped ==
  ASSUME MsgTyped, prod.at # "off",
         NEW to \in {"waitEmpty", "waitMutex", "read", "write", "postMutex", "postFull"},
         NEW r \in Int, prod' = [prod EXCEPT !.at = to, !.read = r],
         UNCHANGED <<names, made, cons, prodStarts, mixed>>,
         full' \in [Msg!Generations -> Nat], empty' \in [Msg!Generations -> Nat],
         semMutex' \in [Msg!Generations -> Nat], numMessages' \in [Msg!Generations -> Int]
  PROVE  MsgTyped'
<1>1. prod' \in [at : {"off", "init", "waitEmpty", "waitMutex", "read", "write",
                       "postMutex", "postFull"},
                 gen : 0 .. MaxProducers, read : Int]
  BY DEF MsgTyped
<1>2. prod'.gen = prod.gen BY DEF MsgTyped
<1> QED BY <1>1, <1>2 DEF MsgTyped

(* A consumer's step over the same objects keeps the types. *)
LEMMA ConsumerTyped ==
  ASSUME MsgTyped, cons.at \notin {"off", "open"},
         NEW to \in {"waitFull", "waitMutex", "read", "write", "postMutex", "postEmpty"},
         NEW r \in Int, cons' = [cons EXCEPT !.at = to, !.read = r],
         UNCHANGED <<names, made, prod, prodStarts, mixed>>,
         full' \in [Msg!Generations -> Nat], empty' \in [Msg!Generations -> Nat],
         semMutex' \in [Msg!Generations -> Nat], numMessages' \in [Msg!Generations -> Int]
  PROVE  MsgTyped'
<1>1. /\ cons' \in [at : {"off", "open", "waitFull", "waitMutex", "read", "write",
                          "postMutex", "postEmpty"},
                    opened : Seq(1 .. made), read : Int]
      /\ cons'.opened = cons.opened
  BY DEF MsgTyped
<1> QED BY <1>1 DEF MsgTyped

(* What the consumer has opened. *)
LEMMA ConsumerOpened ==
  ASSUME MsgTyped, cons.at \notin {"off", "open"}
  PROVE  /\ \A i \in 1 .. 4 : cons.opened[i] \in Msg!Generations
         /\ ~mixed => \A i \in 1 .. 4 : cons.opened[i] = cons.opened[1]
<1>1. cons.opened \in Seq(1 .. made) /\ Len(cons.opened) = 4 BY DEF MsgTyped
<1>2. \A i \in 1 .. 4 : cons.opened[i] \in 1 .. made
  <2> DEFINE S == 1 .. made  q == cons.opened
  <2>1. q \in Seq(S) /\ Len(q) = 4 BY <1>1
  <2> HIDE DEF S, q
  <2>2. \A i \in 1 .. Len(q) : q[i] \in S BY <2>1
  <2> QED BY <2>1, <2>2 DEF S, q
<1>3. 1 .. made \subseteq Msg!Generations
  <2>1. made \in 0 .. MaxProducers /\ MaxProducers \in Nat
    BY MessageAssumption DEF MsgTyped
  <2> QED BY <2>1 DEF Msg!Generations
<1>4. ~mixed => \A i \in 1 .. 4 : cons.opened[i] = cons.opened[1] BY <1>1 DEF MsgTyped
<1> QED BY <1>2, <1>3, <1>4

(* Waiting for a semaphore and posting one. *)
LEMMA Semaphores ==
  ASSUME NEW sem \in [Msg!Generations -> Nat], NEW sem2, NEW g \in Msg!Generations
  PROVE  /\ (sem[g] > 0 /\ sem2 = [sem EXCEPT ![g] = @ - 1]) =>
              /\ sem2 \in [Msg!Generations -> Nat] /\ sem2[g] = sem[g] - 1
              /\ \A h \in Msg!Generations \ {g} : sem2[h] = sem[h]
         /\ sem2 = [sem EXCEPT ![g] = @ + 1] =>
              /\ sem2 \in [Msg!Generations -> Nat] /\ sem2[g] = sem[g] + 1
              /\ \A h \in Msg!Generations \ {g} : sem2[h] = sem[h]
  OBVIOUS

(* The values at a generation are numbers. *)
LEMMA MsgNumbers ==
  ASSUME MsgTyped, NEW g \in Msg!Generations
  PROVE  /\ full[g] \in Nat /\ empty[g] \in Nat /\ semMutex[g] \in Nat
         /\ numMessages[g] \in Int
         /\ made \in Int /\ g \in Int /\ MSG_COUNT \in Nat
<1>1. /\ full \in [Msg!Generations -> Nat] /\ empty \in [Msg!Generations -> Nat]
      /\ semMutex \in [Msg!Generations -> Nat] /\ numMessages \in [Msg!Generations -> Int]
  BY DEF MsgTyped
<1>2. made \in Int
  <2>1. made \in 0 .. MaxProducers BY DEF MsgTyped
  <2> QED BY <2>1, MessageAssumption
<1>3. g \in Int BY MessageAssumption DEF Msg!Generations
<1> QED BY <1>1, <1>2, <1>3, MessageAssumption

(* A producer changes nothing of the other generations. *)
LEMMA OtherThanProducers ==
  ASSUME NEW g, Counted(g), prod.gen # g, prod'.gen # g, UNCHANGED <<made, cons>>,
         full'[g] = full[g], empty'[g] = empty[g], semMutex'[g] = semMutex[g],
         numMessages'[g] = numMessages[g]
  PROVE  Counted(g)'
<1>1. UNCHANGED <<Added(g), PlaceTaken(g), ProducerHas(g), MessageTaken(g), Removed(g),
                  ConsumerHas(g)>>
  BY DEF Added, PlaceTaken, ProducerHas, MessageTaken, Removed, ConsumerHas, ProdIn, ConsIn
<1>2. Balanced(g)' BY <1>1 DEF Counted, Balanced
<1>3. Current(g)' BY DEF Counted, Current
<1> QED BY <1>2, <1>3 DEF Counted

(* A producer's step at its own generation. *)
LEMMA AtProducers ==
  ASSUME MsgTyped, NEW k \in Msg!Generations, k = prod.gen, k = prod'.gen,
         Balanced(k), UNCHANGED <<made, cons>>,
         full'[k] \in Int, empty'[k] \in Int, semMutex'[k] \in Int,
         numMessages'[k] \in Int,
         numMessages'[k] - (full'[k] + Added(k)') >= numMessages[k] - (full[k] + Added(k)),
         (numMessages'[k] + empty'[k]) + PlaceTaken(k)'
           <= (numMessages[k] + empty[k]) + PlaceTaken(k),
         semMutex'[k] + ProducerHas(k)' <= semMutex[k] + ProducerHas(k)
  PROVE  Balanced(k)'
<1>1. UNCHANGED <<MessageTaken(k), Removed(k), ConsumerHas(k)>>
  BY DEF MessageTaken, Removed, ConsumerHas, ConsIn
<1>2. /\ Added(k) \in Int /\ PlaceTaken(k) \in Int /\ ProducerHas(k) \in Int
      /\ Added(k)' \in Int /\ PlaceTaken(k)' \in Int /\ ProducerHas(k)' \in Int
  <2>1. Added(k) \in Int /\ PlaceTaken(k) \in Int /\ ProducerHas(k) \in Int
    BY DEF Added, PlaceTaken, ProducerHas, ProdIn
  <2>2. Added(k)' \in Int /\ PlaceTaken(k)' \in Int /\ ProducerHas(k)' \in Int
    BY DEF Added, PlaceTaken, ProducerHas, ProdIn
  <2> QED BY <2>1, <2>2
<1>3. MessageTaken(k) \in Int /\ Removed(k) \in Int /\ ConsumerHas(k) \in Int
  BY DEF MessageTaken, Removed, ConsumerHas, ConsIn
<1>4. /\ full[k] \in Int /\ empty[k] \in Int /\ semMutex[k] \in Int
      /\ numMessages[k] \in Int /\ MSG_COUNT \in Int
  BY MsgNumbers
<1> QED BY <1>1, <1>2, <1>4, <1>3 DEF Balanced

(* A step of the producer keeps the invariant if it does so at its own
   generation. *)
LEMMA ProducerKeeps ==
  ASSUME MsgIInv, prod.at # "off",
         NEW to \in {"waitEmpty", "waitMutex", "read", "write", "postMutex", "postFull"},
         NEW r \in Int, prod' = [prod EXCEPT !.at = to, !.read = r],
         UNCHANGED <<names, made, cons, prodStarts, reused, mixed>>,
         full' \in [Msg!Generations -> Nat], empty' \in [Msg!Generations -> Nat],
         semMutex' \in [Msg!Generations -> Nat], numMessages' \in [Msg!Generations -> Int],
         \A g \in Msg!Generations \ {prod.gen} :
           /\ full'[g] = full[g] /\ empty'[g] = empty[g] /\ semMutex'[g] = semMutex[g]
           /\ numMessages'[g] = numMessages[g],
         NEW k, k = prod.gen, Counted(k) => Counted(k)'
  PROVE  MsgIInv'
<1>1. MsgTyped BY DEF MsgIInv
<1>2. MsgTyped' BY <1>1, ProducerTyped
<1>3. prod'.gen = prod.gen BY <1>1 DEF MsgTyped
<1>4. ASSUME NEW g \in Msg!Generations, Counted(g) PROVE Counted(g)'
  <2>1. CASE g = k BY <1>4, <2>1
  <2>2. CASE g # k BY <1>3, <1>4, <2>2, OtherThanProducers
  <2> QED BY <2>1, <2>2
<1> QED BY <1>2, <1>4 DEF MsgIInv

(* Where the producer is. *)
LEMMA ProducersOwn ==
  ASSUME MsgTyped, prod.at # "off"
  PROVE  /\ prod.gen \in Msg!Generations /\ prod.gen = made /\ prod.read \in Int
         /\ ~(prod.gen > made)
         /\ full \in [Msg!Generations -> Nat] /\ empty \in [Msg!Generations -> Nat]
         /\ semMutex \in [Msg!Generations -> Nat] /\ numMessages \in [Msg!Generations -> Int]
         /\ prod = [at |-> prod.at, gen |-> prod.gen, read |-> prod.read]
<1>1. prod.gen = made /\ made > 0 /\ prod.read \in Int BY DEF MsgTyped
<1>2. made \in 0 .. MaxProducers BY DEF MsgTyped
<1>3. prod.gen \in Msg!Generations BY <1>1, <1>2, MessageAssumption DEF Msg!Generations
<1>4. prod = [at |-> prod.at, gen |-> prod.gen, read |-> prod.read] BY DEF MsgTyped
<1>5. ~(prod.gen > made)
  <2>1. made \in Int BY <1>2, MessageAssumption
  <2> QED BY <1>1, <2>1
<1> QED BY <1>1, <1>3, <1>4, <1>5 DEF MsgTyped

(* The memory of a generation just made is zero already. *)
LEMMA ResetMessagesStep == MsgIInv /\ Msg!ResetMessages => MsgIInv'
<1> SUFFICES ASSUME MsgIInv, Msg!ResetMessages PROVE MsgIInv' OBVIOUS
<1> DEFINE k == prod.gen
<1>1. /\ prod.at = "init" /\ prod' = [prod EXCEPT !.at = "waitEmpty"]
      /\ UNCHANGED <<full, empty, semMutex>>
      /\ UNCHANGED <<names, made, cons, prodStarts, consStarts, reused, mixed>>
  BY DEF Msg!ResetMessages, Msg!ProducerStep
<1>2. numMessages' = [numMessages EXCEPT ![k] = 0]
  BY DEF Msg!ResetMessages
<1>3. MsgTyped /\ prod.at \notin {"off"} BY <1>1 DEF MsgIInv
<1>4. /\ k \in Msg!Generations /\ ~(k > made) /\ prod.read \in Int
      /\ prod = [at |-> prod.at, gen |-> prod.gen, read |-> prod.read]
  BY <1>3, ProducersOwn
<1>5. /\ prod' = [prod EXCEPT !.at = "waitEmpty", !.read = prod.read]
      /\ prod'.at = "waitEmpty" /\ prod'.gen = prod.gen /\ prod'.read = prod.read
  BY <1>1, <1>4
<1>6. /\ full \in [Msg!Generations -> Nat] /\ empty \in [Msg!Generations -> Nat]
      /\ semMutex \in [Msg!Generations -> Nat] /\ numMessages \in [Msg!Generations -> Int]
  BY <1>3 DEF MsgTyped
<1>7. /\ numMessages' \in [Msg!Generations -> Int] /\ numMessages'[k] = 0
      /\ \A h \in Msg!Generations \ {k} : numMessages'[h] = numMessages[h]
  <2>1. k \in Msg!Generations BY <1>4
  <2>2. 0 \in Int BY <1>4
  <2> DEFINE e == 0
  <2>3. e \in Int /\ numMessages' = [numMessages EXCEPT ![k] = e] BY <1>2, <2>2
  <2>4. numMessages'[k] = e /\ e = 0 BY <1>6, <2>1, <2>3
  <2> HIDE DEF k, e
  <2> QED BY <1>6, <2>1, <2>3, <2>4
<1>8. /\ Added(k) = 0 /\ Added(k)' = 0
      /\ PlaceTaken(k) = 0 /\ PlaceTaken(k)' = 0
      /\ ProducerHas(k) = 0 /\ ProducerHas(k)' = 0
  BY <1>1, <1>4, <1>5 DEF Added, PlaceTaken, ProducerHas, ProdIn
<1>9. ASSUME Counted(k) PROVE Counted(k)'
  <2>1. /\ full[k] \in Nat /\ empty[k] \in Nat /\ semMutex[k] \in Nat
        /\ numMessages[k] \in Int /\ MSG_COUNT \in Nat
    BY <1>3, <1>4, MsgNumbers
  <2>2. /\ numMessages'[k] = 0 /\ full'[k] = full[k]
        /\ empty'[k] = empty[k] /\ semMutex'[k] = semMutex[k]
    BY <1>1, <1>2, <1>4, <1>7, <1>9
  <2>3. numMessages[k] = 0 BY <1>1, <1>9 DEF Counted, Current
  <2>4. Balanced(k)'
    <3>1. /\ numMessages'[k] - (full'[k] + Added(k)') >= numMessages[k] - (full[k] + Added(k))
          /\ (numMessages'[k] + empty'[k]) + PlaceTaken(k)'
               <= (numMessages[k] + empty[k]) + PlaceTaken(k)
          /\ semMutex'[k] + ProducerHas(k)' <= semMutex[k] + ProducerHas(k)
          /\ full'[k] \in Int /\ empty'[k] \in Int /\ semMutex'[k] \in Int
          /\ numMessages'[k] \in Int
      <4> HIDE DEF k
      <4> QED BY <1>4, <1>8, <2>1, <2>2, <2>3
    <3>2. k = prod'.gen /\ UNCHANGED <<made, cons>> /\ Balanced(k)
      BY <1>1, <1>5, <1>9 DEF Counted
    <3> QED BY <1>3, <1>4, <1>5, <3>1, <3>2, AtProducers
  <2>5. Current(k)'
    BY <1>1, <1>4, <1>5, <1>9, <2>2, <2>3 DEF Counted, Current
  <2> QED BY <2>4, <2>5 DEF Counted
<1> HIDE DEF k
<1>10. \A g \in Msg!Generations \ {k} :
           /\ full'[g] = full[g] /\ empty'[g] = empty[g] /\ semMutex'[g] = semMutex[g]
           /\ numMessages'[g] = numMessages[g]
  BY <1>1, <1>4, <1>7
<1>11. /\ full' \in [Msg!Generations -> Nat] /\ empty' \in [Msg!Generations -> Nat]
       /\ semMutex' \in [Msg!Generations -> Nat] /\ numMessages' \in [Msg!Generations -> Int]
  BY <1>1, <1>6, <1>7
<1> QED BY <1>1, <1>3, <1>4, <1>5, <1>9, <1>10, <1>11, ProducerKeeps DEF k

(* A unit of empty becomes a place taken. *)
LEMMA WaitEmptyStep == MsgIInv /\ Msg!WaitEmpty => MsgIInv'
<1> SUFFICES ASSUME MsgIInv, Msg!WaitEmpty PROVE MsgIInv' OBVIOUS
<1> DEFINE k == prod.gen
<1>1. /\ prod.at = "waitEmpty" /\ prod' = [prod EXCEPT !.at = "waitMutex"]
      /\ UNCHANGED <<full, semMutex, numMessages>>
      /\ UNCHANGED <<names, made, cons, prodStarts, consStarts, reused, mixed>>
  BY DEF Msg!WaitEmpty, Msg!ProducerStep
<1>2. empty[k] > 0 /\ empty' = [empty EXCEPT ![k] = @ - 1]
  BY DEF Msg!WaitEmpty, Msg!sem_wait
<1>3. MsgTyped /\ prod.at \notin {"off"} BY <1>1 DEF MsgIInv
<1>4. /\ k \in Msg!Generations /\ ~(k > made) /\ prod.read \in Int
      /\ prod = [at |-> prod.at, gen |-> prod.gen, read |-> prod.read]
  BY <1>3, ProducersOwn
<1>5. /\ prod' = [prod EXCEPT !.at = "waitMutex", !.read = prod.read]
      /\ prod'.at = "waitMutex" /\ prod'.gen = prod.gen /\ prod'.read = prod.read
  BY <1>1, <1>4
<1>6. /\ full \in [Msg!Generations -> Nat] /\ empty \in [Msg!Generations -> Nat]
      /\ semMutex \in [Msg!Generations -> Nat] /\ numMessages \in [Msg!Generations -> Int]
  BY <1>3 DEF MsgTyped
<1>7. /\ empty' \in [Msg!Generations -> Nat] /\ empty'[k] = empty[k] - 1
      /\ \A h \in Msg!Generations \ {k} : empty'[h] = empty[h]
  <2>1. k \in Msg!Generations BY <1>4
  <2> HIDE DEF k
  <2> QED BY <1>2, <1>6, <2>1, Semaphores
<1>8. /\ Added(k) = 0 /\ Added(k)' = 0
      /\ PlaceTaken(k) = 0 /\ PlaceTaken(k)' = 1
      /\ ProducerHas(k) = 0 /\ ProducerHas(k)' = 0
  BY <1>1, <1>4, <1>5 DEF Added, PlaceTaken, ProducerHas, ProdIn
<1>9. ASSUME Counted(k) PROVE Counted(k)'
  <2>1. /\ full[k] \in Nat /\ empty[k] \in Nat /\ semMutex[k] \in Nat
        /\ numMessages[k] \in Int /\ MSG_COUNT \in Nat
    BY <1>3, <1>4, MsgNumbers
  <2>2. /\ empty'[k] = empty[k] - 1 /\ full'[k] = full[k]
        /\ semMutex'[k] = semMutex[k] /\ numMessages'[k] = numMessages[k] /\ empty[k] > 0
    BY <1>1, <1>2, <1>4, <1>7, <1>9
  <2>3. Balanced(k)'
    <3>1. /\ numMessages'[k] - (full'[k] + Added(k)') >= numMessages[k] - (full[k] + Added(k))
          /\ (numMessages'[k] + empty'[k]) + PlaceTaken(k)'
               <= (numMessages[k] + empty[k]) + PlaceTaken(k)
          /\ semMutex'[k] + ProducerHas(k)' <= semMutex[k] + ProducerHas(k)
          /\ full'[k] \in Int /\ empty'[k] \in Int /\ semMutex'[k] \in Int
          /\ numMessages'[k] \in Int
      <4> HIDE DEF k
      <4> QED BY <1>8, <2>1, <2>2
    <3>2. k = prod'.gen /\ UNCHANGED <<made, cons>> /\ Balanced(k)
      BY <1>1, <1>5, <1>9 DEF Counted
    <3> QED BY <1>3, <1>4, <1>5, <3>1, <3>2, AtProducers
  <2>4. Current(k)'
    BY <1>1, <1>4, <1>5, <1>9, <2>2 DEF Counted, Current
  <2> QED BY <2>3, <2>4 DEF Counted
<1> HIDE DEF k
<1>10. \A g \in Msg!Generations \ {k} :
           /\ full'[g] = full[g] /\ empty'[g] = empty[g] /\ semMutex'[g] = semMutex[g]
           /\ numMessages'[g] = numMessages[g]
  BY <1>1, <1>4, <1>7
<1>11. /\ full' \in [Msg!Generations -> Nat] /\ empty' \in [Msg!Generations -> Nat]
       /\ semMutex' \in [Msg!Generations -> Nat] /\ numMessages' \in [Msg!Generations -> Int]
  BY <1>1, <1>6, <1>7
<1> QED BY <1>1, <1>3, <1>4, <1>5, <1>9, <1>10, <1>11, ProducerKeeps DEF k

(* The unit of the mutex goes to the producer. *)
LEMMA ProducerLocksStep == MsgIInv /\ Msg!ProducerLocks => MsgIInv'
<1> SUFFICES ASSUME MsgIInv, Msg!ProducerLocks PROVE MsgIInv' OBVIOUS
<1> DEFINE k == prod.gen
<1>1. /\ prod.at = "waitMutex" /\ prod' = [prod EXCEPT !.at = "read"]
      /\ UNCHANGED <<full, empty, numMessages>>
      /\ UNCHANGED <<names, made, cons, prodStarts, consStarts, reused, mixed>>
  BY DEF Msg!ProducerLocks, Msg!ProducerStep
<1>2. semMutex[k] > 0 /\ semMutex' = [semMutex EXCEPT ![k] = @ - 1]
  BY DEF Msg!ProducerLocks, Msg!sem_wait
<1>3. MsgTyped /\ prod.at \notin {"off"} BY <1>1 DEF MsgIInv
<1>4. /\ k \in Msg!Generations /\ ~(k > made) /\ prod.read \in Int
      /\ prod = [at |-> prod.at, gen |-> prod.gen, read |-> prod.read]
  BY <1>3, ProducersOwn
<1>5. /\ prod' = [prod EXCEPT !.at = "read", !.read = prod.read]
      /\ prod'.at = "read" /\ prod'.gen = prod.gen /\ prod'.read = prod.read
  BY <1>1, <1>4
<1>6. /\ full \in [Msg!Generations -> Nat] /\ empty \in [Msg!Generations -> Nat]
      /\ semMutex \in [Msg!Generations -> Nat] /\ numMessages \in [Msg!Generations -> Int]
  BY <1>3 DEF MsgTyped
<1>7. /\ semMutex' \in [Msg!Generations -> Nat] /\ semMutex'[k] = semMutex[k] - 1
      /\ \A h \in Msg!Generations \ {k} : semMutex'[h] = semMutex[h]
  <2>1. k \in Msg!Generations BY <1>4
  <2> HIDE DEF k
  <2> QED BY <1>2, <1>6, <2>1, Semaphores
<1>8. /\ Added(k) = 0 /\ Added(k)' = 0
      /\ PlaceTaken(k) = 1 /\ PlaceTaken(k)' = 1
      /\ ProducerHas(k) = 0 /\ ProducerHas(k)' = 1
  BY <1>1, <1>4, <1>5 DEF Added, PlaceTaken, ProducerHas, ProdIn
<1>9. ASSUME Counted(k) PROVE Counted(k)'
  <2>1. /\ full[k] \in Nat /\ empty[k] \in Nat /\ semMutex[k] \in Nat
        /\ numMessages[k] \in Int /\ MSG_COUNT \in Nat
    BY <1>3, <1>4, MsgNumbers
  <2>2. /\ semMutex'[k] = semMutex[k] - 1 /\ full'[k] = full[k]
        /\ empty'[k] = empty[k] /\ numMessages'[k] = numMessages[k] /\ semMutex[k] > 0
    BY <1>1, <1>2, <1>4, <1>7, <1>9
  <2>3. Balanced(k)'
    <3>1. /\ numMessages'[k] - (full'[k] + Added(k)') >= numMessages[k] - (full[k] + Added(k))
          /\ (numMessages'[k] + empty'[k]) + PlaceTaken(k)'
               <= (numMessages[k] + empty[k]) + PlaceTaken(k)
          /\ semMutex'[k] + ProducerHas(k)' <= semMutex[k] + ProducerHas(k)
          /\ full'[k] \in Int /\ empty'[k] \in Int /\ semMutex'[k] \in Int
          /\ numMessages'[k] \in Int
      <4> HIDE DEF k
      <4> QED BY <1>8, <2>1, <2>2
    <3>2. k = prod'.gen /\ UNCHANGED <<made, cons>> /\ Balanced(k)
      BY <1>1, <1>5, <1>9 DEF Counted
    <3> QED BY <1>3, <1>4, <1>5, <3>1, <3>2, AtProducers
  <2>4. Current(k)'
    BY <1>1, <1>4, <1>5, <1>9, <2>2 DEF Counted, Current
  <2> QED BY <2>3, <2>4 DEF Counted
<1> HIDE DEF k
<1>10. \A g \in Msg!Generations \ {k} :
           /\ full'[g] = full[g] /\ empty'[g] = empty[g] /\ semMutex'[g] = semMutex[g]
           /\ numMessages'[g] = numMessages[g]
  BY <1>1, <1>4, <1>7
<1>11. /\ full' \in [Msg!Generations -> Nat] /\ empty' \in [Msg!Generations -> Nat]
       /\ semMutex' \in [Msg!Generations -> Nat] /\ numMessages' \in [Msg!Generations -> Int]
  BY <1>1, <1>6, <1>7
<1> QED BY <1>1, <1>3, <1>4, <1>5, <1>9, <1>10, <1>11, ProducerKeeps DEF k

(* The place taken becomes a message: nobody has written since the producer
   read, because the consumer is not in its critical section. *)
LEMMA IncreaseStep == MsgIInv /\ Msg!Increase => MsgIInv'
<1> SUFFICES ASSUME MsgIInv, Msg!Increase PROVE MsgIInv' OBVIOUS
<1> DEFINE k == prod.gen
<1>1. /\ prod.at = "write" /\ prod' = [prod EXCEPT !.at = "postMutex"]
      /\ UNCHANGED <<full, empty, semMutex>>
      /\ UNCHANGED <<names, made, cons, prodStarts, consStarts, reused, mixed>>
  BY DEF Msg!Increase, Msg!ProducerStep
<1>2. numMessages' = [numMessages EXCEPT ![k] = prod.read + 1]
  BY DEF Msg!Increase
<1>3. MsgTyped /\ prod.at \notin {"off"} BY <1>1 DEF MsgIInv
<1>4. /\ k \in Msg!Generations /\ ~(k > made) /\ prod.read \in Int
      /\ prod = [at |-> prod.at, gen |-> prod.gen, read |-> prod.read]
  BY <1>3, ProducersOwn
<1>5. /\ prod' = [prod EXCEPT !.at = "postMutex", !.read = prod.read]
      /\ prod'.at = "postMutex" /\ prod'.gen = prod.gen /\ prod'.read = prod.read
  BY <1>1, <1>4
<1>6. /\ full \in [Msg!Generations -> Nat] /\ empty \in [Msg!Generations -> Nat]
      /\ semMutex \in [Msg!Generations -> Nat] /\ numMessages \in [Msg!Generations -> Int]
  BY <1>3 DEF MsgTyped
<1>7. /\ numMessages' \in [Msg!Generations -> Int] /\ numMessages'[k] = prod.read + 1
      /\ \A h \in Msg!Generations \ {k} : numMessages'[h] = numMessages[h]
  <2>1. k \in Msg!Generations BY <1>4
  <2>2. prod.read \in Int BY <1>4
  <2> DEFINE e == prod.read + 1
  <2>3. e \in Int /\ numMessages' = [numMessages EXCEPT ![k] = e] BY <1>2, <2>2
  <2>4. numMessages'[k] = e /\ e = prod.read + 1 BY <1>6, <2>1, <2>3
  <2> HIDE DEF k, e
  <2> QED BY <1>6, <2>1, <2>3, <2>4
<1>8. /\ Added(k) = 0 /\ Added(k)' = 1
      /\ PlaceTaken(k) = 1 /\ PlaceTaken(k)' = 0
      /\ ProducerHas(k) = 1 /\ ProducerHas(k)' = 1
  BY <1>1, <1>4, <1>5 DEF Added, PlaceTaken, ProducerHas, ProdIn
<1>9. ASSUME Counted(k) PROVE Counted(k)'
  <2>1. /\ full[k] \in Nat /\ empty[k] \in Nat /\ semMutex[k] \in Nat
        /\ numMessages[k] \in Int /\ MSG_COUNT \in Nat
    BY <1>3, <1>4, MsgNumbers
  <2>2. /\ numMessages'[k] = prod.read + 1 /\ full'[k] = full[k]
        /\ empty'[k] = empty[k] /\ semMutex'[k] = semMutex[k]
    BY <1>1, <1>2, <1>4, <1>7, <1>9
  <2>3. prod.read = numMessages[k] BY <1>1, <1>9 DEF Counted, Current
  <2>4. ~(cons.at = "write" /\ cons.opened[1] = k)
    <3> SUFFICES ASSUME cons.at = "write", cons.opened[1] = k PROVE FALSE OBVIOUS
    <3>1. ConsumerHas(k) = 1 BY DEF ConsumerHas, ConsIn
    <3>2. (semMutex[k] + ProducerHas(k)) + ConsumerHas(k) <= 1 BY <1>9 DEF Counted, Balanced
    <3> HIDE DEF k
    <3> QED BY <1>8, <2>1, <3>1, <3>2
  <2>5. Balanced(k)'
    <3>1. /\ numMessages'[k] - (full'[k] + Added(k)') >= numMessages[k] - (full[k] + Added(k))
          /\ (numMessages'[k] + empty'[k]) + PlaceTaken(k)'
               <= (numMessages[k] + empty[k]) + PlaceTaken(k)
          /\ semMutex'[k] + ProducerHas(k)' <= semMutex[k] + ProducerHas(k)
          /\ full'[k] \in Int /\ empty'[k] \in Int /\ semMutex'[k] \in Int
          /\ numMessages'[k] \in Int
      <4> HIDE DEF k
      <4> QED BY <1>4, <1>8, <2>1, <2>2, <2>3
    <3>2. k = prod'.gen /\ UNCHANGED <<made, cons>> /\ Balanced(k)
      BY <1>1, <1>5, <1>9 DEF Counted
    <3> QED BY <1>3, <1>4, <1>5, <3>1, <3>2, AtProducers
  <2>6. Current(k)'
    BY <1>1, <1>4, <1>5, <1>9, <2>2, <2>3, <2>4 DEF Counted, Current
  <2> QED BY <2>5, <2>6 DEF Counted
<1> HIDE DEF k
<1>10. \A g \in Msg!Generations \ {k} :
           /\ full'[g] = full[g] /\ empty'[g] = empty[g] /\ semMutex'[g] = semMutex[g]
           /\ numMessages'[g] = numMessages[g]
  BY <1>1, <1>4, <1>7
<1>11. /\ full' \in [Msg!Generations -> Nat] /\ empty' \in [Msg!Generations -> Nat]
       /\ semMutex' \in [Msg!Generations -> Nat] /\ numMessages' \in [Msg!Generations -> Int]
  BY <1>1, <1>6, <1>7
<1> QED BY <1>1, <1>3, <1>4, <1>5, <1>9, <1>10, <1>11, ProducerKeeps DEF k

(* The producer's hold of the mutex becomes a unit. *)
LEMMA ProducerUnlocksStep == MsgIInv /\ Msg!ProducerUnlocks => MsgIInv'
<1> SUFFICES ASSUME MsgIInv, Msg!ProducerUnlocks PROVE MsgIInv' OBVIOUS
<1> DEFINE k == prod.gen
<1>1. /\ prod.at = "postMutex" /\ prod' = [prod EXCEPT !.at = "postFull"]
      /\ UNCHANGED <<full, empty, numMessages>>
      /\ UNCHANGED <<names, made, cons, prodStarts, consStarts, reused, mixed>>
  BY DEF Msg!ProducerUnlocks, Msg!ProducerStep
<1>2. semMutex' = [semMutex EXCEPT ![k] = @ + 1]
  BY DEF Msg!ProducerUnlocks, Msg!sem_post
<1>3. MsgTyped /\ prod.at \notin {"off"} BY <1>1 DEF MsgIInv
<1>4. /\ k \in Msg!Generations /\ ~(k > made) /\ prod.read \in Int
      /\ prod = [at |-> prod.at, gen |-> prod.gen, read |-> prod.read]
  BY <1>3, ProducersOwn
<1>5. /\ prod' = [prod EXCEPT !.at = "postFull", !.read = prod.read]
      /\ prod'.at = "postFull" /\ prod'.gen = prod.gen /\ prod'.read = prod.read
  BY <1>1, <1>4
<1>6. /\ full \in [Msg!Generations -> Nat] /\ empty \in [Msg!Generations -> Nat]
      /\ semMutex \in [Msg!Generations -> Nat] /\ numMessages \in [Msg!Generations -> Int]
  BY <1>3 DEF MsgTyped
<1>7. /\ semMutex' \in [Msg!Generations -> Nat] /\ semMutex'[k] = semMutex[k] + 1
      /\ \A h \in Msg!Generations \ {k} : semMutex'[h] = semMutex[h]
  <2>1. k \in Msg!Generations BY <1>4
  <2> HIDE DEF k
  <2> QED BY <1>2, <1>6, <2>1, Semaphores
<1>8. /\ Added(k) = 1 /\ Added(k)' = 1
      /\ PlaceTaken(k) = 0 /\ PlaceTaken(k)' = 0
      /\ ProducerHas(k) = 1 /\ ProducerHas(k)' = 0
  BY <1>1, <1>4, <1>5 DEF Added, PlaceTaken, ProducerHas, ProdIn
<1>9. ASSUME Counted(k) PROVE Counted(k)'
  <2>1. /\ full[k] \in Nat /\ empty[k] \in Nat /\ semMutex[k] \in Nat
        /\ numMessages[k] \in Int /\ MSG_COUNT \in Nat
    BY <1>3, <1>4, MsgNumbers
  <2>2. /\ semMutex'[k] = semMutex[k] + 1 /\ full'[k] = full[k]
        /\ empty'[k] = empty[k] /\ numMessages'[k] = numMessages[k]
    BY <1>1, <1>2, <1>4, <1>7, <1>9
  <2>3. Balanced(k)'
    <3>1. /\ numMessages'[k] - (full'[k] + Added(k)') >= numMessages[k] - (full[k] + Added(k))
          /\ (numMessages'[k] + empty'[k]) + PlaceTaken(k)'
               <= (numMessages[k] + empty[k]) + PlaceTaken(k)
          /\ semMutex'[k] + ProducerHas(k)' <= semMutex[k] + ProducerHas(k)
          /\ full'[k] \in Int /\ empty'[k] \in Int /\ semMutex'[k] \in Int
          /\ numMessages'[k] \in Int
      <4> HIDE DEF k
      <4> QED BY <1>8, <2>1, <2>2
    <3>2. k = prod'.gen /\ UNCHANGED <<made, cons>> /\ Balanced(k)
      BY <1>1, <1>5, <1>9 DEF Counted
    <3> QED BY <1>3, <1>4, <1>5, <3>1, <3>2, AtProducers
  <2>4. Current(k)'
    BY <1>1, <1>4, <1>5, <1>9, <2>2 DEF Counted, Current
  <2> QED BY <2>3, <2>4 DEF Counted
<1> HIDE DEF k
<1>10. \A g \in Msg!Generations \ {k} :
           /\ full'[g] = full[g] /\ empty'[g] = empty[g] /\ semMutex'[g] = semMutex[g]
           /\ numMessages'[g] = numMessages[g]
  BY <1>1, <1>4, <1>7
<1>11. /\ full' \in [Msg!Generations -> Nat] /\ empty' \in [Msg!Generations -> Nat]
       /\ semMutex' \in [Msg!Generations -> Nat] /\ numMessages' \in [Msg!Generations -> Int]
  BY <1>1, <1>6, <1>7
<1> QED BY <1>1, <1>3, <1>4, <1>5, <1>9, <1>10, <1>11, ProducerKeeps DEF k

(* The message added becomes a unit of full. *)
LEMMA PostFullStep == MsgIInv /\ Msg!PostFull => MsgIInv'
<1> SUFFICES ASSUME MsgIInv, Msg!PostFull PROVE MsgIInv' OBVIOUS
<1> DEFINE k == prod.gen
<1>1. /\ prod.at = "postFull" /\ prod' = [prod EXCEPT !.at = "waitEmpty"]
      /\ UNCHANGED <<empty, semMutex, numMessages>>
      /\ UNCHANGED <<names, made, cons, prodStarts, consStarts, reused, mixed>>
  BY DEF Msg!PostFull, Msg!ProducerStep
<1>2. full' = [full EXCEPT ![k] = @ + 1]
  BY DEF Msg!PostFull, Msg!sem_post
<1>3. MsgTyped /\ prod.at \notin {"off"} BY <1>1 DEF MsgIInv
<1>4. /\ k \in Msg!Generations /\ ~(k > made) /\ prod.read \in Int
      /\ prod = [at |-> prod.at, gen |-> prod.gen, read |-> prod.read]
  BY <1>3, ProducersOwn
<1>5. /\ prod' = [prod EXCEPT !.at = "waitEmpty", !.read = prod.read]
      /\ prod'.at = "waitEmpty" /\ prod'.gen = prod.gen /\ prod'.read = prod.read
  BY <1>1, <1>4
<1>6. /\ full \in [Msg!Generations -> Nat] /\ empty \in [Msg!Generations -> Nat]
      /\ semMutex \in [Msg!Generations -> Nat] /\ numMessages \in [Msg!Generations -> Int]
  BY <1>3 DEF MsgTyped
<1>7. /\ full' \in [Msg!Generations -> Nat] /\ full'[k] = full[k] + 1
      /\ \A h \in Msg!Generations \ {k} : full'[h] = full[h]
  <2>1. k \in Msg!Generations BY <1>4
  <2> HIDE DEF k
  <2> QED BY <1>2, <1>6, <2>1, Semaphores
<1>8. /\ Added(k) = 1 /\ Added(k)' = 0
      /\ PlaceTaken(k) = 0 /\ PlaceTaken(k)' = 0
      /\ ProducerHas(k) = 0 /\ ProducerHas(k)' = 0
  BY <1>1, <1>4, <1>5 DEF Added, PlaceTaken, ProducerHas, ProdIn
<1>9. ASSUME Counted(k) PROVE Counted(k)'
  <2>1. /\ full[k] \in Nat /\ empty[k] \in Nat /\ semMutex[k] \in Nat
        /\ numMessages[k] \in Int /\ MSG_COUNT \in Nat
    BY <1>3, <1>4, MsgNumbers
  <2>2. /\ full'[k] = full[k] + 1 /\ empty'[k] = empty[k]
        /\ semMutex'[k] = semMutex[k] /\ numMessages'[k] = numMessages[k]
    BY <1>1, <1>2, <1>4, <1>7, <1>9
  <2>3. Balanced(k)'
    <3>1. /\ numMessages'[k] - (full'[k] + Added(k)') >= numMessages[k] - (full[k] + Added(k))
          /\ (numMessages'[k] + empty'[k]) + PlaceTaken(k)'
               <= (numMessages[k] + empty[k]) + PlaceTaken(k)
          /\ semMutex'[k] + ProducerHas(k)' <= semMutex[k] + ProducerHas(k)
          /\ full'[k] \in Int /\ empty'[k] \in Int /\ semMutex'[k] \in Int
          /\ numMessages'[k] \in Int
      <4> HIDE DEF k
      <4> QED BY <1>8, <2>1, <2>2
    <3>2. k = prod'.gen /\ UNCHANGED <<made, cons>> /\ Balanced(k)
      BY <1>1, <1>5, <1>9 DEF Counted
    <3> QED BY <1>3, <1>4, <1>5, <3>1, <3>2, AtProducers
  <2>4. Current(k)'
    BY <1>1, <1>4, <1>5, <1>9, <2>2 DEF Counted, Current
  <2> QED BY <2>3, <2>4 DEF Counted
<1> HIDE DEF k
<1>10. \A g \in Msg!Generations \ {k} :
           /\ full'[g] = full[g] /\ empty'[g] = empty[g] /\ semMutex'[g] = semMutex[g]
           /\ numMessages'[g] = numMessages[g]
  BY <1>1, <1>4, <1>7
<1>11. /\ full' \in [Msg!Generations -> Nat] /\ empty' \in [Msg!Generations -> Nat]
       /\ semMutex' \in [Msg!Generations -> Nat] /\ numMessages' \in [Msg!Generations -> Int]
  BY <1>1, <1>6, <1>7
<1> QED BY <1>1, <1>3, <1>4, <1>5, <1>9, <1>10, <1>11, ProducerKeeps DEF k

(* A consumer changes nothing of the other generations. *)
LEMMA OtherThanConsumers ==
  ASSUME NEW g, Counted(g), cons.opened[1] # g, cons'.opened = cons.opened,
         UNCHANGED <<made, prod>>,
         full'[g] = full[g], empty'[g] = empty[g], semMutex'[g] = semMutex[g],
         numMessages'[g] = numMessages[g]
  PROVE  Counted(g)'
<1>1. UNCHANGED <<Added(g), PlaceTaken(g), ProducerHas(g), MessageTaken(g), Removed(g),
                  ConsumerHas(g)>>
  BY DEF Added, PlaceTaken, ProducerHas, MessageTaken, Removed, ConsumerHas, ProdIn, ConsIn
<1>2. Balanced(g)' BY <1>1 DEF Counted, Balanced
<1>3. Current(g)' BY DEF Counted, Current
<1> QED BY <1>2, <1>3 DEF Counted

(* A consumer's step at its own generation. *)
LEMMA AtConsumers ==
  ASSUME MsgTyped, NEW k \in Msg!Generations,
         Balanced(k), UNCHANGED <<made, prod>>,
         full'[k] \in Int, empty'[k] \in Int, semMutex'[k] \in Int,
         numMessages'[k] \in Int,
         numMessages'[k] - (full'[k] + MessageTaken(k)')
           >= numMessages[k] - (full[k] + MessageTaken(k)),
         (numMessages'[k] + empty'[k]) + Removed(k)'
           <= (numMessages[k] + empty[k]) + Removed(k),
         semMutex'[k] + ConsumerHas(k)' <= semMutex[k] + ConsumerHas(k)
  PROVE  Balanced(k)'
<1>1. UNCHANGED <<Added(k), PlaceTaken(k), ProducerHas(k)>>
  BY DEF Added, PlaceTaken, ProducerHas, ProdIn
<1>2. /\ Added(k) \in Int /\ PlaceTaken(k) \in Int /\ ProducerHas(k) \in Int
  BY DEF Added, PlaceTaken, ProducerHas, ProdIn
<1>3. /\ MessageTaken(k) \in Int /\ Removed(k) \in Int /\ ConsumerHas(k) \in Int
      /\ MessageTaken(k)' \in Int /\ Removed(k)' \in Int /\ ConsumerHas(k)' \in Int
  <2>1. MessageTaken(k) \in Int /\ Removed(k) \in Int /\ ConsumerHas(k) \in Int
    BY DEF MessageTaken, Removed, ConsumerHas, ConsIn
  <2>2. MessageTaken(k)' \in Int /\ Removed(k)' \in Int /\ ConsumerHas(k)' \in Int
    BY DEF MessageTaken, Removed, ConsumerHas, ConsIn
  <2> QED BY <2>1, <2>2
<1>4. /\ full[k] \in Int /\ empty[k] \in Int /\ semMutex[k] \in Int
      /\ numMessages[k] \in Int /\ MSG_COUNT \in Int
  BY MsgNumbers
<1> QED BY <1>1, <1>2, <1>4, <1>3 DEF Balanced

(* A step of the consumer keeps the invariant if it does so at its own
   generation, when it has but one. *)
LEMMA ConsumerKeeps ==
  ASSUME MsgIInv, cons.at \notin {"off", "open"},
         NEW to \in {"waitFull", "waitMutex", "read", "write", "postMutex", "postEmpty"},
         NEW r \in Int, cons' = [cons EXCEPT !.at = to, !.read = r],
         UNCHANGED <<names, made, prod, prodStarts, reused, mixed>>,
         full' \in [Msg!Generations -> Nat], empty' \in [Msg!Generations -> Nat],
         semMutex' \in [Msg!Generations -> Nat], numMessages' \in [Msg!Generations -> Int],
         ~mixed => \A g \in Msg!Generations \ {cons.opened[1]} :
           /\ full'[g] = full[g] /\ empty'[g] = empty[g] /\ semMutex'[g] = semMutex[g]
           /\ numMessages'[g] = numMessages[g],
         NEW k, k = cons.opened[1], ~mixed /\ Counted(k) => Counted(k)'
  PROVE  MsgIInv'
<1>1. MsgTyped BY DEF MsgIInv
<1>2. MsgTyped' BY <1>1, ConsumerTyped
<1>3. cons'.opened = cons.opened BY <1>1 DEF MsgTyped
<1>4. ASSUME ~mixed, NEW g \in Msg!Generations, Counted(g) PROVE Counted(g)'
  <2>1. CASE g = k BY <1>4, <2>1
  <2>2. CASE g # k BY <1>3, <1>4, <2>2, OtherThanConsumers
  <2> QED BY <2>1, <2>2
<1> QED BY <1>2, <1>4 DEF MsgIInv

(* What the consumer works on. *)
LEMMA ConsumersOwn ==
  ASSUME MsgTyped, cons.at \notin {"off", "open"}
  PROVE  /\ cons.opened[1] \in Msg!Generations /\ cons.opened[2] \in Msg!Generations
         /\ cons.opened[3] \in Msg!Generations /\ cons.opened[4] \in Msg!Generations
         /\ ~(cons.opened[1] > made)
         /\ ~mixed => /\ cons.opened[2] = cons.opened[1]
                      /\ cons.opened[3] = cons.opened[1]
                      /\ cons.opened[4] = cons.opened[1]
         /\ cons.read \in Int
         /\ cons = [at |-> cons.at, opened |-> cons.opened, read |-> cons.read]
<1>1. /\ \A i \in 1 .. 4 : cons.opened[i] \in Msg!Generations
      /\ ~mixed => \A i \in 1 .. 4 : cons.opened[i] = cons.opened[1]
  BY ConsumerOpened
<1>2. ~(cons.opened[1] > made)
  <2> DEFINE S == 1 .. made  q == cons.opened
  <2>1. q \in Seq(S) /\ Len(q) = 4 BY DEF MsgTyped
  <2>2. made \in Int
    <3>1. made \in 0 .. MaxProducers BY DEF MsgTyped
    <3> QED BY <3>1, MessageAssumption
  <2>3. q[1] \in S
    <3> HIDE DEF S, q
    <3> QED BY <2>1
  <2> QED BY <2>2, <2>3
<1>3. cons = [at |-> cons.at, opened |-> cons.opened, read |-> cons.read] /\ cons.read \in Int
  BY DEF MsgTyped
<1> QED BY <1>1, <1>2, <1>3

(* A unit of full becomes a message taken. *)
LEMMA WaitFullStep == MsgIInv /\ Msg!WaitFull => MsgIInv'
<1> SUFFICES ASSUME MsgIInv, Msg!WaitFull PROVE MsgIInv' OBVIOUS
<1> DEFINE k == cons.opened[1]  j == cons.opened[1]
<1>1. /\ cons.at = "waitFull" /\ cons' = [cons EXCEPT !.at = "waitMutex"]
      /\ UNCHANGED <<empty, semMutex, numMessages>>
      /\ UNCHANGED <<names, made, prod, prodStarts, consStarts, reused, mixed>>
  BY DEF Msg!WaitFull, Msg!ConsumerStep
<1>2. full[j] > 0 /\ full' = [full EXCEPT ![j] = @ - 1]
  BY DEF Msg!WaitFull, Msg!sem_wait
<1>3. MsgTyped /\ cons.at \notin {"off", "open"} BY <1>1 DEF MsgIInv
<1>4. /\ k \in Msg!Generations /\ j \in Msg!Generations /\ (~mixed => j = k)
      /\ ~(k > made) /\ cons.read \in Int
      /\ cons = [at |-> cons.at, opened |-> cons.opened, read |-> cons.read]
  BY <1>3, ConsumersOwn
<1>5. /\ cons' = [cons EXCEPT !.at = "waitMutex", !.read = cons.read]
      /\ cons'.at = "waitMutex" /\ cons'.opened = cons.opened /\ cons'.read = cons.read
  BY <1>1, <1>4
<1>6. /\ full \in [Msg!Generations -> Nat] /\ empty \in [Msg!Generations -> Nat]
      /\ semMutex \in [Msg!Generations -> Nat] /\ numMessages \in [Msg!Generations -> Int]
  BY <1>3 DEF MsgTyped
<1>7. /\ full' \in [Msg!Generations -> Nat] /\ full'[j] = full[j] - 1
      /\ \A h \in Msg!Generations \ {j} : full'[h] = full[h]
  <2>1. j \in Msg!Generations BY <1>4
  <2> HIDE DEF k, j
  <2> QED BY <1>2, <1>6, <2>1, Semaphores
<1>8. /\ MessageTaken(k) = 0 /\ MessageTaken(k)' = 1
      /\ Removed(k) = 0 /\ Removed(k)' = 0
      /\ ConsumerHas(k) = 0 /\ ConsumerHas(k)' = 0
  BY <1>1, <1>4, <1>5 DEF MessageTaken, Removed, ConsumerHas, ConsIn
<1>9. ASSUME ~mixed, Counted(k) PROVE Counted(k)'
  <2>1. /\ full[k] \in Nat /\ empty[k] \in Nat /\ semMutex[k] \in Nat
        /\ numMessages[k] \in Int /\ MSG_COUNT \in Nat
    BY <1>3, <1>4, MsgNumbers
  <2>2. /\ full'[k] = full[k] - 1 /\ empty'[k] = empty[k]
        /\ semMutex'[k] = semMutex[k] /\ numMessages'[k] = numMessages[k] /\ full[k] > 0
    BY <1>1, <1>2, <1>4, <1>7, <1>9
  <2>3. ~(prod.at = "init" /\ prod.gen = k)
    <3> SUFFICES ASSUME prod.at = "init", prod.gen = k PROVE FALSE OBVIOUS
    <3>1. /\ full[k] = 0 /\ empty[k] = MSG_COUNT /\ numMessages[k] = 0
          /\ Added(k) = 0 /\ PlaceTaken(k) = 0
      BY <1>9 DEF Counted, Current, Added, PlaceTaken, ProdIn
    <3>2. /\ numMessages[k] >= (full[k] + Added(k)) + MessageTaken(k)
          /\ MSG_COUNT >= ((numMessages[k] + empty[k]) + PlaceTaken(k)) + Removed(k)
      BY <1>9 DEF Counted, Balanced
    <3> HIDE DEF k
    <3> QED BY <1>8, <2>1, <2>2, <3>1, <3>2
  <2>4. Balanced(k)'
    <3>1. /\ numMessages'[k] - (full'[k] + MessageTaken(k)')
               >= numMessages[k] - (full[k] + MessageTaken(k))
          /\ (numMessages'[k] + empty'[k]) + Removed(k)' <= (numMessages[k] + empty[k]) + Removed(k)
          /\ semMutex'[k] + ConsumerHas(k)' <= semMutex[k] + ConsumerHas(k)
          /\ full'[k] \in Int /\ empty'[k] \in Int /\ semMutex'[k] \in Int
          /\ numMessages'[k] \in Int
      <4> HIDE DEF k
      <4> QED BY <1>8, <2>1, <2>2
    <3>2. UNCHANGED <<made, prod>> /\ Balanced(k)
      BY <1>1, <1>5, <1>9 DEF Counted
    <3> QED BY <1>3, <1>4, <1>5, <3>1, <3>2, AtConsumers
  <2>5. Current(k)'
    BY <1>1, <1>4, <1>5, <1>9, <2>2, <2>3 DEF Counted, Current
  <2> QED BY <2>4, <2>5 DEF Counted
<1> HIDE DEF k, j
<1>10. ~mixed => \A g \in Msg!Generations \ {k} :
           /\ full'[g] = full[g] /\ empty'[g] = empty[g] /\ semMutex'[g] = semMutex[g]
           /\ numMessages'[g] = numMessages[g]
  BY <1>1, <1>4, <1>7
<1>11. /\ full' \in [Msg!Generations -> Nat] /\ empty' \in [Msg!Generations -> Nat]
       /\ semMutex' \in [Msg!Generations -> Nat] /\ numMessages' \in [Msg!Generations -> Int]
  BY <1>1, <1>6, <1>7
<1> QED BY <1>1, <1>3, <1>4, <1>5, <1>9, <1>10, <1>11, ConsumerKeeps DEF k

(* The unit of the mutex goes to the consumer. *)
LEMMA ConsumerLocksStep == MsgIInv /\ Msg!ConsumerLocks => MsgIInv'
<1> SUFFICES ASSUME MsgIInv, Msg!ConsumerLocks PROVE MsgIInv' OBVIOUS
<1> DEFINE k == cons.opened[1]  j == cons.opened[3]
<1>1. /\ cons.at = "waitMutex" /\ cons' = [cons EXCEPT !.at = "read"]
      /\ UNCHANGED <<full, empty, numMessages>>
      /\ UNCHANGED <<names, made, prod, prodStarts, consStarts, reused, mixed>>
  BY DEF Msg!ConsumerLocks, Msg!ConsumerStep
<1>2. semMutex[j] > 0 /\ semMutex' = [semMutex EXCEPT ![j] = @ - 1]
  BY DEF Msg!ConsumerLocks, Msg!sem_wait
<1>3. MsgTyped /\ cons.at \notin {"off", "open"} BY <1>1 DEF MsgIInv
<1>4. /\ k \in Msg!Generations /\ j \in Msg!Generations /\ (~mixed => j = k)
      /\ ~(k > made) /\ cons.read \in Int
      /\ cons = [at |-> cons.at, opened |-> cons.opened, read |-> cons.read]
  BY <1>3, ConsumersOwn
<1>5. /\ cons' = [cons EXCEPT !.at = "read", !.read = cons.read]
      /\ cons'.at = "read" /\ cons'.opened = cons.opened /\ cons'.read = cons.read
  BY <1>1, <1>4
<1>6. /\ full \in [Msg!Generations -> Nat] /\ empty \in [Msg!Generations -> Nat]
      /\ semMutex \in [Msg!Generations -> Nat] /\ numMessages \in [Msg!Generations -> Int]
  BY <1>3 DEF MsgTyped
<1>7. /\ semMutex' \in [Msg!Generations -> Nat] /\ semMutex'[j] = semMutex[j] - 1
      /\ \A h \in Msg!Generations \ {j} : semMutex'[h] = semMutex[h]
  <2>1. j \in Msg!Generations BY <1>4
  <2> HIDE DEF k, j
  <2> QED BY <1>2, <1>6, <2>1, Semaphores
<1>8. /\ MessageTaken(k) = 1 /\ MessageTaken(k)' = 1
      /\ Removed(k) = 0 /\ Removed(k)' = 0
      /\ ConsumerHas(k) = 0 /\ ConsumerHas(k)' = 1
  BY <1>1, <1>4, <1>5 DEF MessageTaken, Removed, ConsumerHas, ConsIn
<1>9. ASSUME ~mixed, Counted(k) PROVE Counted(k)'
  <2>1. /\ full[k] \in Nat /\ empty[k] \in Nat /\ semMutex[k] \in Nat
        /\ numMessages[k] \in Int /\ MSG_COUNT \in Nat
    BY <1>3, <1>4, MsgNumbers
  <2>2. /\ semMutex'[k] = semMutex[k] - 1 /\ full'[k] = full[k]
        /\ empty'[k] = empty[k] /\ numMessages'[k] = numMessages[k] /\ semMutex[k] > 0
    BY <1>1, <1>2, <1>4, <1>7, <1>9
  <2>3. Balanced(k)'
    <3>1. /\ numMessages'[k] - (full'[k] + MessageTaken(k)')
               >= numMessages[k] - (full[k] + MessageTaken(k))
          /\ (numMessages'[k] + empty'[k]) + Removed(k)' <= (numMessages[k] + empty[k]) + Removed(k)
          /\ semMutex'[k] + ConsumerHas(k)' <= semMutex[k] + ConsumerHas(k)
          /\ full'[k] \in Int /\ empty'[k] \in Int /\ semMutex'[k] \in Int
          /\ numMessages'[k] \in Int
      <4> HIDE DEF k
      <4> QED BY <1>8, <2>1, <2>2
    <3>2. UNCHANGED <<made, prod>> /\ Balanced(k)
      BY <1>1, <1>5, <1>9 DEF Counted
    <3> QED BY <1>3, <1>4, <1>5, <3>1, <3>2, AtConsumers
  <2>4. Current(k)'
    BY <1>1, <1>4, <1>5, <1>9, <2>2 DEF Counted, Current
  <2> QED BY <2>3, <2>4 DEF Counted
<1> HIDE DEF k, j
<1>10. ~mixed => \A g \in Msg!Generations \ {k} :
           /\ full'[g] = full[g] /\ empty'[g] = empty[g] /\ semMutex'[g] = semMutex[g]
           /\ numMessages'[g] = numMessages[g]
  BY <1>1, <1>4, <1>7
<1>11. /\ full' \in [Msg!Generations -> Nat] /\ empty' \in [Msg!Generations -> Nat]
       /\ semMutex' \in [Msg!Generations -> Nat] /\ numMessages' \in [Msg!Generations -> Int]
  BY <1>1, <1>6, <1>7
<1> QED BY <1>1, <1>3, <1>4, <1>5, <1>9, <1>10, <1>11, ConsumerKeeps DEF k

(* The message taken becomes a place freed: nobody has written since the
   consumer read, because the producer is not in its critical section. *)
LEMMA DecreaseStep == MsgIInv /\ Msg!Decrease => MsgIInv'
<1> SUFFICES ASSUME MsgIInv, Msg!Decrease PROVE MsgIInv' OBVIOUS
<1> DEFINE k == cons.opened[1]  j == cons.opened[4]
<1>1. /\ cons.at = "write" /\ cons' = [cons EXCEPT !.at = "postMutex"]
      /\ UNCHANGED <<full, empty, semMutex>>
      /\ UNCHANGED <<names, made, prod, prodStarts, consStarts, reused, mixed>>
  BY DEF Msg!Decrease, Msg!ConsumerStep
<1>2. numMessages' = [numMessages EXCEPT ![j] = cons.read - 1]
  BY DEF Msg!Decrease
<1>3. MsgTyped /\ cons.at \notin {"off", "open"} BY <1>1 DEF MsgIInv
<1>4. /\ k \in Msg!Generations /\ j \in Msg!Generations /\ (~mixed => j = k)
      /\ ~(k > made) /\ cons.read \in Int
      /\ cons = [at |-> cons.at, opened |-> cons.opened, read |-> cons.read]
  BY <1>3, ConsumersOwn
<1>5. /\ cons' = [cons EXCEPT !.at = "postMutex", !.read = cons.read]
      /\ cons'.at = "postMutex" /\ cons'.opened = cons.opened /\ cons'.read = cons.read
  BY <1>1, <1>4
<1>6. /\ full \in [Msg!Generations -> Nat] /\ empty \in [Msg!Generations -> Nat]
      /\ semMutex \in [Msg!Generations -> Nat] /\ numMessages \in [Msg!Generations -> Int]
  BY <1>3 DEF MsgTyped
<1>7. /\ numMessages' \in [Msg!Generations -> Int] /\ numMessages'[j] = cons.read - 1
      /\ \A h \in Msg!Generations \ {j} : numMessages'[h] = numMessages[h]
  <2>1. j \in Msg!Generations BY <1>4
  <2>2. cons.read \in Int BY <1>4
  <2> DEFINE e == cons.read - 1
  <2>3. e \in Int /\ numMessages' = [numMessages EXCEPT ![j] = e] BY <1>2, <2>2
  <2>4. numMessages'[j] = e /\ e = cons.read - 1 BY <1>6, <2>1, <2>3
  <2> HIDE DEF k, e, j
  <2> QED BY <1>6, <2>1, <2>3, <2>4
<1>8. /\ MessageTaken(k) = 1 /\ MessageTaken(k)' = 0
      /\ Removed(k) = 0 /\ Removed(k)' = 1
      /\ ConsumerHas(k) = 1 /\ ConsumerHas(k)' = 1
  BY <1>1, <1>4, <1>5 DEF MessageTaken, Removed, ConsumerHas, ConsIn
<1>9. ASSUME ~mixed, Counted(k) PROVE Counted(k)'
  <2>1. /\ full[k] \in Nat /\ empty[k] \in Nat /\ semMutex[k] \in Nat
        /\ numMessages[k] \in Int /\ MSG_COUNT \in Nat
    BY <1>3, <1>4, MsgNumbers
  <2>2. /\ numMessages'[k] = cons.read - 1 /\ full'[k] = full[k]
        /\ empty'[k] = empty[k] /\ semMutex'[k] = semMutex[k]
    BY <1>1, <1>2, <1>4, <1>7, <1>9
  <2>3. cons.read = numMessages[k] BY <1>1, <1>9 DEF Counted, Current
  <2>4. ~(prod.at = "write" /\ prod.gen = k)
    <3> SUFFICES ASSUME prod.at = "write", prod.gen = k PROVE FALSE OBVIOUS
    <3>1. ProducerHas(k) = 1 BY DEF ProducerHas, ProdIn
    <3>2. (semMutex[k] + ProducerHas(k)) + ConsumerHas(k) <= 1 BY <1>9 DEF Counted, Balanced
    <3> HIDE DEF k
    <3> QED BY <1>8, <2>1, <3>1, <3>2
  <2>5. ~(prod.at = "init" /\ prod.gen = k)
    <3> SUFFICES ASSUME prod.at = "init", prod.gen = k PROVE FALSE OBVIOUS
    <3>1. /\ full[k] = 0 /\ empty[k] = MSG_COUNT /\ numMessages[k] = 0
          /\ Added(k) = 0 /\ PlaceTaken(k) = 0
      BY <1>9 DEF Counted, Current, Added, PlaceTaken, ProdIn
    <3>2. /\ numMessages[k] >= (full[k] + Added(k)) + MessageTaken(k)
          /\ MSG_COUNT >= ((numMessages[k] + empty[k]) + PlaceTaken(k)) + Removed(k)
      BY <1>9 DEF Counted, Balanced
    <3> HIDE DEF k
    <3> QED BY <1>8, <2>1, <2>2, <3>1, <3>2
  <2>6. Balanced(k)'
    <3>1. /\ numMessages'[k] - (full'[k] + MessageTaken(k)')
               >= numMessages[k] - (full[k] + MessageTaken(k))
          /\ (numMessages'[k] + empty'[k]) + Removed(k)' <= (numMessages[k] + empty[k]) + Removed(k)
          /\ semMutex'[k] + ConsumerHas(k)' <= semMutex[k] + ConsumerHas(k)
          /\ full'[k] \in Int /\ empty'[k] \in Int /\ semMutex'[k] \in Int
          /\ numMessages'[k] \in Int
      <4> HIDE DEF k
      <4> QED BY <1>4, <1>8, <2>1, <2>2, <2>3
    <3>2. UNCHANGED <<made, prod>> /\ Balanced(k)
      BY <1>1, <1>5, <1>9 DEF Counted
    <3> QED BY <1>3, <1>4, <1>5, <3>1, <3>2, AtConsumers
  <2>7. Current(k)'
    BY <1>1, <1>4, <1>5, <1>9, <2>2, <2>3, <2>4, <2>5 DEF Counted, Current
  <2> QED BY <2>6, <2>7 DEF Counted
<1> HIDE DEF k, j
<1>10. ~mixed => \A g \in Msg!Generations \ {k} :
           /\ full'[g] = full[g] /\ empty'[g] = empty[g] /\ semMutex'[g] = semMutex[g]
           /\ numMessages'[g] = numMessages[g]
  BY <1>1, <1>4, <1>7
<1>11. /\ full' \in [Msg!Generations -> Nat] /\ empty' \in [Msg!Generations -> Nat]
       /\ semMutex' \in [Msg!Generations -> Nat] /\ numMessages' \in [Msg!Generations -> Int]
  BY <1>1, <1>6, <1>7
<1> QED BY <1>1, <1>3, <1>4, <1>5, <1>9, <1>10, <1>11, ConsumerKeeps DEF k

(* The consumer's hold of the mutex becomes a unit. *)
LEMMA ConsumerUnlocksStep == MsgIInv /\ Msg!ConsumerUnlocks => MsgIInv'
<1> SUFFICES ASSUME MsgIInv, Msg!ConsumerUnlocks PROVE MsgIInv' OBVIOUS
<1> DEFINE k == cons.opened[1]  j == cons.opened[3]
<1>1. /\ cons.at = "postMutex" /\ cons' = [cons EXCEPT !.at = "postEmpty"]
      /\ UNCHANGED <<full, empty, numMessages>>
      /\ UNCHANGED <<names, made, prod, prodStarts, consStarts, reused, mixed>>
  BY DEF Msg!ConsumerUnlocks, Msg!ConsumerStep
<1>2. semMutex' = [semMutex EXCEPT ![j] = @ + 1]
  BY DEF Msg!ConsumerUnlocks, Msg!sem_post
<1>3. MsgTyped /\ cons.at \notin {"off", "open"} BY <1>1 DEF MsgIInv
<1>4. /\ k \in Msg!Generations /\ j \in Msg!Generations /\ (~mixed => j = k)
      /\ ~(k > made) /\ cons.read \in Int
      /\ cons = [at |-> cons.at, opened |-> cons.opened, read |-> cons.read]
  BY <1>3, ConsumersOwn
<1>5. /\ cons' = [cons EXCEPT !.at = "postEmpty", !.read = cons.read]
      /\ cons'.at = "postEmpty" /\ cons'.opened = cons.opened /\ cons'.read = cons.read
  BY <1>1, <1>4
<1>6. /\ full \in [Msg!Generations -> Nat] /\ empty \in [Msg!Generations -> Nat]
      /\ semMutex \in [Msg!Generations -> Nat] /\ numMessages \in [Msg!Generations -> Int]
  BY <1>3 DEF MsgTyped
<1>7. /\ semMutex' \in [Msg!Generations -> Nat] /\ semMutex'[j] = semMutex[j] + 1
      /\ \A h \in Msg!Generations \ {j} : semMutex'[h] = semMutex[h]
  <2>1. j \in Msg!Generations BY <1>4
  <2> HIDE DEF k, j
  <2> QED BY <1>2, <1>6, <2>1, Semaphores
<1>8. /\ MessageTaken(k) = 0 /\ MessageTaken(k)' = 0
      /\ Removed(k) = 1 /\ Removed(k)' = 1
      /\ ConsumerHas(k) = 1 /\ ConsumerHas(k)' = 0
  BY <1>1, <1>4, <1>5 DEF MessageTaken, Removed, ConsumerHas, ConsIn
<1>9. ASSUME ~mixed, Counted(k) PROVE Counted(k)'
  <2>1. /\ full[k] \in Nat /\ empty[k] \in Nat /\ semMutex[k] \in Nat
        /\ numMessages[k] \in Int /\ MSG_COUNT \in Nat
    BY <1>3, <1>4, MsgNumbers
  <2>2. /\ semMutex'[k] = semMutex[k] + 1 /\ full'[k] = full[k]
        /\ empty'[k] = empty[k] /\ numMessages'[k] = numMessages[k]
    BY <1>1, <1>2, <1>4, <1>7, <1>9
  <2>3. Balanced(k)'
    <3>1. /\ numMessages'[k] - (full'[k] + MessageTaken(k)')
               >= numMessages[k] - (full[k] + MessageTaken(k))
          /\ (numMessages'[k] + empty'[k]) + Removed(k)' <= (numMessages[k] + empty[k]) + Removed(k)
          /\ semMutex'[k] + ConsumerHas(k)' <= semMutex[k] + ConsumerHas(k)
          /\ full'[k] \in Int /\ empty'[k] \in Int /\ semMutex'[k] \in Int
          /\ numMessages'[k] \in Int
      <4> HIDE DEF k
      <4> QED BY <1>8, <2>1, <2>2
    <3>2. UNCHANGED <<made, prod>> /\ Balanced(k)
      BY <1>1, <1>5, <1>9 DEF Counted
    <3> QED BY <1>3, <1>4, <1>5, <3>1, <3>2, AtConsumers
  <2>4. Current(k)'
    BY <1>1, <1>4, <1>5, <1>9, <2>2 DEF Counted, Current
  <2> QED BY <2>3, <2>4 DEF Counted
<1> HIDE DEF k, j
<1>10. ~mixed => \A g \in Msg!Generations \ {k} :
           /\ full'[g] = full[g] /\ empty'[g] = empty[g] /\ semMutex'[g] = semMutex[g]
           /\ numMessages'[g] = numMessages[g]
  BY <1>1, <1>4, <1>7
<1>11. /\ full' \in [Msg!Generations -> Nat] /\ empty' \in [Msg!Generations -> Nat]
       /\ semMutex' \in [Msg!Generations -> Nat] /\ numMessages' \in [Msg!Generations -> Int]
  BY <1>1, <1>6, <1>7
<1> QED BY <1>1, <1>3, <1>4, <1>5, <1>9, <1>10, <1>11, ConsumerKeeps DEF k

(* The place freed becomes a unit of empty. *)
LEMMA PostEmptyStep == MsgIInv /\ Msg!PostEmpty => MsgIInv'
<1> SUFFICES ASSUME MsgIInv, Msg!PostEmpty PROVE MsgIInv' OBVIOUS
<1> DEFINE k == cons.opened[1]  j == cons.opened[2]
<1>1. /\ cons.at = "postEmpty" /\ cons' = [cons EXCEPT !.at = "waitFull"]
      /\ UNCHANGED <<full, semMutex, numMessages>>
      /\ UNCHANGED <<names, made, prod, prodStarts, consStarts, reused, mixed>>
  BY DEF Msg!PostEmpty, Msg!ConsumerStep
<1>2. empty' = [empty EXCEPT ![j] = @ + 1]
  BY DEF Msg!PostEmpty, Msg!sem_post
<1>3. MsgTyped /\ cons.at \notin {"off", "open"} BY <1>1 DEF MsgIInv
<1>4. /\ k \in Msg!Generations /\ j \in Msg!Generations /\ (~mixed => j = k)
      /\ ~(k > made) /\ cons.read \in Int
      /\ cons = [at |-> cons.at, opened |-> cons.opened, read |-> cons.read]
  BY <1>3, ConsumersOwn
<1>5. /\ cons' = [cons EXCEPT !.at = "waitFull", !.read = cons.read]
      /\ cons'.at = "waitFull" /\ cons'.opened = cons.opened /\ cons'.read = cons.read
  BY <1>1, <1>4
<1>6. /\ full \in [Msg!Generations -> Nat] /\ empty \in [Msg!Generations -> Nat]
      /\ semMutex \in [Msg!Generations -> Nat] /\ numMessages \in [Msg!Generations -> Int]
  BY <1>3 DEF MsgTyped
<1>7. /\ empty' \in [Msg!Generations -> Nat] /\ empty'[j] = empty[j] + 1
      /\ \A h \in Msg!Generations \ {j} : empty'[h] = empty[h]
  <2>1. j \in Msg!Generations BY <1>4
  <2> HIDE DEF k, j
  <2> QED BY <1>2, <1>6, <2>1, Semaphores
<1>8. /\ MessageTaken(k) = 0 /\ MessageTaken(k)' = 0
      /\ Removed(k) = 1 /\ Removed(k)' = 0
      /\ ConsumerHas(k) = 0 /\ ConsumerHas(k)' = 0
  BY <1>1, <1>4, <1>5 DEF MessageTaken, Removed, ConsumerHas, ConsIn
<1>9. ASSUME ~mixed, Counted(k) PROVE Counted(k)'
  <2>1. /\ full[k] \in Nat /\ empty[k] \in Nat /\ semMutex[k] \in Nat
        /\ numMessages[k] \in Int /\ MSG_COUNT \in Nat
    BY <1>3, <1>4, MsgNumbers
  <2>2. /\ empty'[k] = empty[k] + 1 /\ full'[k] = full[k]
        /\ semMutex'[k] = semMutex[k] /\ numMessages'[k] = numMessages[k]
    BY <1>1, <1>2, <1>4, <1>7, <1>9
  <2>3. ~(prod.at = "init" /\ prod.gen = k)
    <3> SUFFICES ASSUME prod.at = "init", prod.gen = k PROVE FALSE OBVIOUS
    <3>1. /\ full[k] = 0 /\ empty[k] = MSG_COUNT /\ numMessages[k] = 0
          /\ Added(k) = 0 /\ PlaceTaken(k) = 0
      BY <1>9 DEF Counted, Current, Added, PlaceTaken, ProdIn
    <3>2. /\ numMessages[k] >= (full[k] + Added(k)) + MessageTaken(k)
          /\ MSG_COUNT >= ((numMessages[k] + empty[k]) + PlaceTaken(k)) + Removed(k)
      BY <1>9 DEF Counted, Balanced
    <3> HIDE DEF k
    <3> QED BY <1>8, <2>1, <2>2, <3>1, <3>2
  <2>4. Balanced(k)'
    <3>1. /\ numMessages'[k] - (full'[k] + MessageTaken(k)')
               >= numMessages[k] - (full[k] + MessageTaken(k))
          /\ (numMessages'[k] + empty'[k]) + Removed(k)' <= (numMessages[k] + empty[k]) + Removed(k)
          /\ semMutex'[k] + ConsumerHas(k)' <= semMutex[k] + ConsumerHas(k)
          /\ full'[k] \in Int /\ empty'[k] \in Int /\ semMutex'[k] \in Int
          /\ numMessages'[k] \in Int
      <4> HIDE DEF k
      <4> QED BY <1>8, <2>1, <2>2
    <3>2. UNCHANGED <<made, prod>> /\ Balanced(k)
      BY <1>1, <1>5, <1>9 DEF Counted
    <3> QED BY <1>3, <1>4, <1>5, <3>1, <3>2, AtConsumers
  <2>5. Current(k)'
    BY <1>1, <1>4, <1>5, <1>9, <2>2, <2>3 DEF Counted, Current
  <2> QED BY <2>4, <2>5 DEF Counted
<1> HIDE DEF k, j
<1>10. ~mixed => \A g \in Msg!Generations \ {k} :
           /\ full'[g] = full[g] /\ empty'[g] = empty[g] /\ semMutex'[g] = semMutex[g]
           /\ numMessages'[g] = numMessages[g]
  BY <1>1, <1>4, <1>7
<1>11. /\ full' \in [Msg!Generations -> Nat] /\ empty' \in [Msg!Generations -> Nat]
       /\ semMutex' \in [Msg!Generations -> Nat] /\ numMessages' \in [Msg!Generations -> Int]
  BY <1>1, <1>6, <1>7
<1> QED BY <1>1, <1>3, <1>4, <1>5, <1>9, <1>10, <1>11, ConsumerKeeps DEF k

(* The producer reads what it will increase. *)
LEMMA ProducerReadsStep == MsgIInv /\ Msg!ProducerReads => MsgIInv'
<1> SUFFICES ASSUME MsgIInv, Msg!ProducerReads PROVE MsgIInv' OBVIOUS
<1> DEFINE k == prod.gen  r == numMessages[k]
<1>1. /\ prod.at = "read" /\ prod' = [prod EXCEPT !.at = "write", !.read = r]
      /\ UNCHANGED <<full, empty, semMutex, numMessages, names, made, cons, prodStarts,
                     consStarts, reused, mixed>>
  BY DEF Msg!ProducerReads, Msg!objects
<1>2. MsgTyped BY DEF MsgIInv
<1>3. /\ k \in Msg!Generations /\ ~(k > made)
      /\ full \in [Msg!Generations -> Nat] /\ empty \in [Msg!Generations -> Nat]
      /\ semMutex \in [Msg!Generations -> Nat] /\ numMessages \in [Msg!Generations -> Int]
      /\ prod = [at |-> prod.at, gen |-> prod.gen, read |-> prod.read]
  BY <1>1, <1>2, ProducersOwn
<1>4. r \in Int BY <1>3
<1>5. prod'.at = "write" /\ prod'.gen = k /\ prod'.read = r BY <1>1, <1>3
<1>6. /\ PlaceTaken(k)' = PlaceTaken(k) /\ ProducerHas(k)' = ProducerHas(k)
      /\ Added(k)' = Added(k)
      /\ UNCHANGED <<MessageTaken(k), Removed(k), ConsumerHas(k)>>
  BY <1>1, <1>3, <1>5
     DEF Added, PlaceTaken, ProducerHas, ProdIn, MessageTaken, Removed, ConsumerHas, ConsIn
<1>7. ASSUME Counted(k) PROVE Counted(k)'
  <2>1. Balanced(k)' BY <1>1, <1>5, <1>6, <1>7 DEF Counted, Balanced
  <2>2. Current(k)'
    BY <1>1, <1>3, <1>5, <1>7 DEF Counted, Current
  <2> QED BY <2>1, <2>2 DEF Counted
<1> HIDE DEF k, r
<1>8. /\ full' \in [Msg!Generations -> Nat] /\ empty' \in [Msg!Generations -> Nat]
      /\ semMutex' \in [Msg!Generations -> Nat] /\ numMessages' \in [Msg!Generations -> Int]
      /\ \A g \in Msg!Generations \ {k} :
           /\ full'[g] = full[g] /\ empty'[g] = empty[g] /\ semMutex'[g] = semMutex[g]
           /\ numMessages'[g] = numMessages[g]
  BY <1>1, <1>3
<1>9. prod' = [prod EXCEPT !.at = "write", !.read = r] BY <1>1
<1>10. prod.at # "off" /\ UNCHANGED <<names, made, cons, prodStarts, reused, mixed>> BY <1>1
<1> QED BY <1>4, <1>5, <1>7, <1>8, <1>9, <1>10, ProducerKeeps DEF k

(* The consumer reads what it will decrease. *)
LEMMA ConsumerReadsStep == MsgIInv /\ Msg!ConsumerReads => MsgIInv'
<1> SUFFICES ASSUME MsgIInv, Msg!ConsumerReads PROVE MsgIInv' OBVIOUS
<1> DEFINE k == cons.opened[1]  r == numMessages[cons.opened[4]]
<1>1. /\ cons.at = "read" /\ cons' = [cons EXCEPT !.at = "write", !.read = r]
      /\ UNCHANGED <<full, empty, semMutex, numMessages, names, made, prod, prodStarts,
                     consStarts, reused, mixed>>
  BY DEF Msg!ConsumerReads, Msg!objects
<1>2. MsgTyped BY DEF MsgIInv
<1>3. /\ k \in Msg!Generations /\ ~(k > made) /\ cons.opened[4] \in Msg!Generations
      /\ (~mixed => cons.opened[4] = k)
      /\ full \in [Msg!Generations -> Nat] /\ empty \in [Msg!Generations -> Nat]
      /\ semMutex \in [Msg!Generations -> Nat] /\ numMessages \in [Msg!Generations -> Int]
      /\ cons = [at |-> cons.at, opened |-> cons.opened, read |-> cons.read]
  BY <1>1, <1>2, ConsumersOwn DEF MsgTyped
<1>4. r \in Int BY <1>3
<1>5. cons'.at = "write" /\ cons'.opened = cons.opened /\ cons'.read = r BY <1>1, <1>3
<1>6. /\ MessageTaken(k)' = MessageTaken(k) /\ ConsumerHas(k)' = ConsumerHas(k)
      /\ Removed(k)' = Removed(k)
      /\ UNCHANGED <<Added(k), PlaceTaken(k), ProducerHas(k)>>
  BY <1>1, <1>3, <1>5
     DEF Added, PlaceTaken, ProducerHas, ProdIn, MessageTaken, Removed, ConsumerHas, ConsIn
<1>7. ASSUME ~mixed, Counted(k) PROVE Counted(k)'
  <2>1. Balanced(k)' BY <1>1, <1>5, <1>6, <1>7 DEF Counted, Balanced
  <2>2. Current(k)'
    <3>1. r = numMessages[k] BY <1>3, <1>7
    <3> HIDE DEF r
    <3> QED BY <1>1, <1>3, <1>5, <1>7, <3>1 DEF Counted, Current
  <2> QED BY <2>1, <2>2 DEF Counted
<1> HIDE DEF k, r
<1>8. /\ full' \in [Msg!Generations -> Nat] /\ empty' \in [Msg!Generations -> Nat]
      /\ semMutex' \in [Msg!Generations -> Nat] /\ numMessages' \in [Msg!Generations -> Int]
      /\ \A g \in Msg!Generations \ {k} :
           /\ full'[g] = full[g] /\ empty'[g] = empty[g] /\ semMutex'[g] = semMutex[g]
           /\ numMessages'[g] = numMessages[g]
  BY <1>1, <1>3
<1>9. cons' = [cons EXCEPT !.at = "write", !.read = r] BY <1>1
<1>10. /\ cons.at \notin {"off", "open"}
       /\ UNCHANGED <<names, made, prod, prodStarts, reused, mixed>>
  BY <1>1
<1> QED BY <1>4, <1>5, <1>7, <1>8, <1>9, <1>10, ConsumerKeeps DEF k

(* Each of them counts once at most. *)
LEMMA TermsAreSmall ==
  ASSUME NEW g
  PROVE  /\ Added(g) \in 0 .. 1 /\ PlaceTaken(g) \in 0 .. 1 /\ ProducerHas(g) \in 0 .. 1
         /\ MessageTaken(g) \in 0 .. 1 /\ Removed(g) \in 0 .. 1 /\ ConsumerHas(g) \in 0 .. 1
<1>1. Added(g) \in 0 .. 1 /\ PlaceTaken(g) \in 0 .. 1 /\ ProducerHas(g) \in 0 .. 1
  BY DEF Added, PlaceTaken, ProducerHas, ProdIn
<1>2. MessageTaken(g) \in 0 .. 1 /\ Removed(g) \in 0 .. 1 /\ ConsumerHas(g) \in 0 .. 1
  BY DEF MessageTaken, Removed, ConsumerHas, ConsIn
<1> QED BY <1>1, <1>2

(* A producer that ends loses what it held, whether or not the names stay. *)
LEMMA ProducerStopsStep ==
  MsgIInv /\ (Msg!ProducerInterrupted \/ Msg!ProducerKilled) => MsgIInv'
<1> SUFFICES ASSUME MsgIInv, Msg!ProducerInterrupted \/ Msg!ProducerKilled PROVE MsgIInv'
  OBVIOUS
<1>1. /\ prod' = [at |-> "off", gen |-> 0, read |-> 0]
      /\ names' \in {0, names}
      /\ UNCHANGED <<made, full, empty, semMutex, numMessages, cons, prodStarts, reused, mixed>>
  BY DEF Msg!ProducerInterrupted, Msg!ProducerKilled, Msg!ProducerStops, Msg!NoProducer,
         Msg!objects
<1>2. prod'.at = "off" BY <1>1
<1>3. MsgTyped'
  <2>1. MsgTyped BY DEF MsgIInv
  <2>2. prod' \in [at : {"off", "init", "waitEmpty", "waitMutex", "read", "write",
                         "postMutex", "postFull"},
                   gen : 0 .. MaxProducers, read : Int]
    BY <1>1, MessageAssumption
  <2> QED BY <1>1, <1>2, <2>1, <2>2 DEF MsgTyped
<1>4. ASSUME NEW g \in Msg!Generations, Counted(g) PROVE Counted(g)'
  <2>1. /\ Added(g)' = 0 /\ PlaceTaken(g)' = 0 /\ ProducerHas(g)' = 0
        /\ UNCHANGED <<MessageTaken(g), Removed(g), ConsumerHas(g)>>
    BY <1>1, <1>2
       DEF Added, PlaceTaken, ProducerHas, ProdIn, MessageTaken, Removed, ConsumerHas, ConsIn
  <2>2. /\ full[g] \in Nat /\ empty[g] \in Nat /\ semMutex[g] \in Nat
        /\ numMessages[g] \in Int /\ MSG_COUNT \in Nat
    BY MsgNumbers DEF MsgIInv
  <2>3. /\ Added(g) \in 0 .. 1 /\ PlaceTaken(g) \in 0 .. 1 /\ ProducerHas(g) \in 0 .. 1
        /\ MessageTaken(g) \in 0 .. 1 /\ Removed(g) \in 0 .. 1 /\ ConsumerHas(g) \in 0 .. 1
    BY TermsAreSmall
  <2>4. Balanced(g)' BY <1>1, <1>4, <2>1, <2>2, <2>3 DEF Counted, Balanced
  <2>5. Current(g)' BY <1>1, <1>2, <1>4 DEF Counted, Current
  <2> QED BY <2>4, <2>5 DEF Counted
<1> QED BY <1>1, <1>3, <1>4 DEF MsgIInv

(* A producer that makes the names starts on a generation as it was made. *)
LEMMA ProducerStartsStep == MsgIInv /\ Msg!ProducerStarts => MsgIInv'
<1> SUFFICES ASSUME MsgIInv, Msg!ProducerStarts PROVE MsgIInv' OBVIOUS
<1>1. /\ prod.at = "off" /\ prodStarts < MaxProducers /\ prodStarts' = prodStarts + 1
      /\ names' = IF names = 0 THEN made + 1 ELSE names
      /\ made' = IF names = 0 THEN made + 1 ELSE made
      /\ reused' = (reused \/ names # 0)
      /\ prod' = [at |-> "init", gen |-> names', read |-> 0]
      /\ UNCHANGED <<full, empty, semMutex, numMessages, cons, mixed>>
  BY DEF Msg!ProducerStarts, Msg!objects
<1>2. MsgTyped BY DEF MsgIInv
<1>3. /\ made \in 0 .. MaxProducers /\ prodStarts \in 0 .. MaxProducers
      /\ made <= prodStarts /\ names \in {0, made} /\ MaxProducers \in Nat
  BY <1>2, MessageAssumption DEF MsgTyped
<1>4. /\ made' \in 0 .. MaxProducers /\ prodStarts' \in 0 .. MaxProducers
      /\ made' <= prodStarts' /\ names' = made' /\ made' > 0 /\ made <= made'
  BY <1>1, <1>3
<1>5. prod'.at = "init" /\ prod'.gen = made' /\ prod'.read = 0 BY <1>1, <1>4
<1>6. MsgTyped'
  <2>1. prod' \in [at : {"off", "init", "waitEmpty", "waitMutex", "read", "write",
                         "postMutex", "postFull"},
                   gen : 0 .. MaxProducers, read : Int]
    BY <1>1, <1>4
  <2>2. cons.opened \in Seq(1 .. made')
    <3> DEFINE S == 1 .. made  T == 1 .. made'  q == cons.opened
    <3>1. q \in Seq(S) BY <1>2 DEF MsgTyped
    <3>2. S \subseteq T BY <1>3, <1>4
    <3> HIDE DEF S, T, q
    <3>3. \A i \in 1 .. Len(q) : q[i] \in T BY <3>1, <3>2
    <3>4. q \in Seq(T) BY <3>1, <3>3
    <3> QED BY <3>4 DEF q, T
  <2>3. cons' \in [at : {"off", "open", "waitFull", "waitMutex", "read", "write",
                         "postMutex", "postEmpty"},
                   opened : Seq(1 .. made'), read : Int]
    BY <1>1, <1>2, <2>2 DEF MsgTyped
  <2>4. names' \in {0, made'} BY <1>4
  <2> QED BY <1>1, <1>2, <1>4, <1>5, <2>1, <2>3, <2>4 DEF MsgTyped
<1>7. ASSUME ~reused', NEW g \in Msg!Generations, Counted(g) PROVE Counted(g)'
  <2>1. names = 0 /\ made' = made + 1 BY <1>1, <1>7
  <2>2. /\ Added(g) = 0 /\ PlaceTaken(g) = 0 /\ ProducerHas(g) = 0
        /\ Added(g)' = 0 /\ PlaceTaken(g)' = 0 /\ ProducerHas(g)' = 0
        /\ UNCHANGED <<MessageTaken(g), Removed(g), ConsumerHas(g)>>
    BY <1>1, <1>5
       DEF Added, PlaceTaken, ProducerHas, ProdIn, MessageTaken, Removed, ConsumerHas, ConsIn
  <2>3. Balanced(g)' BY <1>1, <1>7, <2>2 DEF Counted, Balanced
  <2>4. g \in Int /\ made \in Int BY <1>2, MsgNumbers
  <2>5. (g > made' \/ (prod'.at = "init" /\ prod'.gen = g)) => g > made
    BY <1>5, <2>1, <2>4
  <2>6. Current(g)' BY <1>1, <1>5, <1>7, <2>5 DEF Counted, Current
  <2> QED BY <2>3, <2>6 DEF Counted
<1> QED BY <1>1, <1>6, <1>7 DEF MsgIInv

(* A consumer that starts, is killed, or opens one more object. *)
LEMMA ConsumerAwayStep ==
  MsgIInv /\ (Msg!ConsumerStarts \/ Msg!ConsumerKilled \/ Msg!ConsumerOpens) => MsgIInv'
<1> SUFFICES ASSUME MsgIInv, Msg!ConsumerStarts \/ Msg!ConsumerKilled \/ Msg!ConsumerOpens
             PROVE  MsgIInv'
  OBVIOUS
<1>1. UNCHANGED <<names, made, full, empty, semMutex, numMessages, prod, prodStarts, reused>>
  BY DEF Msg!ConsumerStarts, Msg!ConsumerKilled, Msg!ConsumerOpens, Msg!objects
<1>2. MsgTyped BY DEF MsgIInv
<1>3. /\ cons'.at \in {"off", "open", "waitFull"}
      /\ cons' \in [at : {"off", "open", "waitFull", "waitMutex", "read", "write",
                          "postMutex", "postEmpty"},
                    opened : Seq(1 .. made), read : Int]
      /\ cons'.at \notin {"off", "open"} => Len(cons'.opened) = 4
      /\ ~mixed' => ~mixed
      /\ ~mixed' => \A i \in 1 .. Len(cons'.opened) : cons'.opened[i] = cons'.opened[1]
  <2>1. CASE Msg!ConsumerStarts \/ Msg!ConsumerKilled
    <3>1. /\ mixed' = mixed
          /\ \/ cons' = [at |-> "open", opened |-> <<>>, read |-> 0]
             \/ cons' = [at |-> "off", opened |-> <<>>, read |-> 0]
      BY <2>1 DEF Msg!ConsumerStarts, Msg!ConsumerKilled, Msg!NoConsumer
    <3>2. cons'.opened = <<>> /\ cons'.at \in {"off", "open"} BY <3>1
    <3>3. <<>> \in Seq(1 .. made) /\ Len(<<>>) = 0 OBVIOUS
    <3>4. \A i \in 1 .. Len(cons'.opened) : cons'.opened[i] = cons'.opened[1]
      BY <3>2, <3>3
    <3>5. cons' \in [at : {"off", "open", "waitFull", "waitMutex", "read", "write",
                          "postMutex", "postEmpty"},
                    opened : Seq(1 .. made), read : Int]
      <4> DEFINE S == Seq(1 .. made)  e == <<>>
      <4>1. e \in S BY <3>3
      <4>2. \/ cons' = [at |-> "open", opened |-> e, read |-> 0]
            \/ cons' = [at |-> "off", opened |-> e, read |-> 0]
        BY <3>1
      <4> HIDE DEF S, e
      <4>3. cons' \in [at : {"off", "open", "waitFull", "waitMutex", "read", "write",
                            "postMutex", "postEmpty"},
                      opened : S, read : Int]
        BY <4>1, <4>2
      <4> QED BY <4>3 DEF S
    <3> QED BY <3>1, <3>2, <3>4, <3>5
  <2>2. CASE Msg!ConsumerOpens
    <3> DEFINE o == Append(cons.opened, names)
    <3>1. /\ cons.at = "open" /\ names # 0
          /\ cons' = [cons EXCEPT !.opened = o,
                                  !.at = IF Len(o) = 4 THEN "waitFull" ELSE "open"]
          /\ mixed' = (mixed \/ \E i \in DOMAIN o : o[i] # names)
      BY <2>2 DEF Msg!ConsumerOpens
    <3>2. names \in 1 .. made
      <4>1. names = made /\ made \in 0 .. MaxProducers BY <1>2, <3>1 DEF MsgTyped
      <4> QED BY <3>1, <4>1, MessageAssumption
    <3>3. o \in Seq(1 .. made) /\ Len(o) \in Nat /\ Len(o) >= 1 /\ DOMAIN o = 1 .. Len(o)
      <4> DEFINE S == 1 .. made  q == cons.opened
      <4>1. q \in Seq(S) BY <1>2 DEF MsgTyped
      <4>2. names \in S BY <3>2
      <4> HIDE DEF S, q
      <4>3. Append(q, names) \in Seq(S) /\ Len(Append(q, names)) = Len(q) + 1 /\ Len(q) \in Nat
        BY <4>1, <4>2
      <4> QED BY <4>3 DEF S, q
    <3> HIDE DEF o
    <3>4. /\ cons'.opened = o /\ cons'.at = IF Len(o) = 4 THEN "waitFull" ELSE "open"
          /\ cons'.read = cons.read
          /\ cons' = [at |-> IF Len(o) = 4 THEN "waitFull" ELSE "open", opened |-> o,
                      read |-> cons.read]
          /\ cons.read \in Int
      BY <1>2, <3>1 DEF MsgTyped
    <3>5. ~mixed' => \A i \in 1 .. Len(o) : o[i] = o[1]
      <4>1. ~mixed' => \A i \in 1 .. Len(o) : o[i] = names BY <3>1, <3>3
      <4> QED BY <3>3, <4>1
    <3>6. ~mixed' => ~mixed BY <3>1
    <3> QED BY <3>3, <3>4, <3>5, <3>6
  <2> QED BY <2>1, <2>2
<1>4. MsgTyped' BY <1>1, <1>2, <1>3 DEF MsgTyped
<1>5. ASSUME NEW g \in Msg!Generations, Counted(g) PROVE Counted(g)'
  <2>1. /\ MessageTaken(g)' = 0 /\ Removed(g)' = 0 /\ ConsumerHas(g)' = 0
        /\ UNCHANGED <<Added(g), PlaceTaken(g), ProducerHas(g)>>
    BY <1>1, <1>3
       DEF Added, PlaceTaken, ProducerHas, ProdIn, MessageTaken, Removed, ConsumerHas, ConsIn
  <2>2. /\ full[g] \in Nat /\ empty[g] \in Nat /\ semMutex[g] \in Nat
        /\ numMessages[g] \in Int /\ MSG_COUNT \in Nat
    BY <1>2, MsgNumbers
  <2>3. /\ Added(g) \in 0 .. 1 /\ PlaceTaken(g) \in 0 .. 1 /\ ProducerHas(g) \in 0 .. 1
        /\ MessageTaken(g) \in 0 .. 1 /\ Removed(g) \in 0 .. 1 /\ ConsumerHas(g) \in 0 .. 1
    BY TermsAreSmall
  <2>4. Balanced(g)' BY <1>1, <1>5, <2>1, <2>2, <2>3 DEF Counted, Balanced
  <2>5. Current(g)' BY <1>1, <1>3, <1>5 DEF Counted, Current
  <2> QED BY <2>4, <2>5 DEF Counted
<1> QED BY <1>1, <1>3, <1>4, <1>5 DEF MsgIInv

(* Every step keeps the invariant. *)
LEMMA MsgStepIInv == MsgIInv /\ [Msg!MsgNext]_Msg!msgVars => MsgIInv'
<1> SUFFICES ASSUME MsgIInv, [Msg!MsgNext]_Msg!msgVars PROVE MsgIInv' OBVIOUS
<1>1. CASE UNCHANGED Msg!msgVars
  <2>1. UNCHANGED <<names, made, full, empty, semMutex, numMessages, prod, cons, prodStarts,
                    reused, mixed>>
    BY <1>1 DEF Msg!msgVars, Msg!objects
  <2>2. MsgTyped' BY <2>1 DEF MsgIInv, MsgTyped
  <2>3. ASSUME NEW g \in Msg!Generations, Counted(g) PROVE Counted(g)'
    BY <2>1, <2>3 DEF Counted, Balanced, Current, Added, PlaceTaken, ProducerHas, ProdIn,
                      MessageTaken, Removed, ConsumerHas, ConsIn
  <2> QED BY <2>1, <2>2, <2>3 DEF MsgIInv
<1>2. CASE Msg!ProducerStarts BY <1>2, ProducerStartsStep
<1>3. CASE Msg!ResetMessages BY <1>3, ResetMessagesStep
<1>4. CASE Msg!WaitEmpty BY <1>4, WaitEmptyStep
<1>5. CASE Msg!ProducerLocks BY <1>5, ProducerLocksStep
<1>6. CASE Msg!ProducerReads BY <1>6, ProducerReadsStep
<1>7. CASE Msg!Increase BY <1>7, IncreaseStep
<1>8. CASE Msg!ProducerUnlocks BY <1>8, ProducerUnlocksStep
<1>9. CASE Msg!PostFull BY <1>9, PostFullStep
<1>10. CASE Msg!ProducerInterrupted \/ Msg!ProducerKilled BY <1>10, ProducerStopsStep
<1>11. CASE Msg!ConsumerStarts \/ Msg!ConsumerKilled \/ Msg!ConsumerOpens
  BY <1>11, ConsumerAwayStep
<1>12. CASE Msg!WaitFull BY <1>12, WaitFullStep
<1>13. CASE Msg!ConsumerLocks BY <1>13, ConsumerLocksStep
<1>14. CASE Msg!ConsumerReads BY <1>14, ConsumerReadsStep
<1>15. CASE Msg!Decrease BY <1>15, DecreaseStep
<1>16. CASE Msg!ConsumerUnlocks BY <1>16, ConsumerUnlocksStep
<1>17. CASE Msg!PostEmpty BY <1>17, PostEmptyStep
<1> QED BY <1>1, <1>2, <1>3, <1>4, <1>5, <1>6, <1>7, <1>8, <1>9, <1>10, <1>11, <1>12, <1>13,
           <1>14, <1>15, <1>16, <1>17 DEF Msg!MsgNext

(* numMessages stays between 0 and MSG_COUNT: however many producers and
   consumers were killed, at whatever step, as long as no producer took over
   what another left and no consumer mixed two generations
   (practice/practice6/pr62producer.c and pr62consumer.c). *)
THEOREM NumMessagesBounded == Msg!MsgSpec => []NumMessagesInRange
<1>1. Msg!MsgInit => MsgIInv BY MsgInitIInv
<1>2. MsgIInv /\ [Msg!MsgNext]_Msg!msgVars => MsgIInv' BY MsgStepIInv
<1>3. MsgIInv => NumMessagesInRange
  <2> SUFFICES ASSUME MsgIInv, ~reused, ~mixed, NEW g \in Msg!Generations
               PROVE  numMessages[g] \in 0 .. MSG_COUNT
    <3>1. NumMessagesInRange <=> Msg!NumMessagesInRange BY DEF NumMessagesInRange
    <3> QED BY <3>1 DEF Msg!NumMessagesInRange
  <2>1. Balanced(g) BY DEF MsgIInv, Counted
  <2>2. /\ full[g] \in Nat /\ empty[g] \in Nat /\ numMessages[g] \in Int
        /\ MSG_COUNT \in Nat
    BY MsgNumbers DEF MsgIInv
  <2>3. /\ Added(g) \in 0 .. 1 /\ PlaceTaken(g) \in 0 .. 1
        /\ MessageTaken(g) \in 0 .. 1 /\ Removed(g) \in 0 .. 1
    BY TermsAreSmall
  <2> QED BY <2>1, <2>2, <2>3 DEF Balanced
<1> QED BY <1>1, <1>2, <1>3, PTL DEF Msg!MsgSpec
-----------------------------------------------------------------------------
(* MqSemaphore: the types, without the bound on the number of runs. *)
SemTyped ==
  /\ semProgram \in {"semaphore", "test"}
  /\ tokens \in Nat /\ tokens <= Sem!sem.max_value
  /\ stage \in [Processes -> {"off", "open", "threads"}]
  /\ toSend \in [Processes -> 0 .. Sem!sem.init_value]
  /\ runs \in Nat

(* The processes that have an initial token still to send, and the units that
   are to be had at once or will be: in the queue, inside, and to be sent. *)
Sending == {p \in Processes : Sem!Sent(p) > 0}
Held    == IsFiniteSet(inside) /\ IsFiniteSet(Sending)
Units   == (tokens + Cardinality(inside)) + Cardinality(Sending)

(* What the first run has done so far. *)
NotStarted == /\ tokens = 0 /\ inside = {}
              /\ \A p \in Processes : stage[p] = "off"
FirstRun ==
  /\ \A p, q \in Processes : stage[p] # "off" /\ stage[q] # "off" => p = q
  /\ \A p \in Processes :
       /\ stage[p] = "open" =>
            tokens + toSend[p] = Sem!sem.init_value /\ inside = {}
       /\ (stage[p] = "threads" /\ semProgram = "test") =>
            tokens + Cardinality(inside) = 1

SemIInv == /\ SemTyped /\ Held
           /\ (semProgram = "test" => Units <= runs)
           /\ (runs = 0 => NotStarted)
           /\ (runs = 1 => FirstRun)

(* The values that the two programs give their semaphores. *)
LEMMA SemValues ==
  ASSUME semProgram \in {"semaphore", "test"}
  PROVE  /\ Sem!sem.init_value \in 1 .. 5 /\ Sem!sem.max_value = 10
         /\ semProgram = "test" => Sem!sem.init_value = 1
  BY DEF Sem!sem, Sem!SemaphoreMain, Sem!TestMain

(* The quantities of the token count are naturals. *)
LEMMA SemNumbers ==
  ASSUME SemTyped, Held
  PROVE  /\ Cardinality(inside) \in Nat /\ Cardinality(Sending) \in Nat /\ tokens \in Nat
         /\ runs \in Nat
  BY FS_CardinalityType DEF SemTyped, Held

(* Nothing is to be sent before the first run. *)
LEMMA SemInitIInv == Sem!SemInit => SemIInv
<1> SUFFICES ASSUME Sem!SemInit PROVE SemIInv OBVIOUS
<1>1. /\ semProgram \in {"semaphore", "test"} /\ tokens = 0 /\ inside = {} /\ runs = 0
      /\ stage = [p \in Processes |-> "off"] /\ toSend = [p \in Processes |-> 0]
  BY DEF Sem!SemInit
<1>2. Sending = {} BY <1>1 DEF Sending, Sem!Sent
<1>3. Cardinality({}) = 0 /\ IsFiniteSet({}) BY FS_EmptySet
<1>4. SemTyped BY <1>1, SemValues DEF SemTyped
<1>5. Held BY <1>1, <1>2, <1>3 DEF Held
<1>6. Units <= runs BY <1>1, <1>2, <1>3 DEF Units
<1>7. NotStarted BY <1>1 DEF NotStarted
<1> QED BY <1>1, <1>4, <1>5, <1>6, <1>7 DEF SemIInv

(* A start adds one run, and one process that will send its token. *)
LEMMA SemStartStep == ASSUME SemIInv, NEW p \in Processes, Sem!Start(p) PROVE SemIInv'
<1>1. /\ stage[p] = "off" /\ stage' = [stage EXCEPT ![p] = "open"]
      /\ toSend' = [toSend EXCEPT ![p] = Sem!sem.init_value]
      /\ runs' = runs + 1 /\ UNCHANGED <<semProgram, tokens, inside>>
  BY DEF Sem!Start
<1>2. SemTyped /\ Held BY DEF SemIInv
<1>3. Sem!sem' = Sem!sem BY <1>1 DEF Sem!sem
<1>4. /\ Sem!sem.init_value \in 1 .. 5 /\ Sem!sem.max_value = 10
      /\ (semProgram = "test" => Sem!sem.init_value = 1)
  BY <1>2, SemValues DEF SemTyped
<1>5. SemTyped' BY <1>1, <1>2, <1>3, <1>4 DEF SemTyped
<1>6. /\ stage'[p] = "open" /\ toSend'[p] = Sem!sem.init_value
      /\ \A q \in Processes \ {p} : stage'[q] = stage[q] /\ toSend'[q] = toSend[q]
  BY <1>1, <1>2 DEF SemTyped
<1>7. Sending' = Sending \cup {p}
  <2>1. Sem!Sent(p)' > 0 BY <1>4, <1>6 DEF Sem!Sent
  <2>2. \A q \in Processes \ {p} : Sem!Sent(q)' = Sem!Sent(q) BY <1>6 DEF Sem!Sent
  <2> QED BY <2>1, <2>2 DEF Sending
<1>8. IsFiniteSet(Sending') /\ Cardinality(Sending') <= Cardinality(Sending) + 1
  BY <1>2, <1>7, FS_AddElement, FS_CardinalityType, SMTT(15) DEF Held
<1>9. Held' BY <1>1, <1>2, <1>8 DEF Held
<1>10. semProgram' = "test" => Units' <= runs'
  <2>1. /\ Cardinality(inside) \in Nat /\ Cardinality(Sending) \in Nat /\ tokens \in Nat
        /\ runs \in Nat
    BY <1>2, SemNumbers
  <2>2. Cardinality(Sending') \in Nat BY <1>8, FS_CardinalityType
  <2>3. semProgram = "test" => Units <= runs BY DEF SemIInv
  <2> QED BY <1>1, <1>8, <2>1, <2>2, <2>3 DEF Units
<1>11. runs' # 0 BY <1>1, <1>2, SemNumbers
<1>12. runs' = 1 => FirstRun'
  <2> SUFFICES ASSUME runs' = 1 PROVE FirstRun' OBVIOUS
  <2>1. runs = 0 BY <1>1, <1>2, SemNumbers
  <2>2. NotStarted BY <2>1 DEF SemIInv
  <2>3. \A q \in Processes : stage'[q] # "off" => q = p BY <1>6, <2>2 DEF NotStarted
  <2>4. tokens + Sem!sem.init_value = Sem!sem.init_value /\ inside = {}
    BY <1>4, <2>2 DEF NotStarted
  <2>5. \A q \in Processes :
          /\ stage'[q] = "open" => tokens' + toSend'[q] = (Sem!sem.init_value)' /\ inside' = {}
          /\ stage'[q] # "threads"
    BY <1>1, <1>3, <1>6, <2>3, <2>4
  <2> QED BY <2>3, <2>5 DEF FirstRun
<1> QED BY <1>5, <1>9, <1>10, <1>11, <1>12 DEF SemIInv

(* A kill takes with it what its threads had inside and what it would send. *)
LEMMA SemKillStep == ASSUME SemIInv, NEW p \in Processes, Sem!Kill(p) PROVE SemIInv'
<1>1. /\ stage[p] # "off" /\ stage' = [stage EXCEPT ![p] = "off"]
      /\ inside' = {t \in inside : t[1] # p}
      /\ UNCHANGED <<semProgram, tokens, toSend, runs>>
  BY DEF Sem!Kill
<1>2. SemTyped /\ Held BY DEF SemIInv
<1>3. Sem!sem' = Sem!sem BY <1>1 DEF Sem!sem
<1>4. SemTyped' BY <1>1, <1>2, <1>3 DEF SemTyped
<1>5. /\ stage'[p] = "off" /\ \A q \in Processes \ {p} : stage'[q] = stage[q]
  BY <1>1, <1>2 DEF SemTyped
<1>6. Sending' \subseteq Sending
  <2>1. ~(Sem!Sent(p)' > 0) BY <1>5 DEF Sem!Sent
  <2>2. \A q \in Processes \ {p} : Sem!Sent(q)' = Sem!Sent(q) BY <1>1, <1>5 DEF Sem!Sent
  <2> QED BY <2>1, <2>2 DEF Sending
<1>7. inside' \subseteq inside BY <1>1
<1>8. /\ IsFiniteSet(Sending') /\ Cardinality(Sending') <= Cardinality(Sending)
      /\ IsFiniteSet(inside') /\ Cardinality(inside') <= Cardinality(inside)
  BY <1>2, <1>6, <1>7, FS_Subset DEF Held
<1>9. Held' BY <1>8 DEF Held
<1>10. semProgram' = "test" => Units' <= runs'
  <2>1. /\ Cardinality(inside) \in Nat /\ Cardinality(Sending) \in Nat /\ tokens \in Nat
        /\ runs \in Nat
    BY <1>2, SemNumbers
  <2>2. Cardinality(Sending') \in Nat /\ Cardinality(inside') \in Nat
    BY <1>8, FS_CardinalityType
  <2>3. semProgram = "test" => Units <= runs BY DEF SemIInv
  <2> QED BY <1>1, <1>8, <2>1, <2>2, <2>3 DEF Units
<1>11. runs' # 0 BY <1>1 DEF SemIInv, NotStarted
<1>12. runs' = 1 => FirstRun'
  <2> SUFFICES ASSUME runs' = 1 PROVE FirstRun' OBVIOUS
  <2>1. \A q \in Processes : stage[q] # "off" => q = p BY <1>1 DEF SemIInv, FirstRun
  <2>2. \A q \in Processes : stage'[q] = "off" BY <1>5, <2>1
  <2> QED BY <2>2 DEF FirstRun
<1> QED BY <1>4, <1>9, <1>10, <1>11, <1>12 DEF SemIInv

(* main sends a token that it has to send, or goes on to the threads. *)
LEMMA SemOpenStep ==
  ASSUME SemIInv, NEW p \in Processes, Sem!OpenQueue(p) PROVE SemIInv'
<1>1. /\ stage[p] = "open" /\ UNCHANGED <<semProgram, inside, runs>>
      /\ \/ /\ toSend[p] > 0 /\ tokens < Sem!sem.max_value /\ tokens' = tokens + 1
            /\ toSend' = [toSend EXCEPT ![p] = @ - 1] /\ UNCHANGED stage
         \/ /\ ~(toSend[p] > 0) /\ stage' = [stage EXCEPT ![p] = "threads"]
            /\ UNCHANGED <<tokens, toSend>>
  BY DEF Sem!OpenQueue, Sem!mq_send
<1>2. SemTyped /\ Held BY DEF SemIInv
<1>3. Sem!sem' = Sem!sem BY <1>1 DEF Sem!sem
<1>4. /\ Sem!sem.init_value \in 1 .. 5 /\ Sem!sem.max_value = 10
      /\ (semProgram = "test" => Sem!sem.init_value = 1)
  BY <1>2, SemValues DEF SemTyped
<1>5. /\ toSend[p] \in Int /\ 0 <= toSend[p] /\ toSend[p] <= Sem!sem.init_value
  BY <1>2, <1>4 DEF SemTyped
<1>6. /\ Cardinality(inside) \in Nat /\ Cardinality(Sending) \in Nat /\ tokens \in Nat
      /\ runs \in Nat
  BY <1>2, SemNumbers
<1>7. runs' # 0 BY <1>1 DEF SemIInv, NotStarted
<1>8. CASE /\ toSend[p] > 0 /\ tokens < Sem!sem.max_value /\ tokens' = tokens + 1
           /\ toSend' = [toSend EXCEPT ![p] = @ - 1] /\ UNCHANGED stage
  <2>1. /\ toSend'[p] = toSend[p] - 1
        /\ \A q \in Processes \ {p} : toSend'[q] = toSend[q]
    BY <1>2, <1>8 DEF SemTyped
  <2>2. SemTyped'
    <3>1. toSend' \in [Processes -> 0 .. Sem!sem.init_value]
      <4> DEFINE e == toSend[p] - 1
      <4>1. e \in 0 .. Sem!sem.init_value BY <1>4, <1>5, <1>8
      <4>2. toSend' = [toSend EXCEPT ![p] = e] BY <1>8
      <4> HIDE DEF e
      <4> QED BY <1>2, <4>1, <4>2 DEF SemTyped
    <3>2. tokens' \in Nat /\ tokens' <= Sem!sem.max_value BY <1>4, <1>6, <1>8
    <3> QED BY <1>1, <1>2, <1>3, <1>8, <3>1, <3>2 DEF SemTyped
  <2>3. Sending' \subseteq Sending
    <3>1. Sem!Sent(p) > 0 BY <1>1, <1>8 DEF Sem!Sent
    <3>2. \A q \in Processes \ {p} : Sem!Sent(q)' = Sem!Sent(q) BY <1>8, <2>1 DEF Sem!Sent
    <3> QED BY <3>1, <3>2 DEF Sending
  <2>4. IsFiniteSet(Sending') BY <1>2, <2>3, FS_Subset DEF Held
  <2>5. Held' BY <1>1, <1>2, <2>4 DEF Held
  <2>6. semProgram' = "test" => Units' <= runs'
    <3> SUFFICES ASSUME semProgram = "test" PROVE Units' <= runs' BY <1>1
    <3>1. toSend[p] = 1 BY <1>4, <1>5, <1>8
    <3>2. p \in Sending BY <1>1, <3>1 DEF Sending, Sem!Sent
    <3>3. ~(Sem!Sent(p)' > 0) BY <1>1, <1>8, <2>1, <3>1 DEF Sem!Sent
    <3>4. Sending' \subseteq Sending \ {p} BY <2>3, <3>3 DEF Sending
    <3>5. /\ IsFiniteSet(Sending \ {p})
          /\ Cardinality(Sending \ {p}) = Cardinality(Sending) - 1
      BY <1>2, <3>2, FS_RemoveElement DEF Held
    <3>6. Cardinality(Sending') <= Cardinality(Sending) - 1 BY <3>4, <3>5, FS_Subset
    <3>7. Cardinality(Sending') \in Nat BY <2>4, FS_CardinalityType
    <3>8. Units <= runs BY DEF SemIInv
    <3> QED BY <1>1, <1>6, <1>8, <3>6, <3>7, <3>8 DEF Units
  <2>7. runs' = 1 => FirstRun'
    <3> SUFFICES ASSUME runs = 1 PROVE FirstRun' BY <1>1
    <3>1. FirstRun BY DEF SemIInv
    <3>2. \A q \in Processes : stage[q] # "off" => q = p BY <1>1, <3>1 DEF FirstRun
    <3>3. tokens + toSend[p] = Sem!sem.init_value /\ inside = {} BY <1>1, <3>1 DEF FirstRun
    <3>4. tokens' + toSend'[p] = (Sem!sem.init_value)'
      BY <1>3, <1>4, <1>5, <1>6, <1>8, <2>1, <3>3
    <3> QED BY <1>1, <1>8, <3>2, <3>3, <3>4 DEF FirstRun
  <2> QED BY <1>7, <2>2, <2>5, <2>6, <2>7 DEF SemIInv
<1>9. CASE /\ ~(toSend[p] > 0) /\ stage' = [stage EXCEPT ![p] = "threads"]
           /\ UNCHANGED <<tokens, toSend>>
  <2>1. /\ stage'[p] = "threads" /\ \A q \in Processes \ {p} : stage'[q] = stage[q]
    BY <1>2, <1>9 DEF SemTyped
  <2>2. SemTyped' BY <1>1, <1>2, <1>3, <1>9 DEF SemTyped
  <2>3. Sending' = Sending
    <3>1. ~(Sem!Sent(p) > 0) /\ ~(Sem!Sent(p)' > 0) BY <1>1, <1>9, <2>1 DEF Sem!Sent
    <3>2. \A q \in Processes \ {p} : Sem!Sent(q)' = Sem!Sent(q) BY <1>9, <2>1 DEF Sem!Sent
    <3> QED BY <3>1, <3>2 DEF Sending
  <2>4. Held' BY <1>1, <1>2, <2>3 DEF Held
  <2>5. semProgram' = "test" => Units' <= runs' BY <1>1, <1>9, <2>3 DEF SemIInv, Units
  <2>6. runs' = 1 => FirstRun'
    <3> SUFFICES ASSUME runs = 1 PROVE FirstRun' BY <1>1
    <3>1. FirstRun BY DEF SemIInv
    <3>2. \A q \in Processes : stage[q] # "off" => q = p BY <1>1, <3>1 DEF FirstRun
    <3>3. \A q \in Processes : stage'[q] # "off" => q = p BY <2>1, <3>2
    <3>4. tokens + toSend[p] = Sem!sem.init_value /\ inside = {} BY <1>1, <3>1 DEF FirstRun
    <3>5. toSend[p] = 0 BY <1>5, <1>9
    <3>6. Cardinality(inside) = 0 BY <3>4, FS_EmptySet
    <3>7. semProgram = "test" => tokens + Cardinality(inside) = 1
      BY <1>4, <1>6, <3>4, <3>5, <3>6
    <3> QED BY <1>1, <1>9, <2>1, <3>3, <3>7 DEF FirstRun
  <2> QED BY <1>7, <2>2, <2>4, <2>5, <2>6 DEF SemIInv
<1> QED BY <1>1, <1>8, <1>9

(* semaphore.c: a signal and a wait; nothing is said of its tokens. *)
LEMMA SemThreadStep ==
  ASSUME SemIInv, NEW p \in Processes, Sem!producer(p) \/ Sem!consumer(p) PROVE SemIInv'
<1>1. /\ semProgram = "semaphore" /\ stage[p] = "threads"
      /\ UNCHANGED <<semProgram, stage, toSend, inside, runs>>
      /\ \/ tokens < Sem!sem.max_value /\ tokens' = tokens + 1
         \/ tokens > 0 /\ tokens' = tokens - 1
  BY DEF Sem!producer, Sem!consumer, Sem!SemaphoreThread, Sem!mq_send, Sem!mq_receive
<1>2. SemTyped /\ Held BY DEF SemIInv
<1>3. Sem!sem' = Sem!sem BY <1>1 DEF Sem!sem
<1>4. Sem!sem.max_value = 10 BY <1>2, SemValues DEF SemTyped
<1>5. SemTyped'
  <2>1. tokens' \in Nat /\ tokens' <= Sem!sem.max_value BY <1>1, <1>2, <1>4 DEF SemTyped
  <2> QED BY <1>1, <1>2, <1>3, <2>1 DEF SemTyped
<1>6. Held' BY <1>1, <1>2 DEF Held, Sending, Sem!Sent
<1>7. semProgram' # "test" BY <1>1
<1>8. runs' # 0 BY <1>1 DEF SemIInv, NotStarted
<1>9. runs' = 1 => FirstRun'
  <2> SUFFICES ASSUME runs = 1 PROVE FirstRun' BY <1>1
  <2>1. FirstRun BY DEF SemIInv
  <2>2. \A q \in Processes : stage[q] # "off" => q = p BY <1>1, <2>1 DEF FirstRun
  <2>3. \A q \in Processes : stage[q] # "open" BY <1>1, <2>2
  <2> QED BY <1>1, <1>7, <2>2, <2>3 DEF FirstRun
<1> QED BY <1>5, <1>6, <1>7, <1>8, <1>9 DEF SemIInv

(* test.c: a token becomes a thread inside, and a thread inside a token. *)
LEMMA SemTestStep ==
  ASSUME SemIInv, NEW p \in Processes, NEW kind,
         Sem!semaphore_wait(p, kind) \/ Sem!semaphore_signal(p, kind)
  PROVE  SemIInv'
<1> DEFINE t == <<p, kind>>
<1>1. /\ semProgram = "test" /\ stage[p] = "threads"
      /\ UNCHANGED <<semProgram, stage, toSend, runs>>
      /\ \/ /\ t \notin inside /\ tokens > 0 /\ tokens' = tokens - 1
            /\ inside' = inside \cup {t}
         \/ /\ t \in inside /\ tokens < Sem!sem.max_value /\ tokens' = tokens + 1
            /\ inside' = inside \ {t}
  BY DEF Sem!semaphore_wait, Sem!semaphore_signal, Sem!TestThread, Sem!mq_send, Sem!mq_receive
<1>2. SemTyped /\ Held BY DEF SemIInv
<1>3. Sem!sem' = Sem!sem BY <1>1 DEF Sem!sem
<1>4. Sem!sem.max_value = 10 BY <1>2, SemValues DEF SemTyped
<1>5. SemTyped'
  <2>1. tokens' \in Nat /\ tokens' <= Sem!sem.max_value BY <1>1, <1>2, <1>4 DEF SemTyped
  <2> QED BY <1>1, <1>2, <1>3, <2>1 DEF SemTyped
<1>6. Sending' = Sending BY <1>1 DEF Sending, Sem!Sent
<1>7. /\ Cardinality(inside) \in Nat /\ Cardinality(Sending) \in Nat /\ tokens \in Nat
      /\ runs \in Nat
  BY <1>2, SemNumbers
<1> HIDE DEF t
<1>8. IsFiniteSet(inside') /\ tokens' + Cardinality(inside') = tokens + Cardinality(inside)
  <2>1. /\ IsFiniteSet(inside \cup {t}) /\ IsFiniteSet(inside \ {t})
        /\ (t \notin inside => Cardinality(inside \cup {t}) = Cardinality(inside) + 1)
        /\ (t \in inside => Cardinality(inside \ {t}) = Cardinality(inside) - 1)
    BY <1>2, FS_AddElement, FS_RemoveElement DEF Held
  <2> QED BY <1>1, <1>7, <2>1
<1>9. Held' BY <1>2, <1>6, <1>8 DEF Held
<1>10. Units' = Units BY <1>6, <1>8 DEF Units
<1>11. Units' <= runs' BY <1>1, <1>10 DEF SemIInv
<1>12. runs' # 0 BY <1>1 DEF SemIInv, NotStarted
<1>13. runs' = 1 => FirstRun'
  <2> SUFFICES ASSUME runs = 1 PROVE FirstRun' BY <1>1
  <2>1. FirstRun BY DEF SemIInv
  <2>2. \A q \in Processes : stage[q] # "off" => q = p BY <1>1, <2>1 DEF FirstRun
  <2>3. \A q \in Processes : stage[q] # "open" BY <1>1, <2>2
  <2>4. tokens' + Cardinality(inside') = 1 BY <1>1, <1>8, <2>1 DEF FirstRun
  <2> QED BY <1>1, <2>2, <2>3, <2>4 DEF FirstRun
<1> QED BY <1>5, <1>9, <1>11, <1>12, <1>13 DEF SemIInv

(* Every step keeps the invariant. *)
LEMMA SemStepIInv == SemIInv /\ [Sem!SemNext]_Sem!semVars => SemIInv'
<1> SUFFICES ASSUME SemIInv, [Sem!SemNext]_Sem!semVars PROVE SemIInv' OBVIOUS
<1>1. CASE UNCHANGED Sem!semVars
  <2>1. UNCHANGED <<semProgram, tokens, stage, toSend, inside, runs>> BY <1>1 DEF Sem!semVars
  <2> QED BY <2>1 DEF SemIInv, SemTyped, Held, Units, Sending, Sem!Sent, NotStarted, FirstRun,
                      Sem!sem
<1>2. CASE Sem!SemNext
  <2>1. PICK p \in Processes :
          \/ Sem!Start(p) \/ Sem!Kill(p)
          \/ Sem!sem_open(p) \/ Sem!producer(p) \/ Sem!consumer(p)
          \/ Sem!semaphore_init(p)
          \/ \E kind \in Sem!Kinds :
               Sem!semaphore_wait(p, kind) \/ Sem!semaphore_signal(p, kind)
    BY <1>2 DEF Sem!SemNext
  <2>2. CASE Sem!Start(p) BY <2>2, SemStartStep
  <2>3. CASE Sem!Kill(p) BY <2>3, SemKillStep
  <2>4. CASE Sem!sem_open(p) \/ Sem!semaphore_init(p)
    BY <2>4, SemOpenStep DEF Sem!sem_open, Sem!semaphore_init
  <2>5. CASE Sem!producer(p) \/ Sem!consumer(p) BY <2>5, SemThreadStep
  <2>6. CASE \E kind \in Sem!Kinds :
               Sem!semaphore_wait(p, kind) \/ Sem!semaphore_signal(p, kind)
    BY <2>6, SemTestStep
  <2> QED BY <2>1, <2>2, <2>3, <2>4, <2>5, <2>6
<1> QED BY <1>1, <1>2

(* What is left in the queue across runs of test.c and semaphore.c: a run adds
   one token to those of test.c and nothing else does, in the first run there
   is one, and its main does not hang on the initial tokens (os/assignment). *)
THEOREM OneTokenEachRun == Sem!SemSpec => []OneTokenPerRun
<1>1. Sem!SemInit => SemIInv BY SemInitIInv
<1>2. SemIInv /\ [Sem!SemNext]_Sem!semVars => SemIInv' BY SemStepIInv
<1>3. SemIInv => OneTokenPerRun
  <2> SUFFICES ASSUME SemIInv PROVE OneTokenPerRun OBVIOUS
  <2>1. /\ Sem!Cardinality(inside) = Cardinality(inside)
        /\ Sem!Cardinality({p \in Processes : Sem!Sent(p) > 0}) = Cardinality(Sending)
    BY DEF Sem!Cardinality, Cardinality, Sending
  <2>2. SemTyped /\ Held BY DEF SemIInv
  <2>3. /\ Cardinality(inside) \in Nat /\ Cardinality(Sending) \in Nat /\ tokens \in Nat
        /\ runs \in Nat
    BY <2>2, SemNumbers
  <2>4. /\ Sem!sem.init_value \in 1 .. 5 /\ Sem!sem.max_value = 10
    BY <2>2, SemValues DEF SemTyped
  <2>5. semProgram = "test" =>
          tokens + Sem!Cardinality(inside)
            + Sem!Cardinality({p \in Processes : Sem!Sent(p) > 0}) <= runs
    BY <2>1, <2>3 DEF SemIInv, Units
  <2>6. ASSUME semProgram = "test", runs = 1, NEW p \in Processes, stage[p] = "threads"
        PROVE  tokens + Sem!Cardinality(inside) = 1
    BY <2>1, <2>6 DEF SemIInv, FirstRun
  <2>7. ASSUME runs = 1, NEW p \in Processes, Sem!Sent(p) > 0
        PROVE  tokens < Sem!sem.max_value
    <3>1. stage[p] = "open" /\ toSend[p] > 0 BY <2>7 DEF Sem!Sent
    <3>2. tokens + toSend[p] = Sem!sem.init_value BY <2>7, <3>1 DEF SemIInv, FirstRun
    <3>3. toSend[p] \in Int BY <2>2, <2>4 DEF SemTyped
    <3> QED BY <2>3, <2>4, <3>1, <3>2, <3>3
  <2>8. Sem!OneTokenPerRun BY <2>5, <2>6, <2>7 DEF Sem!OneTokenPerRun
  <2> QED BY <2>8 DEF OneTokenPerRun
<1> QED BY <1>1, <1>2, <1>3, PTL DEF Sem!SemSpec
-----------------------------------------------------------------------------
(* MqBatch: the types, and that fewer queues are made than executions have
   opened one, so that each is in Queues. *)
Openers == {x \in MqWriters \cup MqReaders : \/ x \in MqWriters /\ mqWriter[x].at # "off"
                                             \/ x \in MqReaders /\ mqReader[x].at # "off"}

WriterRecord == [at : {"off", "send", "end"}, mqd : Nat, left : Int]
ReaderRecord == [at : {"off", "count", "receive", "exit", "end"}, mqd : Nat, left : Int]

BatchTyped ==
  /\ batch \in {"mqread", "example", "mqname"}
  /\ mqMade \in Nat /\ mqName \in 0 .. mqMade
  /\ curmsgs \in [Batch!Queues -> Nat]
  /\ mqWriter \in [MqWriters -> WriterRecord]
  /\ mqReader \in [MqReaders -> ReaderRecord]
  /\ \A r \in MqReaders : mqReader[r].at \in {"count", "receive"} =>
                            mqReader[r].mqd \in 1 .. mqMade

Remaining ==
  \A r \in MqReaders \ rivals :
    mqReader[r].at = "receive" /\ Batch!prog.counts
      => mqReader[r].left <= curmsgs[mqReader[r].mqd]

BatchIInv == BatchTyped /\ mqMade <= Cardinality(Openers) /\ Remaining

(* The programs. *)
LEMMA Batches ==
  ASSUME batch \in {"mqread", "example", "mqname"}
  PROVE  /\ Batch!prog.sends \in Nat
         /\ Batch!prog.counts \in BOOLEAN
<1>1. CASE batch = "mqread"
  <2>1. Batch!prog = Batch!Mqread BY <1>1 DEF Batch!prog
  <2> QED BY <2>1 DEF Batch!Mqread
<1>2. CASE batch = "example"
  <2>1. Batch!prog = Batch!Example BY <1>2 DEF Batch!prog
  <2> QED BY <2>1 DEF Batch!Example
<1>3. CASE batch = "mqname"
  <2>1. Batch!prog = Batch!Mqname BY <1>3 DEF Batch!prog
  <2> QED BY <2>1, BatchAssumption DEF Batch!Mqname
<1> QED BY <1>1, <1>2, <1>3

(* The program stays the same where its name does. *)
LEMMA SameBatch == ASSUME batch' = batch PROVE Batch!prog' = Batch!prog BY DEF Batch!prog

(* There are finitely many openers, and a queue for each at most. *)
LEMMA OpenersBound ==
  /\ IsFiniteSet(Openers) /\ Cardinality(Openers) \in Nat
  /\ Cardinality(Openers) <= Cardinality(MqWriters \cup MqReaders)
  /\ Cardinality(MqWriters \cup MqReaders) \in Nat
  /\ Batch!Queues = 1 .. Cardinality(MqWriters \cup MqReaders)
<1>1. IsFiniteSet(MqWriters \cup MqReaders) BY BatchAssumption, FS_Union
<1>2. Openers \in SUBSET (MqWriters \cup MqReaders) BY DEF Openers
<1>3. IsFiniteSet(Openers) /\ Cardinality(Openers) <= Cardinality(MqWriters \cup MqReaders)
  BY <1>1, <1>2, FS_Subset
<1>4. Batch!Cardinality(MqWriters \cup MqReaders) = Cardinality(MqWriters \cup MqReaders)
  BY DEF Batch!Cardinality, Cardinality
<1>5. Cardinality(Openers) \in Nat /\ Cardinality(MqWriters \cup MqReaders) \in Nat
  BY <1>1, <1>3, FS_CardinalityType
<1> QED BY <1>3, <1>4, <1>5 DEF Batch!Queues

(* A queue that was made is among Queues. *)
LEMMA MadeInQueues == ASSUME BatchIInv PROVE 1 .. mqMade \subseteq Batch!Queues
<1>1. mqMade \in Nat /\ mqMade <= Cardinality(Openers) BY DEF BatchIInv, BatchTyped
<1> QED BY <1>1, OpenersBound

(* Nothing is made at first. *)
LEMMA BatchInitIInv == Batch!BatchInit => BatchIInv
<1> SUFFICES ASSUME Batch!BatchInit PROVE BatchIInv OBVIOUS
<1>1. /\ batch \in {"mqread", "example", "mqname"} /\ mqName = 0 /\ mqMade = 0
      /\ curmsgs = [q \in Batch!Queues |-> 0]
      /\ mqWriter = [w \in MqWriters |-> [at |-> "off", mqd |-> 0, left |-> 0]]
      /\ mqReader = [r \in MqReaders |-> [at |-> "off", mqd |-> 0, left |-> 0]]
  BY DEF Batch!BatchInit, Batch!Idle
<1>2. [at |-> "off", mqd |-> 0, left |-> 0] \in WriterRecord BY DEF WriterRecord
<1>3. [at |-> "off", mqd |-> 0, left |-> 0] \in ReaderRecord BY DEF ReaderRecord
<1>4. \A r \in MqReaders : mqReader[r].at = "off" BY <1>1
<1>5. BatchTyped BY <1>1, <1>2, <1>3, <1>4 DEF BatchTyped
<1>6. mqMade <= Cardinality(Openers) BY <1>1, OpenersBound
<1>7. Remaining BY <1>4 DEF Remaining
<1> QED BY <1>5, <1>6, <1>7 DEF BatchIInv

(* mq_open makes one queue at most, and whoever calls it was no opener. *)
LEMMA MakesOne ==
  ASSUME BatchIInv, NEW makes, Batch!OpenQueue(makes)
  PROVE  /\ mqMade' \in {mqMade, mqMade + 1} /\ mqMade' \in Nat
         /\ mqName' \in 0 .. mqMade' /\ mqMade <= mqMade'
<1>1. mqMade \in Nat /\ mqName \in 0 .. mqMade BY DEF BatchIInv, BatchTyped
<1>2. /\ mqName' = Batch!Opened(makes)
      /\ mqMade' = IF Batch!Opened(makes) > mqMade THEN mqMade + 1 ELSE mqMade
  BY DEF Batch!OpenQueue
<1>3. Batch!Opened(makes) = mqMade + 1 \/ Batch!Opened(makes) = mqName
  BY DEF Batch!Opened
<1> HIDE DEF Batch!Opened
<1> QED BY <1>1, <1>2, <1>3

(* A process that opens for the first time accounts for the queue it may make. *)
LEMMA OneMoreOpener ==
  ASSUME BatchIInv, NEW x, Openers' = Openers \cup {x}, x \notin Openers,
         mqMade' \in {mqMade, mqMade + 1}
  PROVE  mqMade' <= Cardinality(Openers')
<1>1. mqMade \in Nat /\ mqMade <= Cardinality(Openers) BY DEF BatchIInv, BatchTyped
<1>2. Cardinality(Openers') = Cardinality(Openers) + 1 BY OpenersBound, FS_AddElement
<1> QED BY <1>1, <1>2, OpenersBound

(* A writer opens the queue, or ends if there is none. *)
LEMMA WriterOpensStep ==
  ASSUME BatchIInv, NEW w \in MqWriters, Batch!WriterOpens(w) PROVE BatchIInv'
<1> DEFINE to == IF mqName' = 0 THEN [at |-> "end", mqd |-> 0, left |-> 0]
                 ELSE [at |-> "send", mqd |-> mqName', left |-> Batch!prog.sends]
<1>1. /\ mqWriter[w].at = "off" /\ Batch!OpenQueue(Batch!prog.writerMakes)
      /\ mqWriter' = [mqWriter EXCEPT ![w] = to]
      /\ UNCHANGED <<batch, curmsgs, mqReader, rivals>>
  <2>1. [Batch!Idle EXCEPT !.at = "end"] = [at |-> "end", mqd |-> 0, left |-> 0]
    BY DEF Batch!Idle
  <2> QED BY <2>1 DEF Batch!WriterOpens
<1>2. BatchTyped BY DEF BatchIInv
<1>3. /\ mqMade' \in {mqMade, mqMade + 1} /\ mqMade' \in Nat
      /\ mqName' \in 0 .. mqMade' /\ mqMade <= mqMade'
  BY <1>1, MakesOne
<1>4. to \in WriterRecord /\ to.at # "off"
  <2>1. Batch!prog.sends \in Nat BY <1>2, Batches DEF BatchTyped
  <2>2. mqName' \in Nat BY <1>3
  <2> QED BY <2>1, <2>2 DEF WriterRecord
<1> HIDE DEF to
<1>5. /\ mqWriter' \in [MqWriters -> WriterRecord] /\ mqWriter'[w] = to
      /\ \A v \in MqWriters \ {w} : mqWriter'[v] = mqWriter[v]
  BY <1>1, <1>2, <1>4 DEF BatchTyped
<1>6. BatchTyped'
  <2>1. mqMade \in Nat BY <1>2 DEF BatchTyped
  <2>2. \A r \in MqReaders : mqReader'[r].at \in {"count", "receive"} =>
                               mqReader'[r].mqd \in 1 .. mqMade'
    BY <1>1, <1>2, <1>3, <2>1 DEF BatchTyped
  <2>3. curmsgs' \in [Batch!Queues -> Nat] /\ Batch!Queues' = Batch!Queues
    BY <1>1, <1>2 DEF BatchTyped, Batch!Queues
  <2>4. /\ mqReader' \in [MqReaders -> ReaderRecord]
        /\ batch' \in {"mqread", "example", "mqname"}
    BY <1>1, <1>2 DEF BatchTyped
  <2> QED BY <1>3, <1>5, <2>2, <2>3, <2>4 DEF BatchTyped
<1>7. mqMade' <= Cardinality(Openers')
  <2>1. w \notin MqReaders BY BatchAssumption
  <2>2. w \notin Openers BY <1>1, <2>1 DEF Openers
  <2>3. Openers' = Openers \cup {w} BY <1>1, <1>4, <1>5, <2>1 DEF Openers
  <2> QED BY <1>3, <2>2, <2>3, OneMoreOpener
<1>8. Remaining'
  <2>1. Batch!prog' = Batch!prog BY <1>1, SameBatch
  <2>2. Remaining BY DEF BatchIInv
  <2> QED BY <1>1, <2>1, <2>2 DEF Remaining
<1> QED BY <1>6, <1>7, <1>8 DEF BatchIInv

(* A reader opens the queue, or ends if there is none. *)
LEMMA ReaderOpensStep ==
  ASSUME BatchIInv, NEW r \in MqReaders, Batch!ReaderOpens(r) PROVE BatchIInv'
<1> DEFINE me == mqReader[r]
           to == mqReader'[r]
<1>1. BatchTyped BY DEF BatchIInv
<1>2. me \in ReaderRecord /\ me.at = "off"
  BY <1>1 DEF BatchTyped, Batch!ReaderOpens
<1>3. /\ UNCHANGED <<batch, curmsgs, mqWriter, rivals>>
      /\ \/ /\ mqReader' = [mqReader EXCEPT ![r].at = "exit"]
            /\ UNCHANGED <<mqName, mqMade>>
         \/ /\ Batch!OpenQueue(~Batch!prog.counts)
            /\ mqName = 0 => ~Batch!prog.counts
            /\ mqReader' = [mqReader EXCEPT ![r].mqd = mqName',
                 ![r].at = IF Batch!prog.counts THEN "count" ELSE "receive",
                 ![r].left = IF Batch!prog.counts THEN 0 ELSE 1]
  BY DEF Batch!ReaderOpens, Batch!Forever
<1>4. /\ mqMade' \in {mqMade, mqMade + 1} /\ mqMade' \in Nat
      /\ mqName' \in 0 .. mqMade' /\ mqMade <= mqMade'
  <2>1. mqMade \in Nat /\ mqName \in 0 .. mqMade BY <1>1 DEF BatchTyped
  <2> QED BY <1>3, <2>1, MakesOne
<1>5. /\ mqReader' \in [MqReaders -> ReaderRecord] /\ to.at # "off"
      /\ \A s \in MqReaders \ {r} : mqReader'[s] = mqReader[s]
      /\ to.at \in {"count", "receive"} => to.mqd \in 1 .. mqMade'
      /\ to.at = "receive" => ~Batch!prog.counts
  <2>1. mqReader \in [MqReaders -> ReaderRecord] BY <1>1 DEF BatchTyped
  <2>2. CASE mqReader' = [mqReader EXCEPT ![r].at = "exit"]
    <3> DEFINE e == [me EXCEPT !.at = "exit"]
    <3>1. e \in ReaderRecord /\ e.at = "exit" BY <1>2 DEF ReaderRecord
    <3>2. mqReader' = [mqReader EXCEPT ![r] = e] BY <2>2
    <3> HIDE DEF e
    <3> QED BY <2>1, <3>1, <3>2
  <2>3. CASE /\ Batch!OpenQueue(~Batch!prog.counts)
             /\ mqName = 0 => ~Batch!prog.counts
             /\ mqReader' = [mqReader EXCEPT ![r].mqd = mqName',
                  ![r].at = IF Batch!prog.counts THEN "count" ELSE "receive",
                  ![r].left = IF Batch!prog.counts THEN 0 ELSE 1]
    <3> DEFINE a == IF Batch!prog.counts THEN "count" ELSE "receive"
               l == IF Batch!prog.counts THEN 0 ELSE 1
               e == [me EXCEPT !.mqd = mqName', !.at = a, !.left = l]
    <3>1. mqName' \in Nat BY <1>4
    <3>2. a \in {"count", "receive"} /\ l \in Int /\ (a = "receive" => ~Batch!prog.counts)
      OBVIOUS
    <3>3. mqReader' = [mqReader EXCEPT ![r] = e] BY <2>3
    <3> HIDE DEF a, l
    <3>4. /\ e \in ReaderRecord /\ e.at \in {"count", "receive"} /\ e.mqd = mqName'
          /\ e.at = a
      BY <1>2, <3>1, <3>2 DEF ReaderRecord
    <3>5. mqName' # 0
      <4>1. /\ mqName' = Batch!Opened(~Batch!prog.counts)
            /\ Batch!Opened(~Batch!prog.counts)
                 = IF mqName = 0 /\ ~Batch!prog.counts THEN mqMade + 1 ELSE mqName
        BY <2>3 DEF Batch!OpenQueue, Batch!Opened
      <4>2. mqMade \in Nat BY <1>1 DEF BatchTyped
      <4> QED BY <2>3, <4>1, <4>2
    <3>6. mqName' \in 1 .. mqMade' BY <1>4, <3>5
    <3> HIDE DEF e
    <3>7. mqReader' \in [MqReaders -> ReaderRecord] /\ to = e
          /\ \A s \in MqReaders \ {r} : mqReader'[s] = mqReader[s]
      BY <2>1, <3>3, <3>4
    <3> QED BY <3>2, <3>6, <3>7, <3>4
  <2> QED BY <1>3, <2>2, <2>3
<1> HIDE DEF me, to
<1>6. BatchTyped'
  <2>1. mqMade \in Nat BY <1>1 DEF BatchTyped
  <2>2. \A s \in MqReaders : mqReader'[s].at \in {"count", "receive"} =>
                               mqReader'[s].mqd \in 1 .. mqMade'
    <3> SUFFICES ASSUME NEW s \in MqReaders, mqReader'[s].at \in {"count", "receive"}
                 PROVE  mqReader'[s].mqd \in 1 .. mqMade'
      OBVIOUS
    <3>1. CASE s = r BY <1>5, <3>1 DEF to
    <3>2. CASE s # r
      <4>1. mqReader[s].mqd \in 1 .. mqMade /\ mqReader'[s] = mqReader[s]
        BY <1>1, <1>5, <3>2 DEF BatchTyped
      <4> QED BY <1>4, <2>1, <4>1
    <3> QED BY <3>1, <3>2
  <2>3. curmsgs' \in [Batch!Queues -> Nat] /\ Batch!Queues' = Batch!Queues
    BY <1>1, <1>3 DEF BatchTyped, Batch!Queues
  <2>4. /\ mqWriter' \in [MqWriters -> WriterRecord]
        /\ batch' \in {"mqread", "example", "mqname"}
    BY <1>1, <1>3 DEF BatchTyped
  <2> QED BY <1>4, <1>5, <2>2, <2>3, <2>4 DEF BatchTyped
<1>7. mqMade' <= Cardinality(Openers')
  <2>1. r \notin MqWriters BY BatchAssumption
  <2>2. r \notin Openers BY <1>2, <2>1 DEF Openers, me
  <2>3. Openers' = Openers \cup {r} BY <1>3, <1>5, <2>1 DEF Openers, to
  <2> QED BY <1>4, <2>2, <2>3, OneMoreOpener
<1>8. Remaining'
  <2>1. Batch!prog' = Batch!prog BY <1>3, SameBatch
  <2>2. Remaining BY DEF BatchIInv
  <2> SUFFICES ASSUME NEW s \in MqReaders \ rivals, mqReader'[s].at = "receive",
                      Batch!prog.counts
               PROVE  mqReader'[s].left <= curmsgs[mqReader'[s].mqd]
    BY <1>3, <2>1 DEF Remaining
  <2>3. s # r BY <1>5 DEF to
  <2> QED BY <1>5, <2>2, <2>3 DEF Remaining
<1> QED BY <1>6, <1>7, <1>8 DEF BatchIInv

(* What a step leaves that opens nothing. *)
LEMMA NoneOpens ==
  ASSUME BatchIInv, mqName' \in {0, mqName}, UNCHANGED <<batch, mqMade>>,
         curmsgs' \in [Batch!Queues -> Nat],
         mqWriter' \in [MqWriters -> WriterRecord],
         \A w \in MqWriters : (mqWriter'[w].at = "off") = (mqWriter[w].at = "off"),
         mqReader' \in [MqReaders -> ReaderRecord],
         \A r \in MqReaders : /\ (mqReader'[r].at = "off") = (mqReader[r].at = "off")
                              /\ mqReader'[r].mqd = mqReader[r].mqd
                              /\ mqReader'[r].at \in {"count", "receive"} =>
                                   mqReader[r].at \in {"count", "receive"}
  PROVE  BatchTyped' /\ mqMade' <= Cardinality(Openers') /\ Batch!prog' = Batch!prog
<1>1. BatchTyped BY DEF BatchIInv
<1>2. \A r \in MqReaders : mqReader'[r].at \in {"count", "receive"} =>
                             mqReader'[r].mqd \in 1 .. mqMade'
  BY <1>1 DEF BatchTyped
<1>3. mqName' \in 0 .. mqMade' /\ mqMade' \in Nat BY <1>1 DEF BatchTyped
<1>4. Batch!Queues' = Batch!Queues BY DEF Batch!Queues
<1>5. batch' \in {"mqread", "example", "mqname"} BY <1>1 DEF BatchTyped
<1>6. BatchTyped' BY <1>2, <1>3, <1>4, <1>5 DEF BatchTyped
<1>7. Openers' = Openers BY DEF Openers
<1>8. mqMade' <= Cardinality(Openers') BY <1>7 DEF BatchIInv
<1> QED BY <1>6, <1>8, SameBatch

(* A writer sends a message, which only adds to what was counted, or dies. *)
LEMMA WriterStep ==
  ASSUME BatchIInv, NEW w \in MqWriters, Batch!Send(w) \/ Batch!WriterDies(w)
  PROVE  BatchIInv'
<1> DEFINE q == mqWriter[w].mqd
           me == mqWriter[w]
<1>1. BatchTyped BY DEF BatchIInv
<1>2. me \in WriterRecord /\ mqWriter \in [MqWriters -> WriterRecord]
  BY <1>1 DEF BatchTyped
<1>3. curmsgs \in [Batch!Queues -> Nat] BY <1>1 DEF BatchTyped
<1>4. /\ me.at = "send" /\ UNCHANGED <<batch, mqName, mqMade, mqReader, rivals>>
      /\ curmsgs' = curmsgs \/ curmsgs' = [curmsgs EXCEPT ![q] = @ + 1]
      /\ \/ mqWriter' = [mqWriter EXCEPT ![w].at = "end"]
         \/ mqWriter' = [mqWriter EXCEPT ![w].left = @ - 1,
                                        ![w].at = IF me.left = 1 THEN "end" ELSE @]
  BY DEF Batch!Send, Batch!WriterDies
<1>5. /\ mqWriter' \in [MqWriters -> WriterRecord] /\ mqWriter'[w].at # "off"
      /\ \A v \in MqWriters \ {w} : mqWriter'[v] = mqWriter[v]
  <2>1. CASE mqWriter' = [mqWriter EXCEPT ![w].at = "end"]
    <3> DEFINE e == [me EXCEPT !.at = "end"]
    <3>1. e \in WriterRecord /\ e.at = "end" BY <1>2 DEF WriterRecord
    <3>2. mqWriter' = [mqWriter EXCEPT ![w] = e] BY <2>1
    <3> HIDE DEF e, me
    <3> QED BY <1>2, <3>1, <3>2
  <2>2. CASE mqWriter' = [mqWriter EXCEPT ![w].left = @ - 1,
                                         ![w].at = IF me.left = 1 THEN "end" ELSE @]
    <3> DEFINE a == IF me.left = 1 THEN "end" ELSE me.at
               l == me.left - 1
               e == [me EXCEPT !.left = l, !.at = a]
    <3>1. mqWriter' = [mqWriter EXCEPT ![w] = e] BY <2>2
    <3>2. a \in {"send", "end"} /\ l \in Int BY <1>2, <1>4 DEF WriterRecord
    <3> HIDE DEF a, l
    <3>3. e \in WriterRecord /\ e.at # "off" BY <1>2, <3>2 DEF WriterRecord
    <3> HIDE DEF e, me
    <3> QED BY <1>2, <3>3, <3>1
  <2> QED BY <1>4, <2>1, <2>2
<1>6. /\ curmsgs' \in [Batch!Queues -> Nat]
      /\ \A p \in Batch!Queues : curmsgs[p] <= curmsgs'[p]
  <2> HIDE DEF q
  <2> QED BY <1>3, <1>4
<1>7. BatchTyped' /\ mqMade' <= Cardinality(Openers') /\ Batch!prog' = Batch!prog
  <2>1. \A v \in MqWriters : (mqWriter'[v].at = "off") = (mqWriter[v].at = "off")
    BY <1>4, <1>5
  <2>2. mqReader' \in [MqReaders -> ReaderRecord] BY <1>1, <1>4 DEF BatchTyped
  <2>3. mqName' \in {0, mqName} /\ UNCHANGED <<batch, mqMade>> BY <1>4
  <2>4. \A r \in MqReaders : mqReader'[r] = mqReader[r] BY <1>4
  <2> QED BY <1>5, <1>6, <2>1, <2>2, <2>3, <2>4, NoneOpens
<1>8. Remaining'
  <2> SUFFICES ASSUME NEW r \in MqReaders \ rivals, mqReader[r].at = "receive",
                      Batch!prog.counts
               PROVE  mqReader[r].left <= curmsgs'[mqReader[r].mqd]
    BY <1>4, <1>7 DEF Remaining
  <2> DEFINE p == mqReader[r].mqd
  <2>1. p \in Batch!Queues BY <1>1, MadeInQueues DEF BatchTyped
  <2>2. mqReader[r].left <= curmsgs[p] BY DEF BatchIInv, Remaining
  <2>3. mqReader[r].left \in Int BY <1>1 DEF BatchTyped, ReaderRecord
  <2>4. curmsgs[p] \in Int /\ curmsgs'[p] \in Int /\ curmsgs[p] <= curmsgs'[p]
    BY <1>3, <1>6, <2>1
  <2> HIDE DEF p
  <2>5. mqReader[r].left <= curmsgs'[p] BY <2>2, <2>3, <2>4
  <2> QED BY <2>5 DEF p
<1> QED BY <1>7, <1>8 DEF BatchIInv

(* A reader that ends or dies, or counts. *)
LEMMA ReaderStep ==
  ASSUME BatchIInv, NEW r \in MqReaders,
         Batch!Count(r) \/ Batch!ReaderEnds(r) \/ Batch!ReaderDies(r)
  PROVE  BatchIInv'
<1> DEFINE me == mqReader[r]
<1>1. BatchTyped BY DEF BatchIInv
<1>2. me \in ReaderRecord /\ mqReader \in [MqReaders -> ReaderRecord]
  BY <1>1 DEF BatchTyped
<1>3. /\ me.at # "off" /\ mqName' \in {0, mqName}
      /\ UNCHANGED <<batch, mqMade, curmsgs, mqWriter, rivals>>
      /\ \/ mqReader' = [mqReader EXCEPT ![r].at = "end"]
         \/ /\ me.at = "count"
            /\ mqReader' = [mqReader EXCEPT ![r].at = "receive",
                                            ![r].left = curmsgs[me.mqd]]
  BY DEF Batch!Count, Batch!ReaderEnds, Batch!ReaderDies, Batch!Exits
<1>4. me.at = "count" => me.mqd \in Batch!Queues
  BY <1>1, MadeInQueues DEF BatchTyped
<1>5. me.at = "count" => curmsgs[me.mqd] \in Nat BY <1>1, <1>4 DEF BatchTyped
<1>6. /\ mqReader' \in [MqReaders -> ReaderRecord] /\ mqReader'[r].mqd = me.mqd
      /\ mqReader'[r].at \in {"receive", "end"}
      /\ mqReader'[r].at = "receive" =>
           me.at = "count" /\ mqReader'[r].left = curmsgs[me.mqd]
      /\ \A s \in MqReaders \ {r} : mqReader'[s] = mqReader[s]
  <2>1. CASE mqReader' = [mqReader EXCEPT ![r].at = "end"]
    <3> DEFINE e == [me EXCEPT !.at = "end"]
    <3>1. e \in ReaderRecord /\ e.at = "end" /\ e.mqd = me.mqd BY <1>2 DEF ReaderRecord
    <3>2. mqReader' = [mqReader EXCEPT ![r] = e] BY <2>1
    <3> HIDE DEF e, me
    <3> QED BY <1>2, <3>1, <3>2
  <2>2. CASE /\ me.at = "count"
             /\ mqReader' = [mqReader EXCEPT ![r].at = "receive",
                                             ![r].left = curmsgs[me.mqd]]
    <3> DEFINE l == curmsgs[me.mqd]
               e == [me EXCEPT !.at = "receive", !.left = l]
    <3>1. mqReader' = [mqReader EXCEPT ![r] = e] BY <2>2
    <3>2. l \in Int BY <1>5, <2>2
    <3> HIDE DEF l
    <3>3. /\ e \in ReaderRecord /\ e.at = "receive" /\ e.mqd = me.mqd /\ e.left = l
      BY <1>2, <3>2 DEF ReaderRecord
    <3>4. me.at = "count" BY <2>2
    <3> USE DEF l
    <3> HIDE DEF e, me
    <3> QED BY <1>2, <3>3, <3>1, <3>4
  <2> QED BY <1>3, <2>1, <2>2
<1>7. BatchTyped' /\ mqMade' <= Cardinality(Openers') /\ Batch!prog' = Batch!prog
  <2>1. /\ mqWriter' \in [MqWriters -> WriterRecord] /\ curmsgs' \in [Batch!Queues -> Nat]
        /\ \A v \in MqWriters : (mqWriter'[v].at = "off") = (mqWriter[v].at = "off")
    BY <1>1, <1>3 DEF BatchTyped
  <2>2. \A s \in MqReaders : /\ (mqReader'[s].at = "off") = (mqReader[s].at = "off")
                             /\ mqReader'[s].mqd = mqReader[s].mqd
                             /\ mqReader'[s].at \in {"count", "receive"} =>
                                  mqReader[s].at \in {"count", "receive"}
    BY <1>3, <1>6
  <2> QED BY <1>3, <1>6, <2>1, <2>2, NoneOpens
<1>8. Remaining'
  <2> SUFFICES ASSUME NEW s \in MqReaders \ rivals, mqReader'[s].at = "receive",
                      Batch!prog.counts
               PROVE  mqReader'[s].left <= curmsgs[mqReader'[s].mqd]
    BY <1>3, <1>7 DEF Remaining
  <2>1. CASE s = r BY <1>5, <1>6, <2>1
  <2>2. CASE s # r BY <1>6, <2>2 DEF BatchIInv, Remaining
  <2> QED BY <2>1, <2>2
<1> QED BY <1>7, <1>8 DEF BatchIInv

(* A reader takes a message of its own; the others who count on the messages
   of that queue are rivals from then on. *)
LEMMA ReceiveStep ==
  ASSUME BatchIInv, NEW r \in MqReaders, Batch!Receive(r) PROVE BatchIInv'
<1> DEFINE me == mqReader[r]
           q  == mqReader[r].mqd
<1>1. BatchTyped BY DEF BatchIInv
<1>2. me \in ReaderRecord /\ mqReader \in [MqReaders -> ReaderRecord]
  BY <1>1 DEF BatchTyped
<1>3. /\ me.at = "receive" /\ curmsgs[q] > 0
      /\ curmsgs' = [curmsgs EXCEPT ![q] = @ - 1]
      /\ (Batch!prog.counts => mqReader' = [mqReader EXCEPT ![r].left = @ - 1])
      /\ (~Batch!prog.counts => mqReader' = mqReader)
      /\ rivals' = rivals \cup {s \in MqReaders \ {r} :
                                  mqReader[s].at = "receive" /\ mqReader[s].mqd = q}
      /\ UNCHANGED <<batch, mqName, mqMade, mqWriter>>
  BY DEF Batch!Receive, Batch!TakesOne
<1>4. q \in Batch!Queues BY <1>1, <1>3, MadeInQueues DEF BatchTyped
<1>5. /\ curmsgs' \in [Batch!Queues -> Nat] /\ curmsgs'[q] = curmsgs[q] - 1
      /\ \A p \in Batch!Queues \ {q} : curmsgs'[p] = curmsgs[p]
      /\ curmsgs[q] \in Nat
  <2>1. curmsgs \in [Batch!Queues -> Nat] BY <1>1 DEF BatchTyped
  <2> HIDE DEF q
  <2> QED BY <1>3, <1>4, <2>1
<1>6. /\ mqReader' \in [MqReaders -> ReaderRecord] /\ mqReader'[r].mqd = q
      /\ mqReader'[r].at = "receive"
      /\ Batch!prog.counts => mqReader'[r].left = me.left - 1
      /\ \A s \in MqReaders \ {r} : mqReader'[s] = mqReader[s]
  <2>1. CASE Batch!prog.counts
    <3> DEFINE e == [me EXCEPT !.left = @ - 1]
    <3>1. /\ e \in ReaderRecord /\ e.at = "receive" /\ e.mqd = q /\ e.left = me.left - 1
      BY <1>2, <1>3 DEF ReaderRecord
    <3>2. mqReader' = [mqReader EXCEPT ![r] = e] BY <1>3, <2>1
    <3> HIDE DEF e, me
    <3> QED BY <1>2, <3>1, <3>2
  <2>2. CASE ~Batch!prog.counts BY <1>2, <1>3, <2>2
  <2> QED BY <2>1, <2>2
<1>7. BatchTyped' /\ mqMade' <= Cardinality(Openers') /\ Batch!prog' = Batch!prog
  <2>1. /\ mqWriter' \in [MqWriters -> WriterRecord]
        /\ \A v \in MqWriters : (mqWriter'[v].at = "off") = (mqWriter[v].at = "off")
    BY <1>1, <1>3 DEF BatchTyped
  <2>2. \A s \in MqReaders : /\ (mqReader'[s].at = "off") = (mqReader[s].at = "off")
                             /\ mqReader'[s].mqd = mqReader[s].mqd
                             /\ mqReader'[s].at \in {"count", "receive"} =>
                                  mqReader[s].at \in {"count", "receive"}
    BY <1>3, <1>6
  <2>3. mqName' \in {0, mqName} /\ UNCHANGED <<batch, mqMade>> BY <1>3
  <2> QED BY <1>5, <1>6, <2>1, <2>2, <2>3, NoneOpens
<1>8. Remaining'
  <2> SUFFICES ASSUME NEW s \in MqReaders \ rivals', mqReader'[s].at = "receive",
                      Batch!prog.counts
               PROVE  mqReader'[s].left <= curmsgs'[mqReader'[s].mqd]
    BY <1>7 DEF Remaining
  <2>1. s \notin rivals BY <1>3
  <2>2. CASE s = r
    <3>1. me.left <= curmsgs[q] BY <1>3, <2>1, <2>2 DEF BatchIInv, Remaining
    <3>2. me.left \in Int BY <1>2 DEF ReaderRecord
    <3>3. mqReader'[s].left = me.left - 1 /\ mqReader'[s].mqd = q BY <1>6, <2>2
    <3> HIDE DEF me, q
    <3>4. me.left - 1 <= curmsgs'[q] BY <1>5, <3>1, <3>2
    <3> QED BY <3>3, <3>4
  <2>3. CASE s # r
    <3>1. mqReader'[s] = mqReader[s] BY <1>6, <2>3
    <3>2. mqReader[s].mqd # q BY <1>3, <2>3, <3>1
    <3>3. mqReader[s].mqd \in Batch!Queues BY <1>1, <3>1, MadeInQueues DEF BatchTyped
    <3>4. mqReader[s].left <= curmsgs[mqReader[s].mqd] BY <2>1, <3>1 DEF BatchIInv, Remaining
    <3> QED BY <1>5, <3>1, <3>2, <3>3, <3>4
  <2> QED BY <2>2, <2>3
<1> QED BY <1>7, <1>8 DEF BatchIInv

(* Every step keeps the invariant. *)
LEMMA BatchStepIInv == BatchIInv /\ [Batch!BatchNext]_Batch!batchVars => BatchIInv'
<1> SUFFICES ASSUME BatchIInv, [Batch!BatchNext]_Batch!batchVars PROVE BatchIInv' OBVIOUS
<1>1. CASE UNCHANGED Batch!batchVars
  <2>1. UNCHANGED <<batch, mqName, mqMade, curmsgs, mqWriter, mqReader, rivals>>
    BY <1>1 DEF Batch!batchVars
  <2>2. Batch!prog' = Batch!prog BY <2>1, SameBatch
  <2> QED BY <2>1, <2>2 DEF BatchIInv, BatchTyped, Openers, Remaining, Batch!Queues
<1>2. CASE Batch!BatchNext
  <2>1. \/ \E w \in MqWriters :
             Batch!WriterOpens(w) \/ Batch!Send(w) \/ Batch!WriterDies(w)
        \/ \E r \in MqReaders :
             Batch!ReaderOpens(r) \/ Batch!ReaderWorks(r) \/ Batch!ReaderDies(r)
    BY <1>2 DEF Batch!BatchNext
  <2>2. ASSUME NEW w \in MqWriters,
               Batch!WriterOpens(w) \/ Batch!Send(w) \/ Batch!WriterDies(w)
        PROVE  BatchIInv'
    BY <2>2, WriterOpensStep, WriterStep
  <2>3. ASSUME NEW r \in MqReaders,
               Batch!ReaderOpens(r) \/ Batch!ReaderWorks(r) \/ Batch!ReaderDies(r)
        PROVE  BatchIInv'
    BY <2>3, ReaderOpensStep, ReaderStep, ReceiveStep DEF Batch!ReaderWorks
  <2> QED BY <2>1, <2>2, <2>3
<1> QED BY <1>1, <1>2

(* The messages that a reader of ipc/mq has counted stay for it until another
   reader takes from the same queue, so that its mq_receive does not wait,
   whatever writers and readers die and whatever the name means by then. *)
THEOREM CountedStay == Batch!BatchSpec => []CountedMessagesRemain
<1>1. Batch!BatchInit => BatchIInv BY BatchInitIInv
<1>2. BatchIInv /\ [Batch!BatchNext]_Batch!batchVars => BatchIInv' BY BatchStepIInv
<1>3. BatchIInv => CountedMessagesRemain
  <2>1. BatchIInv => Batch!CountedMessagesRemain
    BY DEF BatchIInv, Remaining, Batch!CountedMessagesRemain
  <2> QED BY <2>1 DEF CountedMessagesRemain
<1> QED BY <1>1, <1>2, <1>3, PTL DEF Batch!BatchSpec
-----------------------------------------------------------------------------
(* Counter: the increments stored so far, by thread and number.  Their number
   takes the place of the sum over the threads. *)
Made == {d \in Count!this.threads \X (1 .. increments) :
           at[d[1]] # "none" /\ d[2] > left[d[1]]}

Stores == Cardinality(Made)

(* With the mutex only its holder is between lock and unlock, what it has loaded
   is the count, and the count is the number of stores. *)
Locked ==
  /\ \A t \in CounterThreads :
       at[t] \in {"load", "store", "print", "unlock"} => lockedBy = t
  /\ \A t \in CounterThreads : at[t] = "store" => loaded[t] = counter
  /\ counter = Stores
  /\ Count!this.threadPrints => (\E t \in CounterThreads : at[t] = "print") \/ printed = counter

(* Without it increments are lost, but whoever has stored once has seen a count
   of 1 at least when it loads again. *)
Unlocked ==
  /\ 0 <= counter /\ counter <= Stores
  /\ \A t \in CounterThreads : at[t] = "store" => loaded[t] \in 0 .. Stores
  /\ Stores > 0 => counter >= 1
  /\ \A t \in Count!this.threads :
       at[t] = "store" /\ left[t] < increments => loaded[t] >= 1
  /\ (\A t \in Count!this.threads : at[t] # "none" /\ left[t] = 0) =>
       counter >= Count!Min({2, increments})

CountTyped ==
  /\ counting \in Count!CountingPrograms /\ increments \in Int
  /\ Count!MayAskFor(counting, increments)
  /\ counter \in Int /\ printed \in Int
  /\ main \in {"create", "join", "exit(0)", "exit(1)"}
  /\ at \in [CounterThreads -> {"none", "loop", "load", "store", "print",
                                "unlock", "done"}]
  /\ left \in [CounterThreads -> Int] /\ loaded \in [CounterThreads -> Int]

(* A thread has rounds left until it is done; main waits for all. *)
Rounds ==
  /\ \A t \in CounterThreads :
       /\ at[t] \in {"load", "store"} => left[t] > 0
       /\ at[t] # "none" => left[t] <= increments /\ (left[t] >= 0 \/ increments < 0)
       /\ at[t] = "done" => left[t] <= 0
       /\ t \notin Count!this.threads => at[t] = "none"
  /\ main = "join" => \A t \in Count!this.threads : at[t] # "none"

CountIInv ==
  /\ CountTyped /\ Rounds
  /\ IF Count!this.locks THEN Locked ELSE Unlocked
  /\ Count!PrintedCountIsSum

(* The records of the programs. *)
LEMMA CountingFacts ==
  ASSUME counting \in Count!CountingPrograms
  PROVE  /\ Count!this.threads \subseteq CounterThreads
         /\ IsFiniteSet(Count!this.threads)
         /\ (Count!this.locks <=> counting # "thread1")
         /\ (Count!this.threadPrints <=> counting \in {"exercise", "exercise_for"})
         /\ (Count!this.mainPrints <=> counting # "exercise")
         /\ Count!this.threads # {}
         /\ counting = "thread1" =>
              \E t, u \in CounterThreads : t # u /\ Count!this.threads = {t, u}
<1>1. PICK t, u \in CounterThreads : t # u /\ Count!TwoOfThem = {t, u}
  <2>1. (CHOOSE t \in CounterThreads : TRUE) \in CounterThreads
    BY CounterAssumption
  <2> DEFINE first == CHOOSE u \in CounterThreads : TRUE
             second == CHOOSE t \in CounterThreads : t # first
  <2>2. \E t \in CounterThreads : t # first BY CounterAssumption
  <2>3. second \in CounterThreads /\ second # first BY <2>2
  <2>4. Count!TwoOfThem = {first, second} BY Zenon DEF Count!TwoOfThem
  <2>5. first \in CounterThreads BY <2>1
  <2> HIDE DEF first, second
  <2> QED BY <2>3, <2>4, <2>5
<1>2. Count!TwoOfThem \subseteq CounterThreads /\ Count!TwoOfThem # {} BY <1>1
<1>3. IsFiniteSet(CounterThreads) /\ CounterThreads # {} BY CounterAssumption
<1>4. IsFiniteSet(Count!TwoOfThem) BY <1>2, <1>3, FS_Subset
<1>5. CASE counting = "thread1"
  <2>1. Count!this = Count!Thread1 BY <1>5 DEF Count!this
  <2> QED BY <1>1, <1>2, <1>4, <1>5, <2>1 DEF Count!Thread1
<1>6. CASE counting = "thread_teacher"
  <2>1. Count!this = Count!ThreadTeacher BY <1>6 DEF Count!this
  <2> QED BY <1>2, <1>4, <1>6, <2>1 DEF Count!ThreadTeacher
<1>7. CASE counting = "exercise"
  <2>1. Count!this = Count!Exercise BY <1>7 DEF Count!this
  <2> QED BY <1>2, <1>4, <1>7, <2>1 DEF Count!Exercise
<1>8. CASE counting = "exercise_for"
  <2>1. Count!this = Count!ExerciseFor BY <1>8 DEF Count!this
  <2> QED BY <1>3, <1>8, <2>1 DEF Count!ExerciseFor
<1> QED BY <1>5, <1>6, <1>7, <1>8 DEF Count!CountingPrograms

(* The stores are finitely many; when all are made their number is the sum. *)
LEMMA StoresType ==
  ASSUME CountTyped
  PROVE  IsFiniteSet(Made) /\ Stores \in Nat
<1>1. IsFiniteSet(Count!this.threads) BY CountingFacts DEF CountTyped
<1>2. IsFiniteSet(1 .. increments) BY FS_Interval DEF CountTyped
<1>3. IsFiniteSet(Count!this.threads \X (1 .. increments)) BY <1>1, <1>2, FS_Product
<1>4. IsFiniteSet(Made) BY <1>3, FS_Subset DEF Made
<1> QED BY <1>4, FS_CardinalityType DEF Stores

(* What Max and Min return. *)
LEMMA MaxMin ==
  ASSUME NEW n \in Int
  PROVE  /\ Count!Max({0, n}) = IF n > 0 THEN n ELSE 0
         /\ Count!Min({2, n}) = IF n < 2 THEN n ELSE 2
<1>1. Count!Max({0, n}) = IF n > 0 THEN n ELSE 0
  <2> DEFINE m == IF n > 0 THEN n ELSE 0
  <2>1. m \in {0, n} /\ \A y \in {0, n} : m >= y OBVIOUS
  <2>2. \A x \in {0, n} : (\A y \in {0, n} : x >= y) => x = m OBVIOUS
  <2> HIDE DEF m
  <2>3. (CHOOSE x \in {0, n} : \A y \in {0, n} : x >= y) = m BY <2>1, <2>2
  <2>4. Count!Max({0, n}) = m BY <2>3 DEF Count!Max
  <2> QED BY <2>4 DEF m
<1>2. Count!Min({2, n}) = IF n < 2 THEN n ELSE 2
  <2> DEFINE m == IF n < 2 THEN n ELSE 2
  <2>1. m \in {2, n} /\ \A y \in {2, n} : m =< y OBVIOUS
  <2>2. \A x \in {2, n} : (\A y \in {2, n} : x =< y) => x = m OBVIOUS
  <2> HIDE DEF m
  <2>3. (CHOOSE x \in {2, n} : \A y \in {2, n} : x =< y) = m BY <2>1, <2>2
  <2>4. Count!Min({2, n}) = m BY <2>3 DEF Count!Min
  <2> QED BY <2>4 DEF m
<1> QED BY <1>1, <1>2

(* When all threads have made all their stores, these are the sum. *)
LEMMA AllStores ==
  ASSUME CountTyped, \A t \in Count!this.threads : at[t] # "none" /\ left[t] <= 0
  PROVE  Stores = Count!Total
<1> DEFINE T == Count!this.threads
<1>1. T \subseteq CounterThreads /\ IsFiniteSet(T) BY CountingFacts DEF CountTyped
<1>2. increments \in Int BY DEF CountTyped
<1>3. \A t \in T : left[t] \in Int BY <1>1 DEF CountTyped
<1>4. Made = T \X (1 .. increments)
  <2>1. ASSUME NEW d \in T \X (1 .. increments) PROVE d \in Made
    <3>1. d[1] \in T /\ d[2] \in Int /\ d[2] >= 1 BY <1>2
    <3>2. d[2] > left[d[1]] /\ at[d[1]] # "none" BY <1>3, <3>1
    <3> QED BY <3>2 DEF Made
  <2> QED BY <2>1 DEF Made
<1>5. /\ IsFiniteSet(1 .. increments)
      /\ Cardinality(1 .. increments) = IF 1 > increments THEN 0 ELSE increments - 1 + 1
  BY <1>2, FS_Interval
<1>6. Cardinality(1 .. increments) = Count!Max({0, increments})
  <2>1. Cardinality(1 .. increments) = IF increments > 0 THEN increments ELSE 0
    BY <1>2, <1>5
  <2> QED BY <1>2, <2>1, MaxMin
<1>7. Stores = Cardinality(T) * Cardinality(1 .. increments)
  BY <1>1, <1>4, <1>5, FS_Product DEF Stores
<1>8. Count!Cardinality(T) = Cardinality(T) BY DEF Count!Cardinality, Cardinality
<1> QED BY <1>6, <1>7, <1>8 DEF Count!Total

(* Steps that store nothing. *)
LEMMA StoresStay ==
  ASSUME CountTyped, UNCHANGED <<counting, increments>>,
         \A t \in Count!this.threads :
           \/ (at[t] = "none" <=> at'[t] = "none") /\ left'[t] = left[t]
           \/ at[t] = "none" /\ left'[t] = increments
  PROVE  Stores' = Stores
<1>1. Count!this' = Count!this BY DEF Count!this
<1>2. increments \in Int BY DEF CountTyped
<1>3. ASSUME NEW d \in Count!this.threads \X (1 .. increments)
      PROVE  at[d[1]] # "none" /\ d[2] > left[d[1]] <=>
             at'[d[1]] # "none" /\ d[2] > left'[d[1]]
  <2>1. d[1] \in Count!this.threads /\ d[2] \in 1 .. increments OBVIOUS
  <2>2. ~(d[2] > increments) BY <1>2, <2>1
  <2> QED BY <2>1, <2>2
<1>4. Made' = Made BY <1>1, <1>3 DEF Made
<1> QED BY <1>4 DEF Stores

(* A store is one more. *)
LEMMA OneMoreStore ==
  ASSUME CountTyped, Rounds, NEW t \in CounterThreads, Count!StoreCount(t)
  PROVE  Stores' = Stores + 1 /\ t \in Count!this.threads
<1>1. /\ at[t] = "store" /\ left[t] > 0 /\ left[t] <= increments
      /\ t \in Count!this.threads /\ left[t] \in Int /\ increments \in Int
      /\ \A u \in CounterThreads : left[u] \in Int
  BY DEF CountTyped, Rounds, Count!StoreCount, Count!Goto
<1>2. /\ left' = [left EXCEPT ![t] = @ - 1] /\ UNCHANGED <<counting, increments>>
      /\ \A u \in CounterThreads : at'[u] = "none" <=> at[u] = "none"
  BY <1>1 DEF CountTyped, Count!StoreCount, Count!Goto
<1>3. Count!this' = Count!this BY <1>2 DEF Count!this
<1>4. Count!this.threads \subseteq CounterThreads BY CountingFacts DEF CountTyped
<1>5. \A u \in CounterThreads : left'[u] = IF u = t THEN left[t] - 1 ELSE left[u]
  BY <1>2 DEF CountTyped
<1>6. Made' = Made \cup {<<t, left[t]>>}
  <2>1. ASSUME NEW u \in Count!this.threads, NEW n \in 1 .. increments
        PROVE  <<u, n>> \in Made' <=> <<u, n>> \in Made \/ <<u, n>> = <<t, left[t]>>
    <3>1. <<u, n>> \in Made <=> at[u] # "none" /\ n > left[u] BY <2>1 DEF Made
    <3>2. <<u, n>> \in Made' <=> at'[u] # "none" /\ n > left'[u]
      BY <1>2, <1>3, <2>1 DEF Made
    <3>3. u \in CounterThreads BY <1>4
    <3> QED BY <1>1, <1>2, <1>5, <3>1, <3>2, <3>3
  <2>2. \A d \in Made : \E u \in Count!this.threads, n \in 1 .. increments : d = <<u, n>>
    BY DEF Made
  <2>3. \A d \in Made' : \E u \in Count!this.threads, n \in 1 .. increments : d = <<u, n>>
    BY <1>2, <1>3 DEF Made
  <2>4. left[t] \in 1 .. increments BY <1>1
  <2> QED BY <1>1, <2>1, <2>2, <2>3, <2>4
<1>7. <<t, left[t]>> \notin Made
  <2>1. ~(left[t] > left[t]) BY <1>1
  <2> QED BY <2>1 DEF Made
<1> QED BY <1>1, <1>6, <1>7, StoresType, FS_AddElement DEF Stores

(* Nothing is stored at first. *)
LEMMA CountInitIInv == Count!CountInit => CountIInv
<1> SUFFICES ASSUME Count!CountInit PROVE CountIInv OBVIOUS
<1>1. /\ counting \in Count!CountingPrograms /\ increments \in Int
      /\ Count!MayAskFor(counting, increments)
      /\ counter = 0 /\ printed = 0 /\ main = "create"
      /\ at = [t \in CounterThreads |-> "none"]
      /\ left = [t \in CounterThreads |-> 0] /\ loaded = [t \in CounterThreads |-> 0]
  BY CounterAssumption DEF Count!CountInit
<1>2. CountTyped BY <1>1 DEF CountTyped
<1>3. Count!this.threads \subseteq CounterThreads /\ Count!this.threads # {}
  BY <1>1, CountingFacts
<1>4. Stores = 0
  <2>1. Made = {} BY <1>1, <1>3 DEF Made
  <2> QED BY <2>1, FS_EmptySet DEF Stores
<1>5. Rounds BY <1>1 DEF Rounds
<1>6. Locked BY <1>1, <1>4 DEF Locked
<1>7. Unlocked BY <1>1, <1>3, <1>4 DEF Unlocked
<1>8. Count!PrintedCountIsSum BY <1>1 DEF Count!PrintedCountIsSum
<1> QED BY <1>2, <1>5, <1>6, <1>7, <1>8 DEF CountIInv

(* The steps keep the types and the rounds. *)
LEMMA CountTypedStep ==
  ASSUME CountTyped, Rounds, Count!CountNext PROVE CountTyped' /\ Rounds'
<1>1. UNCHANGED <<counting, increments>>
  BY DEF Count!CountNext, Count!CreateThreadFails, Count!JoinAndExit,
         Count!CreateThread, Count!LeaveLoop, Count!LockMutex, Count!LoadCount,
         Count!StoreCount, Count!PrintCount, Count!UnlockMutex, Count!Goto
<1>2. Count!this' = Count!this BY <1>1 DEF Count!this
<1>3. Count!MayAskFor(counting, increments)'
  BY <1>1 DEF CountTyped, Count!MayAskFor
<1> USE DEF CountTyped, Rounds, Count!Goto
<1>4. CASE Count!CreateThreadFails BY <1>2, <1>3, <1>4 DEF Count!CreateThreadFails
<1>5. CASE Count!JoinAndExit
  <2>1. printed' \in Int BY <1>5 DEF Count!JoinAndExit
  <2> QED BY <1>2, <1>3, <1>5, <2>1 DEF Count!JoinAndExit
<1>6. ASSUME NEW t \in CounterThreads, Count!CreateThread(t)
      PROVE  CountTyped' /\ Rounds'
  <2>1. CountTyped' BY <1>3, <1>6 DEF Count!CreateThread
  <2>2. \A u \in CounterThreads :
          /\ at'[u] = IF u = t THEN "loop" ELSE at[u]
          /\ left'[u] = IF u = t THEN increments ELSE left[u]
    BY <1>6 DEF Count!CreateThread
  <2>3. t \in Count!this.threads /\ UNCHANGED increments BY <1>6 DEF Count!CreateThread
  <2>4. main' = "join" => \A u \in Count!this.threads \ {t} : at[u] # "none"
    BY <1>6 DEF Count!CreateThread
  <2>5. Count!this.threads \subseteq CounterThreads BY CountingFacts
  <2>6. increments >= 0 \/ increments < 0 OBVIOUS
  <2> QED BY <1>2, <2>1, <2>2, <2>3, <2>4, <2>5, <2>6
<1>7. ASSUME NEW t \in CounterThreads, Count!LeaveLoop(t) PROVE CountTyped' /\ Rounds'
  BY <1>2, <1>3, <1>7 DEF Count!LeaveLoop
<1>8. ASSUME NEW t \in CounterThreads, Count!LockMutex(t) PROVE CountTyped' /\ Rounds'
  BY <1>2, <1>3, <1>8 DEF Count!LockMutex
<1>9. ASSUME NEW t \in CounterThreads, Count!LoadCount(t) PROVE CountTyped' /\ Rounds'
  BY <1>2, <1>3, <1>9 DEF Count!LoadCount
<1>10. ASSUME NEW t \in CounterThreads, Count!StoreCount(t) PROVE CountTyped' /\ Rounds'
  <2>1. /\ at[t] = "store" /\ left[t] > 0 /\ left[t] <= increments /\ left[t] \in Int
        /\ loaded[t] \in Int
    BY <1>10 DEF Count!StoreCount
  <2>2. /\ at' \in [CounterThreads -> {"none", "loop", "load", "store", "print",
                                       "unlock", "done"}]
        /\ \A u \in CounterThreads :
             IF u = t THEN at'[u] \in {"print", "unlock", "loop"} ELSE at'[u] = at[u]
    BY <1>10 DEF Count!StoreCount
  <2>3. /\ left' \in [CounterThreads -> Int]
        /\ \A u \in CounterThreads : left'[u] = IF u = t THEN left[t] - 1 ELSE left[u]
    BY <1>10, <2>1 DEF Count!StoreCount
  <2>4. counter' \in Int /\ UNCHANGED <<increments, main, printed, loaded>>
    BY <1>10, <2>1 DEF Count!StoreCount
  <2>5. CountTyped' BY <1>1, <1>3, <2>2, <2>3, <2>4
  <2>6. Count!this.threads \subseteq CounterThreads BY CountingFacts
  <2>7. Rounds'
    <3>1. ASSUME NEW u \in CounterThreads
          PROVE  /\ at'[u] \in {"load", "store"} => left'[u] > 0
                 /\ at'[u] # "none" =>
                      left'[u] <= increments /\ (left'[u] >= 0 \/ increments < 0)
                 /\ at'[u] = "done" => left'[u] <= 0
                 /\ u \notin Count!this.threads => at'[u] = "none"
      <4>1. CASE u = t BY <2>1, <2>2, <2>3, <4>1
      <4>2. CASE u # t BY <2>2, <2>3, <4>2
      <4> QED BY <4>1, <4>2
    <3>2. main' = "join" => \A u \in Count!this.threads : at'[u] # "none"
      BY <2>2, <2>4, <2>6
    <3> QED BY <1>2, <2>4, <3>1, <3>2
  <2> QED BY <2>5, <2>7
<1>11. ASSUME NEW t \in CounterThreads, Count!PrintCount(t) PROVE CountTyped' /\ Rounds'
  BY <1>2, <1>3, <1>11 DEF Count!PrintCount
<1>12. ASSUME NEW t \in CounterThreads, Count!UnlockMutex(t) PROVE CountTyped' /\ Rounds'
  BY <1>2, <1>3, <1>12 DEF Count!UnlockMutex
<1> QED BY <1>4, <1>5, <1>6, <1>7, <1>8, <1>9, <1>10, <1>11, <1>12 DEF Count!CountNext

(* The mutex orders the loads and stores. *)
LEMMA LockedStep ==
  ASSUME CountTyped, Rounds, Locked, Count!this.locks, Count!CountNext
  PROVE  Locked'
<1>0. /\ UNCHANGED <<counting, increments>>
      /\ Count!this' = Count!this
  <2>1. UNCHANGED <<counting, increments>>
    BY DEF Count!CountNext, Count!CreateThreadFails, Count!JoinAndExit,
           Count!CreateThread, Count!LeaveLoop, Count!LockMutex, Count!LoadCount,
           Count!StoreCount, Count!PrintCount, Count!UnlockMutex, Count!Goto
  <2> QED BY <2>1 DEF Count!this
<1>1. Count!this.threads \subseteq CounterThreads BY CountingFacts DEF CountTyped
<1>2. CASE Count!CreateThreadFails
  <2>1. Stores' = Stores BY <1>2, StoresStay DEF Count!CreateThreadFails
  <2> QED BY <1>0, <1>2, <2>1 DEF Locked, Count!CreateThreadFails
<1>3. CASE Count!JoinAndExit
  <2>1. Stores' = Stores BY <1>3, StoresStay DEF Count!JoinAndExit
  <2>2. Count!this.threadPrints =>
          (\E t \in CounterThreads : at'[t] = "print") \/ printed' = counter'
    BY <1>3 DEF Locked, Count!JoinAndExit
  <2> QED BY <1>0, <1>3, <2>1, <2>2 DEF Locked, Count!JoinAndExit
<1>4. ASSUME NEW t \in CounterThreads, Count!CreateThread(t) PROVE Locked'
  <2>1. \A u \in CounterThreads :
          /\ at'[u] = IF u = t THEN "loop" ELSE at[u]
          /\ left'[u] = IF u = t THEN increments ELSE left[u]
    BY <1>4 DEF Count!CreateThread, CountTyped
  <2>2. at[t] = "none" BY <1>4 DEF Count!CreateThread
  <2>3. Stores' = Stores BY <1>0, <1>1, <2>1, <2>2, StoresStay
  <2>4. UNCHANGED <<counter, lockedBy, loaded, printed>>
    BY <1>4 DEF Count!CreateThread
  <2> QED BY <1>0, <2>1, <2>2, <2>3, <2>4 DEF Locked
<1>5. ASSUME NEW t \in CounterThreads,
             Count!LeaveLoop(t) \/ Count!LockMutex(t) \/ Count!LoadCount(t)
               \/ Count!PrintCount(t) \/ Count!UnlockMutex(t)
      PROVE  Locked'
  <2>1. left' = left /\ counter' = counter
    BY <1>5 DEF Count!LeaveLoop, Count!LockMutex, Count!LoadCount, Count!PrintCount,
                Count!UnlockMutex
  <2>2. \A u \in CounterThreads : at[u] = "none" <=> at'[u] = "none"
    BY <1>5 DEF Count!LeaveLoop, Count!LockMutex, Count!LoadCount, Count!PrintCount,
                Count!UnlockMutex, Count!Goto, CountTyped
  <2>3. Stores' = Stores BY <1>0, <1>1, <2>1, <2>2, StoresStay
  <2> USE DEF Locked, Count!Goto, CountTyped
  <2>4. CASE Count!LeaveLoop(t) BY <1>0, <2>1, <2>3, <2>4 DEF Count!LeaveLoop
  <2>5. CASE Count!LockMutex(t)
    BY <1>0, <2>1, <2>3, <2>5, CounterAssumption DEF Count!LockMutex
  <2>6. CASE Count!LoadCount(t) BY <1>0, <2>1, <2>3, <2>6 DEF Count!LoadCount
  <2>7. CASE Count!PrintCount(t) BY <1>0, <2>1, <2>3, <2>7 DEF Count!PrintCount
  <2>8. CASE Count!UnlockMutex(t) BY <1>0, <2>1, <2>3, <2>8 DEF Count!UnlockMutex
  <2> QED BY <1>5, <2>4, <2>5, <2>6, <2>7, <2>8
<1>6. ASSUME NEW t \in CounterThreads, Count!StoreCount(t) PROVE Locked'
  <2>1. Stores' = Stores + 1 BY <1>6, OneMoreStore
  <2>2. /\ at[t] = "store" /\ counter' = loaded[t] + 1 /\ loaded[t] = counter
        /\ lockedBy = t /\ UNCHANGED <<lockedBy, loaded, printed>>
    BY <1>6 DEF Count!StoreCount, Count!Goto, Locked
  <2>3. \A u \in CounterThreads :
          IF u = t THEN at'[u] = IF Count!this.threadPrints THEN "print" ELSE "unlock"
                   ELSE at'[u] = at[u]
    BY <1>6 DEF Count!StoreCount, Count!Goto, CountTyped
  <2>4. \A u \in CounterThreads :
          u # t => at[u] \notin {"load", "store", "print", "unlock"}
    BY <2>2 DEF Locked
  <2> QED BY <1>0, <2>1, <2>2, <2>3, <2>4 DEF Locked
<1> QED BY <1>2, <1>3, <1>4, <1>5, <1>6 DEF Count!CountNext

(* Without the mutex, what a thread stores is one more than what was there when
   it loaded. *)
LEMMA UnlockedStep ==
  ASSUME CountTyped, Rounds, Unlocked, ~Count!this.locks, Count!CountNext
  PROVE  Unlocked'
<1>0. /\ UNCHANGED <<counting, increments>>
      /\ Count!this' = Count!this
  <2>1. UNCHANGED <<counting, increments>>
    BY DEF Count!CountNext, Count!CreateThreadFails, Count!JoinAndExit,
           Count!CreateThread, Count!LeaveLoop, Count!LockMutex, Count!LoadCount,
           Count!StoreCount, Count!PrintCount, Count!UnlockMutex, Count!Goto
  <2> QED BY <2>1 DEF Count!this
<1>1. Count!this.threads \subseteq CounterThreads BY CountingFacts DEF CountTyped
<1>2. increments \in Int /\ increments > 0
  <2>1. counting = "thread1" BY CountingFacts DEF CountTyped
  <2> QED BY <2>1 DEF CountTyped, Count!MayAskFor
<1>3. CASE Count!CreateThreadFails \/ Count!JoinAndExit
  <2>1. UNCHANGED <<counter, at, left, loaded>>
    BY <1>3 DEF Count!CreateThreadFails, Count!JoinAndExit
  <2>2. Stores' = Stores BY <1>0, <2>1, StoresStay
  <2> QED BY <1>0, <2>1, <2>2 DEF Unlocked
<1>4. ASSUME NEW t \in CounterThreads, Count!CreateThread(t) PROVE Unlocked'
  <2>1. \A u \in CounterThreads :
          /\ at'[u] = IF u = t THEN "loop" ELSE at[u]
          /\ left'[u] = IF u = t THEN increments ELSE left[u]
    BY <1>4 DEF Count!CreateThread, CountTyped
  <2>2. at[t] = "none" /\ t \in Count!this.threads BY <1>4 DEF Count!CreateThread
  <2>3. Stores' = Stores BY <1>0, <1>1, <2>1, <2>2, StoresStay
  <2>4. UNCHANGED <<counter, loaded>> BY <1>4 DEF Count!CreateThread
  <2>5. left'[t] # 0 BY <1>2, <2>1
  <2> QED BY <1>0, <1>1, <2>1, <2>2, <2>3, <2>4, <2>5 DEF Unlocked
<1>5. ASSUME NEW t \in CounterThreads,
             Count!LeaveLoop(t) \/ Count!LockMutex(t) \/ Count!LoadCount(t)
               \/ Count!PrintCount(t) \/ Count!UnlockMutex(t)
      PROVE  Unlocked'
  <2>1. left' = left /\ counter' = counter
    BY <1>5 DEF Count!LeaveLoop, Count!LockMutex, Count!LoadCount, Count!PrintCount,
                Count!UnlockMutex
  <2>2. \A u \in CounterThreads : at[u] = "none" <=> at'[u] = "none"
    BY <1>5 DEF Count!LeaveLoop, Count!LockMutex, Count!LoadCount, Count!PrintCount,
                Count!UnlockMutex, Count!Goto, CountTyped
  <2>3. Stores' = Stores BY <1>0, <1>1, <2>1, <2>2, StoresStay
  <2>4. CASE Count!LoadCount(t)
    <3>1. /\ \A u \in CounterThreads : at'[u] = IF u = t THEN "store" ELSE at[u]
          /\ \A u \in CounterThreads : loaded'[u] = IF u = t THEN counter ELSE loaded[u]
          /\ at[t] = "load"
      BY <2>4 DEF Count!LoadCount, Count!Goto, CountTyped
    <3>2. t \in Count!this.threads /\ left[t] < increments => counter >= 1
      <4> SUFFICES ASSUME t \in Count!this.threads, left[t] < increments
                   PROVE  counter >= 1
        OBVIOUS
      <4>1. left[t] \in Int /\ left[t] > 0 BY <3>1 DEF CountTyped, Rounds
      <4>2. <<t, left[t] + 1>> \in Made
        BY <1>2, <3>1, <4>1 DEF Made
      <4>3. Stores > 0 BY <4>2, StoresType, FS_EmptySet DEF Stores
      <4> QED BY <4>3 DEF Unlocked
    <3> QED BY <1>0, <1>1, <2>1, <2>2, <2>3, <3>1, <3>2, StoresType
            DEF Unlocked, CountTyped
  <2>5. CASE Count!LeaveLoop(t) \/ Count!LockMutex(t) \/ Count!PrintCount(t)
               \/ Count!UnlockMutex(t)
    <3>1. loaded' = loaded
      BY <2>5 DEF Count!LeaveLoop, Count!LockMutex, Count!PrintCount, Count!UnlockMutex
    <3>2. \A u \in CounterThreads : at'[u] = "store" => at[u] = "store"
      BY <2>5 DEF Count!LeaveLoop, Count!LockMutex, Count!PrintCount, Count!UnlockMutex,
                  Count!Goto, CountTyped
    <3> QED BY <1>0, <1>1, <2>1, <2>2, <2>3, <3>1, <3>2 DEF Unlocked
  <2> QED BY <1>5, <2>4, <2>5
<1>6. ASSUME NEW t \in CounterThreads, Count!StoreCount(t) PROVE Unlocked'
  <2>1. Stores' = Stores + 1 /\ Stores \in Nat /\ t \in Count!this.threads
    BY <1>6, OneMoreStore, StoresType
  <2>2. /\ at[t] = "store" /\ counter' = loaded[t] + 1 /\ loaded' = loaded
        /\ left[t] \in Int /\ left[t] > 0
    BY <1>6 DEF Count!StoreCount, Count!Goto, CountTyped, Rounds
  <2>3. loaded[t] \in 0 .. Stores /\ (left[t] < increments => loaded[t] >= 1)
    BY <2>1, <2>2 DEF Unlocked
  <2>4. \A u \in CounterThreads :
          /\ at'[u] = "store" => at[u] = "store" /\ u # t
          /\ at'[u] = "none" <=> at[u] = "none"
          /\ left'[u] = IF u = t THEN left[t] - 1 ELSE left[u]
    BY <1>6, <2>2 DEF Count!StoreCount, Count!Goto, CountTyped
  <2>5. counter' \in 1 .. Stores' BY <2>1, <2>2, <2>3
  <2>6. (\A u \in Count!this.threads : left'[u] = 0) =>
          counter' >= Count!Min({2, increments})
    <3>0. Count!Min({2, increments}) = IF increments < 2 THEN increments ELSE 2
      BY <1>2, MaxMin, Zenon
    <3>1. CASE left[t] = 1 /\ increments >= 2
      BY <1>2, <2>2, <2>3, <3>0, <3>1
    <3>2. CASE increments < 2 BY <1>2, <2>2, <2>3, <3>0, <3>2
    <3>3. CASE left[t] # 1 BY <2>1, <2>2, <2>4, <3>3
    <3> QED BY <1>2, <3>1, <3>2, <3>3
  <2>7. \A u \in CounterThreads : at'[u] = "store" => loaded[u] \in 0 .. Stores'
    BY <2>1, <2>4 DEF Unlocked
  <2>8. \A u \in Count!this.threads :
          at'[u] = "store" /\ left'[u] < increments => loaded[u] >= 1
    BY <1>1, <2>4 DEF Unlocked
  <2> QED BY <1>0, <2>1, <2>2, <2>5, <2>6, <2>7, <2>8 DEF Unlocked
<1> QED BY <1>3, <1>4, <1>5, <1>6 DEF Count!CountNext

(* main prints when all have stored. *)
LEMMA PrintedStep ==
  ASSUME CountIInv, Count!CountNext PROVE Count!PrintedCountIsSum'
<1> SUFFICES ASSUME main' = "exit(0)"
             PROVE  IF Count!this'.locks THEN printed' = Count!Total'
                    ELSE printed' \in Count!Min({2, increments'}) .. Count!Total'
  BY DEF Count!PrintedCountIsSum
<1>1. Count!JoinAndExit
  BY DEF Count!CountNext, Count!CreateThreadFails, Count!CreateThread, Count!LeaveLoop,
         Count!LockMutex, Count!LoadCount, Count!StoreCount, Count!PrintCount,
         Count!UnlockMutex, Count!Goto, Count!Running
<1>2. /\ UNCHANGED <<counting, increments, counter, at, left>>
      /\ \A t \in Count!this.threads : at[t] = "done"
      /\ printed' = IF Count!this.mainPrints THEN counter ELSE printed
  BY <1>1 DEF Count!JoinAndExit
<1>3. CountTyped /\ Rounds BY DEF CountIInv
<1>4. Count!this' = Count!this BY <1>2 DEF Count!this
<1>5. Count!Total' = Count!Total BY <1>2, <1>4 DEF Count!Total
<1>6. Count!this.threads \subseteq CounterThreads BY <1>3, CountingFacts DEF CountTyped
<1>7. \A t \in Count!this.threads : at[t] # "none" /\ left[t] <= 0
  BY <1>2, <1>3, <1>6 DEF Rounds
<1>8. Stores = Count!Total /\ Stores \in Nat BY <1>3, <1>7, AllStores, StoresType
<1>9. CASE Count!this.locks
  <2>1. Locked BY <1>9 DEF CountIInv
  <2>2. printed' = counter
    <3>1. CASE Count!this.mainPrints BY <1>2, <3>1
    <3>2. CASE ~Count!this.mainPrints
      <4>1. Count!this.threadPrints BY <1>3, <3>2, CountingFacts DEF CountTyped
      <4>2. ~\E t \in CounterThreads : at[t] = "print"
        BY <1>2, <1>3 DEF Rounds
      <4> QED BY <1>2, <2>1, <3>2, <4>1, <4>2 DEF Locked
    <3> QED BY <3>1, <3>2
  <2> QED BY <1>4, <1>5, <1>8, <1>9, <2>1, <2>2 DEF Locked
<1>10. CASE ~Count!this.locks
  <2>1. Unlocked BY <1>10 DEF CountIInv
  <2>2. counting = "thread1" /\ increments > 0 /\ increments \in Int
    BY <1>3, <1>10, CountingFacts DEF CountTyped, Count!MayAskFor
  <2>3. printed' = counter BY <1>2, <1>3, <2>2, CountingFacts DEF CountTyped
  <2>4. \A t \in Count!this.threads : at[t] # "none" /\ left[t] = 0
    BY <1>3, <1>6, <1>7, <2>2 DEF Rounds, CountTyped
  <2>5. counter >= Count!Min({2, increments}) BY <2>1, <2>4 DEF Unlocked
  <2>6. Count!Min({2, increments}) \in Int
    <3>1. Count!Min({2, increments}) = IF increments < 2 THEN increments ELSE 2
      BY <2>2, MaxMin, Zenon
    <3> QED BY <2>2, <3>1
  <2>7. counter \in Int /\ counter <= Stores BY <1>3, <2>1 DEF Unlocked, CountTyped
  <2> QED BY <1>2, <1>4, <1>5, <1>8, <1>10, <2>3, <2>5, <2>6, <2>7
<1> QED BY <1>9, <1>10

(* The last number printed is the sum of all increments with the mutex, and at
   least 2 (or 1, of single increments) without, for any number of threads
   (thread1.c, thread_teacher.c, exercise.c, exercise_for.c). *)
THEOREM SumIsPrinted == Count!CountSpec => []PrintedCountIsSum
<1>1. CountIInv /\ [Count!CountNext]_(Count!countVars) => CountIInv'
  <2> SUFFICES ASSUME CountIInv, [Count!CountNext]_(Count!countVars) PROVE CountIInv'
    OBVIOUS
  <2>1. CASE UNCHANGED Count!countVars
    <3>1. UNCHANGED <<counting, increments, counter, lockedBy, main, at, left, loaded,
                      printed>>
      BY <2>1 DEF Count!countVars
    <3>2. Count!this' = Count!this BY <3>1 DEF Count!this
    <3>3. Stores' = Stores BY <3>1, <3>2 DEF Stores, Made
    <3>4. Count!Total' = Count!Total BY <3>1, <3>2 DEF Count!Total
    <3>5. CountTyped' /\ Rounds'
      BY <3>1, <3>2 DEF CountIInv, CountTyped, Rounds, Count!MayAskFor
    <3>6. Locked => Locked' BY <3>1, <3>2, <3>3 DEF Locked
    <3>7. Unlocked => Unlocked' BY <3>1, <3>2, <3>3 DEF Unlocked
    <3>8. Count!PrintedCountIsSum'
      BY <3>1, <3>2, <3>4 DEF CountIInv, Count!PrintedCountIsSum
    <3> QED BY <3>2, <3>5, <3>6, <3>7, <3>8 DEF CountIInv
  <2>2. CASE Count!CountNext
    <3>1. CountTyped /\ Rounds BY DEF CountIInv
    <3>2. CountTyped' /\ Rounds' BY <2>2, <3>1, CountTypedStep
    <3>3. Count!PrintedCountIsSum' BY <2>2, PrintedStep
    <3>4. Count!this' = Count!this
      <4>1. counting' = counting
        BY <2>2 DEF Count!CountNext, Count!CreateThreadFails, Count!JoinAndExit,
               Count!CreateThread, Count!LeaveLoop, Count!LockMutex, Count!LoadCount,
               Count!StoreCount, Count!PrintCount, Count!UnlockMutex, Count!Goto
      <4> QED BY <4>1 DEF Count!this
    <3>5. CASE Count!this.locks
      BY <2>2, <3>1, <3>2, <3>3, <3>4, <3>5, LockedStep DEF CountIInv
    <3>6. CASE ~Count!this.locks
      BY <2>2, <3>1, <3>2, <3>3, <3>4, <3>6, UnlockedStep DEF CountIInv
    <3> QED BY <3>5, <3>6
  <2> QED BY <2>1, <2>2
<1>2. CountIInv => PrintedCountIsSum BY DEF CountIInv, PrintedCountIsSum
<1> QED BY <1>1, <1>2, CountInitIInv, PTL DEF Count!CountSpec
-----------------------------------------------------------------------------
(* AverageServer: who can be behind what the threads and clients hold. *)
Own(s, c) == \A i \in 1 .. Len(s) : s[i] = c

Numbers == Seq(Clients \cup {"none"})

AvgTyped ==
  /\ avgProgram \in {"fifoserver_multithreads", "fifoserver", "fina2s"}
  /\ pipe \in Seq(Clients) /\ avgMsgs \in Clients \cup {"none"}
  /\ avgThread \in [Clients -> {"none", "start", "open", "average", "done"}]
  /\ name \in [Clients -> Clients \cup {"none"}]
  /\ sum \in [Clients -> Numbers]
  /\ avgClient \in [Clients -> {"idle", "connect", "opening", "mkfifo", "write",
                                "openOwn", "read", "exit", "exited"}]
  /\ reply \in [Clients -> Seq(Numbers)] /\ avgPrinted \in [Clients -> Numbers]

(* A client sends one request; until it is read neither main nor a thread knows
   the client, and a thread starts with nothing added up. *)
Sends == {"idle", "connect", "opening", "mkfifo", "write"}

Unread(c) == avgClient[c] \in Sends \/ \E i \in 1 .. Len(pipe) : pipe[i] = c

Once ==
  /\ \A i, j \in 1 .. Len(pipe) : pipe[i] = pipe[j] => i = j
  /\ \A i \in 1 .. Len(pipe) : avgClient[pipe[i]] \notin Sends
  /\ \A c \in Clients : Unread(c) => /\ avgThread[c] = "none" /\ avgMsgs # c
                                     /\ \A t \in Clients : name[t] # c
  /\ \A t \in Clients : avgThread[t] \in {"none", "start", "open"} => sum[t] = <<>>

(* Without threads, what main works on is the request in its variable. *)
OneAtATime ==
  \A t \in Clients : avgThread[t] \in {"start", "open", "average"} =>
    /\ avgMsgs = t /\ Own(sum[t], t)
    /\ avgThread[t] # "start" => name[t] = t

(* With threads, and clients one after the other: the request of one that waits
   is the last that was sent, and once main has it the variable stays. *)
LoneClient ==
  /\ \A c, d \in Clients : Avg!Alive(c) /\ Avg!Alive(d) => c = d
  /\ \A c \in Clients : Avg!ClientReads(c) =>
       \/ pipe # <<>> /\ pipe[Len(pipe)] = c
       \/ /\ pipe = <<>> /\ avgMsgs = c
          /\ \A t \in Clients :
               avgThread[t] = "average" /\ name[t] = c => Own(sum[t], c)

Answers ==
  \A c \in Clients : /\ Own(avgPrinted[c], c)
                     /\ \A i \in 1 .. Len(reply[c]) : Own(reply[c][i], c)

Threads == avgProgram # "fifoserver"

AvgIInv ==
  /\ AvgTyped /\ Once
  /\ ~Threads => OneAtATime /\ Answers
  /\ Threads /\ ~avgTogether => LoneClient /\ Answers

(* What the clients are told and print is theirs as long as it is the same. *)
LEMMA AnswersKept ==
  ASSUME Answers, reply' = reply, avgPrinted' = avgPrinted
  PROVE  Answers'
<1>1. \A c \in Clients : Own(avgPrinted'[c], c) BY DEF Answers
<1>2. \A c \in Clients : \A i \in 1 .. Len(reply'[c]) : Own(reply'[c][i], c)
  BY DEF Answers
<1> QED BY <1>1, <1>2 DEF Answers

(* Which programs have threads. *)
LEMMA AvgPrograms == AvgTyped => (Avg!Program.threads <=> Threads)
<1> SUFFICES ASSUME AvgTyped PROVE Avg!Program.threads <=> Threads OBVIOUS
<1>1. CASE avgProgram = "fifoserver_multithreads"
  <2>1. Avg!Program = Avg!FifoserverMultithreads BY <1>1 DEF Avg!Program
  <2> QED BY <1>1, <2>1 DEF Avg!FifoserverMultithreads, Threads
<1>2. CASE avgProgram = "fifoserver"
  <2>1. Avg!Program = Avg!Fifoserver BY <1>2 DEF Avg!Program
  <2> QED BY <1>2, <2>1 DEF Avg!Fifoserver, Threads
<1>3. CASE avgProgram = "fina2s"
  <2>1. Avg!Program = Avg!Fina2s BY <1>3 DEF Avg!Program
  <2> QED BY <1>3, <2>1 DEF Avg!Fina2s, Threads
<1> QED BY <1>1, <1>2, <1>3 DEF AvgTyped

(* Nobody has sent anything at first. *)
LEMMA AvgInitIInv == Avg!Init => AvgIInv
<1> SUFFICES ASSUME Avg!Init PROVE AvgIInv OBVIOUS
<1>1. /\ pipe = <<>> /\ avgMsgs = "none"
      /\ avgThread = [c \in Clients |-> "none"] /\ name = [c \in Clients |-> "none"]
      /\ sum = [c \in Clients |-> <<>>] /\ avgClient = [c \in Clients |-> "idle"]
      /\ reply = [c \in Clients |-> <<>>] /\ avgPrinted = [c \in Clients |-> <<>>]
      /\ avgProgram \in {"fifoserver_multithreads", "fifoserver", "fina2s"}
  BY DEF Avg!Init, Avg!None
<1>2. <<>> \in Numbers /\ <<>> \in Seq(Numbers) /\ <<>> \in Seq(Clients) BY DEF Numbers
<1>3. AvgTyped BY <1>1, <1>2 DEF AvgTyped
<1>4. Once BY <1>1, ClientAssumption DEF Once, Unread
<1>5. OneAtATime BY <1>1 DEF OneAtATime
<1>6. Answers BY <1>1 DEF Answers, Own
<1>7. LoneClient BY <1>1 DEF LoneClient, Avg!Alive, Avg!ClientReads
<1> QED BY <1>3, <1>4, <1>5, <1>6, <1>7 DEF AvgIInv

(* What concerns the server's life and the names alone. *)
LEMMA AvgFrame ==
  ASSUME AvgIInv, UNCHANGED <<avgProgram, pipe, avgMsgs, avgThread, name, sum,
                              avgClient, reply, avgPrinted, avgTogether>>
  PROVE  AvgIInv'
<1>1. AvgTyped' BY DEF AvgIInv, AvgTyped
<1>2. Once' BY DEF AvgIInv, Once, Unread
<1>3. OneAtATime => OneAtATime' BY DEF OneAtATime, Own
<1>4. Answers => Answers' BY DEF Answers, Own
<1>5. LoneClient => LoneClient' BY DEF LoneClient, Own, Avg!Alive, Avg!ClientReads
<1>6. (Threads <=> Threads') /\ (avgTogether <=> avgTogether') BY DEF Threads
<1> QED BY <1>1, <1>2, <1>3, <1>4, <1>5, <1>6 DEF AvgIInv

(* A client that moves without a request or an answer. *)
LEMMA AvgClientMoves ==
  ASSUME AvgIInv, NEW c \in Clients, NEW to,
         to \in {"idle", "connect", "opening", "mkfifo", "write", "openOwn", "read",
                 "exit", "exited"},
         avgClient' = [avgClient EXCEPT ![c] = to],
         to \in Sends => avgClient[c] \in Sends,
         to \in {"openOwn", "read"} => Avg!ClientReads(c),
         avgTogether => avgTogether',
         ~avgTogether' /\ ~Avg!Alive(c) => \A d \in Clients \ {c} : ~Avg!Alive(d),
         UNCHANGED <<avgProgram, pipe, avgMsgs, avgThread, name, sum, reply, avgPrinted>>
  PROVE  AvgIInv'
<1>0. AvgTyped /\ Once BY DEF AvgIInv
<1>1. AvgTyped' BY <1>0 DEF AvgTyped
<1>2. \A d \in Clients : avgClient'[d] = IF d = c THEN to ELSE avgClient[d]
  BY <1>0 DEF AvgTyped
<1>3. Once'
  <2>1. \A i \in 1 .. Len(pipe) : pipe[i] \in Clients BY <1>0 DEF AvgTyped
  <2>2. \A d \in Clients : Unread(d)' => Unread(d) BY <1>2 DEF Unread
  <2>3. \A i \in 1 .. Len(pipe) : avgClient'[pipe[i]] \notin Sends
    BY <1>0, <1>2, <2>1 DEF Once
  <2> QED BY <1>0, <2>2, <2>3 DEF Once
<1>4. OneAtATime => OneAtATime' BY DEF OneAtATime, Own
<1>5. Answers => Answers' BY DEF Answers, Own
<1>6. ~avgTogether' /\ LoneClient => LoneClient'
  <2> SUFFICES ASSUME ~avgTogether', LoneClient PROVE LoneClient' OBVIOUS
  <2>1. \A d \in Clients : Avg!Alive(d)' => IF d = c THEN TRUE ELSE Avg!Alive(d)
    BY <1>2 DEF Avg!Alive
  <2>2. \A d, e \in Clients : Avg!Alive(d)' /\ Avg!Alive(e)' => d = e
    BY <2>1 DEF LoneClient
  <2>3. \A d \in Clients : Avg!ClientReads(d)' => Avg!ClientReads(d)
    BY <1>2 DEF Avg!ClientReads
  <2> QED BY <2>2, <2>3 DEF LoneClient, Own
<1>7. Threads <=> Threads' BY DEF Threads
<1> QED BY <1>1, <1>3, <1>4, <1>5, <1>6, <1>7 DEF AvgIInv

(* main reads the next request into its variable. *)
LEMMA AvgReadRequestStep == ASSUME AvgIInv, Avg!ReadRequest PROVE AvgIInv'
<1>0. AvgTyped /\ Once BY DEF AvgIInv
<1> DEFINE h == Head(pipe)
<1>1. /\ pipe \in Seq(Clients) /\ pipe # <<>> /\ h = pipe[1] /\ h \in Clients
      /\ Tail(pipe) \in Seq(Clients) /\ Len(pipe) \in Nat \ {0}
      /\ Len(Tail(pipe)) = Len(pipe) - 1
      /\ \A i \in 1 .. Len(pipe) - 1 : Tail(pipe)[i] = pipe[i + 1]
  BY <1>0 DEF AvgTyped, Avg!ReadRequest
<1>2. /\ avgMsgs' = h /\ pipe' = Tail(pipe)
      /\ avgThread' = [avgThread EXCEPT ![h] = "start"]
      /\ UNCHANGED <<avgProgram, name, sum, avgClient, avgTogether, reply, avgPrinted>>
  BY DEF Avg!ReadRequest, Avg!clientVars
<1>3. Avg!Program.threads \/ ~Avg!Busy BY DEF Avg!ReadRequest
<1> HIDE DEF h
<1>4. \A t \in Clients : avgThread'[t] = IF t = h THEN "start" ELSE avgThread[t]
  BY <1>0, <1>2 DEF AvgTyped
<1>5. AvgTyped' BY <1>0, <1>1, <1>2 DEF AvgTyped
<1>6. Unread(h) /\ avgThread[h] = "none" /\ \A t \in Clients : name[t] # h
  <2>1. 1 \in 1 .. Len(pipe) /\ pipe[1] = h BY <1>1
  <2> QED BY <1>0, <1>1, <2>1 DEF Once, Unread
<1>7. \A c \in Clients : Unread(c)' => Unread(c) /\ c # h
  <2>1. ASSUME NEW i \in 1 .. Len(pipe) - 1 PROVE pipe[i + 1] # h
    <3>1. i + 1 \in 1 .. Len(pipe) /\ 1 \in 1 .. Len(pipe) /\ i + 1 # 1 BY <1>1
    <3> QED BY <1>0, <1>1, <3>1 DEF Once
  <2>2. avgClient[h] \notin Sends
    <3>1. 1 \in 1 .. Len(pipe) BY <1>1
    <3> QED BY <1>0, <1>1, <3>1 DEF Once
  <2>3. ASSUME NEW c \in Clients, NEW i \in 1 .. Len(pipe'), pipe'[i] = c
        PROVE  Unread(c) /\ c # h
    <3>1. i \in 1 .. Len(pipe) - 1 /\ i + 1 \in 1 .. Len(pipe) /\ pipe[i + 1] = c
      BY <1>1, <1>2, <2>3
    <3> QED BY <2>1, <3>1 DEF Unread
  <2> QED BY <1>2, <2>2, <2>3 DEF Unread
<1>8. Once'
  <2>1. \A i, j \in 1 .. Len(pipe') : pipe'[i] = pipe'[j] => i = j
    <3> SUFFICES ASSUME NEW i \in 1 .. Len(pipe'), NEW j \in 1 .. Len(pipe'),
                        pipe'[i] = pipe'[j]
                 PROVE  i = j
      OBVIOUS
    <3>1. i + 1 \in 1 .. Len(pipe) /\ j + 1 \in 1 .. Len(pipe) BY <1>1, <1>2
    <3>2. pipe[i + 1] = pipe[j + 1] BY <1>1, <1>2
    <3>3. i + 1 = j + 1 BY <1>0, <3>1, <3>2 DEF Once
    <3> QED BY <1>1, <1>2, <3>3
  <2>2. \A i \in 1 .. Len(pipe') : avgClient'[pipe'[i]] \notin Sends
    <3> SUFFICES ASSUME NEW i \in 1 .. Len(pipe') PROVE avgClient[pipe[i + 1]] \notin Sends
      BY <1>1, <1>2
    <3>1. i + 1 \in 1 .. Len(pipe) BY <1>1, <1>2
    <3> QED BY <1>0, <3>1 DEF Once
  <2>3. \A c \in Clients : Unread(c)' => /\ avgThread'[c] = "none" /\ avgMsgs' # c
                                         /\ \A t \in Clients : name'[t] # c
    BY <1>0, <1>2, <1>4, <1>7 DEF Once
  <2>4. \A t \in Clients : avgThread'[t] \in {"none", "start", "open"} => sum'[t] = <<>>
    BY <1>0, <1>1, <1>2, <1>4, <1>6 DEF Once
  <2> QED BY <2>1, <2>2, <2>3, <2>4 DEF Once
<1>9. ~Threads => OneAtATime'
  <2> SUFFICES ASSUME ~Threads PROVE OneAtATime' OBVIOUS
  <2>1. ~Avg!Busy BY <1>0, <1>3, AvgPrograms
  <2>2. \A t \in Clients : t # h => avgThread'[t] \in {"none", "done"}
    BY <1>4, <2>1 DEF Avg!Busy
  <2>3. sum[h] = <<>> BY <1>0, <1>1, <1>6 DEF Once
  <2> QED BY <1>1, <1>2, <1>4, <2>2, <2>3 DEF OneAtATime, Own
<1>10. Answers => Answers'
  <2>1. reply' = reply /\ avgPrinted' = avgPrinted BY <1>2
  <2> QED BY <2>1, AnswersKept
<1>11. LoneClient => LoneClient'
  <2> SUFFICES ASSUME LoneClient PROVE LoneClient' OBVIOUS
  <2>1. \A c, d \in Clients : Avg!Alive(c)' /\ Avg!Alive(d)' => c = d
    BY <1>2 DEF LoneClient, Avg!Alive
  <2>2. ASSUME NEW c \in Clients, Avg!ClientReads(c)'
        PROVE  \/ pipe' # <<>> /\ pipe'[Len(pipe')] = c
               \/ /\ pipe' = <<>> /\ avgMsgs' = c
                  /\ \A t \in Clients :
                       avgThread'[t] = "average" /\ name'[t] = c => Own(sum'[t], c)
    <3>1. pipe[Len(pipe)] = c BY <1>1, <1>2, <2>2 DEF LoneClient, Avg!ClientReads
    <3>2. CASE Len(pipe) = 1
      <4>1. pipe' = <<>> /\ c = h BY <1>1, <1>2, <3>1, <3>2
      <4> QED BY <1>2, <1>6, <4>1
    <3>3. CASE Len(pipe) # 1
      <4>1. Len(pipe) - 1 \in 1 .. Len(pipe) - 1 BY <1>1, <3>3
      <4>2. Len(pipe) - 1 + 1 = Len(pipe) BY <1>1
      <4>3. pipe'[Len(pipe')] = c /\ Len(pipe') # 0 BY <1>1, <1>2, <3>1, <4>1, <4>2
      <4> QED BY <1>1, <4>3
    <3> QED BY <3>2, <3>3
  <2> QED BY <2>1, <2>2 DEF LoneClient
<1>12. (Threads <=> Threads') /\ avgTogether' = avgTogether BY <1>2 DEF Threads
<1> QED BY <1>5, <1>8, <1>9, <1>10, <1>11, <1>12 DEF AvgIInv

(* The thread for the request of t names the client's FIFO and opens it. *)
LEMMA AvgOpenStep ==
  ASSUME AvgIInv, NEW t \in Clients, Avg!NameFifo(t) \/ Avg!OpenClientFifo(t)
  PROVE  AvgIInv'
<1>0. AvgTyped /\ Once BY DEF AvgIInv
<1>1. /\ UNCHANGED <<avgProgram, pipe, avgMsgs, avgClient, avgPrinted, avgTogether,
                     sum, reply>>
  BY DEF Avg!NameFifo, Avg!OpenClientFifo, Avg!ThreadMoves, Avg!serverVars,
         Avg!clientVars
<1>2. \/ /\ avgThread[t] = "start"
         /\ \A u \in Clients : /\ avgThread'[u] = IF u = t THEN "open" ELSE avgThread[u]
                               /\ name'[u] = IF u = t THEN avgMsgs ELSE name[u]
      \/ /\ avgThread[t] = "open"
         /\ \A u \in Clients : /\ avgThread'[u] = IF u = t THEN "average" ELSE avgThread[u]
                               /\ name'[u] = name[u]
  BY <1>0 DEF AvgTyped, Avg!NameFifo, Avg!OpenClientFifo, Avg!ThreadMoves
<1>3. AvgTyped'
  <2>1. \/ avgThread' = [avgThread EXCEPT ![t] = "open"]
        \/ avgThread' = [avgThread EXCEPT ![t] = "average"]
    BY DEF Avg!NameFifo, Avg!OpenClientFifo, Avg!ThreadMoves
  <2>2. name' = [name EXCEPT ![t] = avgMsgs] \/ name' = name
    BY DEF Avg!NameFifo, Avg!OpenClientFifo
  <2>3. avgThread' \in [Clients -> {"none", "start", "open", "average", "done"}]
    BY <1>0, <2>1 DEF AvgTyped
  <2>4. name' \in [Clients -> Clients \cup {"none"}] BY <1>0, <2>2 DEF AvgTyped
  <2> QED BY <1>0, <1>1, <2>3, <2>4 DEF AvgTyped
<1>4. Once'
  <2>1. \A c \in Clients : Unread(c)' <=> Unread(c) BY <1>1 DEF Unread
  <2>2. \A c \in Clients : Unread(c) => /\ avgThread'[c] = "none" /\ avgMsgs' # c
                                        /\ \A u \in Clients : name'[u] # c
    BY <1>0, <1>1, <1>2 DEF Once
  <2>3. \A u \in Clients : avgThread'[u] \in {"none", "start", "open"} => sum'[u] = <<>>
    BY <1>0, <1>1, <1>2 DEF Once
  <2>4. \A i \in 1 .. Len(pipe') : avgClient'[pipe'[i]] \notin Sends
    BY <1>0, <1>1 DEF Once
  <2>5. \A i, j \in 1 .. Len(pipe') : pipe'[i] = pipe'[j] => i = j
    BY <1>0, <1>1 DEF Once
  <2> QED BY <2>1, <2>2, <2>3, <2>4, <2>5 DEF Once
<1>5. OneAtATime => OneAtATime' BY <1>1, <1>2 DEF OneAtATime, Own
<1>6. Answers => Answers' BY <1>1 DEF Answers, Own
<1>7. LoneClient => LoneClient'
  <2> SUFFICES ASSUME LoneClient PROVE LoneClient' OBVIOUS
  <2>1. \A c, d \in Clients : Avg!Alive(c)' /\ Avg!Alive(d)' => c = d
    BY <1>1 DEF LoneClient, Avg!Alive
  <2>2. ASSUME NEW c \in Clients, pipe = <<>>, avgMsgs = c, NEW u \in Clients,
               \A v \in Clients :
                 avgThread[v] = "average" /\ name[v] = c => Own(sum[v], c),
               avgThread'[u] = "average", name'[u] = c
        PROVE  Own(sum'[u], c)
    <3>1. CASE avgThread[u] = "average" /\ name[u] = c BY <1>1, <2>2, <3>1
    <3>2. CASE avgThread[u] = "open"
      <4>1. sum[u] = <<>> BY <1>0, <3>2 DEF Once
      <4> QED BY <1>1, <4>1 DEF Own
    <3> QED BY <1>2, <2>2, <3>1, <3>2
  <2> QED BY <1>1, <2>1, <2>2 DEF LoneClient, Avg!ClientReads
<1>8. (Threads <=> Threads') /\ avgTogether' = avgTogether BY <1>1 DEF Threads
<1> QED BY <1>3, <1>4, <1>5, <1>6, <1>7, <1>8 DEF AvgIInv

(* It adds up numbers that it reads from the variable. *)
LEMMA AvgAverageStep ==
  ASSUME AvgIInv, NEW t \in Clients, Avg!average(t) PROVE AvgIInv'
<1>0. AvgTyped /\ Once BY DEF AvgIInv
<1>1. /\ UNCHANGED <<avgProgram, pipe, avgMsgs, avgClient, avgPrinted, avgTogether,
                     name, reply>>
      /\ avgThread[t] = "average"
      /\ \A u \in Clients : avgThread'[u] = avgThread[u]
      /\ avgThread' \in [Clients -> {"none", "start", "open", "average", "done"}]
      /\ sum' = [sum EXCEPT ![t] = Append(@, avgMsgs)]
  BY <1>0 DEF Avg!average, Avg!ThreadMoves, Avg!serverVars, Avg!clientVars, AvgTyped
<1>2. Append(sum[t], avgMsgs) \in Numbers BY <1>0 DEF AvgTyped, Numbers
<1>3. AvgTyped' BY <1>0, <1>1, <1>2 DEF AvgTyped
<1>4. \A u \in Clients : sum'[u] = IF u = t THEN Append(sum[t], avgMsgs) ELSE sum[u]
  BY <1>0, <1>1 DEF AvgTyped
<1>5. Once'
  <2>1. \A c \in Clients : Unread(c)' <=> Unread(c) BY <1>1 DEF Unread
  <2>2. \A c \in Clients : Unread(c) => /\ avgThread'[c] = "none" /\ avgMsgs' # c
                                        /\ \A u \in Clients : name'[u] # c
    BY <1>0, <1>1 DEF Once
  <2>3. \A u \in Clients : avgThread'[u] \in {"none", "start", "open"} => sum'[u] = <<>>
    BY <1>0, <1>1, <1>4 DEF Once
  <2>4. \A i \in 1 .. Len(pipe') : avgClient'[pipe'[i]] \notin Sends
    BY <1>0, <1>1 DEF Once
  <2>5. \A i, j \in 1 .. Len(pipe') : pipe'[i] = pipe'[j] => i = j
    BY <1>0, <1>1 DEF Once
  <2> QED BY <2>1, <2>2, <2>3, <2>4, <2>5 DEF Once
<1>6. ASSUME NEW c, avgMsgs = c, Own(sum[t], c) PROVE Own(sum'[t], c)
  <2> DEFINE s == sum[t]
             k == Len(s)
  <2>1. s \in Numbers BY <1>0 DEF AvgTyped
  <2>2. /\ Len(Append(s, c)) = k + 1 /\ Append(s, c)[k + 1] = c
        /\ \A i \in 1 .. k : Append(s, c)[i] = s[i]
        /\ k \in Nat
    BY <2>1 DEF Numbers
  <2>3. \A i \in 1 .. k : s[i] = c BY <1>6 DEF Own
  <2>4. sum'[t] = Append(s, c) BY <1>4, <1>6
  <2> HIDE DEF s, k
  <2>5. \A i \in 1 .. (k + 1) : i \in 1 .. k \/ i = k + 1 BY <2>2
  <2> QED BY <2>2, <2>3, <2>4, <2>5 DEF Own
<1>7. OneAtATime => OneAtATime'
  <2> SUFFICES ASSUME OneAtATime, NEW u \in Clients,
                      avgThread'[u] \in {"start", "open", "average"}
               PROVE  /\ avgMsgs' = u /\ Own(sum'[u], u)
                      /\ avgThread'[u] # "start" => name'[u] = u
    BY DEF OneAtATime
  <2>1. /\ avgMsgs = u /\ Own(sum[u], u)
        /\ avgThread[u] # "start" => name[u] = u
    BY <1>1 DEF OneAtATime
  <2>2. Own(sum'[u], u)
    <3>1. CASE u = t BY <1>6, <2>1, <3>1
    <3>2. CASE u # t BY <1>4, <2>1, <3>2
    <3> QED BY <3>1, <3>2
  <2> QED BY <1>1, <2>1, <2>2
<1>8. Answers => Answers'
  <2>1. reply' = reply /\ avgPrinted' = avgPrinted BY <1>1
  <2> QED BY <2>1, AnswersKept
<1>9. LoneClient => LoneClient'
  <2> SUFFICES ASSUME LoneClient PROVE LoneClient' OBVIOUS
  <2>1. \A c, d \in Clients : Avg!Alive(c)' /\ Avg!Alive(d)' => c = d
    BY <1>1 DEF LoneClient, Avg!Alive
  <2>2. ASSUME NEW c \in Clients, avgMsgs = c, NEW u \in Clients, Own(sum[u], c)
        PROVE  Own(sum'[u], c)
    <3>1. CASE u = t BY <1>6, <2>2, <3>1
    <3>2. CASE u # t BY <1>4, <2>2, <3>2
    <3> QED BY <3>1, <3>2
  <2> QED BY <1>1, <2>1, <2>2 DEF LoneClient, Avg!ClientReads
<1>10. (Threads <=> Threads') /\ avgTogether' = avgTogether BY <1>1 DEF Threads
<1> QED BY <1>3, <1>5, <1>7, <1>8, <1>9, <1>10 DEF AvgIInv

(* It answers the client whose FIFO it has open. *)
LEMMA AvgRespondStep ==
  ASSUME AvgIInv, NEW t \in Clients, Avg!Respond(t) PROVE AvgIInv'
<1>0. AvgTyped /\ Once BY DEF AvgIInv
<1> DEFINE c == name[t]
<1>1. /\ UNCHANGED <<avgProgram, pipe, avgMsgs, avgClient, avgPrinted, avgTogether,
                     name, sum>>
      /\ avgThread[t] = "average" /\ Avg!ClientReads(c)
      /\ \A u \in Clients : avgThread'[u] = IF u = t THEN "done" ELSE avgThread[u]
      /\ avgThread' \in [Clients -> {"none", "start", "open", "average", "done"}]
      /\ reply' = [reply EXCEPT ![c] = Append(@, sum[t])]
  BY <1>0 DEF Avg!Respond, Avg!ThreadMoves, Avg!serverVars, Avg!clientVars, AvgTyped
<1> HIDE DEF c
<1>2. AvgTyped'
  <2>1. c \in Clients => Append(reply[c], sum[t]) \in Seq(Numbers)
    BY <1>0 DEF AvgTyped
  <2>2. reply' \in [Clients -> Seq(Numbers)] BY <1>0, <1>1, <2>1 DEF AvgTyped
  <2> QED BY <1>0, <1>1, <2>2 DEF AvgTyped
<1>3. Once'
  <2>1. \A d \in Clients : Unread(d)' <=> Unread(d) BY <1>1 DEF Unread
  <2>2. \A d \in Clients : Unread(d) => /\ avgThread'[d] = "none" /\ avgMsgs' # d
                                        /\ \A u \in Clients : name'[u] # d
    BY <1>0, <1>1 DEF Once
  <2>3. \A u \in Clients : avgThread'[u] \in {"none", "start", "open"} => sum'[u] = <<>>
    BY <1>0, <1>1 DEF Once
  <2>4. \A i \in 1 .. Len(pipe') : avgClient'[pipe'[i]] \notin Sends
    BY <1>0, <1>1 DEF Once
  <2>5. \A i, j \in 1 .. Len(pipe') : pipe'[i] = pipe'[j] => i = j
    BY <1>0, <1>1 DEF Once
  <2> QED BY <2>1, <2>2, <2>3, <2>4, <2>5 DEF Once
<1>4. OneAtATime => OneAtATime' BY <1>1 DEF OneAtATime, Own
<1>5. LoneClient => LoneClient'
  <2>1. \A u \in Clients : avgThread'[u] = "average" => avgThread[u] = "average"
    BY <1>1
  <2> QED BY <1>1, <2>1 DEF LoneClient, Avg!Alive, Avg!ClientReads
<1>6. Answers /\ (c \in Clients => Own(sum[t], c)) => Answers'
  <2> SUFFICES ASSUME Answers, c \in Clients => Own(sum[t], c), NEW d \in Clients
               PROVE  /\ Own(avgPrinted'[d], d)
                      /\ \A i \in 1 .. Len(reply'[d]) : Own(reply'[d][i], d)
    BY DEF Answers
  <2>1. reply'[d] = IF d = c THEN Append(reply[d], sum[t]) ELSE reply[d]
    BY <1>0, <1>1 DEF AvgTyped
  <2>2. reply[d] \in Seq(Numbers) BY <1>0 DEF AvgTyped
  <2>3. Own(avgPrinted'[d], d) /\ \A i \in 1 .. Len(reply[d]) : Own(reply[d][i], d)
    BY <1>1 DEF Answers
  <2> QED BY <2>1, <2>2, <2>3
<1>7. OneAtATime => (c \in Clients => Own(sum[t], c))
  <2>1. OneAtATime => Own(sum[t], t) /\ name[t] = t BY <1>1 DEF OneAtATime
  <2> QED BY <2>1 DEF c
<1>8. LoneClient => (c \in Clients => Own(sum[t], c))
  <2> SUFFICES ASSUME LoneClient, c \in Clients PROVE Own(sum[t], c) OBVIOUS
  <2>1. name[t] = c BY DEF c
  <2>2. ~Unread(c) BY <1>0, <2>1 DEF Once
  <2>3. ~(pipe # <<>> /\ pipe[Len(pipe)] = c)
    <3> SUFFICES ASSUME pipe # <<>>, pipe[Len(pipe)] = c PROVE FALSE OBVIOUS
    <3>1. Len(pipe) \in 1 .. Len(pipe) BY <1>0 DEF AvgTyped
    <3> QED BY <2>2, <3>1 DEF Unread
  <2> QED BY <1>1, <2>1, <2>3 DEF LoneClient
<1>9. (Threads <=> Threads') /\ avgTogether' = avgTogether BY <1>1 DEF Threads
<1> QED BY <1>2, <1>3, <1>4, <1>5, <1>6, <1>7, <1>8, <1>9 DEF AvgIInv

(* A client's request goes to the end of the pipe, its only one. *)
LEMMA AvgSendStep ==
  ASSUME AvgIInv, NEW c \in Clients, Avg!SendRequest(c) PROVE AvgIInv'
<1>0. AvgTyped /\ Once BY DEF AvgIInv
<1>1. /\ avgClient[c] = "write" /\ avgClient' = [avgClient EXCEPT ![c] = "openOwn"]
      /\ pipe' = Append(pipe, c)
      /\ UNCHANGED <<avgProgram, avgMsgs, avgThread, name, sum, avgTogether>>
      /\ UNCHANGED <<reply, avgPrinted>>
  BY DEF Avg!SendRequest, Avg!ClientMoves, Avg!threadVars
<1>2. /\ pipe \in Seq(Clients) /\ Len(pipe) \in Nat
      /\ pipe' \in Seq(Clients) /\ pipe' # <<>>
      /\ Len(pipe') = Len(pipe) + 1 /\ pipe'[Len(pipe) + 1] = c
      /\ \A i \in 1 .. Len(pipe) : pipe'[i] = pipe[i]
  <2>1. pipe \in Seq(Clients) BY <1>0 DEF AvgTyped
  <2> DEFINE new == Append(pipe, c)
  <2>2. /\ new \in Seq(Clients) /\ Len(new) = Len(pipe) + 1
        /\ new[Len(pipe) + 1] = c /\ Len(pipe) \in Nat
        /\ \A i \in 1 .. Len(pipe) : new[i] = pipe[i]
    BY <2>1
  <2>3. new # <<>> BY <2>2
  <2>4. pipe' = new BY <1>1
  <2> HIDE DEF new
  <2> QED BY <2>1, <2>2, <2>3, <2>4
<1>3. \A d \in Clients : avgClient'[d] = IF d = c THEN "openOwn" ELSE avgClient[d]
  BY <1>0, <1>1 DEF AvgTyped
<1>4. AvgTyped' BY <1>0, <1>1, <1>2 DEF AvgTyped
<1>5. \A i \in 1 .. Len(pipe) : pipe[i] # c /\ pipe[i] \in Clients
  BY <1>0, <1>1, <1>2 DEF Once, Sends
<1>6. \A i \in 1 .. Len(pipe') : IF i = Len(pipe) + 1 THEN pipe'[i] = c
                                ELSE i \in 1 .. Len(pipe) /\ pipe'[i] = pipe[i]
  BY <1>2
<1>7. Once'
  <2>1. \A i, j \in 1 .. Len(pipe') : pipe'[i] = pipe'[j] => i = j
    BY <1>0, <1>5, <1>6 DEF Once
  <2>2. \A i \in 1 .. Len(pipe') : avgClient'[pipe'[i]] \notin Sends
    BY <1>0, <1>3, <1>5, <1>6 DEF Once, Sends
  <2>3. \A d \in Clients : Unread(d)' => Unread(d)
    <3> SUFFICES ASSUME NEW d \in Clients, Unread(d)' PROVE Unread(d) OBVIOUS
    <3>1. CASE avgClient'[d] \in Sends
      <4>1. d # c BY <1>3, <3>1 DEF Sends
      <4> QED BY <1>3, <3>1, <4>1 DEF Unread
    <3>2. ASSUME NEW i \in 1 .. Len(pipe'), pipe'[i] = d PROVE Unread(d)
      <4>1. CASE i = Len(pipe) + 1
        <5>1. d = c BY <1>2, <3>2, <4>1
        <5> QED BY <1>1, <5>1 DEF Unread, Sends
      <4>2. CASE i # Len(pipe) + 1
        <5>1. i \in 1 .. Len(pipe) /\ pipe[i] = d BY <1>6, <3>2, <4>2
        <5> QED BY <5>1 DEF Unread
      <4> QED BY <4>1, <4>2
    <3> QED BY <3>1, <3>2 DEF Unread
  <2>4. \A d \in Clients : Unread(d) => /\ avgThread'[d] = "none" /\ avgMsgs' # d
                                        /\ \A t \in Clients : name'[t] # d
    BY <1>0, <1>1 DEF Once
  <2>5. \A t \in Clients : avgThread'[t] \in {"none", "start", "open"} => sum'[t] = <<>>
    BY <1>0, <1>1 DEF Once
  <2> QED BY <2>1, <2>2, <2>3, <2>4, <2>5 DEF Once
<1>8. OneAtATime => OneAtATime'
  <2>1. UNCHANGED <<avgMsgs, avgThread, name, sum>> BY <1>1
  <2> QED BY <2>1 DEF OneAtATime, Own
<1>9. Answers => Answers'
  <2>1. reply' = reply /\ avgPrinted' = avgPrinted BY <1>1
  <2> QED BY <2>1, AnswersKept
<1>10. LoneClient => LoneClient'
  <2> SUFFICES ASSUME LoneClient PROVE LoneClient' OBVIOUS
  <2>1. \A d \in Clients : Avg!Alive(d)' => Avg!Alive(d) BY <1>1, <1>3 DEF Avg!Alive
  <2>2. ASSUME NEW d \in Clients, Avg!ClientReads(d)' PROVE d = c
    <3>1. Avg!Alive(c) BY <1>1 DEF Avg!Alive
    <3>2. Avg!Alive(d)' BY <2>2 DEF Avg!Alive, Avg!ClientReads
    <3> QED BY <2>1, <3>1, <3>2 DEF LoneClient
  <2>3. \A d, e \in Clients : Avg!Alive(d)' /\ Avg!Alive(e)' => d = e
    BY <2>1 DEF LoneClient
  <2>4. pipe' # <<>> /\ pipe'[Len(pipe')] = c BY <1>2
  <2> QED BY <2>2, <2>3, <2>4 DEF LoneClient
<1>11. (Threads <=> Threads') /\ avgTogether' = avgTogether BY <1>1 DEF Threads
<1> QED BY <1>4, <1>7, <1>8, <1>9, <1>10, <1>11 DEF AvgIInv

(* A client prints what it finds in its FIFO. *)
LEMMA AvgReadAnswerStep ==
  ASSUME AvgIInv, NEW c \in Clients, Avg!ReadAnswer(c), reply[c] # <<>> PROVE AvgIInv'
<1>0. AvgTyped /\ Once BY DEF AvgIInv
<1>1. /\ avgClient[c] = "read" /\ avgClient' = [avgClient EXCEPT ![c] = "exit"]
      /\ UNCHANGED <<avgProgram, avgMsgs, avgThread, name, sum, avgTogether, pipe>>
      /\ avgPrinted' = [avgPrinted EXCEPT ![c] = Head(reply[c])]
      /\ reply' = [reply EXCEPT ![c] = Tail(@)]
  BY DEF Avg!ReadAnswer, Avg!ClientMoves, Avg!threadVars
<1> DEFINE s == reply[c]
<1>2. /\ s \in Seq(Numbers) /\ Tail(s) \in Seq(Numbers) /\ s[1] \in Numbers
      /\ Head(s) = s[1] /\ Len(s) \in Nat \ {0} /\ Len(Tail(s)) = Len(s) - 1
      /\ \A i \in 1 .. Len(s) - 1 : Tail(s)[i] = s[i + 1]
  BY <1>0 DEF AvgTyped
<1>3. /\ reply' \in [Clients -> Seq(Numbers)] /\ avgPrinted' \in [Clients -> Numbers]
      /\ \A d \in Clients :
           /\ reply'[d] = IF d = c THEN Tail(s) ELSE reply[d]
           /\ avgPrinted'[d] = IF d = c THEN s[1] ELSE avgPrinted[d]
  BY <1>0, <1>1, <1>2 DEF AvgTyped
<1> HIDE DEF s
<1>4. \A d \in Clients : avgClient'[d] = IF d = c THEN "exit" ELSE avgClient[d]
  BY <1>0, <1>1 DEF AvgTyped
<1>5. AvgTyped' BY <1>0, <1>1, <1>3 DEF AvgTyped
<1>6. Once'
  <2>1. \A d \in Clients : Unread(d)' => Unread(d)
    BY <1>1, <1>4 DEF Unread, Sends
  <2>2. \A i \in 1 .. Len(pipe) : pipe[i] \in Clients BY <1>0 DEF AvgTyped
  <2>3. \A i \in 1 .. Len(pipe) : avgClient'[pipe[i]] \notin Sends
    BY <1>0, <1>4, <2>2 DEF Once, Sends
  <2> QED BY <1>0, <1>1, <2>1, <2>3 DEF Once
<1>7. OneAtATime => OneAtATime'
  <2>1. UNCHANGED <<avgMsgs, avgThread, name, sum>> BY <1>1
  <2> QED BY <2>1 DEF OneAtATime, Own
<1>8. Answers => Answers'
  <2> SUFFICES ASSUME Answers, NEW d \in Clients
               PROVE  /\ Own(avgPrinted'[d], d)
                      /\ \A i \in 1 .. Len(reply'[d]) : Own(reply'[d][i], d)
    BY DEF Answers
  <2>1. CASE d = c
    <3>1. \A i \in 1 .. Len(s) : Own(s[i], c) BY DEF Answers, s
    <3>2. \A i \in 1 .. Len(s) - 1 : i + 1 \in 1 .. Len(s) BY <1>2
    <3>3. 1 \in 1 .. Len(s) BY <1>2
    <3>4. avgPrinted'[d] = s[1] /\ reply'[d] = Tail(s) BY <1>3, <2>1
    <3>5. Own(avgPrinted'[d], d) BY <2>1, <3>1, <3>3, <3>4
    <3>6. \A i \in 1 .. Len(s) - 1 : Own(Tail(s)[i], d)
      BY <1>2, <2>1, <3>1, <3>2
    <3>7. Len(reply'[d]) = Len(s) - 1 BY <1>2, <3>4
    <3> QED BY <3>4, <3>5, <3>6, <3>7
  <2>2. CASE d # c BY <1>3, <2>2 DEF Answers
  <2> QED BY <2>1, <2>2
<1>9. LoneClient => LoneClient'
  <2> SUFFICES ASSUME LoneClient PROVE LoneClient' OBVIOUS
  <2>1. \A d \in Clients : /\ Avg!Alive(d)' => Avg!Alive(d)
                           /\ Avg!ClientReads(d)' => Avg!ClientReads(d)
    BY <1>1, <1>4 DEF Avg!Alive, Avg!ClientReads
  <2> QED BY <1>1, <2>1 DEF LoneClient, Own
<1>10. (Threads <=> Threads') /\ avgTogether' = avgTogether BY <1>1 DEF Threads
<1> QED BY <1>5, <1>6, <1>7, <1>8, <1>9, <1>10 DEF AvgIInv

(* Whoever starts to run while another client runs is noticed. *)
LEMMA AvgOverlap ==
  ASSUME NEW c \in Clients, Avg!Overlap(c)
  PROVE  /\ avgTogether => avgTogether'
         /\ ~avgTogether' => \A d \in Clients \ {c} : ~Avg!Alive(d)
  BY Zenon DEF Avg!Overlap

(* The other steps of a client. *)
LEMMA AvgQuietStep ==
  ASSUME AvgIInv, NEW c \in Clients,
         \/ Avg!OpenServer(c) \/ Avg!ServerOpened(c) \/ Avg!MakeOwnFifo(c)
         \/ Avg!OpenOwn(c) \/ Avg!cleanup(c) \/ Avg!Killed(c)
         \/ Avg!ReadAnswer(c) /\ reply[c] = <<>>
  PROVE  AvgIInv'
<1>1. UNCHANGED <<avgProgram, pipe, avgMsgs, avgThread, name, sum, reply, avgPrinted>>
  BY DEF Avg!OpenServer, Avg!ServerOpened, Avg!MakeOwnFifo, Avg!OpenOwn, Avg!cleanup,
         Avg!Killed, Avg!ReadAnswer, Avg!ClientMoves, Avg!threadVars
<1>2. CASE Avg!OpenServer(c)
  <2>1. PICK to \in {"opening", "exit", "exited"} :
          /\ avgClient' = [avgClient EXCEPT ![c] = to]
          /\ avgClient[c] \in {"idle", "connect"}
    BY <1>2 DEF Avg!OpenServer, Avg!ClientMoves
  <2>2. Avg!Overlap(c) BY <1>2 DEF Avg!OpenServer
  <2>3. to \in Sends => avgClient[c] \in Sends BY <2>1 DEF Sends
  <2> QED BY <1>1, <2>1, <2>2, <2>3, AvgOverlap, AvgClientMoves
<1>3. CASE Avg!ServerOpened(c)
  <2>1. PICK to \in {"write", "mkfifo"} :
          /\ avgClient' = [avgClient EXCEPT ![c] = to]
          /\ avgClient[c] = "opening" /\ avgTogether' = avgTogether
    BY <1>3 DEF Avg!ServerOpened, Avg!ClientMoves
  <2>2. avgClient[c] \in Sends /\ Avg!Alive(c) BY <2>1 DEF Sends, Avg!Alive
  <2> QED BY <1>1, <2>1, <2>2, AvgClientMoves
<1>4. CASE Avg!MakeOwnFifo(c)
  <2>1. PICK to \in {"write", "connect"} :
          /\ avgClient' = [avgClient EXCEPT ![c] = to]
          /\ avgClient[c] \in {"idle", "mkfifo"}
    BY <1>4 DEF Avg!MakeOwnFifo, Avg!ClientMoves
  <2>2. Avg!Overlap(c) BY <1>4 DEF Avg!MakeOwnFifo
  <2>3. avgClient[c] \in Sends BY <2>1 DEF Sends
  <2> QED BY <1>1, <2>1, <2>2, <2>3, AvgOverlap, AvgClientMoves
<1>5. CASE Avg!OpenOwn(c)
  <2>1. /\ avgClient' = [avgClient EXCEPT ![c] = "read"]
        /\ avgClient[c] = "openOwn" /\ avgTogether' = avgTogether
    BY <1>5 DEF Avg!OpenOwn, Avg!ClientMoves
  <2>2. Avg!ClientReads(c) /\ Avg!Alive(c) /\ "read" \notin Sends
    BY <2>1 DEF Avg!ClientReads, Avg!Alive, Sends
  <2> QED BY <1>1, <2>1, <2>2, AvgClientMoves
<1>6. CASE Avg!cleanup(c) \/ Avg!Killed(c)
  <2>1. /\ avgClient' = [avgClient EXCEPT ![c] = "exited"]
        /\ Avg!Alive(c) /\ avgTogether' = avgTogether
    BY <1>6 DEF Avg!cleanup, Avg!Killed, Avg!ClientMoves, Avg!Alive
  <2>2. "exited" \notin Sends BY DEF Sends
  <2> QED BY <1>1, <2>1, <2>2, AvgClientMoves
<1>7. CASE Avg!ReadAnswer(c) /\ reply[c] = <<>>
  <2>1. /\ avgClient' = [avgClient EXCEPT ![c] = "exit"]
        /\ Avg!Alive(c) /\ avgTogether' = avgTogether
    BY <1>7 DEF Avg!ReadAnswer, Avg!ClientMoves, Avg!Alive
  <2>2. "exit" \notin Sends BY DEF Sends
  <2> QED BY <1>1, <2>1, <2>2, AvgClientMoves
<1> QED BY <1>2, <1>3, <1>4, <1>5, <1>6, <1>7

(* What a client of the FIFO servers prints is made from its own numbers: always
   with the sequential server, and with threads as long as no two clients run at
   the same time (fifoserver_multithreads.c 187). *)
LEMMA AvgPrintsOwn == Avg!Spec => []Avg!PrintsOwnUnlessTogether
<1>1. AvgIInv /\ [Avg!Next]_(Avg!vars) => AvgIInv'
  <2> SUFFICES ASSUME AvgIInv, [Avg!Next]_(Avg!vars) PROVE AvgIInv' OBVIOUS
  <2>1. CASE UNCHANGED Avg!vars
    BY <2>1, AvgFrame DEF Avg!vars, Avg!serverVars, Avg!threadVars, Avg!clientVars
  <2>2. CASE Avg!MakeFifo \/ Avg!OpenFifo
    BY <2>2, AvgFrame DEF Avg!MakeFifo, Avg!OpenFifo, Avg!threadVars, Avg!clientVars
  <2>3. CASE Avg!Stop \/ \E t \in Clients : Avg!OpenClientFifoFails(t) \/ Avg!BrokenPipe(t)
    BY <2>3, AvgFrame DEF Avg!Stop, Avg!OpenClientFifoFails, Avg!BrokenPipe, Avg!Exit,
                          Avg!Die, Avg!threadVars, Avg!clientVars
  <2>4. CASE Avg!ReadRequest BY <2>4, AvgReadRequestStep
  <2>5. ASSUME NEW t \in Clients, Avg!process(t) PROVE AvgIInv'
    BY <2>3, <2>5, AvgOpenStep, AvgAverageStep, AvgRespondStep DEF Avg!process
  <2>6. ASSUME NEW c \in Clients,
               \/ Avg!OpenServer(c) \/ Avg!ServerOpened(c) \/ Avg!MakeOwnFifo(c)
               \/ Avg!SendRequest(c) \/ Avg!OpenOwn(c) \/ Avg!ReadAnswer(c)
               \/ Avg!cleanup(c) \/ Avg!Killed(c)
        PROVE  AvgIInv'
    BY <2>6, AvgQuietStep, AvgSendStep, AvgReadAnswerStep
  <2> QED BY <2>1, <2>2, <2>3, <2>4, <2>5, <2>6 DEF Avg!Next
<1>2. AvgIInv => Avg!PrintsOwnUnlessTogether
  BY AvgPrograms DEF AvgIInv, Answers, Own, Avg!PrintsOwnUnlessTogether, Avg!PrintsOwn
<1> QED BY <1>1, <1>2, AvgInitIInv, PTL DEF Avg!Spec
-----------------------------------------------------------------------------
(* TwoFifos: what p2 prints is the upper case of its own line.             *)

Line    == Nat \X Nat
P1Sites == {"off", "mkfifo", "openRead", "openWrite", "opening", "read", "write"}
P2Sites == {"off", "opening1", "openRead", "opening2", "fgets", "write", "read"}

TwoTyped ==
  /\ p1Runs \in 0 .. MaxP1 /\ p2Runs \in Nat /\ p2Killed \in BOOLEAN
  /\ FIFO1 \in 0 .. p1Runs /\ FIFO2 \in 0 .. p1Runs
  /\ inFIFO1 \in [Two!P1Run -> Seq(Line)] /\ inFIFO2 \in [Two!P1Run -> Seq(Line)]
  /\ p1 \in [at : P1Sites, fdr : 0 .. p1Runs, fdw : 0 .. p1Runs, buffer : Seq(Line)]
  /\ p2 \in [at : P2Sites, fdr : 0 .. p1Runs, fdw : 0 .. p1Runs, lines : Nat,
             line : Line, buffer : Seq(Line)]
  /\ p1.at # "off" => p1.fdr # 0
  /\ p2.at # "off" => p2.fdw # 0
  /\ p2.at \in {"off", "opening1", "openRead"} <=> p2.fdr = 0

(* Where a program is tells what it has open, and of p1 which FIFO2 there is. *)
P1Places ==
  /\ p1.at = "off" => p1.fdr = 0 /\ p1.fdw = 0 /\ p1.buffer = <<>>
  /\ p1.at \in {"opening", "read", "write"} <=> p1.fdw # 0
  /\ p1.fdw # 0 => p1.fdw = p1.fdr
  /\ p1.at = "mkfifo" => FIFO2 # p1.fdr
  /\ p1.at \notin {"off", "mkfifo"} => FIFO2 \in {0, p1.fdr}

P2Places ==
  /\ p2.at = "off" => p2.fdw = 0
  /\ p2.at \in {"off", "opening1", "openRead", "opening2"} => p2.buffer = <<>>
  /\ p2.at \in {"fgets", "write", "read"} => p2.fdw = p2.fdr
  /\ p2.fdr # 0 => FIFO2 = p2.fdr

(* As long as the FIFO2 of a p1 that has met a p2 keeps its name, that p2 is
   there: it takes the name with it. *)
Meeting == p1.at \in {"openWrite", "opening", "read", "write"} /\ FIFO2 # 0
             => p2.fdw = p1.fdr

(* No text and no reply, or the one text or reply, is under way in the FIFOs of
   run r and in p1. *)
Nothing(r)  == /\ inFIFO1[r] = <<>> /\ inFIFO2[r] = <<>>
               /\ p1.fdr = r => p1.buffer = <<>>
OnlyOne(r, s) ==
  /\ inFIFO1[r] \in {<<>>, s} /\ inFIFO2[r] \in {<<>>, s}
  /\ p1.fdr = r => p1.buffer \in {<<>>, s}
  /\ inFIFO1[r] = <<>> \/ inFIFO2[r] = <<>>
  /\ p1.fdr = r /\ p1.buffer # <<>> => inFIFO1[r] = <<>> /\ inFIFO2[r] = <<>>

(* FIFOs that p2 may yet open have nothing in them, nor those of a p2 that does
   not wait for its reply. *)
ToMake(r) == r > p1Runs \/ (p1.at = "mkfifo" /\ r = p1.fdr)
InUse(r)  == r = FIFO2 /\ p2.at # "read"
Clean  == \A r \in Two!P1Run : ToMake(r) \/ InUse(r) => Nothing(r)
Flight == p2.at = "read" => OnlyOne(p2.fdr, <<p2.line>>)
Echoed == p2.at = "fgets" /\ p2.buffer # <<>> => p2.buffer = <<p2.line>>

InOrder  == P1Places /\ P2Places /\ Meeting /\ Clean /\ Flight /\ Echoed
TwoIInv  == TwoTyped /\ (~p2Killed => InOrder)

(* At first there is nothing. *)
LEMMA TwoStarts == Two!TwoInit => TwoIInv
<1> SUFFICES ASSUME Two!TwoInit PROVE TwoIInv OBVIOUS
<1>1. /\ FIFO1 = 0 /\ FIFO2 = 0 /\ p1Runs = 0 /\ p2Runs = 0 /\ p2Killed = FALSE
      /\ inFIFO1 = [r \in Two!P1Run |-> <<>>] /\ inFIFO2 = [r \in Two!P1Run |-> <<>>]
      /\ p1 = [at |-> "off", fdr |-> 0, fdw |-> 0, buffer |-> <<>>]
      /\ p2 = [at |-> "off", fdr |-> 0, fdw |-> 0, lines |-> 0,
               line |-> <<0, 0>>, buffer |-> <<>>]
  BY DEF Two!TwoInit, Two!P1Off, Two!P2Off, Two!Empty
<1>2. /\ p1.at = "off" /\ p1.fdr = 0 /\ p1.fdw = 0 /\ p1.buffer = <<>>
      /\ p2.at = "off" /\ p2.fdr = 0 /\ p2.fdw = 0 /\ p2.buffer = <<>>
  BY <1>1
<1>3. TwoTyped
  <2>1. /\ p1 \in [at : P1Sites, fdr : 0 .. p1Runs, fdw : 0 .. p1Runs, buffer : Seq(Line)]
        /\ p2 \in [at : P2Sites, fdr : 0 .. p1Runs, fdw : 0 .. p1Runs, lines : Nat,
                   line : Line, buffer : Seq(Line)]
    BY <1>1 DEF P1Sites, P2Sites, Line
  <2>2. /\ inFIFO1 \in [Two!P1Run -> Seq(Line)] /\ inFIFO2 \in [Two!P1Run -> Seq(Line)]
    BY <1>1
  <2>3. p1Runs \in 0 .. MaxP1 /\ FIFO1 \in 0 .. p1Runs /\ FIFO2 \in 0 .. p1Runs
    BY <1>1, FifoAssumption
  <2>4. p2Runs \in Nat /\ p2Killed \in BOOLEAN BY <1>1
  <2> QED BY <1>2, <2>1, <2>2, <2>3, <2>4 DEF TwoTyped
<1>4. P1Places /\ P2Places /\ Meeting /\ Flight /\ Echoed
  BY <1>1, <1>2 DEF P1Places, P2Places, Meeting, Flight, Echoed
<1>5. Clean BY <1>1, <1>2 DEF Clean, Nothing
<1> QED BY <1>3, <1>4, <1>5 DEF TwoIInv, InOrder

(* The end of p1, with or without its exit handler. *)
LEMMA P1Ends ==
  ASSUME TwoIInv, p1' = Two!P1Off, FIFO1' \in {0, FIFO1}, p1Runs' \in {p1Runs, p1Runs + 1},
         p1Runs' <= MaxP1,
         UNCHANGED <<FIFO2, inFIFO1, inFIFO2, p2, p2Runs, p2Killed>>
  PROVE  TwoIInv'
<1>1. TwoTyped BY DEF TwoIInv
<1>2. p1' = [at |-> "off", fdr |-> 0, fdw |-> 0, buffer |-> <<>>] BY DEF Two!P1Off
<1>3. p1'.at = "off" /\ p1'.fdr = 0 /\ p1'.fdw = 0 /\ p1'.buffer = <<>> BY <1>2
<1>4. TwoTyped'
  <2>1. p1Runs' \in 0 .. MaxP1 /\ 0 .. p1Runs \subseteq 0 .. p1Runs'
    BY <1>1, FifoAssumption DEF TwoTyped
  <2>2. p1' \in [at : P1Sites, fdr : 0 .. p1Runs', fdw : 0 .. p1Runs', buffer : Seq(Line)]
    BY <1>2, <2>1 DEF P1Sites
  <2>3. p2' \in [at : P2Sites, fdr : 0 .. p1Runs', fdw : 0 .. p1Runs', lines : Nat,
                 line : Line, buffer : Seq(Line)]
    BY <1>1, <2>1 DEF TwoTyped
  <2>4. FIFO1' \in 0 .. p1Runs' /\ FIFO2' \in 0 .. p1Runs' BY <1>1, <2>1 DEF TwoTyped
  <2> QED BY <1>1, <1>3, <2>1, <2>2, <2>3, <2>4 DEF TwoTyped
<1>5. SUFFICES ASSUME ~p2Killed PROVE InOrder' BY <1>4 DEF TwoIInv
<1>6. InOrder BY <1>5 DEF TwoIInv
<1>7. P1Places' /\ Meeting' BY <1>3 DEF P1Places, Meeting
<1>8. P2Places' /\ Echoed' BY <1>6 DEF InOrder, P2Places, Echoed
<1>9. Clean'
  <2>1. ASSUME NEW r \in Two!P1Run, ToMake(r)' \/ InUse(r)' PROVE ToMake(r) \/ InUse(r)
    BY <1>1, <1>3, <2>1 DEF ToMake, InUse, TwoTyped, Two!P1Run
  <2>2. ASSUME NEW r \in Two!P1Run, Nothing(r) PROVE Nothing(r)'
    BY <1>3, <2>2 DEF Nothing
  <2> QED BY <1>6, <2>1, <2>2 DEF InOrder, Clean
<1>10. Flight' BY <1>3, <1>6 DEF InOrder, Flight, OnlyOne
<1> QED BY <1>7, <1>8, <1>9, <1>10 DEF InOrder

(* A new p1 makes its FIFO1, if no other is there. *)
LEMMA MakeFIFO1Step == ASSUME TwoIInv, Two!MakeFIFO1 PROVE TwoIInv'
<1>1. TwoTyped BY DEF TwoIInv
<1>2. /\ p1.at = "off" /\ p1Runs' = p1Runs + 1 /\ p1Runs' \in 0 .. MaxP1
      /\ UNCHANGED <<p2, p2Runs, p2Killed>>
  <2>1. /\ p1.at = "off" /\ p1Runs' = p1Runs + 1 /\ p1Runs < MaxP1
        /\ UNCHANGED <<p2, p2Runs, p2Killed>>
    BY DEF Two!MakeFIFO1
  <2> QED BY <1>1, <2>1, FifoAssumption DEF TwoTyped
<1>3. CASE FIFO1 # 0
  <2>1. p1' = Two!P1Off /\ FIFO1' = 0 /\ UNCHANGED <<FIFO2, inFIFO1, inFIFO2>>
    BY <1>3 DEF Two!MakeFIFO1, Two!P1Exits
  <2>2. p1Runs' \in {p1Runs, p1Runs + 1} /\ p1Runs' <= MaxP1 /\ FIFO1' \in {0, FIFO1}
    BY <1>2, <2>1, FifoAssumption
  <2>3. UNCHANGED <<FIFO2, inFIFO1, inFIFO2, p2, p2Runs, p2Killed>> BY <1>2, <2>1
  <2> QED BY <2>1, <2>2, <2>3, P1Ends
<1>4. CASE FIFO1 = 0
  <2>1. /\ p1' = [p1 EXCEPT !.at = "mkfifo", !.fdr = p1Runs'] /\ FIFO1' = p1Runs'
        /\ UNCHANGED <<FIFO2, inFIFO1, inFIFO2>>
    BY <1>4 DEF Two!MakeFIFO1
  <2>2. /\ p1'.at = "mkfifo" /\ p1'.fdr = p1Runs' /\ p1'.fdw = p1.fdw
        /\ p1'.buffer = p1.buffer
    BY <1>1, <2>1 DEF TwoTyped
  <2>3. TwoTyped'
    <3>1. 0 .. p1Runs \subseteq 0 .. p1Runs' /\ p1Runs' \in 0 .. p1Runs'
      BY <1>1, <1>2 DEF TwoTyped
    <3>2. p1' \in [at : P1Sites, fdr : 0 .. p1Runs', fdw : 0 .. p1Runs', buffer : Seq(Line)]
      BY <1>1, <2>1, <3>1 DEF P1Sites, TwoTyped
    <3>3. p2' \in [at : P2Sites, fdr : 0 .. p1Runs', fdw : 0 .. p1Runs', lines : Nat,
                   line : Line, buffer : Seq(Line)]
      BY <1>1, <1>2, <3>1 DEF TwoTyped
    <3>4. FIFO1' \in 0 .. p1Runs' /\ FIFO2' \in 0 .. p1Runs'
      BY <1>1, <2>1, <3>1 DEF TwoTyped
    <3>5. p1'.fdr # 0 BY <1>1, <1>2, <2>2 DEF TwoTyped
    <3> QED BY <1>1, <1>2, <2>1, <3>2, <3>3, <3>4, <3>5 DEF TwoTyped
  <2>4. SUFFICES ASSUME ~p2Killed PROVE InOrder' BY <1>2, <2>3 DEF TwoIInv
  <2>5. InOrder BY <2>4 DEF TwoIInv
  <2>6. p1.fdw = 0 /\ p1.buffer = <<>> /\ p1.fdr = 0
    BY <1>2, <2>5 DEF InOrder, P1Places
  <2>7. P1Places' /\ Meeting'
    BY <1>1, <1>2, <2>1, <2>2, <2>6 DEF TwoTyped, P1Places, Meeting
  <2>8. P2Places' /\ Echoed' BY <1>2, <2>1, <2>5 DEF InOrder, P2Places, Echoed
  <2>9. Clean'
    <3>1. ASSUME NEW r \in Two!P1Run, ToMake(r)' \/ InUse(r)'
          PROVE  ToMake(r) \/ InUse(r)
      BY <1>1, <1>2, <2>1, <2>2, <3>1 DEF ToMake, InUse, TwoTyped, Two!P1Run
    <3>2. ASSUME NEW r \in Two!P1Run, Nothing(r) PROVE Nothing(r)'
      BY <2>1, <2>2, <2>6, <3>2 DEF Nothing
    <3> QED BY <2>5, <3>1, <3>2 DEF InOrder, Clean
  <2>10. Flight'
    BY <1>2, <2>1, <2>2, <2>5, <2>6 DEF InOrder, Flight, OnlyOne
  <2> QED BY <2>7, <2>8, <2>9, <2>10 DEF InOrder
<1> QED BY <1>3, <1>4

(* A step of p1 from one open to the next. *)
LEMMA P1OpensNext ==
  ASSUME TwoIInv, p1.at \notin {"off", "mkfifo"}, p1'.at \notin {"off", "mkfifo"},
         p1' \in [at : P1Sites, fdr : 0 .. p1Runs, fdw : 0 .. p1Runs, buffer : Seq(Line)],
         p1'.fdr = p1.fdr, p1'.buffer = p1.buffer,
         UNCHANGED <<FIFO1, FIFO2, inFIFO1, inFIFO2, p2, p1Runs, p2Runs, p2Killed>>,
         ~p2Killed => P1Places' /\ Meeting'
  PROVE  TwoIInv'
<1>1. TwoTyped BY DEF TwoIInv
<1>2. TwoTyped' BY <1>1 DEF TwoTyped
<1>3. SUFFICES ASSUME ~p2Killed PROVE InOrder' BY <1>2 DEF TwoIInv
<1>4. InOrder BY <1>3 DEF TwoIInv
<1>5. P2Places' /\ Echoed' BY <1>4 DEF InOrder, P2Places, Echoed
<1>6. Clean'
  <2>1. ASSUME NEW r \in Two!P1Run, ToMake(r)' \/ InUse(r)' PROVE ToMake(r) \/ InUse(r)
    BY <2>1 DEF ToMake, InUse
  <2>2. ASSUME NEW r \in Two!P1Run, Nothing(r) PROVE Nothing(r)'
    BY <2>2 DEF Nothing
  <2> QED BY <1>4, <2>1, <2>2 DEF InOrder, Clean
<1>7. Flight' BY <1>4 DEF InOrder, Flight, OnlyOne
<1> QED BY <1>3, <1>5, <1>6, <1>7 DEF InOrder

(* p1 makes FIFO2, if no other is there. *)
LEMMA MakeFIFO2Step == ASSUME TwoIInv, Two!MakeFIFO2 PROVE TwoIInv'
<1>1. TwoTyped BY DEF TwoIInv
<1>2. p1.at = "mkfifo" /\ UNCHANGED <<inFIFO1, inFIFO2, p2, p1Runs, p2Runs, p2Killed>>
  BY DEF Two!MakeFIFO2, Two!P1Only
<1>3. CASE FIFO2 # 0
  <2>1. p1' = Two!P1Off /\ FIFO1' = 0 /\ UNCHANGED FIFO2
    BY <1>3 DEF Two!MakeFIFO2, Two!P1Only
  <2>2. p1Runs' \in {p1Runs, p1Runs + 1} /\ p1Runs' <= MaxP1 /\ FIFO1' \in {0, FIFO1}
    BY <1>1, <1>2, <2>1, FifoAssumption DEF TwoTyped
  <2>3. UNCHANGED <<FIFO2, inFIFO1, inFIFO2, p2, p2Runs, p2Killed>> BY <1>2, <2>1
  <2> QED BY <2>1, <2>2, <2>3, P1Ends
<1>4. CASE FIFO2 = 0
  <2>1. p1' = [p1 EXCEPT !.at = "openRead"] /\ FIFO2' = p1.fdr /\ UNCHANGED FIFO1
    BY <1>4 DEF Two!MakeFIFO2, Two!P1Only
  <2>2. /\ p1'.at = "openRead" /\ p1'.fdr = p1.fdr /\ p1'.fdw = p1.fdw
        /\ p1'.buffer = p1.buffer
    BY <1>1, <2>1 DEF TwoTyped
  <2>3. p1' \in [at : P1Sites, fdr : 0 .. p1Runs, fdw : 0 .. p1Runs, buffer : Seq(Line)]
    BY <1>1, <2>1 DEF TwoTyped, P1Sites
  <2>4. p1.fdr \in 0 .. p1Runs BY <1>1 DEF TwoTyped
  <2>5. TwoTyped' BY <1>1, <1>2, <2>1, <2>2, <2>3, <2>4 DEF TwoTyped
  <2>6. SUFFICES ASSUME ~p2Killed PROVE InOrder' BY <1>2, <2>5 DEF TwoIInv
  <2>7. InOrder BY <2>6 DEF TwoIInv
  <2>8. P1Places' /\ Meeting'
    BY <1>2, <2>1, <2>2, <2>7 DEF InOrder, P1Places, Meeting
  <2>9. p2.fdr = 0 BY <1>4, <2>7 DEF InOrder, P2Places
  <2>10. P2Places' /\ Echoed' /\ Flight'
    BY <1>1, <1>2, <2>7, <2>9 DEF InOrder, P2Places, Echoed, Flight, TwoTyped
  <2>11. Clean'
    <3>1. ASSUME NEW r \in Two!P1Run, ToMake(r)' \/ InUse(r)' PROVE ToMake(r)
      BY <1>2, <2>1, <2>2, <3>1 DEF ToMake, InUse
    <3>2. ASSUME NEW r \in Two!P1Run, Nothing(r) PROVE Nothing(r)'
      BY <1>2, <2>2, <3>2 DEF Nothing
    <3> QED BY <2>7, <3>1, <3>2 DEF InOrder, Clean
  <2> QED BY <2>8, <2>10, <2>11 DEF InOrder
<1> QED BY <1>3, <1>4

(* p1 opens FIFO1, when p2 does, too. *)
LEMMA P1OpenFIFO1Step == ASSUME TwoIInv, Two!P1OpenFIFO1 PROVE TwoIInv'
<1>1. TwoTyped BY DEF TwoIInv
<1>2. /\ p1.at = "openRead" /\ p1' = [p1 EXCEPT !.at = "openWrite"] /\ p2.fdw = p1.fdr
      /\ UNCHANGED <<FIFO1, FIFO2, inFIFO1, inFIFO2, p2, p1Runs, p2Runs, p2Killed>>
  BY DEF Two!P1OpenFIFO1, Two!P1Only, Two!fifoVars
<1>3. /\ p1'.at = "openWrite" /\ p1'.fdr = p1.fdr /\ p1'.fdw = p1.fdw
      /\ p1'.buffer = p1.buffer
  BY <1>1, <1>2 DEF TwoTyped
<1>4. p1' \in [at : P1Sites, fdr : 0 .. p1Runs, fdw : 0 .. p1Runs, buffer : Seq(Line)]
  BY <1>1, <1>2 DEF TwoTyped, P1Sites
<1>5. ASSUME ~p2Killed PROVE P1Places' /\ Meeting'
  <2>1. P1Places BY <1>5 DEF TwoIInv, InOrder
  <2> QED BY <1>2, <1>3, <2>1 DEF P1Places, Meeting
<1>6. p1.at \notin {"off", "mkfifo"} /\ p1'.at \notin {"off", "mkfifo"} BY <1>2, <1>3
<1> QED BY <1>2, <1>3, <1>4, <1>5, <1>6, P1OpensNext

(* p1 opens FIFO2, if the name is still there. *)
LEMMA P1OpenFIFO2Step == ASSUME TwoIInv, Two!P1OpenFIFO2 PROVE TwoIInv'
<1>1. TwoTyped BY DEF TwoIInv
<1>2. /\ p1.at = "openWrite"
      /\ UNCHANGED <<FIFO2, inFIFO1, inFIFO2, p2, p1Runs, p2Runs, p2Killed>>
  BY DEF Two!P1OpenFIFO2, Two!P1Only
<1>3. CASE FIFO2 = 0
  <2>1. p1' = Two!P1Off /\ FIFO1' = 0
    BY <1>3 DEF Two!P1OpenFIFO2, Two!P1Only
  <2>2. p1Runs' \in {p1Runs, p1Runs + 1} /\ p1Runs' <= MaxP1 /\ FIFO1' \in {0, FIFO1}
    BY <1>1, <1>2, <2>1, FifoAssumption DEF TwoTyped
  <2>3. UNCHANGED <<FIFO2, inFIFO1, inFIFO2, p2, p2Runs, p2Killed>> BY <1>2
  <2> QED BY <2>1, <2>2, <2>3, P1Ends
<1>4. CASE FIFO2 # 0
  <2>1. p1' = [p1 EXCEPT !.at = "opening", !.fdw = FIFO2] /\ UNCHANGED FIFO1
    BY <1>4 DEF Two!P1OpenFIFO2, Two!P1Only
  <2>2. /\ p1'.at = "opening" /\ p1'.fdr = p1.fdr /\ p1'.fdw = FIFO2
        /\ p1'.buffer = p1.buffer
    BY <1>1, <2>1 DEF TwoTyped
  <2>3. FIFO2 \in 0 .. p1Runs BY <1>1 DEF TwoTyped
  <2>4. p1' \in [at : P1Sites, fdr : 0 .. p1Runs, fdw : 0 .. p1Runs, buffer : Seq(Line)]
    BY <1>1, <2>1, <2>3 DEF TwoTyped, P1Sites
  <2>5. ASSUME ~p2Killed PROVE P1Places' /\ Meeting'
    <3>1. P1Places /\ Meeting BY <2>5 DEF TwoIInv, InOrder
    <3> QED BY <1>2, <1>4, <2>2, <3>1 DEF P1Places, Meeting
  <2>6. p1.at \notin {"off", "mkfifo"} /\ p1'.at \notin {"off", "mkfifo"} BY <1>2, <2>2
  <2>7. UNCHANGED <<FIFO1, FIFO2, inFIFO1, inFIFO2, p2, p1Runs, p2Runs, p2Killed>>
    BY <1>2, <2>1
  <2> QED BY <2>2, <2>4, <2>5, <2>6, <2>7, P1OpensNext
<1> QED BY <1>3, <1>4

(* The open of FIFO2 returns. *)
LEMMA P1OpenedStep == ASSUME TwoIInv, Two!P1Opened PROVE TwoIInv'
<1>1. TwoTyped BY DEF TwoIInv
<1>2. /\ p1.at = "opening" /\ p1' = [p1 EXCEPT !.at = "read"]
      /\ UNCHANGED <<FIFO1, FIFO2, inFIFO1, inFIFO2, p2, p1Runs, p2Runs, p2Killed>>
  BY DEF Two!P1Opened, Two!P1Only, Two!fifoVars
<1>3. /\ p1'.at = "read" /\ p1'.fdr = p1.fdr /\ p1'.fdw = p1.fdw
      /\ p1'.buffer = p1.buffer
  BY <1>1, <1>2 DEF TwoTyped
<1>4. p1' \in [at : P1Sites, fdr : 0 .. p1Runs, fdw : 0 .. p1Runs, buffer : Seq(Line)]
  BY <1>1, <1>2 DEF TwoTyped, P1Sites
<1>5. ASSUME ~p2Killed PROVE P1Places' /\ Meeting'
  <2>1. P1Places /\ Meeting BY <1>5 DEF TwoIInv, InOrder
  <2> QED BY <1>2, <1>3, <2>1 DEF P1Places, Meeting
<1>6. p1.at \notin {"off", "mkfifo"} /\ p1'.at \notin {"off", "mkfifo"} BY <1>2, <1>3
<1> QED BY <1>2, <1>3, <1>4, <1>5, <1>6, P1OpensNext

(* p1 takes what waits in its FIFO1. *)
LEMMA P1ReadStep == ASSUME TwoIInv, Two!P1Read PROVE TwoIInv'
<1>1. TwoTyped BY DEF TwoIInv
<1>0. PICK k : k = p1.fdr OBVIOUS
<1>2. /\ p1.at = "read" /\ inFIFO1[k] # <<>>
      /\ p1' = [p1 EXCEPT !.at = "write", !.buffer = inFIFO1[k]]
      /\ inFIFO1' = [inFIFO1 EXCEPT ![k] = <<>>]
      /\ UNCHANGED <<FIFO1, FIFO2, inFIFO2, p2, p1Runs, p2Runs, p2Killed>>
  BY <1>0 DEF Two!P1Read, Two!P1Only
<1>3. /\ p1'.at = "write" /\ p1'.fdr = k /\ p1'.fdw = p1.fdw /\ p1'.buffer = inFIFO1[k]
  BY <1>0, <1>1, <1>2 DEF TwoTyped
<1>4. \A r \in Two!P1Run : inFIFO1'[r] = IF r = k THEN <<>> ELSE inFIFO1[r]
  BY <1>1, <1>2 DEF TwoTyped
<1>5. k \in 0 .. p1Runs /\ 0 .. p1Runs \subseteq 0 .. MaxP1 /\ (k # 0 => k \in Two!P1Run)
  BY <1>0, <1>1, FifoAssumption DEF TwoTyped, Two!P1Run
<1>6. k \in Two!P1Run /\ inFIFO1[k] \in Seq(Line)
  <2>1. k # 0 BY <1>0, <1>1, <1>2 DEF TwoTyped
  <2>2. inFIFO1 \in [Two!P1Run -> Seq(Line)] BY <1>1 DEF TwoTyped
  <2> QED BY <1>5, <2>1, <2>2
<1>7. TwoTyped'
  <2>1. inFIFO1' \in [Two!P1Run -> Seq(Line)]
    <3>1. <<>> \in Seq(Line) OBVIOUS
    <3> QED BY <1>1, <1>2, <3>1 DEF TwoTyped
  <2>2. p1' \in [at : P1Sites, fdr : 0 .. p1Runs, fdw : 0 .. p1Runs, buffer : Seq(Line)]
    BY <1>1, <1>2, <1>6 DEF TwoTyped, P1Sites
  <2> QED BY <1>1, <1>2, <1>3, <2>1, <2>2 DEF TwoTyped
<1>8. SUFFICES ASSUME ~p2Killed PROVE InOrder' BY <1>2, <1>7 DEF TwoIInv
<1>9. InOrder BY <1>8 DEF TwoIInv
<1>10. FIFO2 \in {0, k} BY <1>0, <1>2, <1>9 DEF InOrder, P1Places
<1>11. P1Places' /\ Meeting' /\ P2Places' /\ Echoed'
  BY <1>0, <1>2, <1>3, <1>9 DEF InOrder, P1Places, Meeting, P2Places, Echoed
<1>12. Clean'
  <2>1. ASSUME NEW r \in Two!P1Run, ToMake(r)' \/ InUse(r)' PROVE ToMake(r) \/ InUse(r)
    BY <1>0, <1>2, <1>3, <2>1 DEF ToMake, InUse
  <2>2. ASSUME NEW r \in Two!P1Run, Nothing(r) PROVE Nothing(r)'
    BY <1>0, <1>2, <1>3, <1>4, <2>2 DEF Nothing
  <2> QED BY <1>9, <2>1, <2>2 DEF InOrder, Clean
<1>13. Flight'
  <2> SUFFICES ASSUME p2.at = "read" PROVE OnlyOne(p2.fdr, <<p2.line>>)'
    BY <1>2 DEF Flight
  <2>1. p2.fdr = k /\ OnlyOne(k, <<p2.line>>)
    BY <1>0, <1>1, <1>9, <1>10 DEF InOrder, P2Places, TwoTyped, Flight
  <2>2. inFIFO2[k] = <<>> /\ inFIFO1[k] = <<p2.line>> BY <1>2, <2>1 DEF OnlyOne
  <2> QED BY <1>2, <1>3, <1>4, <1>6, <2>1, <2>2 DEF OnlyOne
<1> QED BY <1>11, <1>12, <1>13 DEF InOrder

(* p1 passes the reply on to FIFO2, or ends for want of a reader. *)
LEMMA P1WriteStep == ASSUME TwoIInv, Two!P1Write PROVE TwoIInv'
<1>1. TwoTyped BY DEF TwoIInv
<1>2. p1.at = "write" /\ UNCHANGED <<FIFO1, FIFO2, inFIFO1, p2, p1Runs, p2Runs, p2Killed>>
  BY DEF Two!P1Write, Two!P1Only
<1>3. CASE ~Two!P2Reads(p1.fdw)
  <2>1. p1' = Two!P1Off /\ inFIFO2' = inFIFO2
    BY <1>3 DEF Two!P1Write, Two!P1Only
  <2>2. p1Runs' \in {p1Runs, p1Runs + 1} /\ p1Runs' <= MaxP1 /\ FIFO1' \in {0, FIFO1}
    BY <1>1, <1>2, <2>1, FifoAssumption DEF TwoTyped
  <2>3. UNCHANGED <<FIFO2, inFIFO1, inFIFO2, p2, p2Runs, p2Killed>> BY <1>2, <2>1
  <2> QED BY <2>1, <2>2, <2>3, P1Ends
<1>4. CASE Two!P2Reads(p1.fdw)
  <2>0. PICK k, b : k = p1.fdw /\ b = p1.buffer OBVIOUS
  <2>1. k # 0 /\ p2.fdr = k BY <1>4, <2>0 DEF Two!P2Reads
  <2>2. /\ p1' = [p1 EXCEPT !.at = "read", !.buffer = <<>>]
        /\ inFIFO2' = [inFIFO2 EXCEPT ![k] = inFIFO2[k] \o b]
    BY <1>4, <2>0 DEF Two!P1Write, Two!P1Only
  <2>3. /\ p1'.at = "read" /\ p1'.fdr = p1.fdr /\ p1'.fdw = k /\ p1'.buffer = <<>>
    BY <1>1, <2>0, <2>2 DEF TwoTyped
  <2>4. k \in Two!P1Run
    BY <1>1, <2>0, <2>1, FifoAssumption DEF TwoTyped, Two!P1Run
  <2>5. inFIFO2[k] \in Seq(Line) /\ b \in Seq(Line) BY <1>1, <2>0, <2>4 DEF TwoTyped
  <2>6. inFIFO2[k] \o b \in Seq(Line) BY <2>5
  <2>7. \A r \in Two!P1Run : inFIFO2'[r] = IF r = k THEN inFIFO2[k] \o b ELSE inFIFO2[r]
    BY <1>1, <2>2 DEF TwoTyped
  <2>8. inFIFO2' \in [Two!P1Run -> Seq(Line)] BY <1>1, <2>2, <2>6 DEF TwoTyped
  <2>9. p1' \in [at : P1Sites, fdr : 0 .. p1Runs, fdw : 0 .. p1Runs, buffer : Seq(Line)]
    <3>1. <<>> \in Seq(Line) OBVIOUS
    <3> QED BY <1>1, <2>2, <3>1 DEF TwoTyped, P1Sites
  <2>10. TwoTyped' BY <1>1, <1>2, <2>3, <2>8, <2>9 DEF TwoTyped
  <2>11. SUFFICES ASSUME ~p2Killed PROVE InOrder' BY <1>2, <2>10 DEF TwoIInv
  <2>12. InOrder BY <2>11 DEF TwoIInv
  <2>13. p1.fdr = k /\ FIFO2 = k
    BY <2>0, <2>1, <2>12 DEF InOrder, P1Places, P2Places
  <2>14. P1Places' /\ Meeting' /\ P2Places' /\ Echoed'
    BY <1>2, <2>0, <2>1, <2>3, <2>12 DEF InOrder, P1Places, Meeting, P2Places, Echoed
  <2>15. /\ b = <<>> => inFIFO2[k] \o b = inFIFO2[k]
         /\ inFIFO2[k] = <<>> => inFIFO2[k] \o b = b
    <3>1. \A s, u \in Seq(Line) : /\ u = <<>> => s \o u = s
                                  /\ s = <<>> => s \o u = u
      OBVIOUS
    <3> QED BY <2>5, <3>1
  <2>16. Clean'
    <3>1. ASSUME NEW r \in Two!P1Run, ToMake(r)' \/ InUse(r)' PROVE ToMake(r) \/ InUse(r)
      BY <1>2, <2>3, <3>1 DEF ToMake, InUse
    <3>2. ASSUME NEW r \in Two!P1Run, Nothing(r) PROVE Nothing(r)'
      <4>1. r = k => b = <<>> BY <2>0, <2>13, <3>2 DEF Nothing
      <4>2. inFIFO2'[r] = <<>> BY <2>7, <2>15, <3>2, <4>1 DEF Nothing
      <4> QED BY <1>2, <2>3, <3>2, <4>2 DEF Nothing
    <3> QED BY <2>12, <3>1, <3>2 DEF InOrder, Clean
  <2>17. Flight'
    <3> SUFFICES ASSUME p2.at = "read" PROVE OnlyOne(k, <<p2.line>>)'
      BY <1>2, <2>1 DEF Flight
    <3>1. OnlyOne(k, <<p2.line>>) BY <2>1, <2>12 DEF InOrder, Flight
    <3>2. CASE b = <<>>
      <4>1. inFIFO2'[k] = inFIFO2[k] BY <2>4, <2>7, <2>15, <3>2
      <4> QED BY <1>2, <2>3, <2>13, <3>1, <4>1 DEF OnlyOne
    <3>3. CASE b # <<>>
      <4>1. inFIFO1[k] = <<>> /\ inFIFO2[k] = <<>> /\ b = <<p2.line>>
        BY <2>0, <2>13, <3>1, <3>3 DEF OnlyOne
      <4>2. inFIFO2'[k] = <<p2.line>> BY <2>4, <2>7, <2>15, <4>1
      <4> QED BY <1>2, <2>3, <4>1, <4>2 DEF OnlyOne
    <3> QED BY <3>2, <3>3
  <2> QED BY <2>14, <2>16, <2>17 DEF InOrder
<1> QED BY <1>3, <1>4

(* p1 is stopped or killed. *)
LEMMA P1DiesStep == ASSUME TwoIInv, Two!P1Dies PROVE TwoIInv'
<1>1. TwoTyped BY DEF TwoIInv
<1>2. /\ p1' = Two!P1Off /\ FIFO1' \in {0, FIFO1}
      /\ UNCHANGED <<FIFO2, inFIFO1, inFIFO2, p2, p2Runs, p2Killed>> /\ p1Runs' = p1Runs
  BY DEF Two!P1Dies, Two!P1Exits, Two!fifoVars
<1>3. p1Runs' \in {p1Runs, p1Runs + 1} /\ p1Runs' <= MaxP1
  BY <1>1, <1>2, FifoAssumption DEF TwoTyped
<1> QED BY <1>2, <1>3, P1Ends

(* The end of p2, which leaves FIFO2 behind only when it is killed. *)
LEMMA P2Ends ==
  ASSUME TwoIInv, p2' = Two!P2Off, FIFO2' = 0 \/ (FIFO2' = FIFO2 /\ p2Killed'),
         p2Killed' \in BOOLEAN, p2Killed => p2Killed', p2Runs' \in Nat,
         UNCHANGED <<FIFO1, inFIFO1, inFIFO2, p1, p1Runs>>
  PROVE  TwoIInv'
<1>1. TwoTyped BY DEF TwoIInv
<1>2. p2' = [at |-> "off", fdr |-> 0, fdw |-> 0, lines |-> 0, line |-> <<0, 0>>,
             buffer |-> <<>>]
  BY DEF Two!P2Off, Two!Empty
<1>3. p2'.at = "off" /\ p2'.fdr = 0 /\ p2'.fdw = 0 /\ p2'.buffer = <<>> BY <1>2
<1>4. TwoTyped'
  <2>1. 0 \in 0 .. p1Runs /\ p1Runs' \in 0 .. MaxP1
    BY <1>1, FifoAssumption DEF TwoTyped
  <2>2. p2' \in [at : P2Sites, fdr : 0 .. p1Runs, fdw : 0 .. p1Runs, lines : Nat,
                 line : Line, buffer : Seq(Line)]
    BY <1>2, <2>1 DEF P2Sites, Line
  <2>3. FIFO2' \in 0 .. p1Runs BY <1>1, <2>1 DEF TwoTyped
  <2> QED BY <1>1, <1>3, <2>1, <2>2, <2>3 DEF TwoTyped
<1>5. SUFFICES ASSUME ~p2Killed' PROVE InOrder' BY <1>4 DEF TwoIInv
<1>6. InOrder BY <1>5 DEF TwoIInv
<1>7. FIFO2' = 0 BY <1>5
<1>8. P1Places' /\ P2Places' /\ Meeting' /\ Flight' /\ Echoed'
  BY <1>3, <1>6, <1>7, <1>1
  DEF InOrder, P1Places, P2Places, Meeting, Flight, Echoed, TwoTyped
<1>9. Clean'
  <2>1. ASSUME NEW r \in Two!P1Run, ToMake(r)' \/ InUse(r)' PROVE ToMake(r)
    BY <1>7, <2>1 DEF ToMake, InUse, Two!P1Run
  <2>2. ASSUME NEW r \in Two!P1Run, Nothing(r) PROVE Nothing(r)'
    BY <2>2 DEF Nothing
  <2> QED BY <1>6, <2>1, <2>2 DEF InOrder, Clean
<1> QED BY <1>8, <1>9 DEF InOrder

(* A step of p2 from one open to the next. *)
LEMMA P2OpensNext ==
  ASSUME TwoIInv, p2.at \in {"off", "opening1", "openRead", "opening2"},
         p2'.at \in {"opening1", "openRead", "opening2", "fgets"},
         p2' \in [at : P2Sites, fdr : 0 .. p1Runs, fdw : 0 .. p1Runs, lines : Nat,
                  line : Line, buffer : Seq(Line)],
         p2'.buffer = p2.buffer, p2'.fdw # 0,
         p2'.at \in {"openRead", "opening1"} <=> p2'.fdr = 0,
         ~p2Killed => /\ p2'.at = "fgets" => p2'.fdw = p2'.fdr
                      /\ p2'.fdr # 0 => FIFO2 = p2'.fdr
                      /\ Meeting',
         p2Runs' \in Nat,
         UNCHANGED <<FIFO1, FIFO2, inFIFO1, inFIFO2, p1, p1Runs, p2Killed>>
  PROVE  TwoIInv'
<1>1. TwoTyped BY DEF TwoIInv
<1>2. TwoTyped' BY <1>1 DEF TwoTyped
<1>3. SUFFICES ASSUME ~p2Killed PROVE InOrder' BY <1>2 DEF TwoIInv
<1>4. InOrder BY <1>3 DEF TwoIInv
<1>5. P1Places' BY <1>4 DEF InOrder, P1Places
<1>6. p2.buffer = <<>> BY <1>4 DEF InOrder, P2Places
<1>7. P2Places' /\ Flight' /\ Echoed' BY <1>3, <1>6 DEF P2Places, Flight, Echoed
<1>8. Clean'
  <2>1. ASSUME NEW r \in Two!P1Run, ToMake(r)' \/ InUse(r)' PROVE ToMake(r) \/ InUse(r)
    BY <2>1 DEF ToMake, InUse
  <2>2. ASSUME NEW r \in Two!P1Run, Nothing(r) PROVE Nothing(r)'
    BY <2>2 DEF Nothing
  <2> QED BY <1>4, <2>1, <2>2 DEF InOrder, Clean
<1> QED BY <1>3, <1>5, <1>7, <1>8 DEF InOrder

(* A new p2 opens FIFO1, if p1 has made it. *)
LEMMA P2OpenFIFO1Step == ASSUME TwoIInv, Two!P2OpenFIFO1 PROVE TwoIInv'
<1>1. TwoTyped BY DEF TwoIInv
<1>2. /\ p2.at = "off" /\ p2Runs' = p2Runs + 1
      /\ UNCHANGED <<p1, p1Runs, p2Killed>>
  BY DEF Two!P2OpenFIFO1
<1>3. p2Runs' \in Nat /\ p2Killed' \in BOOLEAN BY <1>1, <1>2 DEF TwoTyped
<1>4. CASE FIFO1 = 0
  <2>1. p2' = Two!P2Off /\ FIFO2' = 0 /\ UNCHANGED <<FIFO1, inFIFO1, inFIFO2>>
    BY <1>4 DEF Two!P2OpenFIFO1, Two!P2Exits
  <2>2. UNCHANGED <<FIFO1, inFIFO1, inFIFO2, p1, p1Runs>> BY <1>2, <2>1
  <2>3. p2Killed => p2Killed' BY <1>2
  <2> QED BY <1>3, <2>1, <2>2, <2>3, P2Ends
<1>5. CASE FIFO1 # 0
  <2>1. /\ p2' = [p2 EXCEPT !.at = "opening1", !.fdw = FIFO1]
        /\ UNCHANGED <<FIFO1, FIFO2, inFIFO1, inFIFO2>>
    BY <1>5 DEF Two!P2OpenFIFO1, Two!fifoVars
  <2>2. /\ p2'.at = "opening1" /\ p2'.fdr = p2.fdr /\ p2'.fdw = FIFO1
        /\ p2'.buffer = p2.buffer
    BY <1>1, <2>1 DEF TwoTyped
  <2>3. FIFO1 \in 0 .. p1Runs BY <1>1 DEF TwoTyped
  <2>4. p2' \in [at : P2Sites, fdr : 0 .. p1Runs, fdw : 0 .. p1Runs, lines : Nat,
                 line : Line, buffer : Seq(Line)]
    BY <1>1, <2>1, <2>3 DEF TwoTyped, P2Sites
  <2>5. ASSUME ~p2Killed PROVE p2.fdr = 0 /\ Meeting'
    <3>1. P2Places /\ Meeting BY <2>5 DEF TwoIInv, InOrder
    <3>2. p1.at # "off" => p1.fdr # 0 BY <1>1 DEF TwoTyped
    <3>3. p2.fdr = 0 BY <1>1, <1>2 DEF TwoTyped
    <3> QED BY <1>2, <2>1, <2>2, <3>1, <3>2, <3>3 DEF P2Places, Meeting
  <2>6. p2.at \in {"off", "opening1", "openRead", "opening2"}
        /\ p2'.at \in {"opening1", "openRead", "opening2", "fgets"}
        /\ (p2'.at \in {"openRead", "opening1"} <=> p2'.fdr = 0)
    BY <1>1, <1>2, <2>2 DEF TwoTyped
  <2>7. ~p2Killed => /\ p2'.at = "fgets" => p2'.fdw = p2'.fdr
                     /\ p2'.fdr # 0 => FIFO2 = p2'.fdr
                     /\ Meeting'
    BY <2>2, <2>5
  <2>8. UNCHANGED <<FIFO1, FIFO2, inFIFO1, inFIFO2, p1, p1Runs, p2Killed>>
    BY <1>2, <2>1
  <2> QED BY <1>3, <1>5, <2>2, <2>4, <2>6, <2>7, <2>8, P2OpensNext
<1> QED BY <1>4, <1>5

(* The open of FIFO1 returns. *)
LEMMA P2Opened1Step == ASSUME TwoIInv, Two!P2Opened1 PROVE TwoIInv'
<1>1. TwoTyped BY DEF TwoIInv
<1>2. /\ p2.at = "opening1" /\ p2' = [p2 EXCEPT !.at = "openRead"]
      /\ UNCHANGED <<FIFO1, FIFO2, inFIFO1, inFIFO2, p1, p1Runs, p2Runs, p2Killed>>
  BY DEF Two!P2Opened1, Two!P2Only, Two!fifoVars
<1>3. /\ p2'.at = "openRead" /\ p2'.fdr = p2.fdr /\ p2'.fdw = p2.fdw
      /\ p2'.buffer = p2.buffer
  BY <1>1, <1>2 DEF TwoTyped
<1>4. p2' \in [at : P2Sites, fdr : 0 .. p1Runs, fdw : 0 .. p1Runs, lines : Nat,
               line : Line, buffer : Seq(Line)]
  BY <1>1, <1>2 DEF TwoTyped, P2Sites
<1>5. p2.fdr = 0 /\ p2.fdw # 0 BY <1>1, <1>2 DEF TwoTyped
<1>6. ~p2Killed => Meeting' BY <1>2, <1>3 DEF TwoIInv, InOrder, Meeting
<1>7. p2Runs' \in Nat BY <1>1, <1>2 DEF TwoTyped
<1>8. p2.at \in {"off", "opening1", "openRead", "opening2"} BY <1>2
<1>9. /\ p2'.at \in {"opening1", "openRead", "opening2", "fgets"}
      /\ p2'.at \in {"openRead", "opening1"} <=> p2'.fdr = 0
      /\ ~p2Killed => /\ p2'.at = "fgets" => p2'.fdw = p2'.fdr
                      /\ p2'.fdr # 0 => FIFO2 = p2'.fdr
                      /\ Meeting'
      /\ p2'.fdw # 0
  BY <1>3, <1>5, <1>6
<1> QED BY <1>2, <1>3, <1>4, <1>7, <1>8, <1>9, P2OpensNext

(* p2 opens FIFO2, if the name is there. *)
LEMMA P2OpenFIFO2Step == ASSUME TwoIInv, Two!P2OpenFIFO2 PROVE TwoIInv'
<1>1. TwoTyped BY DEF TwoIInv
<1>2. /\ p2.at = "openRead"
      /\ UNCHANGED <<FIFO1, FIFO2, inFIFO1, inFIFO2, p1, p1Runs, p2Runs, p2Killed>>
  BY DEF Two!P2OpenFIFO2, Two!P2Only, Two!fifoVars
<1>3. p2Runs' \in Nat /\ p2Killed' \in BOOLEAN BY <1>1, <1>2 DEF TwoTyped
<1>4. CASE FIFO2 = 0
  <2>1. p2' = Two!P2Off /\ FIFO2' = 0
    BY <1>2, <1>4 DEF Two!P2OpenFIFO2, Two!P2Only
  <2>2. UNCHANGED <<FIFO1, inFIFO1, inFIFO2, p1, p1Runs>> BY <1>2
  <2>3. p2Killed => p2Killed' BY <1>2
  <2> QED BY <1>3, <2>1, <2>2, <2>3, P2Ends
<1>5. CASE FIFO2 # 0
  <2>1. p2' = [p2 EXCEPT !.at = "opening2", !.fdr = FIFO2]
    BY <1>5 DEF Two!P2OpenFIFO2, Two!P2Only
  <2>2. /\ p2'.at = "opening2" /\ p2'.fdr = FIFO2 /\ p2'.fdw = p2.fdw
        /\ p2'.buffer = p2.buffer
    BY <1>1, <2>1 DEF TwoTyped
  <2>3. FIFO2 \in 0 .. p1Runs BY <1>1 DEF TwoTyped
  <2>4. p2' \in [at : P2Sites, fdr : 0 .. p1Runs, fdw : 0 .. p1Runs, lines : Nat,
                 line : Line, buffer : Seq(Line)]
    BY <1>1, <2>1, <2>3 DEF TwoTyped, P2Sites
  <2>5. ~p2Killed => Meeting' BY <1>2, <2>2 DEF TwoIInv, InOrder, Meeting
  <2>6. p2.at \in {"off", "opening1", "openRead", "opening2"} BY <1>2
  <2>7. /\ p2'.at \in {"opening1", "openRead", "opening2", "fgets"}
        /\ p2'.at \in {"openRead", "opening1"} <=> p2'.fdr = 0
        /\ ~p2Killed => /\ p2'.at = "fgets" => p2'.fdw = p2'.fdr
                        /\ p2'.fdr # 0 => FIFO2 = p2'.fdr
                        /\ Meeting'
    BY <1>5, <2>2, <2>5
  <2>8. p2'.fdw # 0 BY <1>1, <1>2, <2>2 DEF TwoTyped
  <2> QED BY <1>2, <1>3, <2>2, <2>4, <2>6, <2>7, <2>8, P2OpensNext
<1> QED BY <1>4, <1>5

(* The open of FIFO2 returns: both have the FIFOs of the same p1. *)
LEMMA P2Opened2Step == ASSUME TwoIInv, Two!P2Opened2 PROVE TwoIInv'
<1>1. TwoTyped BY DEF TwoIInv
<1>2. /\ p2.at = "opening2" /\ p1.fdw = p2.fdr /\ p2' = [p2 EXCEPT !.at = "fgets"]
      /\ UNCHANGED <<FIFO1, FIFO2, inFIFO1, inFIFO2, p1, p1Runs, p2Runs, p2Killed>>
  BY DEF Two!P2Opened2, Two!P2Only, Two!fifoVars
<1>3. /\ p2'.at = "fgets" /\ p2'.fdr = p2.fdr /\ p2'.fdw = p2.fdw
      /\ p2'.buffer = p2.buffer
  BY <1>1, <1>2 DEF TwoTyped
<1>4. p2' \in [at : P2Sites, fdr : 0 .. p1Runs, fdw : 0 .. p1Runs, lines : Nat,
               line : Line, buffer : Seq(Line)]
  BY <1>1, <1>2 DEF TwoTyped, P2Sites
<1>5. p2.fdr # 0 /\ p2.fdw # 0 BY <1>1, <1>2 DEF TwoTyped
<1>6. ~p2Killed => Meeting' /\ p2.fdw = p2.fdr /\ FIFO2 = p2.fdr
  BY <1>2, <1>3, <1>5 DEF TwoIInv, InOrder, P1Places, P2Places, Meeting
<1>7. p2Runs' \in Nat BY <1>1, <1>2 DEF TwoTyped
<1>8. p2.at \in {"off", "opening1", "openRead", "opening2"} BY <1>2
<1>9. /\ p2'.at \in {"opening1", "openRead", "opening2", "fgets"}
      /\ p2'.at \in {"openRead", "opening1"} <=> p2'.fdr = 0
      /\ ~p2Killed => /\ p2'.at = "fgets" => p2'.fdw = p2'.fdr
                      /\ p2'.fdr # 0 => FIFO2 = p2'.fdr
                      /\ Meeting'
      /\ p2'.fdw # 0
  BY <1>3, <1>5, <1>6
<1> QED BY <1>2, <1>3, <1>4, <1>7, <1>8, <1>9, P2OpensNext

(* p2 gets a line. *)
LEMMA FgetsStep == ASSUME TwoIInv, Two!fgets PROVE TwoIInv'
<1>1. TwoTyped BY DEF TwoIInv
<1>2. PICK line \in {<<0, 0>>, <<p2Runs, p2.lines + 1>>} :
        Two!P2Only("fgets", [p2 EXCEPT !.at = "write", !.line = line,
                                       !.lines = @ + 1, !.buffer = <<>>])
  BY DEF Two!fgets, Two!Empty
<1>3. /\ p2.at = "fgets"
      /\ p2' = [p2 EXCEPT !.at = "write", !.line = line,
                          !.lines = p2.lines + 1, !.buffer = <<>>]
      /\ UNCHANGED <<FIFO1, FIFO2, inFIFO1, inFIFO2, p1, p1Runs, p2Runs, p2Killed>>
  BY <1>2 DEF Two!fgets, Two!P2Only, Two!fifoVars
<1>4. /\ p2'.at = "write" /\ p2'.fdr = p2.fdr /\ p2'.fdw = p2.fdw
      /\ p2'.buffer = <<>>
  BY <1>1, <1>3 DEF TwoTyped
<1>5. p2.lines \in Nat /\ p2Runs \in Nat BY <1>1 DEF TwoTyped
<1>6. line \in Line /\ p2.lines + 1 \in Nat BY <1>2, <1>5 DEF Line
<1>7. p2' \in [at : P2Sites, fdr : 0 .. p1Runs, fdw : 0 .. p1Runs, lines : Nat,
               line : Line, buffer : Seq(Line)]
  <2>1. <<>> \in Seq(Line) OBVIOUS
  <2> QED BY <1>1, <1>3, <1>6, <2>1 DEF TwoTyped, P2Sites
<1>8. TwoTyped' BY <1>1, <1>3, <1>4, <1>7 DEF TwoTyped
<1>9. SUFFICES ASSUME ~p2Killed PROVE InOrder' BY <1>3, <1>8 DEF TwoIInv
<1>10. InOrder BY <1>9 DEF TwoIInv
<1>11. P1Places' /\ P2Places' /\ Meeting' /\ Flight' /\ Echoed'
  BY <1>3, <1>4, <1>10 DEF InOrder, P1Places, P2Places, Meeting, Flight, Echoed
<1>12. Clean'
  <2>1. ASSUME NEW r \in Two!P1Run, ToMake(r)' \/ InUse(r)' PROVE ToMake(r) \/ InUse(r)
    BY <1>3, <2>1 DEF ToMake, InUse
  <2>2. ASSUME NEW r \in Two!P1Run, Nothing(r) PROVE Nothing(r)'
    BY <1>3, <2>2 DEF Nothing
  <2> QED BY <1>10, <2>1, <2>2 DEF InOrder, Clean
<1> QED BY <1>11, <1>12 DEF InOrder

(* p2 writes its line, or is killed by the write. *)
LEMMA P2WriteStep == ASSUME TwoIInv, Two!P2Write PROVE TwoIInv'
<1>1. TwoTyped BY DEF TwoIInv
<1>2. p2.at = "write" /\ UNCHANGED <<FIFO1, FIFO2, inFIFO2, p1, p1Runs, p2Runs>>
  BY DEF Two!P2Write, Two!P2Only, Two!fifoVars
<1>3. ASSUME p2' = Two!P2Off, p2Killed', p2Killed' = TRUE, UNCHANGED inFIFO1
      PROVE  TwoIInv'
  <2>1. p2Killed' \in BOOLEAN BY <1>3
  <2>2. p2Runs' \in Nat BY <1>1, <1>2 DEF TwoTyped
  <2> QED BY <1>2, <1>3, <2>1, <2>2, P2Ends
<1>4. ASSUME p2' = [p2 EXCEPT !.at = "read"], UNCHANGED p2Killed,
             inFIFO1' = IF p2.line = <<0, 0>> THEN inFIFO1
                        ELSE [inFIFO1 EXCEPT ![p2.fdw] = Append(@, p2.line)]
      PROVE  TwoIInv'
  <2>1. PICK k, l : k = p2.fdw /\ l = p2.line OBVIOUS
  <2>2. /\ p2'.at = "read" /\ p2'.fdr = p2.fdr /\ p2'.fdw = k /\ p2'.line = l
        /\ p2'.buffer = p2.buffer
    BY <1>1, <1>4, <2>1 DEF TwoTyped
  <2>3. k \in Two!P1Run
    <3>1. k # 0 /\ k \in 0 .. p1Runs /\ p1Runs \in 0 .. MaxP1
      BY <1>1, <1>2, <2>1 DEF TwoTyped
    <3> QED BY <3>1, FifoAssumption DEF Two!P1Run
  <2>4. l \in Line /\ inFIFO1 \in [Two!P1Run -> Seq(Line)] /\ inFIFO1[k] \in Seq(Line)
    BY <1>1, <2>1, <2>3 DEF TwoTyped
  <2>5. PICK new : new = IF l = <<0, 0>> THEN inFIFO1[k] ELSE Append(inFIFO1[k], l)
    OBVIOUS
  <2>6. new \in Seq(Line) /\ (inFIFO1[k] = <<>> => new \in {<<>>, <<l>>})
    <3>1. l \in Line /\ inFIFO1[k] \in Seq(Line) BY <2>4
    <3>2. Append(inFIFO1[k], l) \in Seq(Line) BY <3>1
    <3>3. Append(<<>>, l) = <<l>> BY <3>1
    <3> QED BY <2>5, <3>1, <3>2, <3>3
  <2>7. inFIFO1' \in [Two!P1Run -> Seq(Line)]
        /\ \A r \in Two!P1Run : inFIFO1'[r] = IF r = k THEN new ELSE inFIFO1[r]
    <3>1. CASE l = <<0, 0>>
      <4>1. inFIFO1' = inFIFO1 /\ new = inFIFO1[k] BY <1>4, <2>1, <2>5, <3>1
      <4> QED BY <2>4, <4>1
    <3>2. CASE l # <<0, 0>>
      <4>1. inFIFO1' = [inFIFO1 EXCEPT ![k] = new] BY <1>4, <2>1, <2>5, <3>2
      <4> QED BY <2>4, <2>6, <4>1
    <3> QED BY <3>1, <3>2
  <2>8. p2' \in [at : P2Sites, fdr : 0 .. p1Runs, fdw : 0 .. p1Runs, lines : Nat,
                 line : Line, buffer : Seq(Line)]
    BY <1>1, <1>4 DEF TwoTyped, P2Sites
  <2>9. TwoTyped' BY <1>1, <1>2, <1>4, <2>1, <2>2, <2>7, <2>8 DEF TwoTyped
  <2>10. SUFFICES ASSUME ~p2Killed PROVE InOrder' BY <1>4, <2>9 DEF TwoIInv
  <2>11. InOrder BY <2>10 DEF TwoIInv
  <2>12. p2.fdr = k /\ FIFO2 = k
    BY <1>1, <1>2, <2>1, <2>11 DEF InOrder, P2Places, TwoTyped
  <2>13. P1Places' /\ P2Places' /\ Meeting' /\ Echoed'
    BY <1>2, <2>1, <2>2, <2>11, <2>12
    DEF InOrder, P1Places, P2Places, Meeting, Echoed
  <2>14. Clean'
    <3>1. ASSUME NEW r \in Two!P1Run, ToMake(r)' \/ InUse(r)' PROVE ToMake(r) /\ r # k
      <4>1. ToMake(r) BY <1>2, <2>2, <3>1 DEF ToMake, InUse
      <4>2. FIFO2 <= p1Runs /\ (p1.at = "mkfifo" => FIFO2 # p1.fdr)
        BY <1>1, <2>11 DEF TwoTyped, InOrder, P1Places
      <4> QED BY <1>1, <2>12, <4>1, <4>2 DEF ToMake, TwoTyped, Two!P1Run
    <3>2. ASSUME NEW r \in Two!P1Run, r # k, Nothing(r) PROVE Nothing(r)'
      BY <1>2, <2>7, <3>2 DEF Nothing
    <3> QED BY <2>11, <3>1, <3>2 DEF InOrder, Clean
  <2>15. Flight'
    <3>1. Nothing(k) BY <1>2, <2>3, <2>11, <2>12 DEF InOrder, Clean, InUse
    <3>2. inFIFO1'[k] \in {<<>>, <<l>>} BY <2>3, <2>6, <2>7, <3>1 DEF Nothing
    <3>3. p2'.fdr = k BY <2>2, <2>12
    <3> QED BY <1>2, <2>2, <3>1, <3>2, <3>3 DEF Flight, Nothing, OnlyOne
  <2> QED BY <2>13, <2>14, <2>15 DEF InOrder
<1>5. CASE p2.line = <<0, 0>> \/ Two!P1Reads(p2.fdw)
  <2>1. /\ p2' = [p2 EXCEPT !.at = "read"] /\ UNCHANGED p2Killed
        /\ inFIFO1' = IF p2.line = <<0, 0>> THEN inFIFO1
                      ELSE [inFIFO1 EXCEPT ![p2.fdw] = Append(@, p2.line)]
    BY <1>5 DEF Two!P2Write, Two!P2Only, Two!Empty
  <2> QED BY <1>4, <2>1
<1>6. CASE ~(p2.line = <<0, 0>> \/ Two!P1Reads(p2.fdw))
  <2>1. p2' = Two!P2Off /\ p2Killed' = TRUE /\ p2Killed' /\ UNCHANGED inFIFO1
    BY <1>6 DEF Two!P2Write, Two!P2Only, Two!Empty, Two!fifoVars
  <2> QED BY <1>3, <2>1
<1> QED BY <1>5, <1>6

(* p2 takes what waits in its FIFO2: the reply to its line. *)
LEMMA P2ReadStep == ASSUME TwoIInv, Two!P2Read PROVE TwoIInv'
<1>1. TwoTyped BY DEF TwoIInv
<1>2. PICK k, l : k = p2.fdr /\ l = p2.line OBVIOUS
<1>3. /\ p2.at = "read" /\ inFIFO2[k] # <<>>
      /\ p2' = [p2 EXCEPT !.at = "fgets", !.buffer = inFIFO2[k]]
      /\ inFIFO2' = [inFIFO2 EXCEPT ![k] = <<>>]
      /\ UNCHANGED <<FIFO1, FIFO2, inFIFO1, p1, p1Runs, p2Runs, p2Killed>>
  BY <1>2 DEF Two!P2Read, Two!P2Only
<1>4. /\ p2'.at = "fgets" /\ p2'.fdr = k /\ p2'.fdw = p2.fdw /\ p2'.line = l
      /\ p2'.buffer = inFIFO2[k]
  BY <1>1, <1>2, <1>3 DEF TwoTyped
<1>5. k \in Two!P1Run
  <2>1. k # 0 /\ k \in 0 .. p1Runs /\ p1Runs \in 0 .. MaxP1
    BY <1>1, <1>2, <1>3 DEF TwoTyped
  <2> QED BY <2>1, FifoAssumption DEF Two!P1Run
<1>6. inFIFO2[k] \in Seq(Line) /\ <<>> \in Seq(Line) BY <1>1, <1>5 DEF TwoTyped
<1>7. \A r \in Two!P1Run : inFIFO2'[r] = IF r = k THEN <<>> ELSE inFIFO2[r]
  BY <1>1, <1>3 DEF TwoTyped
<1>8. TwoTyped'
  <2>1. inFIFO2' \in [Two!P1Run -> Seq(Line)] BY <1>1, <1>3, <1>6 DEF TwoTyped
  <2>2. p2' \in [at : P2Sites, fdr : 0 .. p1Runs, fdw : 0 .. p1Runs, lines : Nat,
                 line : Line, buffer : Seq(Line)]
    BY <1>1, <1>3, <1>6 DEF TwoTyped, P2Sites
  <2> QED BY <1>1, <1>2, <1>3, <1>4, <2>1, <2>2 DEF TwoTyped
<1>9. SUFFICES ASSUME ~p2Killed PROVE InOrder' BY <1>3, <1>8 DEF TwoIInv
<1>10. InOrder BY <1>9 DEF TwoIInv
<1>11. OnlyOne(k, <<l>>) BY <1>2, <1>3, <1>10 DEF InOrder, Flight
<1>12. inFIFO2[k] = <<l>> /\ inFIFO1[k] = <<>> /\ (p1.fdr = k => p1.buffer = <<>>)
  BY <1>3, <1>11 DEF OnlyOne
<1>13. FIFO2 = k BY <1>1, <1>2, <1>3, <1>10 DEF InOrder, P2Places, TwoTyped
<1>14. P1Places' /\ P2Places' /\ Meeting' /\ Flight' /\ Echoed'
  BY <1>2, <1>3, <1>4, <1>10, <1>12, <1>13
  DEF InOrder, P1Places, P2Places, Meeting, Flight, Echoed
<1>15. Clean'
  <2>1. ASSUME NEW r \in Two!P1Run, ToMake(r)' \/ InUse(r)' PROVE ToMake(r) \/ r = k
    BY <1>3, <1>13, <2>1 DEF ToMake, InUse
  <2>2. ASSUME NEW r \in Two!P1Run, ToMake(r) PROVE Nothing(r)
    BY <1>10, <2>2 DEF InOrder, Clean
  <2>3. ASSUME NEW r \in Two!P1Run, Nothing(r) \/ r = k PROVE Nothing(r)'
    BY <1>3, <1>7, <1>12, <2>3 DEF Nothing
  <2> QED BY <2>1, <2>2, <2>3 DEF Clean
<1> QED BY <1>14, <1>15 DEF InOrder

(* p2 is stopped or killed. *)
LEMMA P2DiesStep == ASSUME TwoIInv, Two!P2Dies PROVE TwoIInv'
<1>1. TwoTyped BY DEF TwoIInv
<1>2. /\ p2' = Two!P2Off
      /\ UNCHANGED <<FIFO1, inFIFO1, inFIFO2, p1, p1Runs>> /\ p2Runs' = p2Runs
      /\ \/ FIFO2' = 0 /\ p2Killed' = p2Killed
         \/ FIFO2' = FIFO2 /\ p2Killed' = TRUE
  BY DEF Two!P2Dies, Two!P2Exits, Two!fifoVars
<1>3. p2Runs' \in Nat /\ p2Killed \in BOOLEAN BY <1>1, <1>2 DEF TwoTyped
<1>4. CASE FIFO2' = 0 /\ p2Killed' = p2Killed
  <2>1. p2Killed' \in BOOLEAN /\ (p2Killed => p2Killed') BY <1>3, <1>4
  <2> QED BY <1>2, <1>3, <1>4, <2>1, P2Ends
<1>5. CASE FIFO2' = FIFO2 /\ p2Killed' = TRUE
  <2>1. p2Killed' /\ p2Killed' \in BOOLEAN BY <1>5
  <2> QED BY <1>2, <1>3, <1>5, <2>1, P2Ends
<1> QED BY <1>2, <1>4, <1>5

(* The invariant is inductive, and says what p2 prints. *)
LEMMA TwoPrintsOwn == Two!TwoSpec => []Two!PrintsOwnLine
<1>1. Two!TwoInit => TwoIInv BY TwoStarts
<1>2. TwoIInv /\ [Two!TwoNext]_Two!twoVars => TwoIInv'
  <2> SUFFICES ASSUME TwoIInv, [Two!TwoNext]_Two!twoVars PROVE TwoIInv' OBVIOUS
  <2>1. CASE UNCHANGED Two!twoVars
    <3>1. UNCHANGED <<FIFO1, FIFO2, inFIFO1, inFIFO2, p1, p2, p1Runs, p2Runs, p2Killed>>
      BY <2>1 DEF Two!twoVars, Two!fifoVars
    <3>2. TwoTyped' BY <3>1 DEF TwoIInv, TwoTyped
    <3>3. SUFFICES ASSUME ~p2Killed PROVE InOrder' BY <3>1, <3>2 DEF TwoIInv
    <3>4. P1Places' /\ P2Places' /\ Meeting' /\ Flight' /\ Echoed'
      BY <3>1, <3>3
      DEF TwoIInv, InOrder, P1Places, P2Places, Meeting, Flight, OnlyOne, Echoed
    <3>5. Clean'
      BY <3>1, <3>3 DEF TwoIInv, InOrder, Clean, ToMake, InUse, Nothing
    <3> QED BY <3>4, <3>5 DEF InOrder
  <2>2. CASE Two!TwoNext
    BY <2>2, MakeFIFO1Step, MakeFIFO2Step, P1OpenFIFO1Step, P1OpenFIFO2Step,
       P1OpenedStep, P1ReadStep, P1WriteStep, P1DiesStep, P2OpenFIFO1Step,
       P2Opened1Step, P2OpenFIFO2Step, P2Opened2Step, FgetsStep, P2WriteStep,
       P2ReadStep, P2DiesStep
    DEF Two!TwoNext, Two!P1Steps, Two!P2Steps
  <2> QED BY <2>1, <2>2
<1>3. TwoIInv => Two!PrintsOwnLine
  BY DEF TwoIInv, InOrder, Echoed, Two!PrintsOwnLine
<1> QED BY <1>1, <1>2, <1>3, PTL DEF Two!TwoSpec
-----------------------------------------------------------------------------
(* MqServer: where the request of a client and its reply can be.           *)

Answer == Mq!Request \cup {Mq!None, Mq!Torn}
MqName(c) == IF mqProgram = "mqserver1" THEN "/mqclient" ELSE c

MqTyped ==
  /\ mqProgram \in {"mqserver1", "mqserver2", "mqserver_multithread"}
  /\ generation \in Nat /\ serverQueue \in Seq(Mq!Request)
  /\ msgs \in Mq!Request \cup {Mq!None}
  /\ workers \in [Mq!Runs -> [at : {"none", "open", "average", "send"},
                              mqdc : {0} \cup Mq!Runs, half : Answer]]
  /\ \A r \in Mq!Runs :
       /\ workers[r].at \in {"average", "send"} => workers[r].mqdc # 0
       /\ workers[r].at # "none" => msgs \in Mq!Request
  /\ clientQueue \in [Mq!Names -> {0} \cup Mq!Runs]
  /\ replies \in [Mq!Runs -> Seq(Answer)]
  /\ client \in [Clients -> [at : {"off", "connect", "send", "receive", "exit"},
                             run : {0} \cup Mq!Runs, mqdc : {0} \cup Mq!Runs,
                             mqds : Nat, got : Answer]]
  /\ \A c \in Clients : client[c].at # "off" => client[c].run # 0 /\ client[c].mqdc # 0
  /\ clientRuns \in 0 .. MaxClientRuns /\ together \in BOOLEAN

Up(c)      == client[c].at # "off"
MyQueue(c) == clientQueue[MqName(c)]
Sent(c)    == [id |-> c, run |-> client[c].run]

(* The conditions of PrintsOwnReply; in the servers without threads one request
   is answered after the other whatever the clients do. *)
Fair(c) == IF mqProgram = "mqserver2" THEN c \notin killed
                                      ELSE killed = {} /\ ~together
OneByOne == mqProgram # "mqserver_multithread" \/ (killed = {} /\ ~together)

(* The request of c waits, or the server works on it. *)
Waiting(c) == \E i \in 1 .. Len(serverQueue) : serverQueue[i].id = c
Served(c)  == Mq!Busy /\ msgs.id = c

(* c has asked nothing yet, and nobody else with the same queue has. *)
Idle(c) == \/ client[c].at \in {"connect", "send", "exit"}
           \/ /\ client[c].at = "off"
              /\ \A d \in Clients : Up(d) => MqName(d) # MqName(c)

OneUp == ~together => \A c, d \in Clients : Up(c) /\ Up(d) => c = d

(* Each name means a queue of its own, and those to come are empty. *)
Queues == /\ \A n \in Mq!Names : clientQueue[n] <= clientRuns
          /\ \A n, m \in Mq!Names :
               clientQueue[n] = clientQueue[m] /\ clientQueue[n] # 0 => n = m
          /\ \A r \in Mq!Runs : /\ r > clientRuns => replies[r] = <<>>
                                /\ workers[r].mqdc <= clientRuns

(* The one request worked on is in msgs, and its reply goes to no other name's
   queue. *)
OneServed ==
  OneByOne =>
    \A r \in Mq!Runs : workers[r].at # "none" =>
      /\ r = msgs.run
      /\ workers[r].at \in {"average", "send"} =>
           /\ workers[r].half = msgs
           /\ \A n \in Mq!Names : n # MqName(msgs.id) => clientQueue[n] # workers[r].mqdc
           /\ Fair(msgs.id) => workers[r].mqdc = MyQueue(msgs.id)

Connected(c) == Up(c) => MyQueue(c) = client[c].mqdc /\ MyQueue(c) # 0
Asking(c)    == Waiting(c) \/ Served(c)
                  => client[c].at = "receive" /\ replies[MyQueue(c)] = <<>>
Emptied(c)   == Idle(c) => MyQueue(c) = 0 \/ replies[MyQueue(c)] = <<>>
Answered(c)  == /\ client[c].at = "receive" => replies[MyQueue(c)] \in {<<>>, <<Sent(c)>>}
                /\ client[c].at = "exit" => client[c].got = Sent(c)
OneRequest(c) ==
  /\ \A i \in 1 .. Len(serverQueue) : serverQueue[i].id = c => serverQueue[i] = Sent(c)
  /\ \A i, j \in 1 .. Len(serverQueue) :
       serverQueue[i].id = c /\ serverQueue[j].id = c => i = j
  /\ Served(c) => msgs = Sent(c) /\ ~Waiting(c)

Orderly(c) == /\ Connected(c) /\ Asking(c) /\ Emptied(c) /\ Answered(c)
              /\ OneRequest(c)

MqIInv == /\ MqTyped /\ OneUp /\ Queues /\ OneServed
          /\ \A c \in Clients : Fair(c) => Orderly(c)

(* What the three programs differ in. *)
LEMMA ServerPrograms ==
  ASSUME MqTyped
  PROVE  /\ Mq!mq.threads <=> mqProgram = "mqserver_multithread"
         /\ Mq!mq.client.cleansUp <=> mqProgram # "mqserver1"
         /\ \A c : Mq!CLIENT_MQ(c) = MqName(c)
<1>1. mqProgram \in {"mqserver1", "mqserver2", "mqserver_multithread"} BY DEF MqTyped
<1>2. CASE mqProgram = "mqserver1"
  <2>1. Mq!mq = Mq!Mqserver1 BY <1>2, Zenon DEF Mq!mq
  <2> QED BY <1>2, <2>1 DEF Mq!Mqserver1, Mq!Mqclient1, Mq!CLIENT_MQ, MqName
<1>3. CASE mqProgram = "mqserver2"
  <2>1. Mq!mq = Mq!Mqserver2 BY <1>3, Zenon DEF Mq!mq
  <2> QED BY <1>3, <2>1 DEF Mq!Mqserver2, Mq!Mqclient2, Mq!CLIENT_MQ, MqName
<1>4. CASE mqProgram = "mqserver_multithread"
  <2>1. Mq!mq = Mq!MqserverMultithread BY <1>4, Zenon DEF Mq!mq
  <2> QED BY <1>4, <2>1 DEF Mq!MqserverMultithread, Mq!Mqclient2, Mq!CLIENT_MQ, MqName
<1> QED BY <1>1, <1>2, <1>3, <1>4

(* Only where clients share the queue do two of them share a name. *)
LEMMA OwnNames ==
  ASSUME MqTyped, NEW c \in Clients, NEW d \in Clients
  PROVE  /\ MqName(c) \in Mq!Names
         /\ MqName(c) = MqName(d) /\ c # d
              => mqProgram = "mqserver1" /\ (Fair(c) => Fair(d) /\ ~together)
BY DEF MqName, Mq!Names, Fair

(* At first there is nothing. *)
LEMMA MqStarts == Mq!MqInit => MqIInv
<1> SUFFICES ASSUME Mq!MqInit PROVE MqIInv OBVIOUS
<1>1. /\ mqProgram \in {"mqserver1", "mqserver2", "mqserver_multithread"}
      /\ generation = 1 /\ serverQueue = <<>> /\ msgs = Mq!None
      /\ workers = [r \in Mq!Runs |-> [at |-> "none", mqdc |-> 0, half |-> Mq!None]]
      /\ clientQueue = [n \in Mq!Names |-> 0] /\ replies = [r \in Mq!Runs |-> <<>>]
      /\ client = [c \in Clients |-> [at |-> "off", run |-> 0, mqdc |-> 0, mqds |-> 0,
                                      got |-> Mq!None]]
      /\ clientRuns = 0 /\ together = FALSE
  BY DEF Mq!MqInit, Mq!NoWorker, Mq!OffClient
<1>2. /\ \A r \in Mq!Runs : workers[r].at = "none" /\ replies[r] = <<>>
      /\ \A c \in Clients : client[c].at = "off"
      /\ \A n \in Mq!Names : clientQueue[n] = 0
  BY <1>1
<1>3. MqTyped
  <2>1. Mq!None \in Answer BY DEF Answer
  <2>2. workers \in [Mq!Runs -> [at : {"none", "open", "average", "send"},
                                 mqdc : {0} \cup Mq!Runs, half : Answer]]
    BY <1>1, <2>1
  <2>3. client \in [Clients -> [at : {"off", "connect", "send", "receive", "exit"},
                                run : {0} \cup Mq!Runs, mqdc : {0} \cup Mq!Runs,
                                mqds : Nat, got : Answer]]
    BY <1>1, <2>1
  <2>4. clientQueue \in [Mq!Names -> {0} \cup Mq!Runs] /\ replies \in [Mq!Runs -> Seq(Answer)]
    BY <1>1
  <2>5. clientRuns \in 0 .. MaxClientRuns /\ serverQueue \in Seq(Mq!Request)
    BY <1>1, ClientAssumption
  <2> QED BY <1>1, <1>2, <2>2, <2>3, <2>4, <2>5 DEF MqTyped
<1>4. OneUp /\ OneServed BY <1>2 DEF OneUp, Up, OneServed
<1>5. Queues BY <1>1, <1>2 DEF Queues
<1>6. ASSUME NEW c \in Clients PROVE Orderly(c)
  <2>1. MyQueue(c) = 0 BY <1>2, <1>3, OwnNames DEF MyQueue
  <2>2. ~Waiting(c) /\ ~Served(c) BY <1>1, <1>2 DEF Waiting, Served, Mq!Busy
  <2>3. ~Up(c) /\ client[c].at = "off" BY <1>2 DEF Up
  <2>4. Len(serverQueue) = 0 BY <1>1
  <2> QED BY <2>1, <2>2, <2>3, <2>4
          DEF Orderly, Connected, Asking, Emptied, Answered, OneRequest
<1> QED BY <1>3, <1>4, <1>5, <1>6 DEF MqIInv

(* A client none of whose things change stays in order. *)
LEMMA OrderlyKept ==
  ASSUME NEW c \in Clients, Orderly(c), client'[c] = client[c],
         MyQueue(c)' = MyQueue(c),
         MyQueue(c) # 0 => replies'[MyQueue(c)] = replies[MyQueue(c)],
         UNCHANGED <<serverQueue, msgs>>, Mq!Busy' <=> Mq!Busy,
         Idle(c)' => Idle(c)
  PROVE  Orderly(c)'
<1>1. Sent(c)' = Sent(c) /\ (Up(c)' <=> Up(c)) BY DEF Sent, Up
<1>2. (Served(c)' <=> Served(c)) /\ (Waiting(c)' <=> Waiting(c)) BY DEF Served, Waiting
<1>3. Connected(c)' BY <1>1 DEF Orderly, Connected
<1>4. Asking(c)' /\ Answered(c)'
  BY <1>1, <1>2 DEF Orderly, Asking, Answered, Connected, Up
<1>5. Emptied(c)' BY DEF Orderly, Emptied
<1>6. OneRequest(c)' BY <1>1, <1>2 DEF Orderly, OneRequest
<1> QED BY <1>3, <1>4, <1>5, <1>6 DEF Orderly

(* A step of the server that only concerns its name, or nothing at all. *)
LEMMA MqQuiet ==
  ASSUME MqIInv, generation' \in Nat,
         UNCHANGED <<mqProgram, serverQueue, msgs, workers, clientQueue, replies>>,
         UNCHANGED <<client, clientRuns, killed, together>>
  PROVE  MqIInv'
<1>1. MqTyped BY DEF MqIInv
<1>2. MqTyped' BY <1>1 DEF MqTyped
<1>3. /\ \A c \in Clients : (Up(c)' <=> Up(c)) /\ (Idle(c)' <=> Idle(c))
      /\ \A c : MqName(c)' = MqName(c) /\ MyQueue(c)' = MyQueue(c) /\ (Fair(c)' <=> Fair(c))
  BY DEF Up, Idle, MqName, MyQueue, Fair
<1>4. (OneByOne' <=> OneByOne) /\ (Mq!Busy' <=> Mq!Busy) BY DEF OneByOne, Mq!Busy
<1>5. OneUp' BY <1>3 DEF MqIInv, OneUp
<1>6. Queues' BY DEF MqIInv, Queues
<1>7. OneServed' BY <1>3, <1>4 DEF MqIInv, OneServed
<1>8. ASSUME NEW c \in Clients, Fair(c)' PROVE Orderly(c)'
  <2>1. Orderly(c) BY <1>3, <1>8 DEF MqIInv
  <2>2. MyQueue(c)' = MyQueue(c) /\ (Idle(c)' => Idle(c)) BY <1>3
  <2> QED BY <1>4, <2>1, <2>2, OrderlyKept
<1> QED BY <1>2, <1>5, <1>6, <1>7, <1>8 DEF MqIInv

(* The end of the server: what it works on is lost, or all requests are. *)
LEMMA MqServerEnds ==
  ASSUME MqIInv, generation' \in Nat, serverQueue' \in {serverQueue, <<>>},
         msgs' = Mq!None, workers' = [r \in Mq!Runs |-> Mq!NoWorker],
         UNCHANGED <<mqProgram, clientQueue, replies, client, clientRuns>>,
         UNCHANGED <<killed, together>>
  PROVE  MqIInv'
<1>1. MqTyped BY DEF MqIInv
<1>2. \A r \in Mq!Runs : workers'[r].at = "none" /\ workers'[r].mqdc = 0
  BY DEF Mq!NoWorker
<1>3. MqTyped'
  <2>1. Mq!None \in Answer BY DEF Answer
  <2>2. workers' \in [Mq!Runs -> [at : {"none", "open", "average", "send"},
                                  mqdc : {0} \cup Mq!Runs, half : Answer]]
    BY <2>1 DEF Mq!NoWorker
  <2>3. serverQueue' \in Seq(Mq!Request)
    <3>1. <<>> \in Seq(Mq!Request) OBVIOUS
    <3> QED BY <1>1, <3>1 DEF MqTyped
  <2> QED BY <1>1, <1>2, <2>2, <2>3 DEF MqTyped
<1>4. /\ \A c \in Clients : (Up(c)' <=> Up(c)) /\ (Idle(c)' <=> Idle(c))
      /\ \A c : MqName(c)' = MqName(c) /\ MyQueue(c)' = MyQueue(c) /\ (Fair(c)' <=> Fair(c))
  BY DEF Up, Idle, MqName, MyQueue, Fair
<1>5. OneUp' BY <1>4 DEF MqIInv, OneUp
<1>6. Queues' BY <1>1, <1>2 DEF MqIInv, Queues, MqTyped
<1>7. OneServed' BY <1>2 DEF OneServed
<1>8. ASSUME NEW c \in Clients, Fair(c)' PROVE Orderly(c)'
  <2>1. Orderly(c) BY <1>4, <1>8 DEF MqIInv
  <2>2. ~Served(c)' BY <1>2 DEF Served, Mq!Busy
  <2>3. Sent(c)' = Sent(c) /\ (Up(c)' <=> Up(c)) BY DEF Sent, Up
  <2>4. \/ serverQueue' = serverQueue
        \/ serverQueue' = <<>> /\ Len(serverQueue') = 0
    OBVIOUS
  <2>5. Waiting(c)' => Waiting(c) BY <2>4 DEF Waiting
  <2>6. Connected(c)' /\ Emptied(c)' BY <1>4, <2>1, <2>3 DEF Orderly, Connected, Emptied
  <2>7. Asking(c)' /\ Answered(c)'
    BY <1>4, <2>1, <2>2, <2>3, <2>5 DEF Orderly, Asking, Answered
  <2>8. OneRequest(c)' BY <2>1, <2>2, <2>3, <2>4 DEF Orderly, OneRequest
  <2> QED BY <2>6, <2>7, <2>8 DEF Orderly
<1> QED BY <1>3, <1>5, <1>6, <1>7, <1>8 DEF MqIInv

(* Starting, stopping and killing the server. *)
LEMMA MqServerSteps ==
  ASSUME MqIInv, Mq!ServerStarts \/ Mq!Interrupted \/ Mq!ServerKilled PROVE MqIInv'
<1>1. generation \in Nat BY DEF MqIInv, MqTyped
<1>2. CASE Mq!ServerStarts
  <2>1. /\ UNCHANGED <<mqProgram, serverQueue, msgs, workers, clientQueue, replies>>
        /\ UNCHANGED <<client, clientRuns, killed, together>> /\ generation' = generation
    BY <1>2 DEF Mq!ServerStarts, Mq!clientVars, Mq!queueVars, Mq!ghostVars
  <2> QED BY <1>1, <2>1, MqQuiet
<1>3. CASE Mq!Interrupted \/ Mq!ServerKilled
  <2>1. /\ UNCHANGED <<mqProgram, clientQueue, replies, client, clientRuns>>
        /\ UNCHANGED <<killed, together>> /\ generation' \in {generation, generation + 1}
        /\ serverQueue' \in {serverQueue, <<>>}
        /\ msgs' = Mq!None /\ workers' = [r \in Mq!Runs |-> Mq!NoWorker]
    BY <1>3 DEF Mq!Interrupted, Mq!ServerExits, Mq!ServerKilled, Mq!clientVars,
                Mq!queueVars
  <2>2. generation' \in Nat BY <1>1, <2>1
  <2> QED BY <2>1, <2>2, MqServerEnds
<1> QED BY <1>2, <1>3

(* The server takes a request. *)
LEMMA MqReceiveStep == ASSUME MqIInv, Mq!Receive PROVE MqIInv'
<1>1. MqTyped BY DEF MqIInv
<1>2. PICK h : h = Head(serverQueue) OBVIOUS
<1>3. /\ serverQueue # <<>> /\ msgs' = h /\ serverQueue' = Tail(serverQueue)
      /\ workers' = [workers EXCEPT ![h.run].at = "open"]
      /\ UNCHANGED <<mqProgram, generation, clientQueue, replies, client, clientRuns>>
      /\ UNCHANGED <<killed, together>>
      /\ mqProgram = "mqserver_multithread" \/ ~Mq!Busy
  BY <1>1, <1>2, ServerPrograms
  DEF Mq!Receive, Mq!clientVars, Mq!queueVars, Mq!ghostVars
<1>4. /\ serverQueue' \in Seq(Mq!Request) /\ Len(serverQueue) \in Nat
      /\ Len(serverQueue') = Len(serverQueue) - 1 /\ 1 \in 1 .. Len(serverQueue)
      /\ serverQueue[1] = h /\ h \in Mq!Request
      /\ \A i \in 1 .. Len(serverQueue') : /\ i + 1 \in 1 .. Len(serverQueue)
                                           /\ serverQueue'[i] = serverQueue[i + 1]
  <2> DEFINE s == serverQueue
  <2>1. s \in Seq(Mq!Request) /\ s # <<>> BY <1>1, <1>3 DEF MqTyped
  <2>2. /\ Tail(s) \in Seq(Mq!Request) /\ Len(s) \in Nat /\ Len(Tail(s)) = Len(s) - 1
        /\ 1 \in 1 .. Len(s) /\ s[1] = Head(s) /\ Head(s) \in Mq!Request
        /\ \A i \in 1 .. Len(s) - 1 : i + 1 \in 1 .. Len(s) /\ Tail(s)[i] = s[i + 1]
    BY <2>1
  <2>3. serverQueue' = Tail(s) BY <1>3
  <2> HIDE DEF s
  <2>4. /\ Len(serverQueue') = Len(s) - 1 /\ serverQueue' \in Seq(Mq!Request)
        /\ \A i \in 1 .. Len(serverQueue') : /\ i + 1 \in 1 .. Len(s)
                                             /\ serverQueue'[i] = s[i + 1]
    BY <2>2, <2>3
  <2> QED BY <1>2, <2>2, <2>4 DEF s
<1>5. h.id \in Clients /\ h.run \in Mq!Runs BY <1>4 DEF Mq!Request
<1>6. \A r \in Mq!Runs : /\ r # h.run => workers'[r] = workers[r]
                         /\ workers'[r].at = IF r = h.run THEN "open" ELSE workers[r].at
                         /\ workers'[r].mqdc = workers[r].mqdc
  BY <1>1, <1>3 DEF MqTyped
<1>7. MqTyped'
  <2>1. workers' \in [Mq!Runs -> [at : {"none", "open", "average", "send"},
                                  mqdc : {0} \cup Mq!Runs, half : Answer]]
    <3> DEFINE w == [workers[h.run] EXCEPT !.at = "open"]
    <3>0. workers[h.run] \in [at : {"none", "open", "average", "send"},
                 mqdc : {0} \cup Mq!Runs, half : Answer]
      BY <1>1, <1>5 DEF MqTyped
    <3>1. w \in [at : {"none", "open", "average", "send"},
                 mqdc : {0} \cup Mq!Runs, half : Answer]
      BY <1>5, <3>0
    <3>2. workers' = [workers EXCEPT ![h.run] = w] BY <1>3
    <3> HIDE DEF w
    <3> QED BY <1>1, <3>1, <3>2 DEF MqTyped
  <2>2. \A r \in Mq!Runs : workers'[r].at \in {"average", "send"} => workers'[r].mqdc # 0
    BY <1>1, <1>6 DEF MqTyped
  <2> QED BY <1>1, <1>3, <1>4, <2>1, <2>2 DEF MqTyped
<1>8. /\ \A c \in Clients : (Up(c)' <=> Up(c)) /\ (Idle(c)' <=> Idle(c))
      /\ \A c : MqName(c)' = MqName(c) /\ MyQueue(c)' = MyQueue(c) /\ (Fair(c)' <=> Fair(c))
      /\ OneByOne' <=> OneByOne
  BY <1>3 DEF Up, Idle, MqName, MyQueue, Fair, OneByOne
<1>9. Waiting(h.id) BY <1>4 DEF Waiting
<1>10. ASSUME OneByOne, Mq!Busy PROVE FALSE
  <2>1. mqProgram = "mqserver_multithread" /\ killed = {} /\ ~together
    BY <1>3, <1>10 DEF OneByOne
  <2>2. \A c : Fair(c) BY <2>1 DEF Fair
  <2>3. msgs \in Mq!Request BY <1>1, <1>10 DEF Mq!Busy, MqTyped
  <2>4. msgs.id \in Clients /\ Served(msgs.id) BY <1>10, <2>3 DEF Mq!Request, Served
  <2>5. Orderly(h.id) /\ Orderly(msgs.id) BY <1>5, <2>2, <2>4 DEF MqIInv
  <2>6. Up(h.id) /\ Up(msgs.id)
    BY <1>9, <2>4, <2>5 DEF Orderly, Asking, Up
  <2>7. h.id = msgs.id BY <1>5, <2>1, <2>4, <2>6 DEF MqIInv, OneUp
  <2> QED BY <1>9, <2>4, <2>5, <2>7 DEF Orderly, OneRequest
<1>11. OneUp' BY <1>3, <1>8 DEF MqIInv, OneUp
<1>12. Queues' BY <1>3, <1>6 DEF MqIInv, Queues
<1>13. OneServed'
  <2> SUFFICES ASSUME OneByOne', NEW r \in Mq!Runs, workers'[r].at # "none"
               PROVE  r = h.run /\ workers'[r].at = "open"
    BY <1>3 DEF OneServed
  <2>1. ~Mq!Busy BY <1>8, <1>10
  <2> QED BY <1>6, <2>1 DEF Mq!Busy
<1>14. ASSUME NEW c \in Clients, Fair(c)' PROVE Orderly(c)'
  <2>1. Orderly(c) /\ OneByOne BY <1>8, <1>14 DEF MqIInv, Fair, OneByOne
  <2>2. ~Mq!Busy BY <1>10, <2>1
  <2>3. Sent(c)' = Sent(c) BY <1>3 DEF Sent
  <2>4. Served(c)' => h.id = c BY <1>3 DEF Served
  <2>5. Waiting(c)' => Waiting(c) BY <1>4 DEF Waiting
  <2>6. Connected(c)' /\ Emptied(c)'
    BY <1>3, <1>8, <2>1 DEF Orderly, Connected, Emptied
  <2>7. Asking(c)' /\ Answered(c)'
    BY <1>3, <1>8, <1>9, <2>1, <2>3, <2>4, <2>5 DEF Orderly, Asking, Answered
  <2>8. OneRequest(c)'
    <3>1. \A i \in 1 .. Len(serverQueue') :
            serverQueue'[i].id = c => serverQueue'[i] = Sent(c)
      BY <1>4, <2>1 DEF Orderly, OneRequest
    <3>2. ASSUME NEW i \in 1 .. Len(serverQueue'), NEW j \in 1 .. Len(serverQueue'),
                 serverQueue'[i].id = c, serverQueue'[j].id = c
          PROVE  i = j
      <4>1. i + 1 = j + 1 BY <1>4, <2>1, <3>2 DEF Orderly, OneRequest
      <4> QED BY <4>1
    <3>3. ASSUME h.id = c PROVE h = Sent(c) /\ ~Waiting(c)'
      <4>1. h = Sent(c) BY <1>4, <2>1, <3>3 DEF Orderly, OneRequest
      <4>2. ASSUME NEW i \in 1 .. Len(serverQueue'), serverQueue'[i].id = c PROVE FALSE
        <5>1. i + 1 = 1 BY <1>4, <2>1, <3>3, <4>2 DEF Orderly, OneRequest
        <5> QED BY <5>1
      <4> QED BY <4>1, <4>2 DEF Waiting
    <3> QED BY <1>3, <2>3, <2>4, <3>1, <3>2, <3>3 DEF OneRequest
  <2> QED BY <2>6, <2>7, <2>8 DEF Orderly
<1> QED BY <1>7, <1>11, <1>12, <1>13, <1>14 DEF MqIInv

(* The server looks the client's queue up. *)
LEMMA MqOpenStep ==
  ASSUME MqIInv, NEW r \in Mq!Runs, Mq!OpenClientQueue(r) PROVE MqIInv'
<1>1. MqTyped BY DEF MqIInv
<1>2. workers[r].at = "open" BY DEF Mq!OpenClientQueue
<1>3. PICK q : q = MyQueue(msgs.id) OBVIOUS
<1>4. q = clientQueue[Mq!CLIENT_MQ(msgs.id)] BY <1>1, <1>3, ServerPrograms DEF MyQueue
<1>5. CASE q = 0
  <2>1. Mq!ServerExits BY <1>4, <1>5 DEF Mq!OpenClientQueue
  <2>2. /\ UNCHANGED <<mqProgram, clientQueue, replies, client, clientRuns>>
        /\ UNCHANGED <<killed, together>> /\ generation' = generation + 1
        /\ serverQueue' \in {serverQueue, <<>>}
        /\ msgs' = Mq!None /\ workers' = [i \in Mq!Runs |-> Mq!NoWorker]
    BY <2>1 DEF Mq!ServerExits, Mq!clientVars, Mq!queueVars
  <2>3. generation' \in Nat BY <1>1, <2>2 DEF MqTyped
  <2> QED BY <2>2, <2>3, MqServerEnds
<1>6. CASE q # 0
  <2>1. /\ workers' = [workers EXCEPT ![r] = [at |-> "average", mqdc |-> q, half |-> msgs]]
        /\ UNCHANGED <<mqProgram, serverQueue, generation, msgs, clientQueue, replies>>
        /\ UNCHANGED <<client, clientRuns, killed, together>>
    BY <1>4, <1>6
    DEF Mq!OpenClientQueue, Mq!WorkerStep, Mq!clientVars, Mq!ghostVars
  <2>2. msgs \in Mq!Request /\ msgs.id \in Clients BY <1>1, <1>2 DEF MqTyped, Mq!Request
  <2>3. MqName(msgs.id) \in Mq!Names BY <1>1, <2>2, OwnNames
  <2>4. q \in Mq!Runs /\ msgs \in Answer
    BY <1>1, <1>3, <1>6, <2>2, <2>3 DEF MqTyped, MyQueue, Answer
  <2>5. \A i \in Mq!Runs :
          /\ i # r => workers'[i] = workers[i]
          /\ i = r => /\ workers'[i].at = "average" /\ workers'[i].mqdc = q
                      /\ workers'[i].half = msgs
    BY <1>1, <2>1 DEF MqTyped
  <2>6. MqTyped'
    <3>1. workers' \in [Mq!Runs -> [at : {"none", "open", "average", "send"},
                                    mqdc : {0} \cup Mq!Runs, half : Answer]]
      BY <1>1, <2>1, <2>4 DEF MqTyped
    <3>2. \A i \in Mq!Runs : /\ workers'[i].at \in {"average", "send"} => workers'[i].mqdc # 0
                             /\ workers'[i].at # "none" => msgs' \in Mq!Request
      BY <1>1, <1>6, <2>1, <2>2, <2>5 DEF MqTyped
    <3> QED BY <1>1, <2>1, <3>1, <3>2 DEF MqTyped
  <2>7. /\ \A c \in Clients : (Up(c)' <=> Up(c)) /\ (Idle(c)' <=> Idle(c))
        /\ \A c : MqName(c)' = MqName(c) /\ MyQueue(c)' = MyQueue(c) /\ (Fair(c)' <=> Fair(c))
        /\ OneByOne' <=> OneByOne
    BY <2>1 DEF Up, Idle, MqName, MyQueue, Fair, OneByOne
  <2>8. Mq!Busy /\ Mq!Busy' BY <1>2, <2>5 DEF Mq!Busy
  <2>9. OneUp' /\ Queues'
    <3>1. OneUp' BY <2>1, <2>7 DEF MqIInv, OneUp
    <3>2. q <= clientRuns BY <1>3, <2>3 DEF MqIInv, Queues, MyQueue
    <3>3. Queues' BY <2>1, <2>5, <3>2 DEF MqIInv, Queues
    <3> QED BY <3>1, <3>3
  <2>10. OneServed'
    <3> SUFFICES ASSUME OneByOne, NEW i \in Mq!Runs, workers'[i].at # "none"
                 PROVE  /\ i = msgs.run
                        /\ workers'[i].at \in {"average", "send"} =>
                             /\ workers'[i].half = msgs
                             /\ \A n \in Mq!Names :
                                  n # MqName(msgs.id) => clientQueue[n] # workers'[i].mqdc
                             /\ Fair(msgs.id) => workers'[i].mqdc = MyQueue(msgs.id)
      BY <2>1, <2>7 DEF OneServed
    <3>1. r = msgs.run BY <1>2 DEF MqIInv, OneServed
    <3>2. CASE i = r
      <4>1. \A n \in Mq!Names : n # MqName(msgs.id) => clientQueue[n] # q
        BY <1>3, <1>6, <2>3 DEF MqIInv, Queues, MyQueue
      <4> QED BY <1>3, <2>5, <3>1, <3>2, <4>1
    <3>3. CASE i # r
      <4>1. workers'[i] = workers[i] BY <2>5, <3>3
      <4> QED BY <3>1, <3>3, <4>1 DEF MqIInv, OneServed
    <3> QED BY <3>2, <3>3
  <2>11. ASSUME NEW c \in Clients, Fair(c)' PROVE Orderly(c)'
    <3>1. Orderly(c) BY <2>7, <2>11 DEF MqIInv
    <3>2. MyQueue(c)' = MyQueue(c) /\ (Idle(c)' => Idle(c)) BY <2>7
    <3> QED BY <2>1, <2>8, <3>1, <3>2, OrderlyKept
  <2> QED BY <2>6, <2>9, <2>10, <2>11 DEF MqIInv
<1> QED BY <1>5, <1>6

(* The average is computed from msgs. *)
LEMMA MqAverageStep ==
  ASSUME MqIInv, NEW r \in Mq!Runs, Mq!Average(r) PROVE MqIInv'
<1>1. MqTyped BY DEF MqIInv
<1>2. PICK half \in {workers[r].half, msgs} :
        workers' = [workers EXCEPT ![r].at = "send",
                                   ![r].half = IF half = msgs THEN msgs ELSE Mq!Torn]
  BY DEF Mq!Average
<1>3. /\ workers[r].at = "average"
      /\ UNCHANGED <<mqProgram, serverQueue, generation, msgs, clientQueue, replies>>
      /\ UNCHANGED <<client, clientRuns, killed, together>>
  BY DEF Mq!Average, Mq!WorkerStep, Mq!clientVars, Mq!ghostVars
<1>4. PICK a : a = IF half = msgs THEN msgs ELSE Mq!Torn OBVIOUS
<1>5. msgs \in Mq!Request /\ a \in Answer BY <1>1, <1>3, <1>4 DEF MqTyped, Answer
<1>6. \A i \in Mq!Runs :
        /\ i # r => workers'[i] = workers[i]
        /\ i = r => /\ workers'[i].at = "send" /\ workers'[i].mqdc = workers[r].mqdc
                    /\ workers'[i].half = a
  BY <1>1, <1>2, <1>4 DEF MqTyped
<1>7. MqTyped'
  <2>1. workers' \in [Mq!Runs -> [at : {"none", "open", "average", "send"},
                                  mqdc : {0} \cup Mq!Runs, half : Answer]]
    <3> DEFINE w == [workers[r] EXCEPT !.at = "send", !.half = a]
    <3>0. workers[r] \in [at : {"none", "open", "average", "send"},
                 mqdc : {0} \cup Mq!Runs, half : Answer]
      BY <1>1, <1>5 DEF MqTyped
    <3>1. w \in [at : {"none", "open", "average", "send"},
                 mqdc : {0} \cup Mq!Runs, half : Answer]
      BY <1>5, <3>0
    <3>2. workers' = [workers EXCEPT ![r] = w] BY <1>2, <1>4
    <3> HIDE DEF w
    <3> QED BY <1>1, <3>1, <3>2 DEF MqTyped
  <2>2. \A i \in Mq!Runs : /\ workers'[i].at \in {"average", "send"} => workers'[i].mqdc # 0
                           /\ workers'[i].at # "none" => msgs' \in Mq!Request
    BY <1>1, <1>3, <1>5, <1>6 DEF MqTyped
  <2> QED BY <1>1, <1>3, <2>1, <2>2 DEF MqTyped
<1>8. /\ \A c \in Clients : (Up(c)' <=> Up(c)) /\ (Idle(c)' <=> Idle(c))
      /\ \A c : MqName(c)' = MqName(c) /\ MyQueue(c)' = MyQueue(c) /\ (Fair(c)' <=> Fair(c))
      /\ OneByOne' <=> OneByOne
  BY <1>3 DEF Up, Idle, MqName, MyQueue, Fair, OneByOne
<1>9. Mq!Busy /\ Mq!Busy' BY <1>3, <1>6 DEF Mq!Busy
<1>10. OneUp' BY <1>3, <1>8 DEF MqIInv, OneUp
<1>13. Queues' BY <1>3, <1>6 DEF MqIInv, Queues
<1>11. OneServed'
  <2> SUFFICES ASSUME OneByOne, NEW i \in Mq!Runs, workers'[i].at # "none"
               PROVE  /\ i = msgs.run
                      /\ workers'[i].at \in {"average", "send"} =>
                           /\ workers'[i].half = msgs
                           /\ \A n \in Mq!Names :
                                n # MqName(msgs.id) => clientQueue[n] # workers'[i].mqdc
                           /\ Fair(msgs.id) => workers'[i].mqdc = MyQueue(msgs.id)
    BY <1>3, <1>8 DEF OneServed
  <2>1. /\ r = msgs.run /\ workers[r].half = msgs
        /\ \A n \in Mq!Names : n # MqName(msgs.id) => clientQueue[n] # workers[r].mqdc
        /\ Fair(msgs.id) => workers[r].mqdc = MyQueue(msgs.id)
    BY <1>3 DEF MqIInv, OneServed
  <2>2. CASE i = r
    <3>1. a = msgs BY <1>4, <2>1
    <3> QED BY <1>6, <2>1, <2>2, <3>1
  <2>3. CASE i # r
    <3>1. workers'[i] = workers[i] BY <1>6, <2>3
    <3> QED BY <2>1, <2>3, <3>1 DEF MqIInv, OneServed
  <2> QED BY <2>2, <2>3
<1>12. ASSUME NEW c \in Clients, Fair(c)' PROVE Orderly(c)'
  <2>1. Orderly(c) BY <1>8, <1>12 DEF MqIInv
  <2>2. MyQueue(c)' = MyQueue(c) /\ (Idle(c)' => Idle(c)) BY <1>8
  <2> QED BY <1>3, <1>9, <2>1, <2>2, OrderlyKept
<1> QED BY <1>7, <1>10, <1>11, <1>12, <1>13 DEF MqIInv

(* The reply goes into the queue that was looked up. *)
LEMMA MqReplyStep ==
  ASSUME MqIInv, NEW r \in Mq!Runs, Mq!Reply(r) PROVE MqIInv'
<1>1. MqTyped BY DEF MqIInv
<1>2. PICK q, a : q = workers[r].mqdc /\ a = workers[r].half OBVIOUS
<1>3. /\ workers[r].at = "send"
      /\ replies' = [replies EXCEPT ![q] = Append(@, a)]
      /\ workers' = [workers EXCEPT ![r] = Mq!NoWorker]
      /\ UNCHANGED <<mqProgram, serverQueue, generation, msgs, clientQueue>>
      /\ UNCHANGED <<client, clientRuns, killed, together>>
  BY <1>2 DEF Mq!Reply, Mq!WorkerStep, Mq!clientVars, Mq!ghostVars
<1>4. q \in Mq!Runs /\ a \in Answer /\ msgs \in Mq!Request
  BY <1>1, <1>2, <1>3 DEF MqTyped
<1>5. PICK new : new = Append(replies[q], a) OBVIOUS
<1>6. new \in Seq(Answer) /\ (replies[q] = <<>> => new = <<a>>)
  <2>1. replies[q] \in Seq(Answer) BY <1>1, <1>4 DEF MqTyped
  <2>2. Append(replies[q], a) \in Seq(Answer) BY <1>4, <2>1
  <2>3. Append(<<>>, a) = <<a>> BY <1>4
  <2> QED BY <1>5, <2>2, <2>3
<1>7. /\ replies' \in [Mq!Runs -> Seq(Answer)]
      /\ \A i \in Mq!Runs : replies'[i] = IF i = q THEN new ELSE replies[i]
  <2>1. replies' = [replies EXCEPT ![q] = new] BY <1>3, <1>5
  <2> QED BY <1>1, <1>6, <2>1 DEF MqTyped
<1>8. \A i \in Mq!Runs : /\ i # r => workers'[i] = workers[i]
                         /\ i = r => workers'[i].at = "none" /\ workers'[i].mqdc = 0
  BY <1>1, <1>3 DEF MqTyped, Mq!NoWorker
<1>9. MqTyped'
  <2>1. workers' \in [Mq!Runs -> [at : {"none", "open", "average", "send"},
                                  mqdc : {0} \cup Mq!Runs, half : Answer]]
    <3>1. Mq!NoWorker \in [at : {"none", "open", "average", "send"},
                           mqdc : {0} \cup Mq!Runs, half : Answer]
      BY DEF Mq!NoWorker, Answer
    <3> QED BY <1>1, <1>3, <3>1 DEF MqTyped
  <2>2. \A i \in Mq!Runs : /\ workers'[i].at \in {"average", "send"} => workers'[i].mqdc # 0
                           /\ workers'[i].at # "none" => msgs' \in Mq!Request
    BY <1>1, <1>3, <1>4, <1>8 DEF MqTyped
  <2> QED BY <1>1, <1>3, <1>7, <2>1, <2>2 DEF MqTyped
<1>10. /\ \A c \in Clients : (Up(c)' <=> Up(c)) /\ (Idle(c)' <=> Idle(c))
       /\ \A c : MqName(c)' = MqName(c) /\ MyQueue(c)' = MyQueue(c) /\ (Fair(c)' <=> Fair(c))
       /\ OneByOne' <=> OneByOne
  BY <1>3 DEF Up, Idle, MqName, MyQueue, Fair, OneByOne
<1>11. OneUp' BY <1>3, <1>10 DEF MqIInv, OneUp
<1>12. OneServed'
  <2> SUFFICES ASSUME OneByOne, NEW i \in Mq!Runs, workers'[i].at # "none" PROVE FALSE
    BY <1>10 DEF OneServed
  <2>1. i # r /\ workers[i].at # "none" BY <1>8
  <2> QED BY <1>3, <2>1 DEF MqIInv, OneServed
<1>13. Queues'
  <2>1. q <= clientRuns /\ 0 <= clientRuns /\ q \in Nat /\ clientRuns \in Nat
    BY <1>1, <1>2, <1>4 DEF MqIInv, Queues, MqTyped, Mq!Runs
  <2>2. \A i \in Mq!Runs : i > clientRuns => i # q BY <2>1
  <2> QED BY <1>3, <1>7, <1>8, <2>1, <2>2 DEF MqIInv, Queues
<1>14. ASSUME NEW c \in Clients, Fair(c)' PROVE Orderly(c)'
  <2>1. Orderly(c) /\ OneByOne /\ Fair(c) BY <1>10, <1>14 DEF MqIInv, Fair, OneByOne
  <2>2. PICK d : d = msgs.id OBVIOUS
  <2>3. d \in Clients BY <1>4, <2>2 DEF Mq!Request
  <2>4. Mq!Busy /\ ~Mq!Busy'
    <3>1. Mq!Busy BY <1>3 DEF Mq!Busy
    <3>2. ASSUME NEW i \in Mq!Runs, workers'[i].at # "none" PROVE FALSE
      <4>1. i # r /\ workers[i].at # "none" BY <1>8, <3>2
      <4> QED BY <1>3, <2>1, <4>1 DEF MqIInv, OneServed
    <3> QED BY <3>1, <3>2 DEF Mq!Busy
  <2>5. /\ a = msgs
        /\ \A n \in Mq!Names : n # MqName(d) => clientQueue[n] # q
        /\ Fair(d) => q = MyQueue(d)
    BY <1>2, <1>3, <2>1, <2>2 DEF MqIInv, OneServed
  <2>6. Served(d) /\ ~Served(c)' BY <2>2, <2>4 DEF Served
  <2>7. /\ Sent(c)' = Sent(c) /\ (Up(c)' <=> Up(c)) /\ (Waiting(c)' <=> Waiting(c))
        /\ client'[c] = client[c]
    BY <1>3, <1>10 DEF Sent, Waiting
  <2>8. Connected(c)' BY <1>3, <1>10, <2>1 DEF Orderly, Connected, Up
  <2>9. OneRequest(c)' BY <1>3, <2>1, <2>6, <2>7 DEF Orderly, OneRequest
  <2>10. MqName(c) \in Mq!Names /\ MyQueue(c) \in {0} \cup Mq!Runs
    BY <1>1, OwnNames DEF MqTyped, MyQueue
  <2>11. CASE c = d
    <3>1. /\ client[c].at = "receive" /\ replies[MyQueue(c)] = <<>> /\ msgs = Sent(c)
          /\ ~Waiting(c) /\ q = MyQueue(c)
      BY <2>1, <2>5, <2>6, <2>11 DEF Orderly, Asking, OneRequest
    <3>2. replies'[q] = <<Sent(c)>> BY <1>4, <1>6, <1>7, <2>5, <3>1
    <3>3. MyQueue(c)' = q BY <1>10, <3>1
    <3>4. Asking(c)' BY <2>6, <2>7, <3>1 DEF Asking
    <3>5. Emptied(c)' BY <2>7, <3>1 DEF Emptied, Idle
    <3>6. Answered(c)' BY <2>7, <3>1, <3>2, <3>3 DEF Answered
    <3> QED BY <2>8, <2>9, <3>4, <3>5, <3>6 DEF Orderly
  <2>12. CASE c # d /\ MqName(c) # MqName(d)
    <3>1. MyQueue(c) # q BY <2>5, <2>10, <2>12 DEF MyQueue
    <3>2. MyQueue(c) # 0 => replies'[MyQueue(c)] = replies[MyQueue(c)]
      BY <1>7, <2>10, <3>1
    <3>3. Asking(c)'
      BY <1>10, <2>1, <2>6, <2>7, <3>2 DEF Orderly, Asking, Connected, Up
    <3>4. Emptied(c)' BY <1>10, <2>1, <3>2 DEF Orderly, Emptied
    <3>5. Answered(c)' BY <1>10, <2>1, <2>7, <3>2 DEF Orderly, Answered, Connected, Up
    <3> QED BY <2>8, <2>9, <3>3, <3>4, <3>5 DEF Orderly
  <2>13. CASE c # d /\ MqName(c) = MqName(d)
    <3>1. Fair(d) /\ ~together BY <1>1, <2>1, <2>3, <2>13, OwnNames
    <3>2. client[d].at = "receive" BY <2>3, <2>6, <3>1 DEF MqIInv, Orderly, Asking
    <3>3. client[c].at = "off" /\ Up(d)
      BY <2>3, <2>13, <3>1, <3>2 DEF MqIInv, OneUp, Up
    <3>4. ~Idle(c)' BY <1>10, <2>3, <2>7, <2>13, <3>3 DEF Idle
    <3>5. Asking(c)' BY <2>1, <2>6, <2>7, <3>3 DEF Orderly, Asking
    <3> QED BY <2>7, <2>8, <2>9, <3>3, <3>4, <3>5 DEF Orderly, Emptied, Answered
  <2> QED BY <2>11, <2>12, <2>13
<1> QED BY <1>9, <1>11, <1>12, <1>13, <1>14 DEF MqIInv

(* A client that does not wait for a reply is in order when it runs no more. *)
LEMMA OffInOrder ==
  ASSUME NEW c \in Clients, Orderly(c), client[c].at # "receive", client'[c].at = "off",
         UNCHANGED <<serverQueue, msgs>>, Mq!Busy' <=> Mq!Busy, Emptied(c)'
  PROVE  Orderly(c)'
<1>1. ~Waiting(c) /\ ~Served(c) BY DEF Orderly, Asking
<1>2. ~Waiting(c)' /\ ~Served(c)' BY <1>1 DEF Waiting, Served
<1>3. \A i \in 1 .. Len(serverQueue') : serverQueue'[i].id # c BY <1>2 DEF Waiting
<1>4. Connected(c)' /\ Asking(c)' /\ Answered(c)'
  BY <1>2 DEF Connected, Up, Asking, Answered
<1>5. OneRequest(c)' BY <1>2, <1>3 DEF OneRequest
<1> QED BY <1>4, <1>5 DEF Orderly

(* A client that has not sent a request leaves, or one that has its reply; its
   queue goes with it or is empty. *)
LEMMA MqClientLeaves ==
  ASSUME MqIInv, NEW c \in Clients, client[c].at \in {"connect", "exit"},
         client' = [client EXCEPT ![c] = Mq!OffClient],
         clientQueue' \in {clientQueue, [clientQueue EXCEPT ![MqName(c)] = 0]},
         UNCHANGED <<mqProgram, generation, serverQueue, msgs, workers, replies>>,
         UNCHANGED <<clientRuns, killed, together>>
  PROVE  MqIInv'
<1>1. MqTyped BY DEF MqIInv
<1>2. /\ client'[c].at = "off"
      /\ \A d \in Clients : d # c => client'[d] = client[d]
  BY <1>1 DEF MqTyped, Mq!OffClient
<1>3. /\ \A n \in Mq!Names : /\ clientQueue'[n] \in {0, clientQueue[n]}
                             /\ n # MqName(c) => clientQueue'[n] = clientQueue[n]
      /\ clientQueue' \in [Mq!Names -> {0} \cup Mq!Runs]
  BY <1>1 DEF MqTyped
<1>4. MqTyped'
  <2>1. Mq!OffClient \in [at : {"off", "connect", "send", "receive", "exit"},
                          run : {0} \cup Mq!Runs, mqdc : {0} \cup Mq!Runs,
                          mqds : Nat, got : Answer]
    BY DEF Mq!OffClient, Answer
  <2>2. client' \in [Clients -> [at : {"off", "connect", "send", "receive", "exit"},
                                 run : {0} \cup Mq!Runs, mqdc : {0} \cup Mq!Runs,
                                 mqds : Nat, got : Answer]]
    BY <1>1, <2>1 DEF MqTyped
  <2>3. \A d \in Clients :
          client'[d].at # "off" => client'[d].run # 0 /\ client'[d].mqdc # 0
    BY <1>1, <1>2 DEF MqTyped
  <2> QED BY <1>1, <1>3, <2>2, <2>3 DEF MqTyped
<1>5. /\ Up(c) /\ ~Up(c)' /\ \A d \in Clients : d # c => (Up(d)' <=> Up(d))
      /\ \A d : MqName(d)' = MqName(d) /\ (Fair(d)' <=> Fair(d))
      /\ OneByOne' <=> OneByOne
      /\ Mq!Busy' <=> Mq!Busy
  BY <1>2 DEF Up, MqName, Fair, OneByOne, Mq!Busy
<1>6. OneUp' BY <1>5 DEF MqIInv, OneUp
<1>7. Queues'
  <2>1. 0 <= clientRuns BY <1>1 DEF MqTyped
  <2> QED BY <1>3, <2>1 DEF MqIInv, Queues
<1>8. \A d \in Clients : d # c /\ MqName(d) # MqName(c)
                           => MyQueue(d)' = MyQueue(d) /\ (Idle(d)' => Idle(d))
  <2> SUFFICES ASSUME NEW d \in Clients, d # c, MqName(d) # MqName(c)
               PROVE  MyQueue(d)' = MyQueue(d) /\ (Idle(d)' => Idle(d))
    OBVIOUS
  <2>1. MyQueue(d)' = MyQueue(d) BY <1>1, <1>3, <1>5, OwnNames DEF MyQueue
  <2>2. Idle(d)' => Idle(d) BY <1>2, <1>5 DEF Idle
  <2> QED BY <2>1, <2>2
<1>9. ASSUME NEW d \in Clients, d # c, MqName(d) = MqName(c), Fair(d)
      PROVE  client[d].at = "off" /\ Fair(c)
  BY <1>1, <1>5, <1>9, OwnNames DEF MqIInv, OneUp, Up
<1>10. Fair(c) => MyQueue(c) = 0 \/ replies[MyQueue(c)] = <<>>
  BY DEF MqIInv, Orderly, Emptied, Idle
<1>11. MyQueue(c)' \in {0, MyQueue(c)} BY <1>1, <1>3, <1>5, OwnNames DEF MyQueue
<1>12. OneServed'
  <2> SUFFICES ASSUME OneByOne, NEW r \in Mq!Runs, workers[r].at # "none"
               PROVE  /\ r = msgs.run
                      /\ workers[r].at \in {"average", "send"} =>
                           /\ workers[r].half = msgs
                           /\ \A n \in Mq!Names :
                                n # MqName(msgs.id) => clientQueue'[n] # workers[r].mqdc
                           /\ Fair(msgs.id) => workers[r].mqdc = MyQueue(msgs.id)'
    BY <1>5 DEF OneServed
  <2>1. r = msgs.run BY DEF MqIInv, OneServed
  <2>2. ASSUME workers[r].at \in {"average", "send"}
        PROVE  /\ workers[r].half = msgs
               /\ \A n \in Mq!Names :
                    n # MqName(msgs.id) => clientQueue'[n] # workers[r].mqdc
               /\ Fair(msgs.id) => workers[r].mqdc = MyQueue(msgs.id)'
    <3>1. /\ workers[r].half = msgs
          /\ \A n \in Mq!Names : n # MqName(msgs.id) => clientQueue[n] # workers[r].mqdc
          /\ Fair(msgs.id) => workers[r].mqdc = MyQueue(msgs.id)
      BY <2>2 DEF MqIInv, OneServed
    <3>2. workers[r].mqdc # 0 /\ msgs \in Mq!Request /\ msgs.id \in Clients
      BY <1>1, <2>2 DEF MqTyped, Mq!Request
    <3>3. ASSUME Fair(msgs.id) PROVE MyQueue(msgs.id)' = MyQueue(msgs.id)
      <4>1. Served(msgs.id) BY DEF Served, Mq!Busy
      <4>2. client[msgs.id].at = "receive"
        BY <3>2, <3>3, <4>1 DEF MqIInv, Orderly, Asking
      <4>3. msgs.id # c /\ MqName(msgs.id) # MqName(c) BY <1>9, <3>2, <3>3, <4>2
      <4> QED BY <1>8, <3>2, <4>3
    <3> QED BY <1>3, <3>1, <3>2, <3>3
  <2> QED BY <2>1, <2>2
<1>13. ASSUME NEW d \in Clients, Fair(d)' PROVE Orderly(d)'
  <2>1. Orderly(d) /\ Fair(d) BY <1>5, <1>13 DEF MqIInv
  <2>2. CASE d = c
    <3>1. Emptied(c)' BY <1>10, <1>11, <2>1, <2>2 DEF Emptied
    <3>2. client[c].at # "receive" OBVIOUS
    <3> QED BY <1>2, <1>5, <2>1, <2>2, <3>1, <3>2, OffInOrder
  <2>3. CASE d # c /\ MqName(d) = MqName(c)
    <3>1. client[d].at = "off" /\ Fair(c) BY <1>9, <2>1, <2>3
    <3>2. MyQueue(d)' = MyQueue(c)' BY <1>5, <2>3 DEF MyQueue
    <3>3. Emptied(d)' BY <1>10, <1>11, <3>1, <3>2 DEF Emptied
    <3>4. client'[d].at = "off" /\ client[d].at # "receive" BY <1>2, <2>3, <3>1
    <3> QED BY <1>5, <2>1, <3>3, <3>4, OffInOrder
  <2>4. CASE d # c /\ MqName(d) # MqName(c)
    <3>1. MyQueue(d)' = MyQueue(d) /\ (Idle(d)' => Idle(d)) /\ client'[d] = client[d]
      BY <1>2, <1>8, <2>4
    <3> QED BY <1>5, <2>1, <3>1, OrderlyKept
  <2> QED BY <2>2, <2>3, <2>4
<1> QED BY <1>4, <1>6, <1>7, <1>12, <1>13 DEF MqIInv

(* A client looks the server's queue up, and leaves when there is none. *)
LEMMA MqConnectStep ==
  ASSUME MqIInv, NEW c \in Clients, Mq!Connect(c) PROVE MqIInv'
<1>1. MqTyped BY DEF MqIInv
<1>2. /\ client[c].at = "connect"
      /\ UNCHANGED <<mqProgram, generation, serverQueue, msgs, workers, replies>>
      /\ UNCHANGED <<clientRuns, killed, together>>
  BY DEF Mq!Connect, Mq!ClientStep, Mq!ghostVars
<1>3. CASE ~named
  <2>1. client' = [client EXCEPT ![c] = Mq!OffClient] BY <1>3 DEF Mq!Connect
  <2>2. clientQueue' \in {clientQueue, [clientQueue EXCEPT ![MqName(c)] = 0]}
    BY <1>1, <1>3, ServerPrograms DEF Mq!Connect, Mq!Unlink
  <2> QED BY <1>2, <2>1, <2>2, MqClientLeaves
<1>4. CASE named
  <2>1. /\ client' = [client EXCEPT ![c].at = "send", ![c].mqds = generation]
        /\ UNCHANGED clientQueue
    BY <1>4 DEF Mq!Connect
  <2>2. /\ client'[c].at = "send" /\ client'[c].run = client[c].run
        /\ client'[c].mqdc = client[c].mqdc
        /\ \A d \in Clients : d # c => client'[d] = client[d]
    BY <1>1, <2>1 DEF MqTyped
  <2>3. MqTyped'
    <3> DEFINE new == [client[c] EXCEPT !.at = "send", !.mqds = generation]
    <3>1. client[c] \in [at : {"off", "connect", "send", "receive", "exit"},
                         run : {0} \cup Mq!Runs, mqdc : {0} \cup Mq!Runs,
                         mqds : Nat, got : Answer] /\ generation \in Nat
      BY <1>1 DEF MqTyped
    <3>2. new \in [at : {"off", "connect", "send", "receive", "exit"},
                   run : {0} \cup Mq!Runs, mqdc : {0} \cup Mq!Runs,
                   mqds : Nat, got : Answer]
      BY <3>1
    <3>3. client' = [client EXCEPT ![c] = new] BY <2>1
    <3> HIDE DEF new
    <3>4. client' \in [Clients -> [at : {"off", "connect", "send", "receive", "exit"},
                                   run : {0} \cup Mq!Runs, mqdc : {0} \cup Mq!Runs,
                                   mqds : Nat, got : Answer]]
      BY <1>1, <3>2, <3>3 DEF MqTyped
    <3>5. \A d \in Clients :
            client'[d].at # "off" => client'[d].run # 0 /\ client'[d].mqdc # 0
      BY <1>1, <1>2, <2>2 DEF MqTyped
    <3> QED BY <1>1, <1>2, <2>1, <3>4, <3>5 DEF MqTyped
  <2>4. /\ Up(c) /\ \A d \in Clients : Up(d)' <=> Up(d)
        /\ \A d : MqName(d)' = MqName(d) /\ MyQueue(d)' = MyQueue(d) /\ (Fair(d)' <=> Fair(d))
        /\ OneByOne' <=> OneByOne
        /\ Mq!Busy' <=> Mq!Busy
    BY <1>2, <2>1, <2>2 DEF Up, MqName, MyQueue, Fair, OneByOne, Mq!Busy
  <2>5. OneUp' BY <1>2, <2>4 DEF MqIInv, OneUp
  <2>6. Queues' BY <1>2, <2>1 DEF MqIInv, Queues
  <2>7. OneServed' BY <1>2, <2>1, <2>4 DEF MqIInv, OneServed
  <2>8. ASSUME NEW d \in Clients, Fair(d)' PROVE Orderly(d)'
    <3>1. Orderly(d) BY <2>4, <2>8 DEF MqIInv
    <3>2. CASE d # c
      <4>1. client'[d] = client[d] /\ (Idle(d)' => Idle(d))
        BY <2>2, <2>4, <3>2 DEF Idle
      <4>2. MyQueue(d)' = MyQueue(d) BY <2>4
      <4> QED BY <1>2, <2>4, <3>1, <4>1, <4>2, OrderlyKept
    <3>3. CASE d = c
      <4>1. ~Waiting(c) /\ ~Served(c) BY <1>2, <3>1, <3>3 DEF Orderly, Asking
      <4>2. ~Waiting(c)' /\ ~Served(c)' BY <1>2, <2>4, <4>1 DEF Waiting, Served
      <4>3. \A i \in 1 .. Len(serverQueue') : serverQueue'[i].id # c
        BY <4>2 DEF Waiting
      <4>4. Idle(c) BY <1>2 DEF Idle
      <4>5. Connected(c)' /\ Emptied(c)'
        BY <1>2, <2>2, <2>4, <3>1, <3>3, <4>4 DEF Orderly, Connected, Emptied
      <4>6. Asking(c)' /\ Answered(c)' BY <2>2, <4>2 DEF Asking, Answered
      <4>7. OneRequest(c)' BY <4>2, <4>3 DEF OneRequest
      <4> QED BY <3>3, <4>5, <4>6, <4>7 DEF Orderly
    <3> QED BY <3>2, <3>3
  <2> QED BY <2>3, <2>5, <2>6, <2>7, <2>8 DEF MqIInv
<1> QED BY <1>3, <1>4

(* A client with its reply removes the name of its queue and ends. *)
LEMMA MqClientExitsStep ==
  ASSUME MqIInv, NEW c \in Clients, Mq!ClientExits(c) PROVE MqIInv'
<1>1. MqTyped BY DEF MqIInv
<1>2. /\ client[c].at = "exit" /\ client' = [client EXCEPT ![c] = Mq!OffClient]
      /\ clientQueue' \in {clientQueue, [clientQueue EXCEPT ![MqName(c)] = 0]}
      /\ UNCHANGED <<mqProgram, generation, serverQueue, msgs, workers, replies>>
      /\ UNCHANGED <<clientRuns, killed, together>>
  BY <1>1, ServerPrograms DEF Mq!ClientExits, Mq!Unlink, Mq!ClientStep, Mq!ghostVars
<1> QED BY <1>2, MqClientLeaves

(* A client is killed, and its request and its reply stay. *)
LEMMA MqClientKilledStep ==
  ASSUME MqIInv, NEW c \in Clients, Mq!ClientKilled(c) PROVE MqIInv'
<1>1. MqTyped BY DEF MqIInv
<1>2. /\ client[c].at # "off" /\ client' = [client EXCEPT ![c] = Mq!OffClient]
      /\ killed' = killed \cup {c}
      /\ UNCHANGED <<mqProgram, generation, serverQueue, msgs, workers, replies>>
      /\ UNCHANGED <<clientQueue, clientRuns, together>>
  BY DEF Mq!ClientKilled, Mq!ClientStep, Mq!queueVars
<1>3. /\ client'[c].at = "off"
      /\ \A d \in Clients : d # c => client'[d] = client[d]
  BY <1>1, <1>2 DEF MqTyped, Mq!OffClient
<1>4. MqTyped'
  <2>1. Mq!OffClient \in [at : {"off", "connect", "send", "receive", "exit"},
                          run : {0} \cup Mq!Runs, mqdc : {0} \cup Mq!Runs,
                          mqds : Nat, got : Answer]
    BY DEF Mq!OffClient, Answer
  <2>2. client' \in [Clients -> [at : {"off", "connect", "send", "receive", "exit"},
                                 run : {0} \cup Mq!Runs, mqdc : {0} \cup Mq!Runs,
                                 mqds : Nat, got : Answer]]
    BY <1>1, <1>2, <2>1 DEF MqTyped
  <2>3. \A d \in Clients :
          client'[d].at # "off" => client'[d].run # 0 /\ client'[d].mqdc # 0
    BY <1>1, <1>3 DEF MqTyped
  <2> QED BY <1>1, <1>2, <2>2, <2>3 DEF MqTyped
<1>5. /\ ~Up(c)' /\ \A d \in Clients : d # c => (Up(d)' <=> Up(d))
      /\ \A d : /\ MqName(d)' = MqName(d) /\ MyQueue(d)' = MyQueue(d)
                /\ Fair(d)' => Fair(d) /\ mqProgram = "mqserver2" /\ d # c
      /\ OneByOne' => OneByOne
      /\ Mq!Busy' <=> Mq!Busy
  BY <1>2, <1>3 DEF Up, MqName, MyQueue, Fair, OneByOne, Mq!Busy
<1>6. OneUp' BY <1>2, <1>5 DEF MqIInv, OneUp
<1>7. Queues' BY <1>2 DEF MqIInv, Queues
<1>8. OneServed' BY <1>2, <1>5 DEF MqIInv, OneServed
<1>9. ASSUME NEW d \in Clients, Fair(d)' PROVE Orderly(d)'
  <2>1. Orderly(d) /\ d # c /\ mqProgram = "mqserver2" BY <1>5, <1>9 DEF MqIInv
  <2>2. MqName(d) # MqName(c) BY <2>1 DEF MqName
  <2>3. client'[d] = client[d] /\ (Idle(d)' => Idle(d))
    BY <1>3, <1>5, <2>1, <2>2 DEF Idle
  <2>4. MyQueue(d)' = MyQueue(d) BY <1>5
  <2> QED BY <1>2, <1>5, <2>1, <2>3, <2>4, OrderlyKept
<1> QED BY <1>4, <1>6, <1>7, <1>8, <1>9 DEF MqIInv

(* A client sends its request. *)
LEMMA MqSendStep == ASSUME MqIInv, NEW c \in Clients, Mq!Send(c) PROVE MqIInv'
<1>1. MqTyped BY DEF MqIInv
<1>2. PICK m : m = Sent(c) OBVIOUS
<1>3. /\ client[c].at = "send" /\ client' = [client EXCEPT ![c].at = "receive"]
      /\ serverQueue' \in {serverQueue, Append(serverQueue, m)}
      /\ UNCHANGED <<mqProgram, generation, msgs, workers, replies, clientQueue>>
      /\ UNCHANGED <<clientRuns, killed, together>>
  BY <1>2 DEF Mq!Send, Mq!ClientStep, Mq!ghostVars, Mq!queueVars, Sent
<1>4. /\ client'[c].at = "receive" /\ client'[c].run = client[c].run
      /\ client'[c].mqdc = client[c].mqdc
      /\ \A d \in Clients : d # c => client'[d] = client[d]
  BY <1>1, <1>3 DEF MqTyped
<1>5. m \in Mq!Request /\ m.id = c
  BY <1>1, <1>2, <1>3 DEF MqTyped, Sent, Mq!Request
<1>6. /\ serverQueue' \in Seq(Mq!Request) /\ Len(serverQueue) \in Nat
      /\ Len(serverQueue') \in {Len(serverQueue), Len(serverQueue) + 1}
      /\ \A i \in 1 .. Len(serverQueue) : serverQueue'[i] = serverQueue[i]
      /\ Len(serverQueue') = Len(serverQueue) + 1 => serverQueue'[Len(serverQueue) + 1] = m
  <2> DEFINE s == serverQueue
             new == Append(s, m)
  <2>1. s \in Seq(Mq!Request) BY <1>1 DEF MqTyped
  <2>2. /\ new \in Seq(Mq!Request) /\ Len(new) = Len(s) + 1 /\ Len(s) \in Nat
        /\ new[Len(s) + 1] = m /\ \A i \in 1 .. Len(s) : new[i] = s[i]
    BY <1>5, <2>1
  <2>3. serverQueue' = s \/ serverQueue' = new BY <1>3
  <2> HIDE DEF s, new
  <2>4. CASE serverQueue' = s BY <2>1, <2>2, <2>4 DEF s
  <2>5. CASE serverQueue' = new BY <2>1, <2>2, <2>5 DEF s
  <2> QED BY <2>3, <2>4, <2>5
<1>7. \A i \in 1 .. Len(serverQueue') :
        \/ i \in 1 .. Len(serverQueue) /\ serverQueue'[i] = serverQueue[i]
        \/ i = Len(serverQueue) + 1 /\ serverQueue'[i] = m
  BY <1>6
<1>8. MqTyped'
  <2> DEFINE new == [client[c] EXCEPT !.at = "receive"]
  <2>1. client[c] \in [at : {"off", "connect", "send", "receive", "exit"},
                       run : {0} \cup Mq!Runs, mqdc : {0} \cup Mq!Runs,
                       mqds : Nat, got : Answer]
    BY <1>1 DEF MqTyped
  <2>2. new \in [at : {"off", "connect", "send", "receive", "exit"},
                 run : {0} \cup Mq!Runs, mqdc : {0} \cup Mq!Runs,
                 mqds : Nat, got : Answer]
    BY <2>1
  <2>3. client' = [client EXCEPT ![c] = new] BY <1>3
  <2> HIDE DEF new
  <2>4. client' \in [Clients -> [at : {"off", "connect", "send", "receive", "exit"},
                                 run : {0} \cup Mq!Runs, mqdc : {0} \cup Mq!Runs,
                                 mqds : Nat, got : Answer]]
    BY <1>1, <2>2, <2>3 DEF MqTyped
  <2>5. \A d \in Clients :
          client'[d].at # "off" => client'[d].run # 0 /\ client'[d].mqdc # 0
    BY <1>1, <1>3, <1>4 DEF MqTyped
  <2> QED BY <1>1, <1>3, <1>6, <2>4, <2>5 DEF MqTyped
<1>9. /\ Up(c) /\ \A d \in Clients : Up(d)' <=> Up(d)
      /\ \A d : MqName(d)' = MqName(d) /\ MyQueue(d)' = MyQueue(d) /\ (Fair(d)' <=> Fair(d))
      /\ OneByOne' <=> OneByOne
      /\ Mq!Busy' <=> Mq!Busy
  BY <1>3, <1>4 DEF Up, MqName, MyQueue, Fair, OneByOne, Mq!Busy
<1>10. OneUp' BY <1>3, <1>9 DEF MqIInv, OneUp
<1>11. Queues' BY <1>3 DEF MqIInv, Queues
<1>12. OneServed' BY <1>3, <1>9 DEF MqIInv, OneServed
<1>13. ASSUME NEW d \in Clients, Fair(d)' PROVE Orderly(d)'
  <2>1. Orderly(d) BY <1>9, <1>13 DEF MqIInv
  <2>2. Sent(d)' = Sent(d) BY <1>4 DEF Sent
  <2>3. Served(d)' <=> Served(d) BY <1>3, <1>9 DEF Served
  <2>4. CASE d # c
    <3>1. client'[d] = client[d] /\ (Idle(d)' => Idle(d))
      BY <1>4, <1>9, <2>4 DEF Idle
    <3>2. \A i \in 1 .. Len(serverQueue') :
            serverQueue'[i].id = d => /\ i \in 1 .. Len(serverQueue)
                                      /\ serverQueue'[i] = serverQueue[i]
      BY <1>5, <1>7, <2>4
    <3>3. Waiting(d)' => Waiting(d) BY <3>2 DEF Waiting
    <3>4. Connected(d)' /\ Emptied(d)'
      BY <1>3, <1>9, <2>1, <3>1 DEF Orderly, Connected, Emptied
    <3>5. Asking(d)' /\ Answered(d)'
      BY <1>3, <1>9, <2>1, <2>2, <2>3, <3>1, <3>3 DEF Orderly, Asking, Answered
    <3>6. OneRequest(d)'
      <4>1. \A i \in 1 .. Len(serverQueue') :
              serverQueue'[i].id = d => serverQueue'[i] = Sent(d)'
        BY <2>1, <2>2, <3>2 DEF Orderly, OneRequest
      <4>2. \A i, j \in 1 .. Len(serverQueue') :
              serverQueue'[i].id = d /\ serverQueue'[j].id = d => i = j
        BY <2>1, <3>2 DEF Orderly, OneRequest
      <4>3. Served(d)' => msgs' = Sent(d)' /\ ~Waiting(d)'
        BY <1>3, <2>1, <2>2, <2>3, <3>3 DEF Orderly, OneRequest
      <4> QED BY <4>1, <4>2, <4>3 DEF OneRequest
    <3> QED BY <3>4, <3>5, <3>6 DEF Orderly
  <2>5. CASE d = c
    <3>1. ~Waiting(c) /\ ~Served(c) BY <1>3, <2>1, <2>5 DEF Orderly, Asking
    <3>2. \A i \in 1 .. Len(serverQueue') :
            serverQueue'[i].id = c => i = Len(serverQueue) + 1 /\ serverQueue'[i] = m
      BY <1>7, <3>1 DEF Waiting
    <3>3. Idle(c) /\ ~Idle(c)' BY <1>3, <1>4 DEF Idle
    <3>4. MyQueue(c) # 0 /\ replies[MyQueue(c)] = <<>>
      BY <1>9, <2>1, <2>5, <3>3 DEF Orderly, Connected, Emptied
    <3>5. Connected(c)' BY <1>4, <1>9, <2>1, <2>5 DEF Orderly, Connected
    <3>6. Asking(c)' /\ Emptied(c)' /\ Answered(c)'
      BY <1>3, <1>4, <1>9, <3>3, <3>4 DEF Asking, Emptied, Answered
    <3>7. OneRequest(c)'
      BY <1>2, <2>2, <2>3, <2>5, <3>1, <3>2 DEF OneRequest
    <3> QED BY <2>5, <3>5, <3>6, <3>7 DEF Orderly
  <2> QED BY <2>4, <2>5
<1> QED BY <1>8, <1>10, <1>11, <1>12, <1>13 DEF MqIInv

(* A client starts and opens its queue, or makes it. *)
LEMMA MqClientStartsStep ==
  ASSUME MqIInv, NEW c \in Clients, Mq!ClientStarts(c) PROVE MqIInv'
<1>1. MqTyped BY DEF MqIInv
<1>2. PICK q : q = IF MyQueue(c) = 0 THEN clientRuns + 1 ELSE MyQueue(c) OBVIOUS
<1>3. /\ client[c].at = "off" /\ clientRuns < MaxClientRuns /\ clientRuns' = clientRuns + 1
      /\ clientQueue' = [clientQueue EXCEPT ![MqName(c)] = q]
      /\ client' = [client EXCEPT ![c] = [at |-> "connect", run |-> clientRuns + 1,
                                          mqdc |-> q, mqds |-> 0, got |-> Mq!None]]
      /\ UNCHANGED <<mqProgram, generation, serverQueue, msgs, workers, replies, killed>>
  BY <1>1, <1>2, ServerPrograms DEF Mq!ClientStarts, Mq!serverVars, MyQueue
<1>4. together' = (together \/ \E d \in Clients \ {c} : client[d].at # "off")
  BY DEF Mq!ClientStarts
<1>5. /\ clientRuns \in Nat /\ clientRuns + 1 \in Mq!Runs
      /\ clientRuns' \in 0 .. MaxClientRuns
  BY <1>1, <1>3, ClientAssumption DEF MqTyped, Mq!Runs
<1>6. MqName(c) \in Mq!Names BY <1>1, OwnNames
<1>7. /\ q \in Mq!Runs /\ q # 0
      /\ \A n \in Mq!Names : clientQueue'[n] = IF n = MqName(c) THEN q ELSE clientQueue[n]
      /\ clientQueue' \in [Mq!Names -> {0} \cup Mq!Runs]
  <2>1. clientQueue[MqName(c)] \in {0} \cup Mq!Runs BY <1>1, <1>6 DEF MqTyped
  <2>2. q \in Mq!Runs BY <1>2, <1>5, <2>1 DEF MyQueue
  <2>3. q # 0 BY <1>2, <1>5
  <2> QED BY <1>1, <1>3, <2>2, <2>3 DEF MqTyped
<1>8. /\ client'[c].at = "connect" /\ client'[c].mqdc = q /\ client'[c].run = clientRuns + 1
      /\ \A d \in Clients : d # c => client'[d] = client[d]
  BY <1>1, <1>3 DEF MqTyped
<1>9. MqTyped'
  <2>1. [at |-> "connect", run |-> clientRuns + 1, mqdc |-> q, mqds |-> 0, got |-> Mq!None]
          \in [at : {"off", "connect", "send", "receive", "exit"},
               run : {0} \cup Mq!Runs, mqdc : {0} \cup Mq!Runs,
               mqds : Nat, got : Answer]
    BY <1>5, <1>7 DEF Answer
  <2>2. client' \in [Clients -> [at : {"off", "connect", "send", "receive", "exit"},
                                 run : {0} \cup Mq!Runs, mqdc : {0} \cup Mq!Runs,
                                 mqds : Nat, got : Answer]]
    BY <1>1, <1>3, <2>1 DEF MqTyped
  <2>3. \A d \in Clients :
          client'[d].at # "off" => client'[d].run # 0 /\ client'[d].mqdc # 0
    <3>1. client'[c].run # 0 /\ client'[c].mqdc # 0 BY <1>5, <1>7, <1>8
    <3>2. \A d \in Clients :
            client[d].at # "off" => client[d].run # 0 /\ client[d].mqdc # 0
      BY <1>1 DEF MqTyped
    <3> QED BY <1>8, <3>1, <3>2
  <2>4. together' \in BOOLEAN BY <1>4
  <2> QED BY <1>1, <1>3, <1>5, <1>7, <2>2, <2>3, <2>4 DEF MqTyped
<1>10. /\ Up(c)' /\ ~Up(c)
       /\ \A d \in Clients : d # c => (Up(d)' <=> Up(d))
       /\ together => together'
       /\ ~together' => \A d \in Clients : d # c => ~Up(d)
  BY <1>3, <1>4, <1>8 DEF Up
<1>11. /\ \A d : MqName(d)' = MqName(d) /\ (Fair(d)' => Fair(d))
       /\ OneByOne' => OneByOne
       /\ Mq!Busy' <=> Mq!Busy
  BY <1>3, <1>10 DEF MqName, Fair, OneByOne, Mq!Busy
<1>12. ASSUME NEW d \in Clients, d # c, MqName(d) = MqName(c), Fair(d)' \/ Fair(c)'
       PROVE  client[d].at = "off"
  <2>1. mqProgram = "mqserver1" BY <1>1, <1>12, OwnNames
  <2>2. ~together' BY <1>3, <1>12, <2>1 DEF Fair
  <2> QED BY <1>10, <1>12, <2>2 DEF Up
<1>13. OneUp' BY <1>10 DEF OneUp
<1>14. Queues'
  <2>1. \A n \in Mq!Names : clientQueue[n] <= clientRuns /\ clientQueue[n] \in Nat
    BY <1>1 DEF MqIInv, Queues, MqTyped, Mq!Runs
  <2>2. \A n \in Mq!Names : clientQueue'[n] <= clientRuns + 1
    BY <1>2, <1>5, <1>6, <1>7, <2>1 DEF MyQueue
  <2>3. \A n \in Mq!Names : n # MqName(c) => clientQueue[n] # q
    <3> SUFFICES ASSUME NEW n \in Mq!Names, n # MqName(c) PROVE clientQueue[n] # q
      OBVIOUS
    <3>1. CASE MyQueue(c) = 0 BY <1>2, <1>5, <2>1, <3>1
    <3>2. CASE MyQueue(c) # 0
      BY <1>2, <1>6, <3>2 DEF MqIInv, Queues, MyQueue
    <3> QED BY <3>1, <3>2
  <2>4. \A n, m \in Mq!Names :
          clientQueue'[n] = clientQueue'[m] /\ clientQueue'[n] # 0 => n = m
    BY <1>7, <2>3 DEF MqIInv, Queues
  <2>5. \A r \in Mq!Runs : /\ r > clientRuns + 1 => replies[r] = <<>>
                           /\ workers[r].mqdc <= clientRuns + 1
    <3>1. \A r \in Mq!Runs : r \in Nat /\ workers[r].mqdc \in Nat
      BY <1>1 DEF MqTyped, Mq!Runs
    <3> QED BY <1>5, <3>1 DEF MqIInv, Queues
  <2> QED BY <1>3, <2>2, <2>4, <2>5 DEF Queues
<1>15. \A r \in Mq!Runs, n \in Mq!Names :
         workers[r].mqdc # 0 /\ clientQueue[n] # workers[r].mqdc
           => clientQueue'[n] # workers[r].mqdc
  <2> SUFFICES ASSUME NEW r \in Mq!Runs, NEW n \in Mq!Names,
                      clientQueue[n] # workers[r].mqdc
               PROVE  clientQueue'[n] # workers[r].mqdc
    OBVIOUS
  <2>1. workers[r].mqdc <= clientRuns /\ workers[r].mqdc \in Nat
    BY <1>1 DEF MqIInv, Queues, MqTyped, Mq!Runs
  <2>2. workers[r].mqdc # clientRuns + 1 BY <1>5, <2>1
  <2> QED BY <1>2, <1>7, <2>2 DEF MyQueue
<1>16. ASSUME NEW d \in Clients, d # c, MqName(d) # MqName(c)
       PROVE  MyQueue(d)' = MyQueue(d)
  BY <1>1, <1>7, <1>11, <1>16, OwnNames DEF MyQueue
<1>17. OneServed'
  <2> SUFFICES ASSUME OneByOne', NEW r \in Mq!Runs, workers[r].at # "none"
               PROVE  /\ r = msgs.run
                      /\ workers[r].at \in {"average", "send"} =>
                           /\ workers[r].half = msgs
                           /\ \A n \in Mq!Names :
                                n # MqName(msgs.id) => clientQueue'[n] # workers[r].mqdc
                           /\ Fair(msgs.id)' => workers[r].mqdc = MyQueue(msgs.id)'
    BY <1>3, <1>11 DEF OneServed
  <2>1. r = msgs.run BY <1>11 DEF MqIInv, OneServed
  <2>2. ASSUME workers[r].at \in {"average", "send"}
        PROVE  /\ workers[r].half = msgs
               /\ \A n \in Mq!Names :
                    n # MqName(msgs.id) => clientQueue'[n] # workers[r].mqdc
               /\ Fair(msgs.id)' => workers[r].mqdc = MyQueue(msgs.id)'
    <3>1. /\ workers[r].half = msgs
          /\ \A n \in Mq!Names : n # MqName(msgs.id) => clientQueue[n] # workers[r].mqdc
          /\ Fair(msgs.id) => workers[r].mqdc = MyQueue(msgs.id)
      BY <1>11, <2>2 DEF MqIInv, OneServed
    <3>2. workers[r].mqdc # 0 /\ msgs \in Mq!Request /\ msgs.id \in Clients
      BY <1>1, <2>2 DEF MqTyped, Mq!Request
    <3>3. ASSUME Fair(msgs.id)' PROVE Fair(msgs.id) /\ MyQueue(msgs.id)' = MyQueue(msgs.id)
      <4>0. Fair(msgs.id) BY <1>3, <1>10, <3>3 DEF Fair
      <4>1. Served(msgs.id) BY DEF Served, Mq!Busy
      <4>2. client[msgs.id].at = "receive"
        BY <3>2, <4>0, <4>1 DEF MqIInv, Orderly, Asking
      <4>3. PICK d \in Clients : d = msgs.id BY <3>2
      <4>4. Fair(d)' BY <1>3, <3>3, <4>3 DEF Fair
      <4>5. d # c /\ MqName(d) # MqName(c) BY <1>3, <1>12, <4>2, <4>3, <4>4
      <4>6. MyQueue(d)' = MyQueue(d) BY <1>16, <4>5
      <4>7. MyQueue(msgs.id)' = MyQueue(d)' BY <1>3, <4>3 DEF MyQueue, MqName
      <4> QED BY <4>0, <4>3, <4>6, <4>7
    <3> QED BY <1>15, <3>1, <3>2, <3>3
  <2> QED BY <2>1, <2>2
<1>18. ASSUME NEW d \in Clients, Fair(d)' PROVE Orderly(d)'
  <2>1. Orderly(d) /\ Fair(d) BY <1>11, <1>18 DEF MqIInv
  <2>2. CASE d = c
    <3>1. ~Waiting(c) /\ ~Served(c) BY <1>3, <2>1, <2>2 DEF Orderly, Asking
    <3>2. ~Waiting(c)' /\ ~Served(c)' BY <1>3, <1>11, <3>1 DEF Waiting, Served
    <3>3. \A i \in 1 .. Len(serverQueue') : serverQueue'[i].id # c
      BY <3>2 DEF Waiting
    <3>4. Idle(c) BY <1>3, <1>12, <1>18, <2>2 DEF Idle, Up
    <3>5. MyQueue(c) = 0 \/ replies[MyQueue(c)] = <<>>
      BY <2>1, <2>2, <3>4 DEF Orderly, Emptied
    <3>6. replies[clientRuns + 1] = <<>> BY <1>5 DEF MqIInv, Queues
    <3>7. MyQueue(c)' = q /\ replies'[q] = <<>>
      BY <1>2, <1>3, <1>6, <1>7, <1>11, <3>5, <3>6 DEF MyQueue
    <3>8. Connected(c)' /\ Emptied(c)' BY <1>7, <1>8, <3>7 DEF Connected, Emptied
    <3>9. Asking(c)' /\ Answered(c)' BY <1>8, <3>2 DEF Asking, Answered
    <3>10. OneRequest(c)' BY <3>2, <3>3 DEF OneRequest
    <3> QED BY <2>2, <3>8, <3>9, <3>10 DEF Orderly
  <2>3. CASE d # c /\ MqName(d) = MqName(c)
    <3>1. client[d].at = "off" BY <1>12, <1>18, <2>3
    <3>2. client'[d].at = "off" /\ client[d].at # "receive" BY <1>8, <2>3, <3>1
    <3>3. ~Idle(d)' BY <1>10, <1>11, <2>3, <3>2 DEF Idle
    <3>4. Emptied(d)' BY <3>3 DEF Emptied
    <3> QED BY <1>3, <1>11, <2>1, <3>2, <3>4, OffInOrder
  <2>4. CASE d # c /\ MqName(d) # MqName(c)
    <3>1. client'[d] = client[d] /\ MyQueue(d)' = MyQueue(d) BY <1>8, <1>16, <2>4
    <3>2. Idle(d)' => Idle(d) BY <1>10, <1>11, <2>4, <3>1 DEF Idle
    <3> QED BY <1>3, <1>11, <2>1, <3>1, <3>2, OrderlyKept
  <2> QED BY <2>2, <2>3, <2>4
<1> QED BY <1>9, <1>13, <1>14, <1>17, <1>18 DEF MqIInv

(* A client takes the first reply in its queue. *)
LEMMA MqReceiveReplyStep ==
  ASSUME MqIInv, NEW c \in Clients, Mq!ReceiveReply(c) PROVE MqIInv'
<1>1. MqTyped BY DEF MqIInv
<1>2. PICK q, a : q = client[c].mqdc /\ a = Head(replies[q]) OBVIOUS
<1>3. /\ client[c].at = "receive" /\ replies[q] # <<>>
      /\ client' = [client EXCEPT ![c].at = "exit", ![c].got = a]
      /\ replies' = [replies EXCEPT ![q] = Tail(@)]
      /\ UNCHANGED <<mqProgram, generation, serverQueue, msgs, workers, clientQueue>>
      /\ UNCHANGED <<clientRuns, killed, together>>
  BY <1>2 DEF Mq!ReceiveReply, Mq!ClientStep, Mq!ghostVars
<1>4. /\ client'[c].at = "exit" /\ client'[c].run = client[c].run
      /\ client'[c].mqdc = q /\ client'[c].got = a
      /\ \A d \in Clients : d # c => client'[d] = client[d]
  BY <1>1, <1>2, <1>3 DEF MqTyped
<1>5. q \in Mq!Runs /\ q # 0 BY <1>1, <1>2, <1>3 DEF MqTyped, Mq!Runs
<1>6. PICK rest : rest = Tail(replies[q]) OBVIOUS
<1>7. /\ a \in Answer /\ rest \in Seq(Answer)
      /\ \A x : replies[q] = <<x>> => a = x /\ rest = <<>>
  <2>1. replies[q] \in Seq(Answer) /\ replies[q] # <<>> BY <1>1, <1>3, <1>5 DEF MqTyped
  <2>2. Head(replies[q]) \in Answer /\ Tail(replies[q]) \in Seq(Answer) BY <2>1
  <2>3. \A x : Head(<<x>>) = x /\ Tail(<<x>>) = <<>> OBVIOUS
  <2> QED BY <1>2, <1>6, <2>2, <2>3
<1>8. /\ replies' \in [Mq!Runs -> Seq(Answer)]
      /\ \A i \in Mq!Runs : replies'[i] = IF i = q THEN rest ELSE replies[i]
  <2>1. replies' = [replies EXCEPT ![q] = rest] BY <1>3, <1>6
  <2> QED BY <1>1, <1>7, <2>1 DEF MqTyped
<1>9. MqTyped'
  <2> DEFINE new == [client[c] EXCEPT !.at = "exit", !.got = a]
  <2>1. client[c] \in [at : {"off", "connect", "send", "receive", "exit"},
                       run : {0} \cup Mq!Runs, mqdc : {0} \cup Mq!Runs,
                       mqds : Nat, got : Answer]
    BY <1>1 DEF MqTyped
  <2>2. new \in [at : {"off", "connect", "send", "receive", "exit"},
                 run : {0} \cup Mq!Runs, mqdc : {0} \cup Mq!Runs,
                 mqds : Nat, got : Answer]
    BY <1>7, <2>1
  <2>3. client' = [client EXCEPT ![c] = new] BY <1>3
  <2> HIDE DEF new
  <2>4. client' \in [Clients -> [at : {"off", "connect", "send", "receive", "exit"},
                                 run : {0} \cup Mq!Runs, mqdc : {0} \cup Mq!Runs,
                                 mqds : Nat, got : Answer]]
    BY <1>1, <2>2, <2>3 DEF MqTyped
  <2>5. \A d \in Clients :
          client'[d].at # "off" => client'[d].run # 0 /\ client'[d].mqdc # 0
    BY <1>1, <1>2, <1>3, <1>4 DEF MqTyped
  <2> QED BY <1>1, <1>3, <1>8, <2>4, <2>5 DEF MqTyped
<1>10. /\ Up(c) /\ \A d \in Clients : Up(d)' <=> Up(d)
       /\ \A d : MqName(d)' = MqName(d) /\ MyQueue(d)' = MyQueue(d) /\ (Fair(d)' <=> Fair(d))
       /\ OneByOne' <=> OneByOne
       /\ Mq!Busy' <=> Mq!Busy
  BY <1>3, <1>4 DEF Up, MqName, MyQueue, Fair, OneByOne, Mq!Busy
<1>11. OneUp' BY <1>3, <1>10 DEF MqIInv, OneUp
<1>12. Queues' BY <1>3, <1>8 DEF MqIInv, Queues
<1>13. OneServed' BY <1>3, <1>10 DEF MqIInv, OneServed
<1>14. ASSUME NEW d \in Clients, Fair(d)' PROVE Orderly(d)'
  <2>1. Orderly(d) BY <1>10, <1>14 DEF MqIInv
  <2>2. /\ Sent(d)' = Sent(d) /\ (Served(d)' <=> Served(d)) /\ (Waiting(d)' <=> Waiting(d))
    BY <1>3, <1>4, <1>10 DEF Sent, Served, Waiting
  <2>3. MyQueue(d)' = MyQueue(d) /\ MyQueue(d) \in {0} \cup Mq!Runs
    BY <1>1, <1>10, OwnNames DEF MyQueue, MqTyped
  <2>4. OneRequest(d)' BY <1>3, <2>1, <2>2 DEF Orderly, OneRequest
  <2>5. CASE d = c
    <3>1. MyQueue(c) = q BY <1>2, <1>10, <2>1, <2>5 DEF Orderly, Connected
    <3>2. replies[q] = <<Sent(c)>> BY <1>3, <2>1, <2>5, <3>1 DEF Orderly, Answered
    <3>3. a = Sent(c) /\ replies'[q] = <<>> BY <1>5, <1>7, <1>8, <3>2
    <3>4. ~Waiting(c)' /\ ~Served(c)'
      BY <1>3, <2>1, <2>2, <2>5, <3>1 DEF Orderly, Asking
    <3>5. Connected(c)' /\ Emptied(c)'
      BY <1>4, <1>5, <2>3, <2>5, <3>1, <3>3 DEF Connected, Emptied
    <3>6. Asking(c)' /\ Answered(c)'
      BY <1>4, <2>2, <2>5, <3>3, <3>4 DEF Asking, Answered
    <3> QED BY <2>4, <2>5, <3>5, <3>6 DEF Orderly
  <2>6. CASE d # c /\ MyQueue(d) # q
    <3>1. client'[d] = client[d] /\ (Idle(d)' => Idle(d))
      BY <1>4, <1>10, <2>6 DEF Idle
    <3>2. MyQueue(d) # 0 => replies'[MyQueue(d)] = replies[MyQueue(d)]
      BY <1>8, <2>3, <2>6
    <3> QED BY <1>3, <1>10, <2>1, <2>3, <3>1, <3>2, OrderlyKept
  <2>7. CASE d # c /\ MyQueue(d) = q
    <3>1. client'[d] = client[d] /\ (Idle(d)' => Idle(d))
      BY <1>4, <1>10, <2>7 DEF Idle
    <3>2. ~Idle(d) BY <1>3, <1>5, <2>1, <2>7 DEF Orderly, Emptied
    <3>3. ~Waiting(d) /\ ~Served(d) BY <1>3, <2>1, <2>7 DEF Orderly, Asking
    <3>4. client[d].at = "receive" => replies'[q] = <<>>
      BY <1>3, <1>5, <1>7, <1>8, <2>1, <2>7 DEF Orderly, Answered
    <3>5. Connected(d)' BY <2>1, <2>3, <3>1 DEF Orderly, Connected, Up
    <3>6. Emptied(d)' BY <3>1, <3>2 DEF Emptied
    <3>7. Asking(d)' BY <2>2, <3>3 DEF Asking
    <3>8. client[d].at # "exit" BY <3>2 DEF Idle
    <3>9. Answered(d)' BY <2>3, <2>7, <3>1, <3>4, <3>8 DEF Answered
    <3> QED BY <2>4, <3>5, <3>6, <3>7, <3>9 DEF Orderly
  <2> QED BY <2>5, <2>6, <2>7
<1> QED BY <1>9, <1>11, <1>12, <1>13, <1>14 DEF MqIInv

(* The invariant is inductive, and says what the clients print. *)
LEMMA MqPrintsOwn == Mq!MqSpec => []Mq!PrintsOwnReply
<1>1. Mq!MqInit => MqIInv BY MqStarts
<1>2. MqIInv /\ [Mq!MqNext]_Mq!mqVars => MqIInv'
  <2> SUFFICES ASSUME MqIInv, [Mq!MqNext]_Mq!mqVars PROVE MqIInv' OBVIOUS
  <2>1. CASE UNCHANGED Mq!mqVars
    <3>1. /\ UNCHANGED <<mqProgram, serverQueue, msgs, workers, clientQueue, replies>>
          /\ UNCHANGED <<client, clientRuns, killed, together>> /\ generation' = generation
      BY <2>1 DEF Mq!mqVars, Mq!serverVars, Mq!clientVars, Mq!queueVars, Mq!ghostVars
    <3>2. generation' \in Nat BY <3>1 DEF MqIInv, MqTyped
    <3> QED BY <3>1, <3>2, MqQuiet
  <2>2. CASE Mq!ServerStarts \/ Mq!Interrupted \/ Mq!ServerKilled
    BY <2>2, MqServerSteps
  <2>3. CASE Mq!Receive BY <2>3, MqReceiveStep
  <2>4. ASSUME NEW r \in Mq!Runs, Mq!ThreadWorks(r) PROVE MqIInv'
    BY <2>4, MqOpenStep, MqAverageStep, MqReplyStep DEF Mq!ThreadWorks
  <2>5. ASSUME NEW c \in Clients,
               Mq!ClientStarts(c) \/ Mq!ClientKilled(c) \/ Mq!ClientWorks(c)
        PROVE  MqIInv'
    BY <2>5, MqClientStartsStep, MqClientKilledStep, MqConnectStep, MqSendStep,
       MqReceiveReplyStep, MqClientExitsStep DEF Mq!ClientWorks
  <2> QED BY <2>1, <2>2, <2>3, <2>4, <2>5 DEF Mq!MqNext
<1>3. MqIInv => Mq!PrintsOwnReply
  BY DEF MqIInv, Orderly, Answered, Sent, Fair, Mq!PrintsOwnReply
<1> QED BY <1>1, <1>2, <1>3, PTL DEF Mq!MqSpec

(* For every client, thread of a server, line, kill and restart: with
   mqserver2 a client that was never killed prints the average of its own
   numbers (mqclient2.c 169), with the other servers every client does if the
   clients run one at a time, and p2 prints its own line in upper case
   (practice4b4p2.c 140) unless a p2 was killed. *)
THEOREM OwnReply == Mq!MqSpec /\ Avg!Spec /\ Two!TwoSpec => []PrintsOwnReply
<1>1. Mq!MqSpec => []Mq!PrintsOwnReply BY MqPrintsOwn
<1>2. Avg!Spec => []Avg!PrintsOwnUnlessTogether BY AvgPrintsOwn
<1>3. Two!TwoSpec => []Two!PrintsOwnLine BY TwoPrintsOwn
<1>4. Mq!PrintsOwnReply /\ Avg!PrintsOwnUnlessTogether /\ Two!PrintsOwnLine
        => PrintsOwnReply
  BY DEF PrintsOwnReply
<1> QED BY <1>1, <1>2, <1>3, <1>4, PTL
=============================================================================
