-------------------------- MODULE ShmBufferProofs ---------------------------
(***************************************************************************)
(* The safety of ShmBuffer, for any number of executions of the two        *)
(* programs, of children and of kills, and every size of the ring; and     *)
(* that the ring implements a bounded first-in-first-out queue.            *)
(***************************************************************************)
EXTENDS ShmBuffer, FiniteSetTheorems, TLAPS

(* Who is where: the counts that Conservation and Held are made of. *)
InHand   == Units(Kid, {"lock", "access", "advance", "unlock", "last"})
AtMemory == Units(Kid, {"access", "advance", "unlock"})
Written  == Units(Producers, {"advance", "unlock", "last"})
Claimed  == Units(Consumers, {"lock", "access"})
ToWrite  == Units(Producers, {"lock", "access"})
WasRead  == Units(Consumers, {"advance", "unlock", "last"})
InBehind  == Units(Producers, {"advance"})
OutBehind == Units(Consumers, {"advance"})

One(x, K, l, L) == IF x \in K /\ l \in L THEN 1 ELSE 0

(* There are finitely many children, each a producer or a consumer. *)
LEMMA FiniteKids == IsFiniteSet(Kid) /\ Producers \cap Consumers = {}
<1>1. IsFiniteSet(ProducerRuns) /\ IsFiniteSet(ConsumerRuns)
  <2>1. /\ ProducerRuns \subseteq ProducerRuns \cup ConsumerRuns
        /\ ConsumerRuns \subseteq ProducerRuns \cup ConsumerRuns
    OBVIOUS
  <2> QED BY <2>1, ShmBufferAssumption, FS_Subset
<1>2. IsFiniteSet(1 .. num)
  BY ShmBufferAssumption, FS_Interval
<1>3. IsFiniteSet(Producers) /\ IsFiniteSet(Consumers)
  BY <1>1, <1>2, FS_Product DEF Producers, Consumers
<1>4. Producers \cap Consumers = {}
  BY ShmBufferAssumption DEF Producers, Consumers
<1> QED BY <1>3, <1>4, FS_Union DEF Kid

(* A child that moves leaves one location and enters another. *)
LEMMA UnitsMove ==
  ASSUME NEW t \in Kid, NEW to,
         \A k \in Kid : pc'[k] = IF k = t THEN to ELSE pc[k],
         NEW K \in SUBSET Kid, NEW L
  PROVE  /\ Units(K, L) \in Nat /\ Units(K, L)' \in Nat
         /\ Units(K, L)' = Units(K, L) + One(t, K, to, L) - One(t, K, pc[t], L)
<1> DEFINE Before == {k \in K : pc[k] \in L}
           After  == {k \in K : pc'[k] \in L}
<1>1. IsFiniteSet(Before) /\ IsFiniteSet(After)
  BY FiniteKids, FS_Subset
<1>2. Cardinality(Before) \in Nat /\ Cardinality(After) \in Nat
  BY <1>1, FS_CardinalityType
<1>3. /\ t \in K /\ to \in L => After = Before \cup {t}
      /\ t \in K /\ to \notin L => After = Before \ {t}
      /\ t \notin K => After = Before
  OBVIOUS
<1>4. t \in K => (t \in Before <=> pc[t] \in L)
  OBVIOUS
<1>5. Units(K, L) = Cardinality(Before) /\ Units(K, L)' = Cardinality(After)
  BY Zenon DEF Units
<1> HIDE DEF Before, After
<1>6. t \in K /\ to \in L => Cardinality(After) =
        IF t \in Before THEN Cardinality(Before) ELSE Cardinality(Before) + 1
  <2>1. Cardinality(Before \cup {t}) =
          IF t \in Before THEN Cardinality(Before) ELSE Cardinality(Before) + 1
    BY <1>1, FS_AddElement
  <2> QED BY <1>3, <2>1, Zenon
<1>7. t \in K /\ to \notin L => Cardinality(After) =
        IF t \in Before THEN Cardinality(Before) - 1 ELSE Cardinality(Before)
  BY <1>1, <1>3, FS_RemoveElement, Zenon
<1>8. t \notin K => Cardinality(After) = Cardinality(Before)
  BY <1>3, Zenon
<1> QED BY <1>2, <1>4, <1>5, <1>6, <1>7, <1>8 DEF One

(* The same for all the counts. *)
CountsMoved(t, from, to) ==
  /\ InHand' = InHand + One(t, Kid, to, {"lock", "access", "advance", "unlock", "last"})
                - One(t, Kid, from, {"lock", "access", "advance", "unlock", "last"})
  /\ AtMemory' = AtMemory + One(t, Kid, to, {"access", "advance", "unlock"})
                  - One(t, Kid, from, {"access", "advance", "unlock"})
  /\ Written' = Written + One(t, Producers, to, {"advance", "unlock", "last"})
                 - One(t, Producers, from, {"advance", "unlock", "last"})
  /\ Claimed' = Claimed + One(t, Consumers, to, {"lock", "access"})
                 - One(t, Consumers, from, {"lock", "access"})
  /\ ToWrite' = ToWrite + One(t, Producers, to, {"lock", "access"})
                 - One(t, Producers, from, {"lock", "access"})
  /\ WasRead' = WasRead + One(t, Consumers, to, {"advance", "unlock", "last"})
                 - One(t, Consumers, from, {"advance", "unlock", "last"})
  /\ InBehind' = InBehind + One(t, Producers, to, {"advance"})
                  - One(t, Producers, from, {"advance"})
  /\ OutBehind' = OutBehind + One(t, Consumers, to, {"advance"})
                   - One(t, Consumers, from, {"advance"})

(* A child's move changes every count by where it leaves and arrives. *)
LEMMA CountsMove ==
  ASSUME NEW t \in Kid, NEW from, NEW to, pc[t] = from,
         \A k \in Kid : pc'[k] = IF k = t THEN to ELSE pc[k]
  PROVE  CountsMoved(t, from, to)
<1>1. Kid \in SUBSET Kid /\ Producers \in SUBSET Kid /\ Consumers \in SUBSET Kid
  BY DEF Kid
<1>2. \A K \in SUBSET Kid : \A L :
        Units(K, L)' = Units(K, L) + One(t, K, to, L) - One(t, K, pc[t], L)
  BY UnitsMove
<1> QED BY <1>1, <1>2
        DEF InHand, AtMemory, Written, Claimed, ToWrite, WasRead, InBehind, OutBehind,
            CountsMoved

(* They are numbers. *)
CountsNat ==
  /\ InHand \in Nat /\ AtMemory \in Nat /\ Written \in Nat /\ Claimed \in Nat
  /\ ToWrite \in Nat /\ WasRead \in Nat /\ InBehind \in Nat /\ OutBehind \in Nat

(* The counts are naturals, *)
LEMMA CountsAreNatNow == CountsNat
<1>1. ASSUME NEW K \in SUBSET Kid, NEW L PROVE Units(K, L) \in Nat
  <2>1. IsFiniteSet({k \in K : pc[k] \in L}) BY FiniteKids, FS_Subset
  <2> QED BY <2>1, FS_CardinalityType DEF Units
<1>2. Kid \in SUBSET Kid /\ Producers \in SUBSET Kid /\ Consumers \in SUBSET Kid
  BY DEF Kid
<1> QED BY <1>1, <1>2
        DEF InHand, AtMemory, Written, Claimed, ToWrite, WasRead, InBehind, OutBehind,
            CountsNat

(* and so they are after a step. *)
LEMMA CountsAreNat == CountsNat /\ CountsNat'
  BY CountsAreNatNow, PTL
-----------------------------------------------------------------------------
(* Types.  Both indices stay in the ring, for every size. *)
LEMMA Wraps ==
  /\ \A x \in Slots : (x + 1) % BUF_SIZE \in Slots
  /\ 0 \in Slots
  BY ShmBufferAssumption DEF Slots

(* The initial state has its type. *)
LEMMA InitType == Init => TypeOK
<1>1. 0 \in Values BY ShmBufferAssumption DEF Values
<1> QED BY <1>1, Wraps DEF Init, TypeOK

(* The steps of the mains. *)
LEMMA MainType == ASSUME TypeOK, NEW r \in Run, Start(r) \/ Main(r) PROVE TypeOK'
<1> USE DEF TypeOK, MainMoves, At, Goto, memory
<1>1. CASE Start(r) BY <1>1 DEF Start
<1>2. ASSUME NEW n \in SemNames, NEW next \in {"empty", "mutex", "shm"}, OpenSem(r, n, next)
      PROVE  TypeOK'
  <2>1. InitialValue[n] \in Nat
    BY ShmBufferAssumption DEF InitialValue, SemNames
  <2>2. sem' \in [SemNames -> Nat \cup {Missing}]
    BY <1>2, <2>1 DEF OpenSem
  <2> QED BY <1>2, <2>2 DEF OpenSem
<1>3. CASE OpenSems(r) BY <1>2, <1>3 DEF OpenSems, SemNames
<1>4. CASE OpenShm(r)
  <2>1. main' \in [Run -> {"idle", "full", "empty", "mutex", "shm", "ftruncate",
                           "in", "out", "fork", "wait", "unlink", "exited"}]
    BY <1>4 DEF OpenShm
  <2> QED BY <1>4, <2>1 DEF OpenShm
<1>5. CASE Truncate(r) BY <1>5 DEF Truncate
<1>6. CASE ResetIn(r) BY <1>6, Wraps DEF ResetIn
<1>7. CASE ResetOut(r) BY <1>7, Wraps DEF ResetOut
<1>8. ASSUME NEW i \in 1 .. num, Fork(r, i) PROVE TypeOK'
  BY <1>8 DEF Fork, NextToFork
<1>9. CASE AllReaped(r) BY <1>9 DEF AllReaped
<1>10. CASE Unlink(r) BY <1>10 DEF Unlink
<1> QED BY <1>1, <1>3, <1>4, <1>5, <1>6, <1>7, <1>8, <1>9, <1>10 DEF Main

(* The steps of the children. *)
LEMMA WorkType == ASSUME TypeOK, NEW k \in Kid, Work(k) PROVE TypeOK'
<1> USE DEF TypeOK, memory
<1>1. ASSUME NEW from, NEW to \in {"first", "lock", "access", "advance", "unlock", "last"},
             Step(k, from, to)
      PROVE  /\ pc' \in [Kid -> {"unborn", "first", "lock", "access", "advance",
                                  "unlock", "last"}]
             /\ UNCHANGED <<shm, main, killed, retired, disturbed>>
  BY <1>1 DEF Step
<1>2. ASSUME NEW n \in SemNames, NEW from,
             NEW to \in {"first", "lock", "access", "advance", "unlock", "last"},
             SemWait(k, n, from, to) \/ SemPost(k, n, from, to)
      PROVE  TypeOK'
  <2>1. sem' \in [SemNames -> Nat \cup {Missing}]
    BY <1>2 DEF SemWait, SemPost, Missing
  <2> QED BY <1>1, <1>2, <2>1 DEF SemWait, SemPost
<1>3. ASSUME NEW n \in SemNames, TakeSlot(k, n) \/ Lock(k) \/ Unlock(k) \/ GiveSlot(k, n)
      PROVE  TypeOK'
  BY <1>2, <1>3 DEF TakeSlot, Lock, Unlock, GiveSlot, SemNames
<1>4. CASE Write(k) BY <1>1, <1>4 DEF Write
<1>5. CASE AdvanceIn(k) BY <1>1, <1>5, Wraps DEF AdvanceIn
<1>6. CASE Read(k) BY <1>1, <1>6 DEF Read
<1>7. CASE AdvanceOut(k) BY <1>1, <1>7, Wraps DEF AdvanceOut
<1> QED BY <1>3, <1>4, <1>5, <1>6, <1>7 DEF Work, producer, consumer, SemNames

(* A failed open or map keeps the types. *)
LEMMA FailType == ASSUME TypeOK, Fail PROVE TypeOK'
<1> USE DEF TypeOK, memory
<1>1. ASSUME NEW r \in Run, KillMain(r) PROVE TypeOK' BY <1>1 DEF KillMain
<1>2. ASSUME NEW r \in Run, NEW i \in 1 .. num, ForkFails(r, i) PROVE TypeOK'
  BY <1>2 DEF ForkFails, Goto
<1>3. ASSUME NEW k \in Kid, KillKid(k) PROVE TypeOK' BY <1>3 DEF KillKid
<1> QED BY <1>1, <1>2, <1>3 DEF Fail

(* Every step keeps the types. *)
LEMMA StepType == TypeOK /\ [Next]_vars => TypeOK'
<1> SUFFICES ASSUME TypeOK, [Next]_vars PROVE TypeOK' OBVIOUS
<1>1. CASE UNCHANGED vars BY <1>1 DEF vars, memory, TypeOK
<1> QED BY <1>1, MainType, WorkType, FailType DEF Next
-----------------------------------------------------------------------------
(* Every main opens the semaphores in the same order before it forks, so who
   was forked finds them all; and nothing is in an object nobody uses yet. *)
Past == {"shm", "ftruncate", "in", "out", "fork", "wait", "unlink"}

Opened ==
  /\ \A r \in Run :
       /\ main[r] \in {"empty", "mutex"} \cup Past => sem["full"] # Missing
       /\ main[r] \in {"mutex"} \cup Past => sem["empty"] # Missing
       /\ main[r] \in Past => sem["mutex"] # Missing
  /\ sem["empty"] # Missing => sem["full"] # Missing
  /\ sem["mutex"] # Missing => sem["empty"] # Missing
  /\ sem["empty"] = Missing => sem["full"] \in {0, Missing}
  /\ sem["mutex"] = Missing => \A k \in Kid : pc[k] = "unborn"

(* A child that was forked works on three semaphores. *)
LEMMA SemsOfKids ==
  ASSUME TypeOK, Opened, NEW k \in Kid, pc[k] # "unborn"
  PROVE  sem["full"] \in Nat /\ sem["empty"] \in Nat /\ sem["mutex"] \in Nat
  BY DEF TypeOK, Opened, SemNames, Missing

(* Every step keeps what the mains have opened. *)
LEMMA OpenedStep == TypeOK /\ Opened /\ [Next]_vars => Opened'
<1> SUFFICES ASSUME TypeOK, Opened, [Next]_vars PROVE Opened' OBVIOUS
<1> USE DEF TypeOK, Opened, Past, SemNames
<1>1. ASSUME NEW r \in Run, Start(r) \/ Main(r) PROVE Opened'
  <2> USE DEF MainMoves, At, Goto
  <2>1. CASE Start(r) BY <1>1, <2>1 DEF Start
  <2>2. CASE OpenSem(r, "full", "empty")
    BY <2>2 DEF OpenSem, InitialValue
  <2>3. CASE OpenSem(r, "empty", "mutex")
    BY <2>3, ShmBufferAssumption DEF OpenSem, InitialValue, Missing
  <2>4. CASE OpenSem(r, "mutex", "shm")
    BY <2>4 DEF OpenSem, InitialValue, Missing
  <2>5. CASE OpenShm(r)
    <3>1. /\ \A q \in Run \ {r} : main'[q] = main[q]
          /\ main[r] = "shm" /\ main'[r] \in {"ftruncate", "in", "exited"}
      BY <2>5 DEF OpenShm
    <3> QED BY <2>5, <3>1 DEF OpenShm
  <2>6. CASE Truncate(r) BY <2>6 DEF Truncate
  <2>7. CASE ResetIn(r) BY <2>7 DEF ResetIn
  <2>8. CASE ResetOut(r) BY <2>8 DEF ResetOut
  <2>9. ASSUME NEW i \in 1 .. num, Fork(r, i) PROVE Opened'
    BY <2>9 DEF Fork, NextToFork
  <2>10. CASE AllReaped(r) BY <2>10 DEF AllReaped
  <2>11. CASE Unlink(r) BY <2>11 DEF Unlink
  <2> QED BY <1>1, <2>1, <2>2, <2>3, <2>4, <2>5, <2>6, <2>7, <2>8, <2>9, <2>10, <2>11
          DEF Main, OpenSems
<1>2. ASSUME NEW k \in Kid, Work(k) PROVE Opened'
  <2>1. pc[k] # "unborn" /\ UNCHANGED main
    BY <1>2 DEF Work, producer, consumer, TakeSlot, Lock, Write, Read, AdvanceIn,
                AdvanceOut, Unlock, GiveSlot, SemWait, SemPost, Step
  <2>2. sem["full"] \in Nat /\ sem["empty"] \in Nat /\ sem["mutex"] \in Nat
    BY <2>1, SemsOfKids
  <2>3. sem'["full"] \in Nat /\ sem'["empty"] \in Nat /\ sem'["mutex"] \in Nat
    BY <1>2, <2>2 DEF Work, producer, consumer, TakeSlot, Lock, Write, Read, AdvanceIn,
                AdvanceOut, Unlock, GiveSlot, SemWait, SemPost
  <2>4. -1 \notin Nat OBVIOUS
  <2> QED BY <2>1, <2>3, <2>4 DEF Missing
<1>3. CASE Fail
  <2>1. UNCHANGED <<sem, pc>>
    BY <1>3 DEF Fail, KillMain, ForkFails, KillKid
  <2>2. \A q \in Run : main'[q] \in {main[q], "exited"}
    BY <1>3 DEF Fail, KillMain, ForkFails, KillKid, Goto
  <2> QED BY <2>1, <2>2
<1>4. CASE UNCHANGED vars BY <1>4 DEF vars
<1> QED BY <1>1, <1>2, <1>3, <1>4 DEF Next
-----------------------------------------------------------------------------
(* The semaphores and the children add up: Conservation in terms of the
   counts, and the same sum again by what the ring holds. *)
Kept ==
  /\ sem["full"] # Missing /\ sem["empty"] # Missing =>
       sem["full"] + sem["empty"] + InHand = BUF_SIZE
  /\ sem["mutex"] # Missing => sem["mutex"] = 1 - AtMemory
  /\ sem["mutex"] # Missing =>
       (sem["full"] + sem["empty"]) + ((Written + ToWrite) + (Claimed + WasRead)) = BUF_SIZE

(* It is Conservation and a second way to count the slots. *)
LEMMA KeptConserves == Kept => Conservation
  BY DEF Kept, Conservation, InHand, AtMemory

(* The counts look at children only past their first wait. *)
LEMMA NobodyCounted ==
  ASSUME \A k \in Kid : pc[k] = "unborn"
  PROVE  /\ InHand = 0 /\ AtMemory = 0 /\ Written = 0 /\ Claimed = 0
         /\ ToWrite = 0 /\ WasRead = 0 /\ InBehind = 0 /\ OutBehind = 0
<1>1. ASSUME NEW K \in SUBSET Kid, NEW L, "unborn" \notin L PROVE Units(K, L) = 0
  <2>1. {k \in K : pc[k] \in L} = {} BY <1>1
  <2> QED BY <2>1, FS_EmptySet DEF Units
<1>2. Kid \in SUBSET Kid /\ Producers \in SUBSET Kid /\ Consumers \in SUBSET Kid
  BY DEF Kid
<1> QED BY <1>1, <1>2
        DEF InHand, AtMemory, Written, Claimed, ToWrite, WasRead, InBehind, OutBehind

(* A step that moves no child, or only lets one be born, leaves the counts. *)
CountsStay ==
  UNCHANGED <<InHand, AtMemory, Written, Claimed, ToWrite, WasRead, InBehind, OutBehind>>

(* Births and steps of the mains are such. *)
LEMMA CountsStayWith ==
  ASSUME TypeOK,
         UNCHANGED pc \/ \E r \in Run, i \in 1 .. num : Fork(r, i)
  PROVE  CountsStay
<1>1. CASE UNCHANGED pc
  BY <1>1 DEF CountsStay, InHand, AtMemory, Written, Claimed, ToWrite, WasRead,
              InBehind, OutBehind, Units
<1>2. ASSUME NEW r \in Run, NEW i \in 1 .. num, Fork(r, i) PROVE CountsStay
  <2>1. <<r, i>> \in Kid
    BY DEF Run, Kid, Producers, Consumers
  <2>2. /\ pc[<<r, i>>] = "unborn"
        /\ \A k \in Kid : pc'[k] = IF k = <<r, i>> THEN "first" ELSE pc[k]
    BY <1>2, <2>1 DEF Fork, NextToFork, TypeOK
  <2>3. /\ InHand' = InHand /\ AtMemory' = AtMemory /\ Written' = Written
        /\ Claimed' = Claimed /\ ToWrite' = ToWrite /\ WasRead' = WasRead
        /\ InBehind' = InBehind /\ OutBehind' = OutBehind
    BY <2>1, <2>2, CountsMove, CountsAreNat DEF CountsMoved, CountsNat, One
  <2> QED BY <2>3 DEF CountsStay
<1> QED BY <1>1, <1>2

(* A child's step, one child at a time. *)
LEMMA StepIsPointwise ==
  ASSUME TypeOK, NEW k \in Kid, NEW from, NEW to, Step(k, from, to)
  PROVE  pc[k] = from /\ \A j \in Kid : pc'[j] = IF j = k THEN to ELSE pc[j]
  BY DEF Step, TypeOK

(* What it does to the counts. *)
LEMMA CountsOfStep ==
  ASSUME TypeOK, NEW k \in Kid, NEW from, NEW to, Step(k, from, to)
  PROVE  CountsMoved(k, from, to)
  BY StepIsPointwise, CountsMove

(* The mains create semaphores with their initial values, before there is a child. *)
LEMMA KeptMain == ASSUME TypeOK, Opened, Kept, NEW r \in Run, Start(r) \/ Main(r)
                  PROVE  Kept'
<1>1. CountsStay
  BY CountsStayWith DEF Start, Main, OpenSems, OpenSem, OpenShm, Truncate, ResetIn,
                        ResetOut, AllReaped, Unlink
<1>2. CASE UNCHANGED sem BY <1>1, <1>2 DEF Kept, CountsStay
<1>3. CASE OpenSem(r, "full", "empty") /\ sem' # sem
  <2>1. sem["full"] = Missing /\ sem["empty"] = Missing /\ sem["mutex"] = Missing
    BY <1>3 DEF OpenSem, Opened
  <2>2. sem'["empty"] = Missing /\ sem'["mutex"] = Missing
    BY <1>3, <2>1 DEF OpenSem, TypeOK, SemNames
  <2> QED BY <2>2 DEF Kept
<1>4. CASE OpenSem(r, "empty", "mutex") /\ sem' # sem
  <2>1. sem["full"] = 0 /\ sem["empty"] = Missing /\ sem["mutex"] = Missing
    BY <1>4 DEF OpenSem, Opened, MainMoves, At
  <2>2. sem'["full"] = 0 /\ sem'["empty"] = BUF_SIZE /\ sem'["mutex"] = Missing
    BY <1>4, <2>1 DEF OpenSem, TypeOK, SemNames, InitialValue
  <2>3. InHand = 0 BY <2>1, NobodyCounted DEF Opened
  <2> QED BY <1>1, <2>2, <2>3, ShmBufferAssumption DEF Kept, CountsStay
<1>5. CASE OpenSem(r, "mutex", "shm") /\ sem' # sem
  <2>1. sem["full"] # Missing /\ sem["empty"] # Missing /\ sem["mutex"] = Missing
    BY <1>5 DEF OpenSem, Opened, MainMoves, At
  <2>2. sem'["full"] = sem["full"] /\ sem'["empty"] = sem["empty"] /\ sem'["mutex"] = 1
    BY <1>5, <2>1 DEF OpenSem, TypeOK, SemNames, InitialValue
  <2>3. /\ InHand = 0 /\ AtMemory = 0 /\ Written = 0 /\ Claimed = 0
        /\ ToWrite = 0 /\ WasRead = 0
    BY <2>1, NobodyCounted DEF Opened
  <2>4. sem["full"] \in Nat /\ sem["empty"] \in Nat
    BY <2>1 DEF TypeOK, SemNames
  <2> QED BY <1>1, <2>1, <2>2, <2>3, <2>4 DEF Kept, CountsStay
<1> QED BY <1>2, <1>3, <1>4, <1>5
        DEF Start, Main, OpenSems, OpenShm, Truncate, ResetIn, ResetOut, Fork,
            AllReaped, Unlink

(* Waiting for a semaphore and posting it moves one unit between the
   semaphore and the hands of a child. *)
LEMMA KeptWork == ASSUME TypeOK, Opened, Kept, NEW k \in Kid, Work(k)
                  PROVE  Kept'
<1>1. pc[k] # "unborn"
  BY DEF Work, producer, consumer, TakeSlot, Lock, Write, Read, AdvanceIn,
         AdvanceOut, Unlock, GiveSlot, SemWait, SemPost, Step
<1>2. /\ sem["full"] \in Nat /\ sem["empty"] \in Nat /\ sem["mutex"] \in Nat
      /\ \A n \in SemNames : sem[n] # Missing
  BY <1>1, SemsOfKids DEF SemNames, Missing
<1>3. /\ sem["full"] + sem["empty"] + InHand = BUF_SIZE
      /\ sem["mutex"] = 1 - AtMemory
      /\ (sem["full"] + sem["empty"]) + ((Written + ToWrite) + (Claimed + WasRead)) = BUF_SIZE
  BY <1>2 DEF Kept, SemNames
<1>4. k \in Producers => k \notin Consumers
  BY FiniteKids
<1>5. k \in Producers \/ k \in Consumers
  BY DEF Kid
<1>6. ASSUME NEW from, NEW to, Step(k, from, to), UNCHANGED sem,
             \/ from = "access" /\ to = "advance"
             \/ from = "advance" /\ to = "unlock"
      PROVE  Kept'
  <2>0. CountsMoved(k, from, to) BY <1>6, CountsOfStep
  <2>1. /\ InHand' = InHand /\ AtMemory' = AtMemory
        /\ Written' + ToWrite' = Written + ToWrite
        /\ Claimed' + WasRead' = Claimed + WasRead
    <3>1. CASE k \in Producers
      BY <1>4, <1>6, <2>0, <3>1, CountsAreNat DEF One, CountsMoved, CountsNat
    <3>2. CASE k \in Consumers
      BY <1>4, <1>6, <2>0, <3>2, CountsAreNat DEF One, CountsMoved, CountsNat
    <3> QED BY <1>5, <3>1, <3>2
  <2>2. sem' = sem BY <1>6
  <2>3. sem["full"] + sem["empty"] + InHand' = BUF_SIZE BY <1>3, <2>1
  <2>4. sem["mutex"] = 1 - AtMemory' BY <1>3, <2>1
  <2>5. (sem["full"] + sem["empty"]) + ((Written' + ToWrite') + (Claimed' + WasRead')) = BUF_SIZE
    BY <1>3, <2>1
  <2> QED BY <2>2, <2>3, <2>4, <2>5 DEF Kept
<1>7. ASSUME NEW n \in SemNames, NEW d \in {1, -1}, NEW from, NEW to, Step(k, from, to),
             sem' = [sem EXCEPT ![n] = @ + d],
             \/ from = "first" /\ to = "lock" /\ d = -1
                  /\ n = (IF k \in Producers THEN "empty" ELSE "full")
             \/ from = "last" /\ to = "first" /\ d = 1
                  /\ n = (IF k \in Producers THEN "full" ELSE "empty")
      PROVE  Kept'
  <2>0. CountsMoved(k, from, to) BY <1>7, CountsOfStep
  <2>1. \A m \in SemNames : sem'[m] = IF m = n THEN sem[m] + d ELSE sem[m]
    BY <1>7 DEF TypeOK
  <2>2. /\ InHand' = InHand - d /\ AtMemory' = AtMemory
        /\ (Written' + ToWrite') + (Claimed' + WasRead')
             = ((Written + ToWrite) + (Claimed + WasRead)) - d
    <3>1. CASE k \in Producers
      BY <1>4, <1>7, <2>0, <3>1, CountsAreNat DEF One, CountsMoved, CountsNat
    <3>2. CASE k \in Consumers
      BY <1>4, <1>7, <2>0, <3>2, CountsAreNat DEF One, CountsMoved, CountsNat
    <3> QED BY <1>5, <3>1, <3>2
  <2>3. /\ sem'["full"] + sem'["empty"] = sem["full"] + sem["empty"] + d
        /\ sem'["mutex"] = sem["mutex"] /\ sem'["full"] \in Int /\ sem'["empty"] \in Int
    BY <1>2, <1>7, <2>1 DEF SemNames
  <2>4. (sem'["full"] + sem'["empty"]) + InHand' = BUF_SIZE
    BY <1>2, <1>3, <2>2, <2>3, CountsAreNat DEF CountsNat
  <2>5. sem'["mutex"] = 1 - AtMemory' BY <1>3, <2>2, <2>3
  <2>6. (sem'["full"] + sem'["empty"]) + ((Written' + ToWrite') + (Claimed' + WasRead')) = BUF_SIZE
    <3> DEFINE all == (Written + ToWrite) + (Claimed + WasRead)
    <3>1. all \in Int BY CountsAreNat DEF CountsNat
    <3>2. (Written' + ToWrite') + (Claimed' + WasRead') = all - d BY <2>2
    <3>3. (sem["full"] + sem["empty"]) + all = BUF_SIZE BY <1>3
    <3> HIDE DEF all
    <3> QED BY <1>2, <2>3, <3>1, <3>2, <3>3
  <2> QED BY <2>4, <2>5, <2>6 DEF Kept
<1>8. ASSUME NEW d \in {1, -1}, NEW from, NEW to, Step(k, from, to),
             sem' = [sem EXCEPT !["mutex"] = @ + d],
             \/ from = "lock" /\ to = "access" /\ d = -1
             \/ from = "unlock" /\ to = "last" /\ d = 1
      PROVE  Kept'
  <2>0. CountsMoved(k, from, to) BY <1>8, CountsOfStep
  <2>1. /\ sem'["full"] = sem["full"] /\ sem'["empty"] = sem["empty"]
        /\ sem'["mutex"] = sem["mutex"] + d
    BY <1>8 DEF TypeOK, SemNames
  <2>2. /\ InHand' = InHand /\ AtMemory' = AtMemory - d
        /\ Written' + ToWrite' = Written + ToWrite
        /\ Claimed' + WasRead' = Claimed + WasRead
    <3>1. CASE k \in Producers
      BY <1>4, <1>8, <2>0, <3>1, CountsAreNat DEF One, CountsMoved, CountsNat
    <3>2. CASE k \in Consumers
      BY <1>4, <1>8, <2>0, <3>2, CountsAreNat DEF One, CountsMoved, CountsNat
    <3> QED BY <1>5, <3>1, <3>2
  <2>3. (sem'["full"] + sem'["empty"]) + InHand' = BUF_SIZE BY <1>3, <2>1, <2>2
  <2>4. sem'["mutex"] = 1 - AtMemory'
    BY <1>2, <1>3, <2>1, <2>2, CountsAreNat DEF CountsNat
  <2>5. (sem'["full"] + sem'["empty"]) + ((Written' + ToWrite') + (Claimed' + WasRead')) = BUF_SIZE
    BY <1>3, <2>1, <2>2
  <2> QED BY <2>3, <2>4, <2>5 DEF Kept
<1>9. CASE producer(k)
  BY <1>6, <1>7, <1>8, <1>9 DEF producer, TakeSlot, GiveSlot, Lock, Unlock, Write, AdvanceIn,
                                SemWait, SemPost, SemNames
<1>10. CASE consumer(k)
  BY <1>4, <1>6, <1>7, <1>8, <1>10 DEF consumer, TakeSlot, GiveSlot, Lock, Unlock, Read,
                                AdvanceOut, SemWait, SemPost, SemNames
<1> QED BY <1>9, <1>10 DEF Work

(* Every step keeps the slots. *)
LEMMA KeptStep == TypeOK /\ Opened /\ Kept /\ [Next]_vars => Kept'
<1> SUFFICES ASSUME TypeOK, Opened, Kept, [Next]_vars PROVE Kept' OBVIOUS
<1>1. CASE Fail \/ UNCHANGED vars
  <2>1. UNCHANGED <<sem, pc>>
    BY <1>1 DEF Fail, KillMain, ForkFails, KillKid, vars
  <2> QED BY <2>1, CountsStayWith DEF Kept, CountsStay
<1> QED BY <1>1, KeptMain, KeptWork DEF Next
-----------------------------------------------------------------------------
(* Arithmetic on the ring: sums of a position and a count wrap round once. *)
Wrapped(x) == IF x < BUF_SIZE THEN x ELSE x - BUF_SIZE

(* Below twice the size, the remainder is one subtraction. *)
LEMMA WrapsOnce == \A x \in 0 .. (2 * BUF_SIZE - 1) : x % BUF_SIZE = Wrapped(x)
<1> SUFFICES ASSUME NEW x \in 0 .. (2 * BUF_SIZE - 1) PROVE x % BUF_SIZE = Wrapped(x)
  OBVIOUS
<1> USE ShmBufferAssumption
<1>1. CASE x < BUF_SIZE BY <1>1 DEF Wrapped
<1>2. CASE x >= BUF_SIZE
  <2>1. x - BUF_SIZE \in 0 .. (BUF_SIZE - 1) BY <1>2
  <2>2. \A a \in 0 .. (BUF_SIZE - 1) : (BUF_SIZE + a) % BUF_SIZE = a OBVIOUS
  <2>3. (BUF_SIZE + (x - BUF_SIZE)) % BUF_SIZE = x - BUF_SIZE BY <2>1, <2>2
  <2>4. BUF_SIZE + (x - BUF_SIZE) = x OBVIOUS
  <2> QED BY <1>2, <2>3, <2>4 DEF Wrapped
<1> QED BY <1>1, <1>2

(* An index that was wrapped may be added to as if it had not been. *)
LEMMA WrapsLater ==
  ASSUME NEW x \in 0 .. BUF_SIZE, NEW y \in 0 .. (BUF_SIZE - 1)
  PROVE  ((x % BUF_SIZE) + y) % BUF_SIZE = (x + y) % BUF_SIZE
<1> USE ShmBufferAssumption
<1>1. x % BUF_SIZE = Wrapped(x) /\ (x + y) % BUF_SIZE = Wrapped(x + y)
  BY WrapsOnce
<1>2. (Wrapped(x) + y) % BUF_SIZE = Wrapped(Wrapped(x) + y)
  BY WrapsOnce DEF Wrapped
<1> QED BY <1>1, <1>2 DEF Wrapped

(* Two places less than a round apart are different. *)
LEMMA PlacesDiffer ==
  ASSUME NEW x \in 0 .. (BUF_SIZE - 1), NEW y \in 0 .. (BUF_SIZE - 1),
         NEW z \in 0 .. (BUF_SIZE - 1), y # z
  PROVE  (x + y) % BUF_SIZE # (x + z) % BUF_SIZE
  BY WrapsOnce, ShmBufferAssumption DEF Wrapped

(* At most one child is at the memory, and the indices are at most one step
   behind the values. *)
LEMMA Alone ==
  ASSUME TypeOK, Opened, Kept, NEW k \in Kid, pc[k] \in {"access", "advance", "unlock"}
  PROVE  /\ InBehind  = One(k, Producers, pc[k], {"advance"})
         /\ OutBehind = One(k, Consumers, pc[k], {"advance"})
<1> DEFINE there == {j \in Kid : pc[j] \in {"access", "advance", "unlock"}}
<1>1. sem["mutex"] \in Nat /\ sem["mutex"] = 1 - AtMemory
  <2>1. sem["mutex"] \in Nat /\ sem["mutex"] # Missing
    BY SemsOfKids DEF Missing
  <2> QED BY <2>1 DEF Kept
<1>2. IsFiniteSet(there) /\ Cardinality(there) = AtMemory /\ k \in there
  BY FiniteKids, FS_Subset DEF AtMemory, Units
<1>3. there = {k}
  <2>1. Cardinality(there \ {k}) = AtMemory - 1 /\ IsFiniteSet(there \ {k})
    BY <1>2, FS_RemoveElement
  <2>2. Cardinality(there \ {k}) = 0
    BY <1>1, <2>1, FS_CardinalityType, CountsAreNat DEF CountsNat
  <2>3. there \ {k} = {} BY <2>1, <2>2, FS_EmptySet
  <2> QED BY <1>2, <2>3
<1>4. ASSUME NEW K \in SUBSET Kid
      PROVE  Units(K, {"advance"}) = One(k, K, pc[k], {"advance"})
  <2>1. \A j \in K : pc[j] \in {"advance"} => j = k
    BY <1>3
  <2>2. CASE k \in K /\ pc[k] = "advance"
    <3>1. {j \in K : pc[j] \in {"advance"}} = {k} BY <2>1, <2>2
    <3> QED BY <2>2, <3>1, FS_Singleton DEF Units, One
  <2>3. CASE ~(k \in K /\ pc[k] = "advance")
    <3>1. {j \in K : pc[j] \in {"advance"}} = {} BY <2>1, <2>3
    <3> QED BY <2>3, <3>1, FS_EmptySet DEF Units, One
  <2> QED BY <2>2, <2>3
<1> QED BY <1>4 DEF InBehind, OutBehind, Kid

(* A part of a kind of child is no more than the whole. *)
LEMMA BehindIsPart == InBehind <= Written /\ OutBehind <= WasRead
<1>1. ASSUME NEW K \in SUBSET Kid
      PROVE  Units(K, {"advance"}) <= Units(K, {"advance", "unlock", "last"})
  <2>1. /\ IsFiniteSet({k \in K : pc[k] \in {"advance", "unlock", "last"}})
        /\ {k \in K : pc[k] \in {"advance"}} \subseteq
             {k \in K : pc[k] \in {"advance", "unlock", "last"}}
    BY FiniteKids, FS_Subset
  <2> QED BY <2>1, FS_Subset DEF Units
<1> QED BY <1>1 DEF InBehind, OutBehind, Written, WasRead, Kid

(* What the ring holds fits into it, beside what the producers are about to
   write and what has been read but not given back. *)
LEMMA RingFits ==
  ASSUME TypeOK, Opened, Kept
  PROVE  /\ Held \in 0 .. BUF_SIZE /\ First \in 0 .. BUF_SIZE
         /\ First = out + OutBehind /\ OutBehind \in {0, 1}
         /\ Held + OutBehind <= BUF_SIZE /\ Held + ToWrite <= BUF_SIZE
         /\ sem["full"] # Missing => Held = sem["full"] + Written + Claimed
         /\ sem["full"] = Missing => Held = Written + Claimed
<1>1. /\ First = out + OutBehind
      /\ sem["full"] # Missing => Held = sem["full"] + Written + Claimed
      /\ sem["full"] = Missing => Held = 0 + Written + Claimed
  BY DEF First, OutBehind, Held, Written, Claimed
<1>2. CASE sem["mutex"] = Missing
  <2>1. Written = 0 /\ Claimed = 0 /\ OutBehind = 0 /\ ToWrite = 0
    BY <1>2, NobodyCounted DEF Opened
  <2>2. CASE sem["full"] = Missing
    BY <1>1, <2>1, <2>2, ShmBufferAssumption DEF TypeOK, Slots
  <2>3. CASE sem["full"] # Missing
    <3>1. sem["full"] \in 0 .. BUF_SIZE
      BY <1>2, <2>3, CountsAreNat, ShmBufferAssumption
         DEF TypeOK, SemNames, Opened, Kept, CountsNat
    <3> QED BY <1>1, <2>1, <2>3, <3>1, ShmBufferAssumption DEF TypeOK, Slots
  <2> QED BY <2>2, <2>3
<1>3. CASE sem["mutex"] # Missing
  <2>1. /\ sem["mutex"] \in Nat /\ sem["full"] \in Nat /\ sem["empty"] \in Nat
        /\ sem["full"] # Missing /\ sem["empty"] # Missing
    BY <1>3 DEF Opened, TypeOK, SemNames
  <2>2. OutBehind \in {0, 1}
    <3>1. OutBehind <= AtMemory
      <4>1. /\ IsFiniteSet({k \in Kid : pc[k] \in {"access", "advance", "unlock"}})
            /\ {k \in Consumers : pc[k] \in {"advance"}} \subseteq
                 {k \in Kid : pc[k] \in {"access", "advance", "unlock"}}
        BY FiniteKids, FS_Subset DEF Kid
      <4> QED BY <4>1, FS_Subset DEF OutBehind, AtMemory, Units
    <3>2. AtMemory <= 1 BY <1>3, <2>1, CountsAreNat DEF Kept, CountsNat
    <3> QED BY <3>1, <3>2, CountsAreNat DEF CountsNat
  <2>3. (sem["full"] + sem["empty"]) + ((Written + ToWrite) + (Claimed + WasRead)) = BUF_SIZE
    BY <1>3 DEF Kept
  <2>4. Held = sem["full"] + Written + Claimed BY <1>1, <2>1
  <2>5. /\ Held \in 0 .. BUF_SIZE /\ Held + OutBehind <= BUF_SIZE
        /\ Held + ToWrite <= BUF_SIZE
    BY <2>1, <2>2, <2>3, <2>4, BehindIsPart, CountsAreNat, ShmBufferAssumption
       DEF CountsNat
  <2> QED BY <1>1, <2>1, <2>2, <2>5, ShmBufferAssumption DEF TypeOK, Slots
<1> QED BY <1>2, <1>3
-----------------------------------------------------------------------------
(* What the steps do to the contents of the ring. *)

(* Taking and giving slots and the mutex: nothing. *)
LEMMA SemaphoresKeepRing ==
  ASSUME TypeOK, Opened, NEW k \in Kid,
         \/ k \in Producers /\ (TakeSlot(k, "empty") \/ GiveSlot(k, "full"))
         \/ k \in Consumers /\ (TakeSlot(k, "full") \/ GiveSlot(k, "empty"))
         \/ Lock(k) \/ Unlock(k)
  PROVE  UNCHANGED <<memory, value, disturbed, Held, First, InBehind, OutBehind>>
<1>1. PICK from, to : Step(k, from, to) /\ from # "unborn"
  BY DEF TakeSlot, GiveSlot, Lock, Unlock, SemWait, SemPost, Step
<1>2. pc[k] # "unborn" BY <1>1 DEF Step
<1>3. /\ sem["full"] \in Nat /\ sem["full"] # Missing
  BY <1>2, SemsOfKids DEF Missing
<1>4. k \in Producers => k \notin Consumers BY FiniteKids
<1>5. ASSUME NEW f, NEW t, Step(k, f, t), NEW d \in {0, 1, -1},
             sem'["full"] = sem["full"] + d, sem'["full"] # Missing,
             UNCHANGED <<memory, value>>,
             \/ k \in Producers /\ f = "first" /\ t = "lock" /\ d = 0
             \/ k \in Producers /\ f = "last" /\ t = "first" /\ d = 1
             \/ k \in Consumers /\ f = "first" /\ t = "lock" /\ d = -1
             \/ k \in Consumers /\ f = "last" /\ t = "first" /\ d = 0
             \/ f = "lock" /\ t = "access" /\ d = 0
             \/ f = "unlock" /\ t = "last" /\ d = 0
      PROVE  UNCHANGED <<memory, value, disturbed, Held, First, InBehind, OutBehind>>
  <2>0. CountsMoved(k, f, t) BY <1>5, CountsOfStep
  <2>1. /\ InBehind' = InBehind /\ OutBehind' = OutBehind
        /\ Written' + Claimed' = (Written + Claimed) - d
    <3>1. CASE k \in Producers
      BY <1>4, <1>5, <2>0, <3>1, CountsAreNat DEF One, CountsMoved, CountsNat
    <3>2. CASE k \in Consumers
      BY <1>4, <1>5, <2>0, <3>2, CountsAreNat DEF One, CountsMoved, CountsNat
    <3> QED BY <3>1, <3>2 DEF Kid
  <2>2. /\ Held = sem["full"] + Written + Claimed
        /\ Held' = sem'["full"] + Written' + Claimed'
    BY <1>3, <1>5 DEF Held, Written, Claimed
  <2>3. /\ Held = sem["full"] + (Written + Claimed)
        /\ Held' = sem'["full"] + (Written' + Claimed')
    BY <1>3, <1>5, <2>2, CountsAreNat DEF CountsNat
  <2>4. Held' = Held
    <3> DEFINE inRing == Written + Claimed
    <3>1. inRing \in Nat BY CountsAreNat DEF CountsNat
    <3>2. Held = sem["full"] + inRing /\ Held' = (sem["full"] + d) + (inRing - d)
      BY <1>5, <2>1, <2>3
    <3> HIDE DEF inRing
    <3> QED BY <1>3, <3>1, <3>2
  <2>5. First' = First BY <1>5, <2>1 DEF First, OutBehind, memory
  <2> QED BY <1>5, <2>1, <2>4, <2>5 DEF Step
<1>6. -1 \notin Nat OBVIOUS
<1> USE DEF TypeOK, SemNames, Missing
<1>7. CASE k \in Producers /\ TakeSlot(k, "empty")
  <2>1. sem'["full"] = sem["full"] + 0 BY <1>3, <1>7 DEF TakeSlot, SemWait
  <2> QED BY <1>3, <1>5, <1>6, <1>7, <2>1 DEF TakeSlot, SemWait
<1>8. CASE k \in Producers /\ GiveSlot(k, "full")
  <2>1. sem'["full"] = sem["full"] + 1 BY <1>3, <1>8 DEF GiveSlot, SemPost
  <2> QED BY <1>3, <1>5, <1>6, <1>8, <2>1 DEF GiveSlot, SemPost
<1>9. CASE k \in Consumers /\ TakeSlot(k, "full")
  <2>1. sem'["full"] = sem["full"] + (-1) /\ sem["full"] > 0
    BY <1>3, <1>9 DEF TakeSlot, SemWait
  <2> QED BY <1>3, <1>5, <1>6, <1>9, <2>1 DEF TakeSlot, SemWait
<1>10. CASE k \in Consumers /\ GiveSlot(k, "empty")
  <2>1. sem'["full"] = sem["full"] + 0 BY <1>3, <1>10 DEF GiveSlot, SemPost
  <2> QED BY <1>3, <1>5, <1>6, <1>10, <2>1 DEF GiveSlot, SemPost
<1>11. CASE Lock(k)
  <2>1. sem'["full"] = sem["full"] + 0 BY <1>3, <1>11 DEF Lock, SemWait
  <2> QED BY <1>3, <1>5, <1>6, <1>11, <2>1 DEF Lock, SemWait
<1>12. CASE Unlock(k)
  <2>1. sem'["full"] = sem["full"] + 0 BY <1>3, <1>12 DEF Unlock, SemPost
  <2> QED BY <1>3, <1>5, <1>6, <1>12, <2>1 DEF Unlock, SemPost
<1> QED BY <1>7, <1>8, <1>9, <1>10, <1>11, <1>12

(* Work at the memory: who is there is alone. *)
LEMMA MemoryStepsOnRing ==
  ASSUME TypeOK, Opened, Kept, NEW k \in Kid
  PROVE  /\ k \in Producers /\ Write(k) =>
              /\ Held' = Held + 1 /\ First = out /\ First' = out
              /\ InBehind = 0 /\ InBehind' = 1 /\ Held < BUF_SIZE
         /\ k \in Producers /\ AdvanceIn(k) =>
              /\ Held' = Held /\ First = out /\ First' = out
              /\ InBehind = 1 /\ InBehind' = 0
         /\ k \in Consumers /\ Read(k) =>
              /\ Held' = Held - 1 /\ First = out /\ First' = out + 1
              /\ InBehind = 0 /\ InBehind' = 0 /\ Held > 0
         /\ k \in Consumers /\ AdvanceOut(k) =>
              /\ Held' = Held /\ First = out + 1 /\ First' = out'
              /\ InBehind = 0 /\ InBehind' = 0 /\ Held < BUF_SIZE
<1>1. ASSUME NEW from \in {"access", "advance"}, NEW to, Step(k, from, to),
             UNCHANGED sem
      PROVE  /\ CountsMoved(k, from, to)
             /\ InBehind  = One(k, Producers, from, {"advance"})
             /\ OutBehind = One(k, Consumers, from, {"advance"})
             /\ Held = sem["full"] + Written + Claimed
             /\ Held' = sem["full"] + Written' + Claimed'
             /\ First = out + OutBehind /\ First' = out' + OutBehind'
             /\ sem["full"] \in Nat
  <2>1. pc[k] = from BY <1>1 DEF Step
  <2>2. sem["full"] \in Nat /\ sem["full"] # Missing
    BY <2>1, SemsOfKids DEF Missing
  <2>3. /\ Held = sem["full"] + Written + Claimed
        /\ Held' = sem["full"] + Written' + Claimed'
        /\ First = out + OutBehind /\ First' = out' + OutBehind'
    BY <1>1, <2>2 DEF Held, Written, Claimed, First, OutBehind
  <2> QED BY <1>1, <2>1, <2>2, <2>3, Alone, CountsOfStep
<1>2. k \in Producers => k \notin Consumers BY FiniteKids
<1>3. out \in Nat /\ (UNCHANGED out => out' \in Nat) BY DEF TypeOK, Slots
<1>4. ASSUME k \in Producers, Write(k)
      PROVE  /\ Held' = Held + 1 /\ First = out /\ First' = out
             /\ InBehind = 0 /\ InBehind' = 1 /\ Held < BUF_SIZE
  <2>1. Step(k, "access", "advance") /\ UNCHANGED <<sem, out>> BY <1>4 DEF Write
  <2>2. ToWrite' = ToWrite - 1
    BY <1>1, <1>2, <1>4, <2>1, CountsAreNat DEF CountsMoved, One, CountsNat
  <2>3. ToWrite >= 1 BY <2>2, CountsAreNat DEF CountsNat
  <2>4. Held < BUF_SIZE
    BY <2>3, RingFits, CountsAreNat, ShmBufferAssumption DEF CountsNat
  <2> QED BY <1>1, <1>2, <1>3, <1>4, <2>1, <2>4, CountsAreNat DEF CountsMoved, One, CountsNat
<1>5. ASSUME k \in Producers, AdvanceIn(k)
      PROVE  /\ Held' = Held /\ First = out /\ First' = out
             /\ InBehind = 1 /\ InBehind' = 0
  <2>1. Step(k, "advance", "unlock") /\ UNCHANGED <<sem, out>> BY <1>5 DEF AdvanceIn
  <2> QED BY <1>1, <1>2, <1>3, <1>5, <2>1, CountsAreNat DEF CountsMoved, One, CountsNat
<1>6. ASSUME k \in Consumers, Read(k)
      PROVE  /\ Held' = Held - 1 /\ First = out /\ First' = out + 1
             /\ InBehind = 0 /\ InBehind' = 0 /\ Held > 0
  <2>1. Step(k, "access", "advance") /\ UNCHANGED <<sem, out>> BY <1>6 DEF Read, memory
  <2>2. Claimed' = Claimed - 1 /\ Written' = Written
    BY <1>1, <1>2, <1>6, <2>1, CountsAreNat DEF CountsMoved, One, CountsNat
  <2>3. Held > 0 /\ Held' = Held - 1
    BY <1>1, <2>1, <2>2, CountsAreNat DEF CountsNat
  <2> QED BY <1>1, <1>2, <1>3, <1>6, <2>1, <2>3, CountsAreNat DEF CountsMoved, One, CountsNat
<1>7. ASSUME k \in Consumers, AdvanceOut(k)
      PROVE  /\ Held' = Held /\ First = out + 1 /\ First' = out'
             /\ InBehind = 0 /\ InBehind' = 0 /\ Held < BUF_SIZE
  <2>1. Step(k, "advance", "unlock") /\ UNCHANGED sem BY <1>7 DEF AdvanceOut
  <2>2. out' \in Nat
    BY <1>7, Wraps DEF AdvanceOut, TypeOK, Slots
  <2>3. OutBehind = 1 BY <1>1, <1>7, <2>1 DEF One
  <2>4. Held < BUF_SIZE BY <2>3, RingFits, ShmBufferAssumption
  <2> QED BY <1>1, <1>2, <1>3, <1>7, <2>1, <2>2, <2>4, CountsAreNat
          DEF CountsMoved, One, CountsNat
<1> QED BY <1>4, <1>5, <1>6, <1>7
-----------------------------------------------------------------------------
(* Until an index is set back, in is the place after the last value. *)
InAtTail == ~disturbed => (in + InBehind) % BUF_SIZE = (First + Held) % BUF_SIZE

(* The steps of the mains, and kills: they leave the ring or disturb it. *)
LEMMA OthersKeepRing ==
  ASSUME TypeOK, Opened, Kept, ~disturbed',
         (\E r \in Run : Start(r) \/ Main(r)) \/ Fail \/ UNCHANGED vars
  PROVE  UNCHANGED <<memory, value, disturbed, Held, First, InBehind>>
<1>1. CountsStay
  BY CountsStayWith DEF Start, Main, OpenSems, OpenSem, OpenShm, Truncate, ResetIn,
       ResetOut, AllReaped, Unlink, Fail, KillMain, ForkFails, KillKid, vars
<1>2. UNCHANGED <<memory, value, disturbed>>
  <2>1. ASSUME NEW r \in Run, ResetIn(r)
        PROVE  UNCHANGED <<memory, value>> /\ ~disturbed
    BY <2>1 DEF ResetIn, memory
  <2>2. ASSUME NEW r \in Run, ResetOut(r)
        PROVE  UNCHANGED <<memory, value>> /\ ~disturbed
    BY <2>2 DEF ResetOut, memory
  <2>3. disturbed' = disturbed \/ \E r \in Run : ResetIn(r) \/ ResetOut(r)
    BY DEF Start, Main, OpenSems, OpenSem, OpenShm, Truncate, Fork, AllReaped, Unlink,
           Fail, KillMain, ForkFails, KillKid, vars
  <2>4. UNCHANGED <<memory, value>> \/ \E r \in Run : ResetIn(r) \/ ResetOut(r)
    BY DEF Start, Main, OpenSems, OpenSem, OpenShm, Truncate, Fork, AllReaped, Unlink,
           Fail, KillMain, ForkFails, KillKid, vars
  <2>5. disturbed \in BOOLEAN /\ disturbed' \in BOOLEAN
    BY <2>3 DEF TypeOK, ResetIn, ResetOut
  <2> QED BY <2>1, <2>2, <2>3, <2>4, <2>5
<1>3. \/ sem'["full"] = sem["full"]
      \/ sem["full"] = Missing /\ sem'["full"] = 0
  <2>1. UNCHANGED sem \/ \E r \in Run : OpenSems(r)
    BY DEF Start, Main, OpenShm, Truncate, ResetIn, ResetOut, Fork,
           AllReaped, Unlink, Fail, KillMain, ForkFails, KillKid, vars
  <2>2. ASSUME NEW n \in SemNames, NEW next, NEW r \in Run, OpenSem(r, n, next)
        PROVE  \/ sem'["full"] = sem["full"]
               \/ sem["full"] = Missing /\ sem'["full"] = 0
    BY <2>2 DEF OpenSem, TypeOK, SemNames, InitialValue
  <2> QED BY <2>1, <2>2 DEF OpenSems, SemNames
<1>4. Held' = Held
  BY <1>1, <1>3 DEF Held, Written, Claimed, CountsStay, Missing
<1>5. First' = First
  BY <1>1, <1>2 DEF First, OutBehind, CountsStay, memory
<1> QED BY <1>1, <1>2, <1>4, <1>5 DEF CountsStay

(* The steps of a child move the indices and the counts together. *)
LEMMA InAtTailWork ==
  ASSUME TypeOK, Opened, Kept, InAtTail, ~disturbed, NEW k \in Kid, Work(k)
  PROVE  InAtTail'
<1> USE ShmBufferAssumption
<1>1. in \in 0 .. (BUF_SIZE - 1) /\ out \in 0 .. (BUF_SIZE - 1)
  BY DEF TypeOK, Slots
<1>2. Held \in 0 .. BUF_SIZE /\ (in + InBehind) % BUF_SIZE = (First + Held) % BUF_SIZE
  BY RingFits DEF InAtTail
<1>3. CASE k \in Producers /\ Write(k)
  <2>1. UNCHANGED <<in, disturbed>> BY <1>3 DEF Write, Step
  <2>2. /\ Held' = Held + 1 /\ First = out /\ First' = out
        /\ InBehind = 0 /\ InBehind' = 1 /\ Held < BUF_SIZE
    BY <1>3, MemoryStepsOnRing
  <2>3. in = Wrapped(out + Held)
    BY <1>1, <1>2, <2>2, WrapsOnce DEF Wrapped
  <2>4. (in + 1) % BUF_SIZE = Wrapped(in + 1) BY <1>1, WrapsOnce
  <2>5. (out + (Held + 1)) % BUF_SIZE = Wrapped(out + (Held + 1))
    BY <1>1, <1>2, <2>2, WrapsOnce
  <2>6. Wrapped(in + 1) = Wrapped(out + (Held + 1))
    BY <1>1, <1>2, <2>2, <2>3 DEF Wrapped
  <2> QED BY <2>1, <2>2, <2>4, <2>5, <2>6 DEF InAtTail
<1>4. CASE k \in Producers /\ AdvanceIn(k)
  <2>1. in' = (in + 1) % BUF_SIZE /\ in' \in 0 .. (BUF_SIZE - 1) /\ UNCHANGED disturbed
    BY <1>1, <1>4, Wraps DEF AdvanceIn, Step, Slots
  <2>2. /\ Held' = Held /\ First = out /\ First' = out
        /\ InBehind = 1 /\ InBehind' = 0
    BY <1>4, MemoryStepsOnRing
  <2>3. (in' + 0) % BUF_SIZE = in' BY <2>1
  <2> QED BY <1>2, <2>1, <2>2, <2>3 DEF InAtTail
<1>5. CASE k \in Consumers /\ Read(k)
  <2>1. UNCHANGED <<in, disturbed>> BY <1>5 DEF Read, memory, Step
  <2>2. /\ Held' = Held - 1 /\ First = out /\ First' = out + 1
        /\ InBehind = 0 /\ InBehind' = 0
    BY <1>5, MemoryStepsOnRing
  <2>3. First' + Held' = First + Held BY <1>1, <1>2, <2>2
  <2> QED BY <1>2, <2>1, <2>2, <2>3 DEF InAtTail
<1>6. CASE k \in Consumers /\ AdvanceOut(k)
  <2>1. out' = (out + 1) % BUF_SIZE /\ UNCHANGED <<in, disturbed>>
    BY <1>6 DEF AdvanceOut, Step
  <2>2. /\ Held' = Held /\ First = out + 1 /\ First' = out'
        /\ InBehind = 0 /\ InBehind' = 0 /\ Held < BUF_SIZE
    BY <1>6, MemoryStepsOnRing
  <2>3. (((out + 1) % BUF_SIZE) + Held) % BUF_SIZE = ((out + 1) + Held) % BUF_SIZE
    BY <1>1, <1>2, <2>2, WrapsLater
  <2> QED BY <1>2, <2>1, <2>2, <2>3 DEF InAtTail
<1>7. CASE \/ k \in Producers /\ (TakeSlot(k, "empty") \/ GiveSlot(k, "full"))
           \/ k \in Consumers /\ (TakeSlot(k, "full") \/ GiveSlot(k, "empty"))
           \/ Lock(k) \/ Unlock(k)
  <2>1. UNCHANGED <<memory, value, disturbed, Held, First, InBehind, OutBehind>>
    BY <1>7, SemaphoresKeepRing
  <2> QED BY <2>1 DEF InAtTail, memory
<1> QED BY <1>3, <1>4, <1>5, <1>6, <1>7 DEF Work, producer, consumer

(* Every step keeps the distance of the two indices. *)
LEMMA InAtTailStep ==
  TypeOK /\ Opened /\ Kept /\ InAtTail /\ [Next]_vars => InAtTail'
<1> SUFFICES ASSUME TypeOK, Opened, Kept, InAtTail, [Next]_vars, ~disturbed'
             PROVE  InAtTail'
  BY DEF InAtTail
<1>1. ASSUME NEW k \in Kid, Work(k) PROVE InAtTail'
  <2>1. ~disturbed
    BY <1>1 DEF Work, producer, consumer, TakeSlot, GiveSlot, Lock, Unlock, SemWait, SemPost,
           Write, Read, AdvanceIn, AdvanceOut, Step
  <2> QED BY <1>1, <2>1, InAtTailWork
<1>2. CASE (\E r \in Run : Start(r) \/ Main(r)) \/ Fail \/ UNCHANGED vars
  <2>1. UNCHANGED <<memory, value, disturbed, Held, First, InBehind>>
    BY <1>2, OthersKeepRing
  <2> QED BY <2>1 DEF InAtTail, memory
<1> QED BY <1>1, <1>2 DEF Next
-----------------------------------------------------------------------------
(* The inductive invariant. *)
IInv == TypeOK /\ Opened /\ Kept /\ InAtTail

(* It holds at first. *)
LEMMA InitIInv == Init => IInv
<1> SUFFICES ASSUME Init PROVE IInv OBVIOUS
<1>1. TypeOK BY InitType
<1>2. /\ \A n \in SemNames : sem[n] = Missing
      /\ \A k \in Kid : pc[k] = "unborn"
      /\ \A r \in Run : main[r] = "idle"
      /\ in = 0 /\ out = 0
  BY DEF Init
<1>3. Opened /\ Kept BY <1>2 DEF Opened, Kept, Past, SemNames
<1>4. Written = 0 /\ Claimed = 0 /\ InBehind = 0 /\ OutBehind = 0
  BY <1>2, NobodyCounted
<1>5. Held = 0 /\ First = 0
  BY <1>2, <1>4 DEF Held, First, Written, Claimed, OutBehind, SemNames
<1>6. InAtTail BY <1>2, <1>4, <1>5 DEF InAtTail
<1> QED BY <1>1, <1>3, <1>6 DEF IInv

(* Every step keeps it. *)
LEMMA StepIInv == IInv /\ [Next]_vars => IInv'
  BY StepType, OpenedStep, KeptStep, InAtTailStep DEF IInv

(* It holds in every reachable state. *)
LEMMA Invariance == Spec => []IInv
  BY InitIInv, StepIInv, PTL DEF Spec

(* The state has its type in every reachable state; no index ever leaves the
   ring. *)
THEOREM TypeCorrect == Spec => []TypeOK
  BY Invariance, PTL DEF IInv

(* No slot is made or lost and at most one process is at the memory (the
   sem_wait and sem_post of producer.c and consumer.c), for any number of
   executions and children, and whoever is killed wherever. *)
THEOREM SlotsConserved == Spec => []Conservation
<1>1. IInv => Conservation BY KeptConserves DEF IInv
<1> QED BY <1>1, Invariance, PTL
-----------------------------------------------------------------------------
(* The queue that the ring stands for. *)
Ring == [i \in 1 .. Held |-> buffer[(First + i - 1) % BUF_SIZE]]

RingIsQueue ==
  /\ Ring \in Seq(Values) /\ Len(Ring) = Held /\ Held \in Nat
  /\ \A i \in 1 .. Held : Ring[i] = buffer[(First + (i - 1)) % BUF_SIZE]

(* The ring from First on is a sequence of values, *)
LEMMA RingIsSeq == IInv => RingIsQueue
<1> SUFFICES ASSUME IInv PROVE RingIsQueue OBVIOUS
<1>1. Held \in Nat BY RingFits DEF IInv
<1>2. \A x \in Int : x % BUF_SIZE \in Slots
  BY ShmBufferAssumption DEF Slots
<1>3. First \in Int BY RingFits DEF IInv
<1>4. \A i \in 1 .. Held : buffer[(First + i - 1) % BUF_SIZE] \in Values
  BY <1>1, <1>2, <1>3 DEF IInv, TypeOK
<1> QED BY <1>1, <1>4 DEF Ring, RingIsQueue

(* and so it is after a step. *)
LEMMA RingIsSeqNext == IInv' => RingIsQueue'
  BY RingIsSeq, PTL

(* Write appends a value at the place in. *)
LEMMA WriteAppends ==
  ASSUME IInv, IInv', ~disturbed, NEW k \in Producers, Write(k)
  PROVE  \E v \in Values : Fifo!Put(v)
<1>1. PICK v \in Values : buffer' = [buffer EXCEPT ![in] = v]
  BY DEF Write
<1>2. RingIsQueue /\ RingIsQueue' BY RingIsSeq, RingIsSeqNext
<1>3. /\ Held' = Held + 1 /\ First = out /\ First' = out
      /\ InBehind = 0 /\ Held < BUF_SIZE /\ Held \in Nat
  BY <1>2, MemoryStepsOnRing DEF IInv, Kid, RingIsQueue
<1>4. in \in 0 .. (BUF_SIZE - 1) /\ out \in 0 .. (BUF_SIZE - 1) /\ in \in Slots
  BY DEF IInv, TypeOK, Slots
<1>5. in = (out + Held) % BUF_SIZE
  <2>1. (in + 0) % BUF_SIZE = (out + Held) % BUF_SIZE
    BY <1>3 DEF IInv, InAtTail
  <2> QED BY <1>4, <2>1, ShmBufferAssumption
<1>6. \A x \in Int : x % BUF_SIZE \in Slots
  BY ShmBufferAssumption DEF Slots
<1>7. ASSUME NEW i \in 1 .. Held PROVE Ring'[i] = Ring[i]
  <2>1. (out + (i - 1)) % BUF_SIZE # in
    <3>1. /\ i - 1 \in 0 .. (BUF_SIZE - 1) /\ Held \in 0 .. (BUF_SIZE - 1) /\ i - 1 # Held
      BY <1>3, ShmBufferAssumption
    <3> QED BY <1>4, <1>5, <3>1, PlacesDiffer
  <2>2. (out + (i - 1)) % BUF_SIZE \in Slots
    BY <1>3, <1>4, <1>6
  <2>3. buffer'[(out + (i - 1)) % BUF_SIZE] = buffer[(out + (i - 1)) % BUF_SIZE]
    BY <1>1, <2>1, <2>2 DEF IInv, TypeOK
  <2> QED BY <1>2, <1>3, <2>3 DEF RingIsQueue
<1>8. Ring'[Held + 1] = v
  <2>1. Ring'[Held + 1] = buffer'[(out + ((Held + 1) - 1)) % BUF_SIZE]
    BY <1>2, <1>3 DEF RingIsQueue
  <2>2. (Held + 1) - 1 = Held BY <1>3
  <2>3. buffer'[in] = v BY <1>1, <1>4 DEF IInv, TypeOK
  <2> QED BY <1>5, <2>1, <2>2, <2>3
<1>9. Ring' = Append(Ring, v)
  BY <1>2, <1>3, <1>7, <1>8 DEF RingIsQueue
<1>10. Len(Ring) < BUF_SIZE BY <1>2, <1>3 DEF RingIsQueue
<1>11. UNCHANGED <<value, disturbed>> BY DEF Write, Step
<1> QED BY <1>9, <1>10, <1>11 DEF Fifo!Put, Ring

(* Read takes the value at the place out. *)
LEMMA ReadTakesHead ==
  ASSUME IInv, IInv', ~disturbed, NEW k \in Consumers, Read(k)
  PROVE  Fifo!Get(k)
<1>1. RingIsQueue /\ RingIsQueue' BY RingIsSeq, RingIsSeqNext
<1>2. /\ Held' = Held - 1 /\ First = out /\ First' = out + 1
      /\ Held > 0 /\ Held \in Nat
  BY <1>1, MemoryStepsOnRing DEF IInv, Kid, RingIsQueue
<1>3. out \in 0 .. (BUF_SIZE - 1) BY DEF IInv, TypeOK, Slots
<1>4. Ring[1] = buffer[out]
  <2>1. Ring[1] = buffer[(out + (1 - 1)) % BUF_SIZE]
    BY <1>1, <1>2 DEF RingIsQueue
  <2>2. out + (1 - 1) = out /\ out % BUF_SIZE = out
    BY <1>3, ShmBufferAssumption
  <2> QED BY <2>1, <2>2
<1>5. ASSUME NEW i \in 1 .. Held' PROVE Ring'[i] = Ring[i + 1]
  <2>1. Ring'[i] = buffer'[((out + 1) + (i - 1)) % BUF_SIZE] /\ buffer' = buffer
    BY <1>1, <1>2 DEF RingIsQueue, Read, memory
  <2>2. Ring[i + 1] = buffer[(out + ((i + 1) - 1)) % BUF_SIZE]
    BY <1>1, <1>2 DEF RingIsQueue
  <2>3. (out + 1) + (i - 1) = out + ((i + 1) - 1)
    BY <1>3
  <2> QED BY <2>1, <2>2, <2>3
<1>6. Ring' = Tail(Ring) /\ Ring # <<>> /\ Head(Ring) = buffer[out]
  BY <1>1, <1>2, <1>4, <1>5 DEF RingIsQueue
<1>7. value' = [value EXCEPT ![k] = buffer[out]] /\ UNCHANGED disturbed
  BY DEF Read, Step
<1> QED BY <1>6, <1>7 DEF Fifo!Get, Ring

(* All other steps leave the queue as it is, or disturb it. *)
LEMMA OthersStutter ==
  ASSUME IInv, IInv', UNCHANGED <<value, buffer, disturbed>>, Held' = Held,
         \/ First' = First
         \/ First = out + 1 /\ First' = (out + 1) % BUF_SIZE /\ Held < BUF_SIZE
  PROVE  UNCHANGED <<Ring, value, disturbed>>
<1>1. RingIsQueue /\ RingIsQueue' BY RingIsSeq, RingIsSeqNext
<1>2. CASE First' = First
  BY <1>2 DEF Ring
<1>3. CASE First = out + 1 /\ First' = (out + 1) % BUF_SIZE /\ Held < BUF_SIZE
  <2>1. out \in 0 .. (BUF_SIZE - 1) BY DEF IInv, TypeOK, Slots
  <2>2. ASSUME NEW i \in 1 .. Held PROVE Ring'[i] = Ring[i]
    <3>1. (((out + 1) % BUF_SIZE) + (i - 1)) % BUF_SIZE = ((out + 1) + (i - 1)) % BUF_SIZE
      <4>1. /\ out + 1 \in 0 .. BUF_SIZE /\ i - 1 \in 0 .. (BUF_SIZE - 1)
        BY <1>1, <1>3, <2>1, ShmBufferAssumption DEF RingIsQueue
      <4> QED BY <4>1, WrapsLater
    <3> QED BY <1>1, <1>3, <3>1 DEF RingIsQueue
  <2>3. Ring' = Ring
    BY <1>1, <2>2 DEF RingIsQueue
  <2> QED BY <2>3
<1> QED BY <1>2, <1>3

(* Every step is a put, a get, a disturbance or a stutter of BoundedFifo. *)
LEMMA StepRefines ==
  IInv /\ IInv' /\ [Next]_vars => [Fifo!Next]_<<Ring, value, disturbed>>
<1> SUFFICES ASSUME IInv, IInv', [Next]_vars
             PROVE  [Fifo!Next]_<<Ring, value, disturbed>>
  OBVIOUS
<1>1. CASE disturbed'
  <2>1. Fifo!Disturb BY <1>1 DEF Fifo!Disturb
  <2> QED BY <2>1 DEF Fifo!Next
<1>2. CASE ~disturbed'
  <2>1. ASSUME NEW k \in Kid, Work(k) PROVE [Fifo!Next]_<<Ring, value, disturbed>>
    <3>1. ~disturbed
      BY <1>2, <2>1 DEF Work, producer, consumer, TakeSlot, GiveSlot, Lock, Unlock,
             SemWait, SemPost, Write, Read, AdvanceIn, AdvanceOut, Step
    <3>2. CASE k \in Producers /\ Write(k)
      BY <3>1, <3>2, WriteAppends DEF Fifo!Next
    <3>3. CASE k \in Consumers /\ Read(k)
      BY <3>1, <3>3, ReadTakesHead DEF Fifo!Next
    <3>4. CASE k \in Producers /\ AdvanceIn(k)
      <4>1. Held' = Held /\ First' = First
        BY <3>4, MemoryStepsOnRing DEF IInv
      <4> QED BY <3>4, <4>1, OthersStutter DEF AdvanceIn, Step
    <3>5. CASE k \in Consumers /\ AdvanceOut(k)
      <4>1. Held' = Held /\ First = out + 1 /\ First' = out' /\ Held < BUF_SIZE
        BY <3>5, MemoryStepsOnRing DEF IInv
      <4> QED BY <3>5, <4>1, OthersStutter DEF AdvanceOut, Step
    <3>6. CASE \/ k \in Producers /\ (TakeSlot(k, "empty") \/ GiveSlot(k, "full"))
               \/ k \in Consumers /\ (TakeSlot(k, "full") \/ GiveSlot(k, "empty"))
               \/ Lock(k) \/ Unlock(k)
      <4>1. UNCHANGED <<memory, value, disturbed, Held, First>>
        BY <3>6, SemaphoresKeepRing DEF IInv
      <4> QED BY <4>1, OthersStutter DEF memory
    <3> QED BY <2>1, <3>2, <3>3, <3>4, <3>5, <3>6 DEF Work, producer, consumer
  <2>2. CASE (\E r \in Run : Start(r) \/ Main(r)) \/ Fail \/ UNCHANGED vars
    <3>1. UNCHANGED <<memory, value, disturbed, Held, First>>
      BY <1>2, <2>2, OthersKeepRing DEF IInv
    <3> QED BY <3>1, OthersStutter DEF memory
  <2> QED BY <2>1, <2>2 DEF Next
<1> QED BY <1>1, <1>2

(* The ring implements the bounded first-in-first-out queue of BoundedFifo, as
   long as no execution sets an index back (producer.c 97-111, consumer.c
   89-98): no value is lost, duplicated, overwritten before it is read or read
   before it is written, with any number of children, whoever is killed. *)
THEOREM RefinesBoundedFifo == Spec => ImplementsBoundedFifo
<1>1. Init => Fifo!Init
  <2> SUFFICES ASSUME Init PROVE Fifo!Init OBVIOUS
  <2>1. IInv /\ RingIsQueue BY InitIInv, RingIsSeq
  <2>2. Held = 0
    <3>1. Written = 0 /\ Claimed = 0 BY NobodyCounted DEF Init
    <3> QED BY <3>1 DEF Held, Written, Claimed, Init, SemNames
  <2>3. Ring = <<>> BY <2>1, <2>2 DEF RingIsQueue
  <2> QED BY <2>3 DEF Init, Fifo!Init, Ring
<1>2. IInv /\ IInv' /\ [Next]_vars => [Fifo!Next]_(Fifo!vars)
  BY StepRefines DEF Fifo!vars, Ring
<1> QED BY <1>1, <1>2, Invariance, PTL DEF Spec, ImplementsBoundedFifo, Fifo!Spec
=============================================================================
