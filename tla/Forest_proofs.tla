---------------------------- MODULE Forest_proofs ----------------------------
(***************************************************************************)
(* Proofs about the forest, for every finite set of animals, any number of *)
(* meals, of pits up to 9 and any capacity of a pit: the pits never hold   *)
(* too much though the ranger looks at them without a lock, no wake-up is  *)
(* lost or spent twice, and when the ranger ends no animal is left but the *)
(* last one, in its last lines.                                            *)
(***************************************************************************)
EXTENDS Forest, FiniteSetTheorems, TLAPS

\* The lines of an animal and those of the ranger.
Lines == {"absent", "look", "look other", "empty", "call empty", "announce", "asleep", "seat",
          "sit", "take", "eat", "rise", "low", "no lion", "no jackal", "tell", "call low",
          "alone", "meat", "wake", "leave", "over", "tell over", "call over", "unlock", "gone"}
RangerLines == {"round", "food", "lions", "jackals", "empty", "add", "wake", "denied", "asleep",
                "go", "remove count", "remove ranger", "remove mutex", "done"}

Asleep == {a \in Animals : pc[a] = "asleep"}

\* The animals that are counted.
Out == {"absent", "gone"} \cup LastLines
Present == {a \in Animals : pc[a] \notin Out}

\* mutex has one holder.
Holding == {"sit", "take"} \cup LastLines
Alone ==
  \A a, b \in Animals : pc[a] \in Holding => mutex = 0 /\ (pc[b] \in Holding => a = b)

\* An animal that is still to eat has meals left.
Hungry ==
  \A a \in Animals :
    pc[a] \in {"look", "look other", "empty", "call empty", "announce", "asleep", "seat",
               "sit", "take", "eat"} => eat_count[a] < MealsOf(a)

\* Between the ranger's test of a pit and the meat that it adds, animals only
\* make more room.
Room == rpc \in {"lions", "jackals", "add"} => food[rpit] <= Full - Ration

Removed == {"remove ranger", "remove mutex", "done"}
Counted == IF rpc \in Removed THEN count = -1 ELSE count = Cardinality(Present)

\* Only the last animal calls the ranger to its end; the ranger goes then, or before.
Calling == {"tell over", "call over"}
CallerLast == \A a \in Animals : pc[a] \in Calling => Present = {}
DoneLast == rpc \in Ending => Present = {}

\* The last animal's call comes on top of MaxCalls others.
ToCall == Present # {} \/ \E a \in Animals : pc[a] \in Calling \cup {"over"}
LastCall == ToCall => calls <= MaxCalls

\* The meals, as pairs of who eats and which meal it is, and those taken so far,
\* a meal being taken when the animal adds itself to the eaters.
Meals == (Lions \X (1..LionMeals)) \cup (Jackals \X (1..JackalMeals))
Sat(a) == eat_count[a] + IF pc[a] \in {"take", "eat"} THEN 1 ELSE 0
Taken == {m \in Meals : m[2] <= Sat(m[1])}

\* A counter of eaters may be too high, as updates are lost, but only so far.
EatersBounded ==
  /\ \A s \in Species : \A p \in Pit : eating[s][p] <= Cardinality(Taken)
  /\ \A a \in Animals : read[a] <= Cardinality(Taken)

IInv == /\ TypeOK /\ Hungry /\ Room /\ Alone /\ Counted /\ CallerLast /\ DoneLast
        /\ LastCall /\ EatersBounded /\ WakeupsAccounted

-----------------------------------------------------------------------------
(* Sets of animals and of meals.                                           *)

LEMMA Herd ==
  /\ IsFiniteSet(Animals) /\ MaxHerd \in Nat
  /\ \A S \in SUBSET Animals : /\ IsFiniteSet(S) /\ Cardinality(S) \in 0..MaxHerd
                               /\ Cardinality(S) = 0 => S = {}
<1>1. IsFiniteSet(Animals) /\ MaxHerd \in Nat
  BY ForestAssumption, FS_Union, FS_CardinalityType DEF Animals, MaxHerd
<1>2. ASSUME NEW S \in SUBSET Animals
      PROVE  /\ IsFiniteSet(S) /\ Cardinality(S) \in 0..MaxHerd
             /\ Cardinality(S) = 0 => S = {}
  <2>1. IsFiniteSet(S) /\ Cardinality(S) \in Nat /\ Cardinality(S) <= Cardinality(Animals)
    BY <1>1, FS_Subset, FS_CardinalityType
  <2>2. Cardinality(S) = 0 => S = {}
    BY <2>1, FS_EmptySet
  <2> DEFINE n == Cardinality(S)
  <2>3. n \in Nat /\ n <= MaxHerd
    BY <2>1 DEF MaxHerd
  <2> HIDE DEF n
  <2>4. n \in 0..MaxHerd
    BY <1>1, <2>3
  <2>5. QED
    BY <2>1, <2>2, <2>4 DEF n
<1>3. QED
  BY <1>1, <1>2

\* There are AllMeals meals.
LEMMA AllTheMeals ==
  /\ IsFiniteSet(Meals) /\ Cardinality(Meals) = AllMeals
  /\ Cardinality(Meals) \in Nat /\ AllMeals \in Nat
<1> DEFINE A == Lions \X (1..LionMeals)
           B == Jackals \X (1..JackalMeals)
           a == Cardinality(A)
           b == Cardinality(B)
<1>1. /\ IsFiniteSet(1..LionMeals) /\ Cardinality(1..LionMeals) = LionMeals
      /\ IsFiniteSet(1..JackalMeals) /\ Cardinality(1..JackalMeals) = JackalMeals
  BY ForestAssumption, FS_Interval
<1>2. /\ IsFiniteSet(A) /\ a = Cardinality(Lions) * LionMeals /\ a \in Nat
      /\ IsFiniteSet(B) /\ b = Cardinality(Jackals) * JackalMeals /\ b \in Nat
  BY <1>1, ForestAssumption, FS_Product, FS_CardinalityType
<1>3. A \cap B = {}
  BY ForestAssumption
<1>4. IsFiniteSet(A \cup B) /\ Cardinality(A \cup B) = a + b - Cardinality(A \cap B)
  BY <1>2, FS_Union
<1>5. Cardinality(A \cap B) = 0
  BY <1>3, FS_EmptySet
<1> DEFINE n == Cardinality(A \cup B)
           z == Cardinality(A \cap B)
<1>6. n = a + b - z /\ z = 0
  BY <1>4, <1>5
<1>7. AllMeals = a + b
  BY <1>2 DEF AllMeals
<1> HIDE DEF a, b, n, z
<1>8. n = AllMeals /\ n \in Nat
  BY <1>2, <1>6, <1>7
<1>9. QED
  BY <1>4, <1>8 DEF Meals, n

\* Meals taken are counted, and are no more than there are.
LEMMA TakenFinite ==
  /\ IsFiniteSet(Taken) /\ Cardinality(Taken) \in Nat /\ Cardinality(Taken) <= AllMeals
<1>1. Taken \in SUBSET Meals
  BY DEF Taken
<1>2. QED
  BY <1>1, AllTheMeals, FS_Subset, FS_CardinalityType

LEMMA AnimalFacts ==
  ASSUME NEW a \in Animals
  PROVE  /\ MealsOf(a) \in Nat \ {0} /\ SpeciesOf(a) \in Species /\ OtherOf(a) \in Species
         /\ \A n \in 1..MealsOf(a) : <<a, n>> \in Meals
         /\ \A n : <<a, n>> \in Meals => n \in 1..MealsOf(a)
BY ForestAssumption DEF Animals, MealsOf, SpeciesOf, OtherOf, Species, Meals

LEMMA PitFacts ==
  /\ 0 \in Pit /\ Over \notin Pit
  /\ \A p \in Pit : NextPit(p) \in Pit
<1>1. 0 \in Pit /\ Over \notin Pit
  BY ForestAssumption DEF Pit, Over
<1>2. ASSUME NEW p \in Pit PROVE NextPit(p) \in Pit
  <2>1. Pits \in Nat /\ Pits > 0 /\ p + 1 \in Int
    BY ForestAssumption DEF Pit
  <2>2. (p + 1) % Pits \in 0..(Pits - 1)
    BY <2>1
  <2>3. QED
    BY <2>2 DEF Pit, NextPit
<1>3. QED
  BY <1>1, <1>2

-----------------------------------------------------------------------------
(* The initial states.                                                     *)

LEMMA InitIInv == Init => IInv
<1> SUFFICES ASSUME Init PROVE IInv
  OBVIOUS
<1>1. PICK herd \in Herds :
        /\ count = Cardinality(herd)
        /\ pc = [a \in Animals |-> IF a \in herd THEN "look" ELSE "absent"]
        /\ pit_no \in {f \in [Animals -> Pit] : \A a \in Animals \ herd : f[a] = 0}
  BY DEF Init
<1>2. herd \in SUBSET Animals
  BY ForestAssumption
<1>3. Asleep = {} /\ Present = herd
  BY <1>1, <1>2 DEF Asleep, Present, Out, LastLines
<1>4. count \in 0..MaxHerd /\ count \in -1..MaxHerd /\ MaxHerd \in Nat /\ AllMeals \in Nat
  BY <1>1, <1>2, Herd, AllTheMeals
<1>5. \A a \in Animals : MealsOf(a) \in Nat /\ MealsOf(a) > 0
  BY AnimalFacts
<1>6. TypeOK
  <2>1. /\ food \in [Pit -> 0..Full] /\ eating \in [Species -> [Pit -> 0..AllMeals]]
        /\ mutex \in {0, 1} /\ mutex2 \in {0, 1}
        /\ calls \in 0..(MaxCalls + 1) /\ where \in Pit \cup {Over}
        /\ number \in 0..MaxHerd /\ sema_wait \in 0..MaxHerd
    BY <1>4, ForestAssumption, PitFacts DEF Init
  <2>2. /\ eat_count \in [Animals -> Nat] /\ \A a \in Animals : eat_count[a] <= MealsOf(a)
    BY <1>5 DEF Init
  <2>3. read \in [Animals -> 0..AllMeals] /\ c \in [Animals -> 0..4]
    BY <1>4 DEF Init
  <2>4. rpc = "round" /\ rpit \in Pit /\ rc \in 0..2
    BY PitFacts DEF Init
  <2>5. QED
    BY <1>1, <1>4, <2>1, <2>2, <2>3, <2>4 DEF TypeOK
<1>7. Hungry /\ Room /\ LastCall /\ DoneLast /\ CallerLast /\ Alone
  <2>1. Hungry
    BY <1>5 DEF Init, Hungry
  <2>2. Room /\ LastCall /\ DoneLast
    BY ForestAssumption DEF Init, Room, LastCall, DoneLast, Ending
  <2>3. CallerLast /\ Alone
    BY <1>1 DEF CallerLast, Calling, Alone, Holding, LastLines
  <2>4. QED
    BY <2>1, <2>2, <2>3
<1>8. Counted
  BY <1>1, <1>3 DEF Counted, Removed, Init
<1>9. EatersBounded
  <2>1. (\A s \in Species : \A p \in Pit : eating[s][p] = 0) /\ \A a \in Animals : read[a] = 0
    BY DEF Init
  <2>2. QED
    BY <2>1, TakenFinite DEF EatersBounded
<1>10. WakeupsAccounted
  <2>1. Cardinality(Asleep) = 0
    BY <1>3, FS_EmptySet
  <2>2. number + sema_wait = 0
    BY DEF Init
  <2>3. QED
    BY <2>1, <2>2 DEF WakeupsAccounted, Asleep
<1>11. QED
  BY <1>6, <1>7, <1>8, <1>9, <1>10 DEF IInv

-----------------------------------------------------------------------------
(* Wake-ups.                                                               *)

\* Only announcing falls asleep, only waking up ends that; what the last lines are
\* entered and left by.
LEMMA AnimalStep ==
  ASSUME TypeOK, NEW a \in Animals, Animal(a)
  PROVE  /\ \A b \in Animals \ {a} : pc'[b] = pc[b] /\ eat_count'[b] = eat_count[b]
         /\ pc[a] \notin {"absent", "gone"} /\ pc'[a] # "absent"
         /\ pc'[a] = "asleep" => Announce(a)
         /\ pc[a] = "asleep" => Wake(a)
         /\ pc[a] \in Lines /\ pc'[a] \in Lines
         /\ Leave(a) => pc[a] = "leave" /\ pc'[a] = "over"
         /\ ~Leave(a) => (pc[a] \in Out <=> pc'[a] \in Out)
         /\ pc'[a] = "tell over" => SeeCount(a) /\ count = 0
         /\ pc'[a] = "call over" => pc[a] = "tell over"
         /\ pc'[a] = "over" => Leave(a)
         /\ pc'[a] \in Holding => pc[a] \in Holding \/ Seat(a) \/ Leave(a)
<1> USE DEF animal, Goto, Branch, MoveOn, Lines, Out, Holding, LastLines
<1>0. pc \in [Animals -> Lines] /\ eat_count \in [Animals -> Nat]
  BY DEF TypeOK
<1>a. Leave(a) => pc[a] = "leave" /\ pc'[a] = "over"
  BY <1>0 DEF Leave
<1>1. CASE Look(a) \/ LookOther(a) \/ CallEmpty(a)
  BY ZenonT(60), <1>0, <1>a, <1>1 DEF Look, LookOther, CallEmpty
<1>2. CASE TellPit(a, "empty", "call empty") \/ TellPit(a, "tell", "call low")
  BY <1>0, <1>a, <1>2 DEF TellPit
<1>3. CASE Announce(a) \/ Wake(a)
  BY <1>0, <1>a, <1>3 DEF Announce, Wake
<1>4. CASE Seat(a) \/ Sit(a) \/ Take(a) \/ Rise(a)
  BY <1>0, <1>a, <1>4 DEF Seat, Sit, Take, Rise
<1>5. CASE Eat(a)
  BY <1>0, <1>a, <1>5 DEF Eat
<1>6. CASE AfterMeal(a)
  BY ZenonT(60), <1>0, <1>a, <1>6 DEF AfterMeal
<1>7. CASE CallLow(a) \/ WakeOthers(a) \/ GoOn(a)
  BY <1>0, <1>a, <1>7 DEF CallLow, WakeOthers, GoOn
<1>8. CASE Leave(a) \/ SeeCount(a)
  BY <1>0, <1>a, <1>8 DEF Leave, SeeCount
<1>9. CASE TellOver(a) \/ CallOver(a) \/ UnlockOver(a)
  BY <1>0, <1>a, <1>9 DEF TellOver, CallOver, UnlockOver
<1>10. QED
  BY <1>1, <1>2, <1>3, <1>4, <1>5, <1>6, <1>7, <1>8, <1>9 DEF Animal

LEMMA WakeupsStep ==
  ASSUME TypeOK, WakeupsAccounted, [Next]_vars
  PROVE  WakeupsAccounted'
<1> DEFINE n == Cardinality(Asleep)
           m == Cardinality(Asleep')
<1>0. /\ number \in Nat /\ sema_wait \in Nat /\ number + sema_wait = n
      /\ IsFiniteSet(Asleep) /\ n \in Nat
  <2>1. Asleep \in SUBSET Animals
    BY DEF Asleep
  <2>2. IsFiniteSet(Asleep) /\ Cardinality(Asleep) \in Nat
    BY <2>1, Herd, FS_CardinalityType
  <2>3. number \in Nat /\ sema_wait \in Nat
    <3>1. number \in 0..MaxHerd /\ sema_wait \in 0..MaxHerd /\ MaxHerd \in Nat
      BY Herd DEF TypeOK
    <3>2. QED
      BY <3>1
  <2>4. QED
    BY <2>2, <2>3 DEF WakeupsAccounted, Asleep
<1>1. SUFFICES number' + sema_wait' = m
  BY DEF WakeupsAccounted, Asleep
<1>2. CASE UNCHANGED pc /\ (UNCHANGED waits \/ wakeupall)
  <2>1. m = n
    BY <1>2 DEF Asleep
  <2> HIDE DEF m, n
  <2>2. QED
    BY <1>0, <1>2, <2>1 DEF waits, wakeupall
<1>3. CASE Ranger \/ (UNCHANGED vars)
  BY <1>2, <1>3 DEF Ranger, Round, Inspect, AddMeat, WakeAll, Denied, Called, GoWhereTold, Remove,
                    vars, animal
<1>4. ASSUME NEW a \in Animals, Animal(a) PROVE number' + sema_wait' = m
  <2>1. /\ \A b \in Animals \ {a} : pc'[b] = pc[b]
        /\ pc'[a] = "asleep" => Announce(a)
        /\ pc[a] = "asleep" => Wake(a)
    BY <1>4, AnimalStep
  <2>2. pc \in [Animals -> Lines]
    BY DEF TypeOK, Lines
  <2>3. CASE Announce(a)
    <3>1. number' = number + 1 /\ UNCHANGED sema_wait /\ pc[a] # "asleep" /\ pc'[a] = "asleep"
      BY <2>2, <2>3 DEF Announce, Goto
    <3>2. Asleep' = Asleep \cup {a} /\ a \notin Asleep
      BY <2>1, <3>1 DEF Asleep
    <3>3. m = n + 1
      BY <1>0, <3>2, FS_AddElement
    <3> HIDE DEF m, n
    <3>4. QED
      BY <1>0, <3>1, <3>3
  <2>4. CASE Wake(a)
    <3>1. /\ sema_wait' = sema_wait - 1 /\ UNCHANGED number
          /\ pc[a] = "asleep" /\ pc'[a] # "asleep"
      BY <2>2, <2>4 DEF Wake, Goto
    <3>2. Asleep' = Asleep \ {a} /\ a \in Asleep
      BY <2>1, <3>1 DEF Asleep
    <3>3. m = n - 1
      BY <1>0, <3>2, FS_RemoveElement
    <3> HIDE DEF m, n
    <3>4. QED
      BY <1>0, <3>1, <3>3
  <2>5. CASE ~Announce(a) /\ ~Wake(a)
    <3>1. Asleep' = Asleep
      BY <2>1, <2>5 DEF Asleep
    <3>2. UNCHANGED waits \/ wakeupall
      BY <1>4, <2>5 DEF Animal, Look, LookOther, TellPit, CallEmpty, Seat, Sit, Take, Eat, Rise,
                        AfterMeal, CallLow, WakeOthers, GoOn, Leave,
              SeeCount, TellOver, CallOver, UnlockOver, waits
    <3>3. m = n
      BY <3>1
    <3> HIDE DEF m, n
    <3>4. QED
      BY <1>0, <3>2, <3>3 DEF waits, wakeupall
  <2>6. QED
    BY <2>3, <2>4, <2>5
<1>5. QED
  BY <1>3, <1>4 DEF Next

-----------------------------------------------------------------------------
(* Who is over.                                                            *)

LEMMA RangerStep ==
  ASSUME Ranger \/ UNCHANGED vars
  PROVE  /\ UNCHANGED <<pc, mutex>> /\ calls' \in {calls, calls - 1}
         /\ Remove \/ (UNCHANGED count /\ (Round \/ rpc' \notin Ending \/ UNCHANGED rpc))
BY DEF Ranger, Round, Inspect, AddMeat, WakeAll, Denied, Called, GoWhereTold, Remove, vars, animal,
       ranger, RangerGoto, Ending

\* mutex is held by one animal at a time, also through its last lines.
LEMMA AloneStep ==
  ASSUME TypeOK, Alone, [Next]_vars
  PROVE  Alone'
<1>0. \A b \in Animals : pc[b] \in Lines
  BY DEF TypeOK, Lines
<1>1. CASE Ranger \/ UNCHANGED vars
  BY <1>1, RangerStep DEF Alone
<1>2. ASSUME NEW a \in Animals, Animal(a) PROVE Alone'
  <2>1. /\ \A b \in Animals \ {a} : pc'[b] = pc[b]
        /\ pc'[a] \in Holding => pc[a] \in Holding \/ Seat(a) \/ Leave(a)
    BY <1>2, AnimalStep
  <2>2. CASE Seat(a) \/ Leave(a)
    <3>1. mutex = 1 /\ mutex' = 0
      BY <2>2 DEF Seat, Leave
    <3>2. \A b \in Animals : pc[b] \notin Holding
      BY <3>1 DEF Alone
    <3>3. QED
      BY <2>1, <3>1, <3>2 DEF Alone
  <2>3. CASE Take(a) \/ UnlockOver(a)
    <3>1. pc[a] \in Holding /\ pc'[a] \notin Holding
      BY <2>3 DEF Take, UnlockOver, Goto, TypeOK, Holding, LastLines
    <3>2. \A b \in Animals : pc'[b] \notin Holding
      BY <2>1, <3>1 DEF Alone
    <3>3. QED
      BY <3>2 DEF Alone
  <2>4. CASE ~(Seat(a) \/ Leave(a)) /\ ~(Take(a) \/ UnlockOver(a))
    <3>1. UNCHANGED mutex
      BY <1>2, <2>4 DEF Animal, Look, LookOther, TellPit, CallEmpty, Announce, Wake, Sit, Eat, Rise,
                        AfterMeal, CallLow, WakeOthers, GoOn, SeeCount, TellOver, CallOver
    <3>2. \A b \in Animals : pc'[b] \in Holding => pc[b] \in Holding
      BY <2>1, <2>4
    <3>3. QED
      BY <3>1, <3>2 DEF Alone
  <2>5. QED
    BY <2>2, <2>3, <2>4
<1>3. QED
  BY <1>1, <1>2 DEF Next

\* Of the animals that are counted one goes by counting itself out.
LEMMA PresentStep ==
  ASSUME TypeOK, NEW a \in Animals, Animal(a)
  PROVE  /\ UNCHANGED rpc
         /\ \/ /\ Leave(a) /\ a \in Present /\ Present' = Present \ {a} /\ count' = count - 1
            \/ ~Leave(a) /\ Present' = Present /\ count' = count
<1>1. UNCHANGED rpc
  BY DEF Animal, Look, LookOther, TellPit, CallEmpty, Announce, Wake, Seat, Sit, Take, Eat, Rise,
         AfterMeal, CallLow, WakeOthers, GoOn, Leave, SeeCount, TellOver, CallOver, UnlockOver, ranger
<1>2. /\ \A b \in Animals \ {a} : pc'[b] = pc[b]
      /\ Leave(a) => pc[a] = "leave" /\ pc'[a] = "over"
      /\ ~Leave(a) => (pc[a] \in Out <=> pc'[a] \in Out)
  BY AnimalStep
<1>3. CASE Leave(a)
  <2>1. "leave" \notin Out /\ "over" \in Out
    BY DEF Out, LastLines
  <2>2. a \in Present /\ Present' = Present \ {a}
    BY <1>2, <1>3, <2>1 DEF Present
  <2>3. QED
    BY <1>1, <1>3, <2>2 DEF Leave
<1>4. CASE ~Leave(a)
  <2>1. UNCHANGED count
    BY <1>4 DEF Animal, Look, LookOther, TellPit, CallEmpty, Announce, Wake, Seat, Sit, Take, Eat,
                Rise, AfterMeal, CallLow, WakeOthers, GoOn, SeeCount, TellOver, CallOver, UnlockOver
  <2>2. Present' = Present
    BY <1>2, <1>4 DEF Present
  <2>3. QED
    BY <1>1, <1>4, <2>1, <2>2
<1>5. QED
  BY <1>3, <1>4

LEMMA PresentFinite == IsFiniteSet(Present) /\ Cardinality(Present) \in Nat
<1>1. Present \in SUBSET Animals
  BY DEF Present
<1>2. QED
  BY <1>1, Herd, FS_CardinalityType

\* count is the number of animals not counted out, until it is removed; the ranger
\* ends, and the last animal calls it, only when that is none.
LEMMA CountStep ==
  ASSUME TypeOK, Counted, CallerLast, DoneLast, [Next]_vars
  PROVE  Counted' /\ CallerLast' /\ DoneLast'
<1> DEFINE n == Cardinality(Present)
           m == Cardinality(Present')
<1>0. IsFiniteSet(Present) /\ n \in Nat /\ (n = 0 => Present = {})
  BY PresentFinite, FS_EmptySet
<1>1. CASE Ranger \/ UNCHANGED vars
  <2>1. UNCHANGED pc
    BY <1>1, RangerStep
  <2>2. Present' = Present
    BY <2>1 DEF Present
  <2>3. CallerLast'
    BY <2>1, <2>2 DEF CallerLast
  <2>4. CASE Remove
    <3>1. /\ rpc \in Ending /\ rpc' \in Removed
          /\ count' = -1 \/ (rpc \in Removed /\ count' = count)
      BY <2>4 DEF Remove, Ending, Removed, RangerGoto
    <3>2. QED
      BY <2>2, <2>3, <3>1 DEF Counted, DoneLast
  <2>5. CASE ~Remove /\ Round
    <3>1. /\ rpc = "round" /\ UNCHANGED count /\ rpc' \notin Removed
          /\ rpc' \in Ending => ~(count > 0)
      BY <2>5 DEF Round, Removed, Ending, RangerGoto
    <3>2. count = n
      BY <3>1 DEF Counted, Removed
    <3>3. rpc' \in Ending => n = 0
      <4> HIDE DEF n
      <4>1. QED
        BY <1>0, <3>1, <3>2
    <3>4. QED
      BY <1>0, <2>2, <2>3, <3>1, <3>2, <3>3 DEF Counted, DoneLast
  <2>6. CASE ~Remove /\ ~Round
    <3>1. UNCHANGED count /\ (rpc' \notin Ending \/ UNCHANGED rpc)
      BY <1>1, <2>6, RangerStep
    <3>2. CASE UNCHANGED rpc
      BY <2>2, <2>3, <3>1, <3>2 DEF Counted, DoneLast
    <3>3. CASE rpc' \notin Ending
      <4>1. rpc \notin Removed /\ rpc' \notin Removed
        BY <1>1, <2>6, <3>3 DEF Ranger, Inspect, AddMeat, WakeAll, Denied, Called, GoWhereTold, vars,
                                ranger, RangerGoto, Ending, Removed
      <4>2. QED
        BY <2>2, <2>3, <3>1, <3>3, <4>1 DEF Counted, DoneLast
    <3>4. QED
      BY <3>1, <3>2, <3>3
  <2>7. QED
    BY <2>4, <2>5, <2>6
<1>2. ASSUME NEW a \in Animals, Animal(a) PROVE Counted' /\ CallerLast' /\ DoneLast'
  <2>1. /\ UNCHANGED rpc
        /\ \/ /\ Leave(a) /\ a \in Present /\ Present' = Present \ {a} /\ count' = count - 1
           \/ ~Leave(a) /\ Present' = Present /\ count' = count
    BY <1>2, PresentStep
  <2>2. DoneLast'
    BY <2>1 DEF DoneLast
  <2>3. Counted'
    <3>1. CASE Leave(a)
      <4>1. rpc \notin Ending /\ a \in Present /\ Present' = Present \ {a} /\ count' = count - 1
        BY <2>1, <3>1 DEF DoneLast
      <4>2. rpc \notin Removed /\ count = n
        BY <4>1 DEF Counted, Removed, Ending
      <4>3. m = n - 1
        BY <1>0, <4>1, FS_RemoveElement
      <4> HIDE DEF n, m
      <4>4. count' = m
        BY <4>1, <4>2, <4>3
      <4>5. QED
        BY <2>1, <4>2, <4>4 DEF Counted, m
    <3>2. CASE ~Leave(a)
      BY <2>1, <3>2 DEF Counted
    <3>3. QED
      BY <3>1, <3>2
  <2>4. CallerLast'
    <3> SUFFICES ASSUME NEW b \in Animals, pc'[b] \in Calling PROVE Present = {}
      BY <2>1 DEF CallerLast
    <3>1. /\ b # a => pc'[b] = pc[b]
          /\ pc'[a] = "tell over" => SeeCount(a) /\ count = 0
          /\ pc'[a] = "call over" => pc[a] = "tell over"
      BY <1>2, AnimalStep
    <3>2. CASE b # a \/ pc'[a] = "call over"
      BY <3>1, <3>2 DEF CallerLast, Calling
    <3>3. CASE b = a /\ pc'[a] = "tell over"
      <4>1. count = 0
        BY <3>1, <3>3
      <4>2. count = n
        BY <4>1 DEF Counted
      <4>3. QED
        BY <1>0, <4>1, <4>2
    <3>4. QED
      BY <3>2, <3>3 DEF Calling
  <2>5. QED
    BY <2>2, <2>3, <2>4
<1>3. QED
  BY <1>1, <1>2 DEF Next

\* The last animal's call is one more than there may be otherwise.
LEMMA CallStep ==
  ASSUME TypeOK, Alone, CallerLast, LastCall, [Next]_vars
  PROVE  LastCall'
<1>0. calls \in 0..(MaxCalls + 1) /\ MaxCalls \in Nat
  BY ForestAssumption DEF TypeOK
<1>1. CASE Ranger \/ UNCHANGED vars
  <2>1. UNCHANGED pc /\ calls' \in {calls, calls - 1}
    BY <1>1, RangerStep
  <2>2. ToCall' = ToCall
    BY <2>1 DEF ToCall, Present
  <2>3. calls <= MaxCalls => calls' <= MaxCalls
    BY <1>0, <2>1
  <2>4. QED
    BY <2>2, <2>3 DEF LastCall
<1>2. ASSUME NEW a \in Animals, Animal(a), ToCall' PROVE calls' <= MaxCalls
  <2>1. /\ \A b \in Animals \ {a} : pc'[b] = pc[b]
        /\ pc'[a] = "tell over" => SeeCount(a)
        /\ pc'[a] = "call over" => pc[a] = "tell over"
        /\ pc'[a] = "over" => Leave(a)
    BY <1>2, AnimalStep
  <2>2. (Leave(a) /\ a \in Present) \/ Present' = Present
    BY <1>2, PresentStep
  <2>3. ToCall
    <3>1. CASE Leave(a)
      BY <1>2, <3>1, PresentStep DEF ToCall
    <3>2. CASE ~Leave(a) /\ Present' # {}
      BY <2>2, <3>2 DEF ToCall
    <3>3. CASE ~Leave(a) /\ Present' = {}
      <4>1. PICK b \in Animals : pc'[b] \in Calling \cup {"over"}
        BY <1>2, <3>3 DEF ToCall
      <4>2. pc[b] \in Calling \cup {"over"} \/ SeeCount(a)
        BY <2>1, <3>3, <4>1 DEF Calling
      <4>3. SeeCount(a) => pc[a] = "over"
        BY DEF SeeCount
      <4>4. QED
        BY <4>2, <4>3 DEF ToCall
    <3>4. QED
      BY <3>1, <3>2, <3>3
  <2>4. calls <= MaxCalls
    BY <2>3 DEF LastCall
  <2>5. CASE CallOver(a)
    <3>1. pc[a] = "call over" /\ pc'[a] = "unlock"
      BY <2>5 DEF CallOver, Goto, TypeOK
    <3>2. Present = {} /\ ~Leave(a)
      BY <3>1 DEF CallerLast, Calling, Leave
    <3>3. Present' = {}
      BY <2>2, <3>2
    <3>4. \A b \in Animals : pc'[b] \notin Calling \cup {"over"}
      BY <2>1, <3>1 DEF Alone, Holding, LastLines, Calling
    <3>5. QED
      BY <1>2, <3>3, <3>4 DEF ToCall
  <2>6. CASE ~CallOver(a)
    <3>1. calls' = calls \/ (calls < MaxCalls /\ calls' = calls + 1)
      BY <1>2, <2>6 DEF Animal, Look, LookOther, TellPit, CallEmpty, Announce, Wake, Seat, Sit, Take,
                        Eat, Rise, AfterMeal, CallLow, WakeOthers, GoOn, Leave, SeeCount, TellOver,
                        UnlockOver
    <3>2. QED
      BY <1>0, <2>4, <3>1
  <2>7. QED
    BY <2>5, <2>6
<1>3. QED
  BY <1>1, <1>2 DEF Next, LastCall

-----------------------------------------------------------------------------
(* Meat.                                                                   *)

\* The meat that is added has room, though animals eat while the ranger looks.
LEMMA FoodStep ==
  ASSUME TypeOK, Room, [Next]_vars
  PROVE  food' \in [Pit -> 0..Full] /\ Room'
<1> USE DEF ranger, pits, RangerGoto
<1>0. /\ food \in [Pit -> 0..Full] /\ rpit \in Pit /\ pit_no \in [Animals -> Pit]
      /\ Full \in Nat /\ Ration \in 1..Full
  BY ForestAssumption DEF TypeOK
<1>1. CASE UNCHANGED <<food, rpit, rpc>>
  BY <1>0, <1>1 DEF Room
<1>2. CASE UNCHANGED food /\ rpc' \notin {"lions", "jackals", "add"}
  BY <1>0, <1>2 DEF Room
<1>3. CASE Inspect
  <2>1. UNCHANGED <<food, rpit>> /\ food[rpit] \in 0..Full
    BY <1>0, <1>3 DEF Inspect
  <2>2. rpc' \in {"lions", "jackals", "add"} => food[rpit] <= Full - Ration
    BY <1>0, <1>3, <2>1 DEF Inspect, Room
  <2>3. QED
    BY <1>0, <2>1, <2>2 DEF Room
<1>4. CASE AddMeat
  <2>1. food' = [food EXCEPT ![rpit] = @ + Ration] /\ rpc' = "wake" /\ food[rpit] <= Full - Ration
    BY <1>4 DEF AddMeat, Room
  <2>2. food[rpit] + Ration \in 0..Full
    BY <1>0, <2>1
  <2>3. food' \in [Pit -> 0..Full]
    BY <1>0, <2>1, <2>2
  <2>4. QED
    BY <2>1, <2>3 DEF Room
<1>5. CASE Round \/ WakeAll \/ Denied \/ Called \/ GoWhereTold \/ Remove
  <2>1. UNCHANGED food /\ rpc' \notin {"lions", "jackals", "add"}
    BY <1>5 DEF Round, WakeAll, Denied, Called, GoWhereTold, Remove
  <2>2. QED
    BY <1>2, <2>1
<1>6. ASSUME NEW a \in Animals, Take(a) PROVE food' \in [Pit -> 0..Full] /\ Room'
  <2>1. /\ food' = [food EXCEPT ![pit_no[a]] = IF @ > 0 THEN @ - 1 ELSE @]
        /\ UNCHANGED <<rpit, rpc>> /\ pit_no[a] \in Pit
    BY <1>0, <1>6 DEF Take
  <2>2. \A p \in Pit : food'[p] \in 0..Full /\ food'[p] <= food[p]
    BY <1>0, <2>1
  <2>3. food' \in [Pit -> 0..Full]
    BY <1>0, <2>1, <2>2
  <2>4. food'[rpit] <= food[rpit] /\ food'[rpit] \in Int /\ food[rpit] \in Int
    BY <1>0, <2>2
  <2>5. QED
    BY <1>0, <2>1, <2>3, <2>4 DEF Room
<1>7. ASSUME NEW a \in Animals, Animal(a), ~Take(a) PROVE UNCHANGED <<food, rpit, rpc>>
  BY <1>7 DEF Animal, Look, LookOther, TellPit, CallEmpty, Announce, Wake, Seat, Sit, Eat, Rise,
              AfterMeal, CallLow, WakeOthers, GoOn, Leave,
              SeeCount, TellOver, CallOver, UnlockOver
<1>8. CASE UNCHANGED vars
  BY <1>1, <1>8 DEF vars
<1>9. QED
  BY <1>1, <1>3, <1>4, <1>5, <1>6, <1>7, <1>8 DEF Next, Ranger

-----------------------------------------------------------------------------
(* Meals.                                                                  *)

LEMMA HungryStep ==
  ASSUME TypeOK, Hungry, [Next]_vars
  PROVE  /\ Hungry' /\ eat_count' \in [Animals -> Nat]
         /\ \A a \in Animals : eat_count'[a] <= MealsOf(a)
<1> USE DEF animal, Goto, Branch, MoveOn
<1>0. /\ pc \in [Animals -> Lines]
      /\ eat_count \in [Animals -> Nat] /\ \A a \in Animals : eat_count[a] <= MealsOf(a)
  BY DEF TypeOK, Lines
<1>1. CASE Ranger \/ (UNCHANGED vars)
  <2>1. UNCHANGED <<pc, eat_count>>
    BY <1>1 DEF Ranger, Round, Inspect, AddMeat, WakeAll, Denied, Called, GoWhereTold, Remove, vars
  <2>2. QED
    BY <1>0, <2>1 DEF Hungry
<1>2. ASSUME NEW a \in Animals, Animal(a)
      PROVE  /\ Hungry' /\ eat_count' \in [Animals -> Nat]
             /\ \A b \in Animals : eat_count'[b] <= MealsOf(b)
  <2>1. \A b \in Animals \ {a} : pc'[b] = pc[b] /\ eat_count'[b] = eat_count[b]
    BY <1>2, AnimalStep
  <2>2. eat_count[a] \in Nat /\ MealsOf(a) \in Nat
    BY <1>0, AnimalFacts
  <2>3. CASE Eat(a)
    <3>1. /\ eat_count' = [eat_count EXCEPT ![a] = @ + 1] /\ pc[a] = "eat" /\ pc'[a] = "rise"
      BY <1>0, <2>3 DEF Eat
    <3>2. eat_count[a] < MealsOf(a) /\ eat_count'[a] = eat_count[a] + 1
      BY <1>0, <3>1 DEF Hungry
    <3>3. eat_count' \in [Animals -> Nat] /\ eat_count'[a] <= MealsOf(a)
      <4> DEFINE x == eat_count[a]
                 y == MealsOf(a)
      <4>1. eat_count'[a] = x + 1 /\ x \in Nat /\ y \in Nat /\ x < y
        BY <2>2, <3>2
      <4> HIDE DEF x, y
      <4>2. x + 1 \in Nat /\ x + 1 <= y
        BY <4>1
      <4>3. eat_count[a] + 1 \in Nat /\ eat_count'[a] <= MealsOf(a)
        BY <4>1, <4>2 DEF x, y
      <4>4. QED
        BY <1>0, <3>1, <4>3
    <3>4. QED
      BY <1>0, <2>1, <3>1, <3>3 DEF Hungry
  <2>4. CASE ~Eat(a)
    <3>1. UNCHANGED eat_count
      BY <1>2, <2>4 DEF Animal, Look, LookOther, TellPit, CallEmpty, Announce, Wake, Seat, Sit, Take,
                        Rise, AfterMeal, CallLow, WakeOthers, GoOn, Leave,
              SeeCount, TellOver, CallOver, UnlockOver
    <3>2. \/ pc[a] \in {"look", "look other", "empty", "call empty", "announce", "asleep", "seat",
                        "sit", "take", "eat"}
          \/ pc'[a] \notin {"look", "look other", "empty", "call empty", "announce", "asleep", "seat",
                            "sit", "take", "eat"}
          \/ eat_count[a] < MealsOf(a)
      <4>1. CASE Look(a) \/ LookOther(a) \/ CallEmpty(a) \/ Announce(a) \/ Wake(a)
        BY <4>1 DEF Look, LookOther, CallEmpty, Announce, Wake
      <4>2. CASE TellPit(a, "empty", "call empty") \/ TellPit(a, "tell", "call low")
        BY <1>0, <4>2 DEF TellPit
      <4>3. CASE Seat(a) \/ Sit(a) \/ Take(a)
        BY <4>3 DEF Seat, Sit, Take
      <4>4. CASE Rise(a) \/ AfterMeal(a) \/ CallLow(a) \/ WakeOthers(a)
        BY <1>0, <4>4 DEF Rise, AfterMeal, CallLow, WakeOthers
      <4>7. CASE Leave(a) \/ SeeCount(a) \/ TellOver(a) \/ CallOver(a) \/ UnlockOver(a)
        BY <1>0, <4>7 DEF Leave, SeeCount, TellOver, CallOver, UnlockOver
      <4>5. CASE GoOn(a)
        BY <4>5 DEF GoOn
      <4>6. QED
        BY <1>2, <2>4, <4>1, <4>2, <4>3, <4>4, <4>5, <4>7 DEF Animal
    <3>3. QED
      BY <1>0, <2>1, <3>1, <3>2 DEF Hungry
  <2>5. QED
    BY <2>3, <2>4
<1>3. QED
  BY <1>1, <1>2 DEF Next

\* A meal is taken at most once, by sitting down to it.
LEMMA TakenStep ==
  ASSUME TypeOK, Hungry, [Next]_vars
  PROVE  /\ Cardinality(Taken) <= Cardinality(Taken')
         /\ \A a \in Animals : Sit(a) => Cardinality(Taken) + 1 <= Cardinality(Taken')
<1> USE DEF animal, Goto, Branch, MoveOn
<1>0. /\ pc \in [Animals -> Lines]
      /\ eat_count \in [Animals -> Nat] /\ \A a \in Animals : eat_count[a] <= MealsOf(a)
  BY DEF TypeOK, Lines
<1>m. \A m \in Meals : m[1] \in Animals /\ m[2] \in Int
  BY DEF Meals, Animals
<1>1. \A b \in Animals : Sat(b)' = Sat(b) \/ (Sit(b) /\ Sat(b)' = Sat(b) + 1)
  <2>1. CASE Ranger \/ (UNCHANGED vars)
    <3>1. UNCHANGED <<pc, eat_count>>
      BY <2>1 DEF Ranger, Round, Inspect, AddMeat, WakeAll, Denied, Called, GoWhereTold, Remove, vars
    <3>2. QED
      BY <3>1 DEF Sat
  <2>2. ASSUME NEW a \in Animals, Animal(a), NEW b \in Animals
        PROVE  Sat(b)' = Sat(b) \/ (Sit(b) /\ Sat(b)' = Sat(b) + 1)
    <3>1. CASE b # a
      <4>1. pc'[b] = pc[b] /\ eat_count'[b] = eat_count[b]
        BY <2>2, <3>1, AnimalStep
      <4>2. QED
        BY <4>1 DEF Sat
    <3>2. CASE b = a /\ Sit(a)
      <4>1. pc[a] = "sit" /\ pc'[a] = "take" /\ UNCHANGED eat_count /\ eat_count[a] \in Nat
        BY <1>0, <3>2 DEF Sit
      <4>2. QED
        BY <3>2, <4>1 DEF Sat
    <3>3. CASE b = a /\ Eat(a)
      <4>1. /\ pc[a] = "eat" /\ pc'[a] = "rise" /\ eat_count'[a] = eat_count[a] + 1
            /\ eat_count[a] \in Nat
        BY <1>0, <3>3 DEF Eat
      <4>2. QED
        BY <3>3, <4>1 DEF Sat
    <3>4. CASE b = a /\ ~Sit(a) /\ ~Eat(a)
      <4>1. UNCHANGED eat_count
        BY <2>2, <3>4 DEF Animal, Look, LookOther, TellPit, CallEmpty, Announce, Wake, Seat, Take,
                          Rise, AfterMeal, CallLow, WakeOthers, GoOn, Leave,
              SeeCount, TellOver, CallOver, UnlockOver
      <4>2. pc[a] \in {"take", "eat"} <=> pc'[a] \in {"take", "eat"}
        <5>1. CASE Look(a) \/ LookOther(a) \/ CallEmpty(a) \/ Announce(a) \/ Wake(a)
          BY <1>0, <5>1 DEF Look, LookOther, CallEmpty, Announce, Wake
        <5>2. CASE TellPit(a, "empty", "call empty") \/ TellPit(a, "tell", "call low")
          BY <1>0, <5>2 DEF TellPit
        <5>3. CASE Seat(a) \/ Take(a) \/ Rise(a)
          BY <1>0, <5>3 DEF Seat, Take, Rise
        <5>4. CASE AfterMeal(a) \/ CallLow(a) \/ WakeOthers(a) \/ GoOn(a)
          BY <1>0, <5>4 DEF AfterMeal, CallLow, WakeOthers, GoOn
        <5>5. CASE Leave(a) \/ SeeCount(a) \/ TellOver(a) \/ CallOver(a) \/ UnlockOver(a)
          BY <1>0, <5>5 DEF Leave, SeeCount, TellOver, CallOver, UnlockOver
        <5>6. QED
          BY <2>2, <3>4, <5>1, <5>2, <5>3, <5>4, <5>5 DEF Animal
      <4>3. QED
        BY <3>4, <4>1, <4>2 DEF Sat
    <3>5. QED
      BY <3>1, <3>2, <3>3, <3>4
  <2>3. QED
    BY <2>1, <2>2 DEF Next
<1>2. \A b \in Animals : Sat(b) \in Int /\ Sat(b) <= Sat(b)'
  <2>1. ASSUME NEW b \in Animals PROVE Sat(b) \in Int
    <3>1. eat_count[b] \in Nat
      BY <1>0
    <3>2. CASE pc[b] \in {"take", "eat"}
      BY <3>1, <3>2 DEF Sat
    <3>3. CASE pc[b] \notin {"take", "eat"}
      BY <3>1, <3>3 DEF Sat
    <3>4. QED
      BY <3>2, <3>3
  <2>2. QED
    BY <1>1, <2>1
<1>3. Taken \in SUBSET Taken' /\ Taken' \in SUBSET Meals /\ IsFiniteSet(Taken')
  <2>1. \A m \in Taken : m \in Taken'
    <3>1. SUFFICES ASSUME NEW m \in Meals, m[2] <= Sat(m[1]) PROVE m[2] <= Sat(m[1])'
      BY DEF Taken
    <3>2. m[1] \in Animals /\ m[2] \in Int
      BY <1>m
    <3>3. Sat(m[1])' \in Int
      BY <1>1, <1>2, <3>2
    <3>4. QED
      BY <1>2, <3>1, <3>2, <3>3
  <2>2. Taken' \in SUBSET Meals
    BY DEF Taken
  <2>3. QED
    BY <2>1, <2>2, AllTheMeals, FS_Subset
<1>4. Cardinality(Taken) <= Cardinality(Taken')
  BY <1>3, FS_Subset
<1>5. ASSUME NEW a \in Animals, Sit(a) PROVE Cardinality(Taken) + 1 <= Cardinality(Taken')
  <2> DEFINE m == <<a, Sat(a) + 1>>
             T == Taken \cup {m}
  <2>1. pc[a] = "sit" /\ pc'[a] = "take" /\ UNCHANGED eat_count /\ eat_count[a] \in Nat
    BY <1>0, <1>5 DEF Sit
  <2>2. Sat(a) = eat_count[a] /\ Sat(a)' = Sat(a) + 1 /\ Sat(a) \in Nat
    BY <2>1 DEF Sat
  <2>3. Sat(a) + 1 \in 1..MealsOf(a)
    <3>1. eat_count[a] < MealsOf(a) /\ MealsOf(a) \in Nat
      BY <2>1, AnimalFacts DEF Hungry
    <3>2. QED
      BY <2>1, <2>2, <3>1
  <2>4. m \in Meals
    BY <2>3, AnimalFacts
  <2>5. m \notin Taken
    <3>1. ~(Sat(a) + 1 <= Sat(a))
      BY <2>2
    <3>2. QED
      BY <3>1 DEF Taken
  <2>6. m \in Taken'
    <3>1. Sat(a) + 1 <= Sat(a)'
      BY <2>2
    <3>2. QED
      BY <2>4, <3>1 DEF Taken
  <2>7. T \in SUBSET Taken' /\ IsFiniteSet(T) /\ IsFiniteSet(Taken)
    BY <1>3, <2>6, FS_Subset
  <2>8. Cardinality(T) = Cardinality(Taken) + 1
    BY <2>5, <2>7, FS_AddElement
  <2>9. Cardinality(T) <= Cardinality(Taken')
    BY <1>3, <2>7, FS_Subset
  <2>10. QED
    BY <2>8, <2>9
<1>6. QED
  BY <1>4, <1>5

\* The counters of eaters, whatever updates are lost.
LEMMA EatersStep ==
  ASSUME TypeOK, Hungry, EatersBounded, [Next]_vars
  PROVE  /\ eating' \in [Species -> [Pit -> 0..AllMeals]] /\ read' \in [Animals -> 0..AllMeals]
         /\ EatersBounded'
<1> USE DEF pits, animal
<1> DEFINE N == Cardinality(Taken)
           M == Cardinality(Taken')
<1>0. /\ eating \in [Species -> [Pit -> 0..AllMeals]] /\ read \in [Animals -> 0..AllMeals]
      /\ pit_no \in [Animals -> Pit] /\ AllMeals \in Nat
  BY AllTheMeals DEF TypeOK
<1>1. /\ N \in Nat /\ M \in Nat /\ N <= M /\ M <= AllMeals
      /\ \A a \in Animals : Sit(a) => N + 1 <= M
  <2>1. Taken' \in SUBSET Meals
    BY DEF Taken
  <2>2. M \in Nat /\ M <= AllMeals
    BY <2>1, AllTheMeals, FS_Subset, FS_CardinalityType
  <2>3. QED
    BY <2>2, TakenFinite, TakenStep
<1>2. (\A s \in Species : \A p \in Pit : eating[s][p] \in 0..N) /\ \A a \in Animals : read[a] \in 0..N
  <2>1. (\A s \in Species : \A p \in Pit : eating[s][p] <= N) /\ \A a \in Animals : read[a] <= N
    BY DEF EatersBounded
  <2> HIDE DEF N, M
  <2>2. QED
    BY <1>0, <1>1, <2>1
<1> HIDE DEF N, M
<1>3. \A x \in 0..N : x \in 0..M /\ x \in 0..AllMeals
  BY <1>0, <1>1
<1>4. \A x \in 0..M : x \in 0..AllMeals /\ x <= M
  BY <1>0, <1>1
<1>5. SUFFICES /\ eating' \in [Species -> [Pit -> 0..M]]
               /\ read' \in [Animals -> 0..M]
  <2>1. ASSUME eating' \in [Species -> [Pit -> 0..M]], read' \in [Animals -> 0..M]
        PROVE  /\ eating' \in [Species -> [Pit -> 0..AllMeals]]
               /\ read' \in [Animals -> 0..AllMeals]
    BY <1>4, <2>1
  <2>2. ASSUME eating' \in [Species -> [Pit -> 0..M]], read' \in [Animals -> 0..M]
        PROVE  EatersBounded'
    BY <1>4, <2>2 DEF EatersBounded, M
  <2>3. QED
    BY <2>1, <2>2
<1>6. eating \in [Species -> [Pit -> 0..M]] /\ read \in [Animals -> 0..M]
  BY <1>0, <1>2, <1>3
<1>7. CASE UNCHANGED <<eating, read>>
  BY <1>6, <1>7
<1>8. ASSUME NEW a \in Animals, GetEating(a), UNCHANGED eating
      PROVE  eating' \in [Species -> [Pit -> 0..M]] /\ read' \in [Animals -> 0..M]
  <2>1. SpeciesOf(a) \in Species /\ pit_no[a] \in Pit
    BY <1>0, AnimalFacts
  <2>2. eating[SpeciesOf(a)][pit_no[a]] \in 0..M
    BY <1>2, <1>3, <2>1
  <2>3. QED
    BY <1>6, <1>8, <2>2 DEF GetEating
<1>9. ASSUME NEW a \in Animals, NEW n \in Int, n <= M, SetEating(a, n)
      PROVE  eating' \in [Species -> [Pit -> 0..M]] /\ read' \in [Animals -> 0..M]
  <2>1. SpeciesOf(a) \in Species /\ pit_no[a] \in Pit
    BY <1>0, AnimalFacts
  <2>2. read' = [read EXCEPT ![a] = 0] /\ 0 \in 0..M
    BY <1>1, <1>9 DEF SetEating
  <2>3. read' \in [Animals -> 0..M]
    BY <1>6, <2>2
  <2>4. CASE n < 0
    BY <1>6, <1>9, <2>3, <2>4 DEF SetEating
  <2>5. CASE ~(n < 0)
    <3>1. n \in 0..M
      BY <1>1, <1>9, <2>5
    <3>2. eating' = [eating EXCEPT ![SpeciesOf(a)][pit_no[a]] = n]
      BY <1>9, <2>5 DEF SetEating
    <3>3. QED
      BY <1>6, <2>1, <2>3, <3>1, <3>2
  <2>6. QED
    BY <2>4, <2>5
<1>10. ASSUME NEW a \in Animals, Animal(a)
       PROVE  eating' \in [Species -> [Pit -> 0..M]] /\ read' \in [Animals -> 0..M]
  <2>1. CASE Seat(a) \/ Eat(a)
    BY <1>8, <2>1 DEF Seat, Eat
  <2>2. CASE Sit(a)
    <3>1. read[a] \in 0..N
      BY <1>2
    <3>2. read[a] + 1 \in Int /\ read[a] + 1 <= M
      BY <1>1, <2>2, <3>1
    <3>3. SetEating(a, read[a] + 1)
      BY <2>2 DEF Sit
    <3>4. QED
      BY <1>9, <3>2, <3>3
  <2>3. CASE Rise(a)
    <3>1. read[a] \in 0..N
      BY <1>2
    <3>2. read[a] - 1 \in Int /\ read[a] - 1 <= M
      BY <1>1, <3>1
    <3>3. SetEating(a, read[a] - 1)
      BY <2>3 DEF Rise
    <3>4. QED
      BY <1>9, <3>2, <3>3
  <2>4. CASE ~Seat(a) /\ ~Eat(a) /\ ~Sit(a) /\ ~Rise(a)
    <3>1. UNCHANGED <<eating, read>>
      BY <1>10, <2>4 DEF Animal, Look, LookOther, TellPit, CallEmpty, Announce, Wake, Take,
                         AfterMeal, CallLow, WakeOthers, GoOn, Leave,
              SeeCount, TellOver, CallOver, UnlockOver
    <3>2. QED
      BY <1>7, <3>1
  <2>5. QED
    BY <2>1, <2>2, <2>3, <2>4
<1>11. CASE Ranger \/ (UNCHANGED vars)
  BY <1>7, <1>11 DEF Ranger, Round, Inspect, AddMeat, WakeAll, Denied, Called, GoWhereTold, Remove, vars
<1>12. QED
  BY <1>10, <1>11 DEF Next

-----------------------------------------------------------------------------
(* All of it.                                                              *)

\* What the steps do to the variables that no other lemma is about.
LEMMA ControlStep ==
  ASSUME TypeOK, LastCall, [Next]_vars
  PROVE  /\ mutex' \in {0, 1} /\ mutex2' \in {0, 1}
         /\ calls' \in 0..(MaxCalls + 1) /\ where' \in Pit \cup {Over}
         /\ number' \in Nat /\ sema_wait' \in Nat
         /\ pc' \in [Animals -> Lines]
         /\ pit_no' \in [Animals -> Pit] /\ c' \in [Animals -> 0..4]
         /\ rpc' \in RangerLines
         /\ rpit' \in Pit /\ rc' \in 0..2
<1> USE DEF pits, waits, animal, ranger, Goto, Branch, RangerGoto
<1>a. /\ calls \in 0..(MaxCalls + 1) /\ MaxCalls \in Nat /\ calls \in Nat
      /\ number \in Nat /\ sema_wait \in Nat /\ number + sema_wait \in Nat
  <2>1. /\ number \in 0..MaxHerd /\ sema_wait \in 0..MaxHerd /\ MaxHerd \in Nat
        /\ MaxCalls \in Nat /\ calls \in 0..(MaxCalls + 1)
    BY Herd, ForestAssumption DEF TypeOK
  <2>2. QED
    BY <2>1
<1>b. 0 \in Pit /\ \A p \in Pit : NextPit(p) \in Pit
  BY PitFacts
<1>c. 0 \in 0..4 /\ \A x \in 0..4 : (IF x < 4 THEN x + 1 ELSE x) \in 0..4
  OBVIOUS
<1>d. rc # 2 => rc + 1 \in 0..2
  <2>1. rc \in 0..2
    BY DEF TypeOK
  <2>2. QED
    BY <2>1
<1>0. /\ mutex \in {0, 1} /\ mutex2 \in {0, 1} /\ where \in Pit \cup {Over}
      /\ pc \in [Animals -> Lines] /\ pit_no \in [Animals -> Pit] /\ c \in [Animals -> 0..4]
      /\ rpc \in RangerLines
      /\ rpit \in Pit /\ rc \in 0..2
  BY DEF TypeOK, Lines, RangerLines
<1>l. /\ "look" \in Lines /\ "look other" \in Lines /\ "empty" \in Lines /\ "call empty" \in Lines
      /\ "announce" \in Lines /\ "asleep" \in Lines /\ "seat" \in Lines /\ "sit" \in Lines
      /\ "take" \in Lines /\ "eat" \in Lines /\ "rise" \in Lines /\ "low" \in Lines
      /\ "no lion" \in Lines /\ "no jackal" \in Lines /\ "tell" \in Lines /\ "call low" \in Lines
      /\ "alone" \in Lines /\ "meat" \in Lines /\ "wake" \in Lines /\ "leave" \in Lines
      /\ "over" \in Lines /\ "tell over" \in Lines /\ "call over" \in Lines
      /\ "unlock" \in Lines /\ "gone" \in Lines
  BY DEF Lines
<1>r. /\ "round" \in RangerLines /\ "food" \in RangerLines /\ "lions" \in RangerLines
      /\ "jackals" \in RangerLines /\ "empty" \in RangerLines /\ "add" \in RangerLines
      /\ "wake" \in RangerLines /\ "denied" \in RangerLines /\ "asleep" \in RangerLines
      /\ "go" \in RangerLines /\ "remove count" \in RangerLines
      /\ "remove ranger" \in RangerLines /\ "remove mutex" \in RangerLines
      /\ "done" \in RangerLines
  BY DEF RangerLines
<1>1. CASE Ranger
  <2>0. 0 \in 0..2 /\ 0 \in Nat
    OBVIOUS
  <2>1. CASE Round \/ Inspect \/ AddMeat
    <3>1. /\ UNCHANGED <<mutex, mutex2, calls, where, number, sema_wait, pc, pit_no, c>>
          /\ rpit' \in Pit /\ rc' \in {0, rc}
      BY <1>0, <2>1 DEF Round, Inspect, AddMeat
    <3>2. rpc' \in RangerLines
      BY <1>r, <2>1 DEF Round, Inspect, AddMeat
    <3>3. QED
      BY <1>0, <1>a, <2>0, <3>1, <3>2
  <2>2. CASE WakeAll
    <3>1. number' \in Nat /\ sema_wait' \in Nat
      BY <1>a, <2>0, <2>2 DEF WakeAll, wakeupall
    <3>2. QED
      BY <1>0, <1>r, <1>a, <2>2, <3>1 DEF WakeAll
  <2>3. CASE Denied
    <3>1. CASE rc = 2
      BY <1>0, <1>r, <1>a, <2>0, <2>3, <3>1 DEF Denied
    <3>2. CASE rc # 2
      <4>1. rc + 1 \in 0..2
        BY <1>d, <3>2
      <4>2. QED
        BY <1>0, <1>r, <1>a, <1>b, <2>3, <3>2, <4>1 DEF Denied
    <3>3. QED
      BY <3>1, <3>2
  <2>4. CASE Called
    <3>1. calls - 1 \in 0..(MaxCalls + 1)
      BY <1>a, <2>4 DEF Called
    <3>2. QED
      BY <1>0, <1>r, <1>a, <2>4, <3>1 DEF Called
  <2>5. CASE GoWhereTold
    BY <1>0, <1>r, <1>a, <2>5 DEF GoWhereTold
  <2>6. CASE Remove
    BY <1>0, <1>r, <1>a, <2>6 DEF Remove
  <2>7. QED
    BY <1>1, <2>1, <2>2, <2>3, <2>4, <2>5, <2>6 DEF Ranger
<1>2. CASE UNCHANGED vars
  BY <1>0, <1>a, <1>2 DEF vars
<1>3. ASSUME NEW a \in Animals, NEW rounds, MoveOn(a, rounds)
      PROVE  pc' \in [Animals -> Lines] /\ pit_no' \in [Animals -> Pit] /\ c' \in [Animals -> 0..4]
  <2>1. CASE c[a] = rounds
    BY <1>0, <1>c, <1>l, <1>3, <2>1 DEF MoveOn
  <2>2. CASE c[a] # rounds
    <3>1. (IF c[a] < 4 THEN c[a] + 1 ELSE c[a]) \in 0..4 /\ NextPit(pit_no[a]) \in Pit
      BY <1>0, <1>b, <1>c
    <3>2. QED
      BY <1>0, <1>l, <1>3, <2>2, <3>1 DEF MoveOn
  <2>3. QED
    BY <2>1, <2>2
<1>4. ASSUME NEW a \in Animals, Look(a) \/ TellPit(a, "empty", "call empty")
                                \/ TellPit(a, "tell", "call low") \/ AfterMeal(a)
      PROVE  /\ pc' \in [Animals -> Lines] /\ where' \in Pit \cup {Over}
             /\ UNCHANGED <<mutex, mutex2, calls, number, sema_wait, pit_no, c, rpc, rpit, rc>>
  <2>1. CASE Look(a)
    BY <1>0, <1>l, <2>1 DEF Look
  <2>2. CASE TellPit(a, "empty", "call empty") \/ TellPit(a, "tell", "call low")
    BY ZenonT(60), <1>0, <1>l, <2>2 DEF TellPit
  <2>3. CASE AfterMeal(a)
    BY ZenonT(60), <1>0, <1>l, <2>3 DEF AfterMeal
  <2>4. QED
    BY <1>4, <2>1, <2>2, <2>3
<1>5. ASSUME NEW a \in Animals, LookOther(a)
      PROVE  /\ pc' \in [Animals -> Lines] /\ pit_no' \in [Animals -> Pit] /\ c' \in [Animals -> 0..4]
             /\ UNCHANGED <<mutex, mutex2, calls, where, number, sema_wait, rpc, rpit, rc>>
  <2>1. CASE eating[OtherOf(a)][pit_no[a]] > 0
    BY <1>3, <1>5, <2>1 DEF LookOther
  <2>2. CASE ~(eating[OtherOf(a)][pit_no[a]] > 0)
    BY <1>0, <1>c, <1>l, <1>5, <2>2 DEF LookOther
  <2>3. QED
    BY <2>1, <2>2
<1>6. ASSUME NEW a \in Animals, CallEmpty(a) \/ CallLow(a)
      PROVE  /\ pc' \in [Animals -> Lines] /\ pit_no' \in [Animals -> Pit] /\ c' \in [Animals -> 0..4]
             /\ calls' \in 0..(MaxCalls + 1)
             /\ UNCHANGED <<mutex, mutex2, where, number, sema_wait, rpc, rpit, rc>>
  <2>1. calls' \in 0..(MaxCalls + 1)
    <3>1. calls < MaxCalls /\ calls' = calls + 1
      BY <1>6 DEF CallEmpty, CallLow
    <3>2. QED
      BY <1>a, <3>1
  <2>2. QED
    BY <1>0, <1>l, <1>3, <1>6, <2>1 DEF CallEmpty, CallLow
<1>7. ASSUME NEW a \in Animals, Announce(a) \/ Wake(a)
      PROVE  /\ pc' \in [Animals -> Lines] /\ pit_no' \in [Animals -> Pit]
             /\ number' \in Nat /\ sema_wait' \in Nat
             /\ UNCHANGED <<mutex, mutex2, calls, where, c, rpc, rpit, rc>>
  <2>1. CASE Announce(a)
    <3>1. number' = number + 1 /\ UNCHANGED <<sema_wait, pit_no>> /\ pc' = [pc EXCEPT ![a] = "asleep"]
      BY <2>1 DEF Announce
    <3>2. number' \in Nat
      BY <1>a, <3>1
    <3>3. QED
      BY <1>0, <1>l, <1>a, <2>1, <3>1, <3>2 DEF Announce
  <2>2. CASE Wake(a)
    <3>1. sema_wait' = sema_wait - 1 /\ sema_wait > 0
      BY <2>2 DEF Wake
    <3>2. sema_wait' \in Nat
      BY <1>a, <3>1
    <3>3. QED
      BY <1>0, <1>l, <1>a, <1>b, <2>2, <3>2 DEF Wake
  <2>3. QED
    BY <1>7, <2>1, <2>2
<1>8. ASSUME NEW a \in Animals, Seat(a) \/ Sit(a) \/ Take(a) \/ Eat(a) \/ Rise(a)
      PROVE  /\ pc' \in [Animals -> Lines] /\ mutex' \in {0, 1} /\ mutex2' \in {0, 1}
             /\ UNCHANGED <<calls, where, number, sema_wait, pit_no, c, rpc, rpit, rc>>
  BY <1>0, <1>l, <1>8 DEF Seat, Sit, Take, Eat, Rise
<1>9. ASSUME NEW a \in Animals, WakeOthers(a) \/ GoOn(a)
      PROVE  /\ pc' \in [Animals -> Lines] /\ pit_no' \in [Animals -> Pit]
             /\ number' \in Nat /\ sema_wait' \in Nat
             /\ UNCHANGED <<mutex, mutex2, calls, where, c, rpc, rpit, rc>>
  <2>1. CASE WakeOthers(a)
    <3>1. number' \in Nat /\ sema_wait' \in Nat
      BY <1>a, <2>1 DEF WakeOthers, wakeupall
    <3>2. QED
      BY <1>0, <1>l, <2>1, <3>1 DEF WakeOthers
  <2>2. CASE GoOn(a)
    <3>1. PICK p \in Pit : pit_no' = [pit_no EXCEPT ![a] = p]
      BY <2>2 DEF GoOn
    <3>2. QED
      BY <1>0, <1>l, <1>a, <2>2, <3>1 DEF GoOn
  <2>3. QED
    BY <1>9, <2>1, <2>2
<1>10. ASSUME NEW a \in Animals,
              Leave(a) \/ SeeCount(a) \/ TellOver(a) \/ CallOver(a) \/ UnlockOver(a)
       PROVE  /\ pc' \in [Animals -> Lines] /\ where' \in Pit \cup {Over}
              /\ mutex' \in {0, 1} /\ calls' \in 0..(MaxCalls + 1)
              /\ UNCHANGED <<mutex2, number, sema_wait, pit_no, c, rpc, rpit, rc>>
  <2>1. CASE CallOver(a)
    <3>1. pc[a] = "call over" /\ (calls' = calls \/ calls' = calls + 1)
      BY <2>1 DEF CallOver
    <3>2. calls <= MaxCalls
      BY <3>1 DEF LastCall, ToCall, Calling
    <3>5. calls + 1 \in 0..(MaxCalls + 1)
      BY <1>a, <3>2
    <3>3. calls' \in 0..(MaxCalls + 1)
      BY <1>a, <3>1, <3>5
    <3>4. QED
      BY <1>0, <1>l, <2>1, <3>3 DEF CallOver
  <2>2. CASE ~CallOver(a)
    BY <1>0, <1>l, <1>a, <1>10, <2>2 DEF Leave, SeeCount, TellOver, UnlockOver
  <2>3. QED
    BY <2>1, <2>2
<1>11. ASSUME NEW a \in Animals, Animal(a)
       PROVE  /\ mutex' \in {0, 1} /\ mutex2' \in {0, 1}
              /\ calls' \in 0..(MaxCalls + 1) /\ where' \in Pit \cup {Over}
              /\ number' \in Nat /\ sema_wait' \in Nat
              /\ pc' \in [Animals -> Lines]
              /\ pit_no' \in [Animals -> Pit] /\ c' \in [Animals -> 0..4]
              /\ UNCHANGED ranger
  BY <1>0, <1>a, <1>4, <1>5, <1>6, <1>7, <1>8, <1>9, <1>10, <1>11 DEF Animal
<1>12. QED
  BY <1>0, <1>1, <1>2, <1>11 DEF Next

LEMMA SpecIInv == Spec => []IInv
<1>1. IInv /\ [Next]_vars => IInv'
  <2> SUFFICES ASSUME IInv, [Next]_vars PROVE IInv'
    OBVIOUS
  <2>0. /\ TypeOK /\ Hungry /\ Room /\ Alone /\ Counted /\ CallerLast /\ DoneLast
        /\ LastCall /\ EatersBounded /\ WakeupsAccounted
    BY DEF IInv
  <2>1. /\ Hungry' /\ Room' /\ Alone' /\ Counted' /\ CallerLast' /\ DoneLast'
        /\ LastCall' /\ EatersBounded' /\ WakeupsAccounted'
    BY <2>0, HungryStep, FoodStep, AloneStep, CountStep, CallStep, EatersStep, WakeupsStep
  <2>2. number' \in 0..MaxHerd /\ sema_wait' \in 0..MaxHerd /\ count' \in -1..MaxHerd
    <3>1. number' \in Nat /\ sema_wait' \in Nat
      BY <2>0, ControlStep
    <3>2. Asleep' \in SUBSET Animals /\ Present' \in SUBSET Animals
      BY DEF Asleep, Present
    <3>3. Cardinality(Asleep') \in 0..MaxHerd /\ Cardinality(Present') \in 0..MaxHerd /\ MaxHerd \in Nat
      BY <3>2, Herd
    <3> DEFINE n == Cardinality(Asleep')
    <3>4. number' + sema_wait' = n /\ n \in 0..MaxHerd
      BY <2>1, <3>3 DEF WakeupsAccounted, Asleep
    <3>7. count' \in -1..MaxHerd
      <4>1. count' = -1 \/ count' = Cardinality(Present')
        BY <2>1 DEF Counted
      <4>2. \A x \in 0..MaxHerd : x \in -1..MaxHerd
        BY <3>3
      <4>3. -1 \in -1..MaxHerd
        BY <3>3
      <4>4. QED
        BY <3>3, <4>1, <4>2, <4>3
    <3> HIDE DEF n
    <3>5. number' \in 0..MaxHerd /\ sema_wait' \in 0..MaxHerd
      <4>1. \A x, y \in Nat : \A z \in 0..MaxHerd : x + y = z => x \in 0..MaxHerd /\ y \in 0..MaxHerd
        BY <3>3
      <4>2. QED
        BY <3>1, <3>4, <4>1
    <3>6. QED
      BY <3>5, <3>7
  <2>3. /\ food' \in [Pit -> 0..Full] /\ eating' \in [Species -> [Pit -> 0..AllMeals]]
        /\ read' \in [Animals -> 0..AllMeals]
        /\ eat_count' \in [Animals -> Nat] /\ \A a \in Animals : eat_count'[a] <= MealsOf(a)
    BY <2>0, FoodStep, EatersStep, HungryStep
  <2>4. TypeOK'
    BY <2>0, <2>2, <2>3, ControlStep DEF TypeOK, Lines, RangerLines
  <2>5. QED
    BY <2>1, <2>4 DEF IInv
<1>2. QED
  BY InitIInv, <1>1, PTL DEF Spec

\* A pit never holds more than Full nor less than nothing (ranger.c lines 130-138,
\* lion.c and jackal.c lines 144 and 191), and every semaphore has a value it may have:
\* though updates of the counters of eaters may be lost.
THEOREM TypeCorrect == Spec => []TypeOK
<1>1. IInv => TypeOK
  BY DEF IInv
<1>2. QED
  BY SpecIInv, <1>1, PTL

\* Every animal that has announced that it waits is, or will have been, upped by
\* the next wakeupall, once: whoever calls it, in whichever order.
THEOREM WakeupsExact == Spec => []WakeupsAccounted
<1>1. IInv => WakeupsAccounted
  BY DEF IInv
<1>2. QED
  BY SpecIInv, <1>1, PTL

\* When the ranger ends, which removes the semaphores, no animal is left to use them
\* but the last one, in its last lines: the first half of RangerEnds.
THEOREM RangerEndsLast == Spec => [](rpc \in Ending => OnlyTheLastIsLeft)
<1>1. IInv => (rpc \in Ending => OnlyTheLastIsLeft)
  <2> SUFFICES ASSUME IInv, rpc \in Ending PROVE OnlyTheLastIsLeft
    OBVIOUS
  <2>1. \A a \in Animals : Gone(a) \/ pc[a] \in LastLines
    BY DEF IInv, DoneLast, Present, Out, Gone
  <2>2. \A a, b \in Animals : pc[a] \in LastLines /\ pc[b] \in LastLines => a = b
    BY DEF IInv, Alone, Holding
  <2>3. QED
    BY <2>1, <2>2 DEF OnlyTheLastIsLeft
<1>2. QED
  BY SpecIInv, <1>1, PTL
=============================================================================
