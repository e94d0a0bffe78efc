------------------------ MODULE BarberGame_proofs ---------------------------
(***************************************************************************)
(* Proofs about the two programs in which a parent and its children meet   *)
(* on the kernel's own objects, semaphores in the one and signals and      *)
(* pipes in the other.  The two share nothing.                             *)
(***************************************************************************)
EXTENDS Barber, Game, FiniteSetTheorems, TLAPS

(***************************************************************************)
(* The sleeping barber, for any finite set of customers and any number of  *)
(* chairs.  The three accounting invariants are inductive together with    *)
(* TypeOK once one fact is added: with no chair at all nobody gets past    *)
(* the door.                                                               *)
(***************************************************************************)

NoChairNoService ==
  Chairs = 0 => At({"sit", "lock", "wake", "cut"}) = {}

ShopIInv ==
  /\ TypeOK
  /\ ChairAccounting
  /\ OneHaircutAtATime
  /\ CountAccounting
  /\ NoChairNoService

-----------------------------------------------------------------------------
\* The customers at some lines of the program are finitely many.
LEMMA AtFinite ==
  ASSUME NEW S
  PROVE  /\ IsFiniteSet(At(S)) /\ Cardinality(At(S)) \in Nat
         /\ IsFiniteSet(At(S)') /\ Cardinality(At(S)') \in Nat
<1>1. At(S) \in SUBSET Customers /\ At(S)' \in SUBSET Customers
  BY DEF At
<1>2. IsFiniteSet(At(S)) /\ IsFiniteSet(At(S)')
  BY <1>1, ShopAssumption, FS_Subset
<1>3. QED
  BY <1>2, FS_CardinalityType

\* One customer moving from line cpc[c] to line l changes the number of
\* customers at the lines S by what leaves S and what enters it.
LEMMA Move ==
  ASSUME TypeOK, NEW c \in Customers, NEW l \in CustomerAt, CustomerGoto(c, l),
         NEW S
  PROVE  Cardinality(At(S)') = Cardinality(At(S))
                               + (IF l \in S THEN 1 ELSE 0)
                               - (IF cpc[c] \in S THEN 1 ELSE 0)
<1>1. IsFiniteSet(At(S)) /\ Cardinality(At(S)) \in Nat
  BY AtFinite
<1>2. CASE l \in S
  <2>1. At(S)' = At(S) \cup {c}
    BY <1>2 DEF At, CustomerGoto, TypeOK
  <2>2. cpc[c] \in S <=> c \in At(S)
    BY DEF At
  <2>3. Cardinality(At(S) \cup {c}) =
          IF c \in At(S) THEN Cardinality(At(S)) ELSE Cardinality(At(S)) + 1
    BY <1>1, FS_AddElement
  <2>4. QED
    BY <1>1, <1>2, <2>1, <2>2, <2>3
<1>3. CASE l \notin S
  <2>1. At(S)' = At(S) \ {c}
    BY <1>3 DEF At, CustomerGoto, TypeOK
  <2>2. cpc[c] \in S <=> c \in At(S)
    BY DEF At
  <2>3. Cardinality(At(S) \ {c}) =
          IF c \in At(S) THEN Cardinality(At(S)) - 1 ELSE Cardinality(At(S))
    BY <1>1, FS_RemoveElement
  <2>4. QED
    BY <1>1, <1>3, <2>1, <2>2, <2>3
<1>4. QED
  BY <1>2, <1>3

\* The customers in the shop, counted through the ones that have left.
LEMMA Inside ==
  ASSUME TypeOK
  PROVE  /\ Customers \ At({"done"}) = At(CustomerAt \ {"done"})
         /\ TypeOK' => (Customers \ At({"done"}))' = At(CustomerAt \ {"done"})'
BY DEF TypeOK, At

-----------------------------------------------------------------------------
LEMMA ShopInitIInv == ShopInit => ShopIInv
<1> SUFFICES ASSUME ShopInit PROVE ShopIInv
  OBVIOUS
<1>1. Cardinality(Customers) \in Nat
  BY ShopAssumption, FS_CardinalityType
<1>2. TypeOK
  BY <1>1, ShopAssumption DEF ShopInit, TypeOK, CustomerAt, BarberAt
<1>3. /\ At({"lock", "wake"}) = {} /\ At({"wake"}) = {} /\ At({"done"}) = {}
      /\ At({"sit", "lock", "wake", "cut"}) = {}
  BY DEF ShopInit, At
<1>4. ChairAccounting /\ OneHaircutAtATime
  <2>1. Cardinality({}) = 0
    BY FS_EmptySet
  <2>2. QED
    BY <1>3, <2>1, ShopAssumption
       DEF ShopInit, ChairAccounting, OneHaircutAtATime
<1>5. CountAccounting /\ NoChairNoService
  BY <1>3 DEF ShopInit, CountAccounting, NoChairNoService
<1>6. QED
  BY <1>2, <1>4, <1>5 DEF ShopIInv

LEMMA CustomerIInv ==
  ASSUME ShopIInv, NEW c \in Customers, CustomerStep(c)
  PROVE  ShopIInv'
<1> USE DEF ShopIInv, CustomerGoto
<1> DEFINE busy == {"lock", "wake"}
           past == {"sit", "lock", "wake", "cut"}
           in   == CustomerAt \ {"done"}
<1>1. PICK l \in CustomerAt : CustomerGoto(c, l)
  BY DEF CustomerStep, TurnAway, SeeChair, TakeChair, LockMutex, WakeBarber,
         Exit, CustomerAt
<1>2. /\ Cardinality(At(busy)) \in Nat /\ Cardinality(At(busy)') \in Nat
      /\ Cardinality(At({"wake"})) \in Nat /\ Cardinality(At({"wake"})') \in Nat
      /\ Cardinality(At(in)) \in Nat /\ Cardinality(At(in)') \in Nat
  BY AtFinite
<1>3. /\ Cardinality(At(busy)') = Cardinality(At(busy))
             + (IF l \in busy THEN 1 ELSE 0) - (IF cpc[c] \in busy THEN 1 ELSE 0)
      /\ Cardinality(At({"wake"})') = Cardinality(At({"wake"}))
             + (IF l \in {"wake"} THEN 1 ELSE 0) - (IF cpc[c] \in {"wake"} THEN 1 ELSE 0)
      /\ Cardinality(At(in)') = Cardinality(At(in))
             + (IF l \in in THEN 1 ELSE 0) - (IF cpc[c] \in in THEN 1 ELSE 0)
  BY <1>1, Move
<1>4. cpc'[c] = l
  BY <1>1 DEF TypeOK
<1>5. TypeOK'
  <2>1. /\ mutex' \in Nat /\ customer' \in Nat
        /\ barber' \in Nat /\ count' \in Nat
    BY DEF CustomerStep, TurnAway, SeeChair, TakeChair, LockMutex,
           WakeBarber, Exit, TypeOK, sems
  <2>2. cpc' \in [Customers -> CustomerAt]
    BY <1>1 DEF TypeOK
  <2>3. bpc' \in BarberAt
    BY DEF CustomerStep, TurnAway, SeeChair, TakeChair, LockMutex,
           WakeBarber, Exit, TypeOK
  <2>4. QED
    BY <2>1, <2>2, <2>3 DEF TypeOK
<1>6. ChairAccounting'
  BY <1>2, <1>3, <1>4, ShopAssumption
     DEF ChairAccounting, CustomerStep, TurnAway, SeeChair, TakeChair,
         LockMutex, WakeBarber, Exit, TypeOK, sems
<1>7. OneHaircutAtATime'
  BY <1>2, <1>3, <1>4
     DEF OneHaircutAtATime, CustomerStep, TurnAway, SeeChair, TakeChair,
         LockMutex, WakeBarber, Exit, TypeOK, sems
<1>8. CountAccounting'
  <2>1. count = Cardinality(At(in))
    BY Inside DEF CountAccounting
  <2>2. count' = Cardinality(At(in)')
    BY <1>2, <1>3, <1>4, <2>1
       DEF CustomerStep, TurnAway, SeeChair, TakeChair,
           LockMutex, WakeBarber, Exit, TypeOK, sems, CustomerAt
  <2>3. QED
    BY <1>5, <2>2, Inside DEF CountAccounting
<1>9. NoChairNoService'
  <2> SUFFICES ASSUME Chairs = 0 PROVE At(past)' = {}
    BY DEF NoChairNoService
  <2>1. At(past) = {}
    BY DEF NoChairNoService
  <2>2. customer = 0
    BY <1>2 DEF ChairAccounting, TypeOK
  <2>3. cpc[c] \notin past
    BY <2>1 DEF At
  <2>4. l \notin past
    BY <2>2, <2>3, <1>4
       DEF CustomerStep, TurnAway, SeeChair, TakeChair,
           LockMutex, WakeBarber, Exit, CustomerGoto, TypeOK
  <2>5. QED
    BY <1>1, <2>1, <2>4 DEF At, CustomerGoto, TypeOK
<1>10. QED
  BY <1>5, <1>6, <1>7, <1>8, <1>9

LEMMA BarberIInv ==
  ASSUME ShopIInv, BarberStep
  PROVE  ShopIInv'
<1> USE DEF ShopIInv, BarberGoto
<1>1. cpc' = cpc
  BY DEF BarberStep, CheckCount, WakeUp, FreeChair, ReleaseMutex, Close
<1>2. \A S : At(S)' = At(S)
  BY <1>1 DEF At
<1>3. Cardinality(At({"lock", "wake"})) \in Nat /\ Cardinality(At({"wake"})) \in Nat
  BY AtFinite
<1>4. TypeOK'
  BY DEF BarberStep, CheckCount, WakeUp, FreeChair, ReleaseMutex, Close,
         TypeOK, BarberAt, sems
<1>5. ChairAccounting' /\ OneHaircutAtATime'
  BY <1>2, <1>3, ShopAssumption
     DEF BarberStep, CheckCount, WakeUp, FreeChair, ReleaseMutex, Close,
         ChairAccounting, OneHaircutAtATime, TypeOK, sems
<1>6. CountAccounting' /\ NoChairNoService'
  BY <1>2 DEF BarberStep, CheckCount, WakeUp, FreeChair, ReleaseMutex, Close,
              CountAccounting, NoChairNoService, sems
<1>7. QED
  BY <1>4, <1>5, <1>6

\* The strengthened invariant holds in every reachable state.
THEOREM ShopInductive == ShopSpec => []ShopIInv
<1>1. ShopIInv /\ [ShopNext]_shop => ShopIInv'
  <2> SUFFICES ASSUME ShopIInv, [ShopNext]_shop PROVE ShopIInv'
    OBVIOUS
  <2>1. CASE \E c \in Customers : CustomerStep(c)
    BY <2>1, CustomerIInv
  <2>2. CASE BarberStep
    BY <2>2, BarberIInv
  <2>3. CASE UNCHANGED shop
    BY <2>3 DEF shop, ShopIInv, TypeOK, ChairAccounting, OneHaircutAtATime,
                CountAccounting, NoChairNoService, At
  <2>4. QED
    BY <2>1, <2>2, <2>3 DEF ShopNext
<1>2. QED
  BY ShopInitIInv, <1>1, PTL DEF ShopSpec

-----------------------------------------------------------------------------
\* Every process stays at a line of the program and no semaphore underflows.
THEOREM TypeCorrect == ShopSpec => []TypeOK
BY ShopInductive, PTL DEF ShopIInv

\* No chair is ever lost or invented, whatever the order of the steps.
THEOREM ChairsConserved == ShopSpec => []ChairAccounting
BY ShopInductive, PTL DEF ShopIInv

\* The barber's chair passes from customer to barber and back without ever
\* being held twice: one haircut at a time.
THEOREM BarberServesOne == ShopSpec => []OneHaircutAtATime
BY ShopInductive, PTL DEF ShopIInv

\* count is exact, so the barber closes only when everybody has left.
THEOREM CountExact == ShopSpec => []CountAccounting
BY ShopInductive, PTL DEF ShopIInv

\* A sleeping barber always has somebody able to move towards waking him when
\* anybody is waiting.
THEOREM NoStranding == ShopSpec => []SleepingBarberCanBeWoken
<1>1. ShopIInv => SleepingBarberCanBeWoken
  <2> SUFFICES ASSUME ShopIInv, bpc = "sleep", barber = 0,
                      At({"sit", "lock"}) # {}, At({"wake"}) = {}
               PROVE  \/ mutex > 0 /\ At({"lock"}) # {}
                      \/ customer > 0 /\ At({"sit"}) # {}
    BY DEF SleepingBarberCanBeWoken
  <2>1. mutex = 1
    BY FS_EmptySet DEF ShopIInv, OneHaircutAtATime, TypeOK
  <2>2. CASE At({"lock"}) # {}
    BY <2>1, <2>2
  <2>3. CASE At({"lock"}) = {}
    <3>1. At({"lock", "wake"}) = {} /\ At({"sit"}) # {}
      BY <2>3 DEF At
    <3>2. Chairs # 0
      BY <3>1 DEF ShopIInv, NoChairNoService, At
    <3>3. customer = Chairs
      BY <3>1, FS_EmptySet, ShopAssumption DEF ShopIInv, ChairAccounting, TypeOK
    <3>4. QED
      BY <3>1, <3>2, <3>3, ShopAssumption
  <2>4. QED
    BY <2>2, <2>3
<1>2. QED
  BY ShopInductive, <1>1, PTL

-----------------------------------------------------------------------------
(***************************************************************************)
(* The game, for every number of points that ends it.  The one-answer      *)
(* property becomes inductive with three facts: whatever is on its way     *)
(* from a child carries the number of this round, a child that is gone has *)
(* left nothing behind, and SIGUSR2 is sent only at the end.               *)
(***************************************************************************)

Choices == {ROCK, PAPER, SCISSOR}
Answer  == Choices \X Nat
Playing == {"ask1", "ask2", "read1", "read2", "score", "undefined"}

GameTypeOK ==
  /\ pc \in ParentAt /\ round \in Nat /\ winner \in Nat
  /\ val \in [Child -> Nat] /\ p \in [Child -> (Choices \cup {0}) \X Nat]
  /\ at \in [Child -> {"loop", "handler", "nap", "gone"}]
  /\ installed \in [Child -> 0..2]
  /\ usr1 \in [Child -> Nat] /\ request \in [Child -> Nat]
  /\ usr2 \in [Child -> BOOLEAN]
  /\ pipe \in [Child -> Seq(Answer)]

\* A request, wherever it is, is of the round that is being played.
ThisRound ==
  /\ pc \in Playing => round > 0
  /\ \A c \in Child : /\ usr1[c] \in {0, round}
                      /\ at[c] = "handler" => request[c] = round
                      /\ pc \in Playing => p[c][1] = 0 \/ p[c][2] = round

\* One choice of c is on its way: as a signal, in the handler or in the pipe.
Nothing(c)   == usr1[c] = 0 /\ at[c] # "handler" /\ pipe[c] = <<>>
Signalled(c) == usr1[c] # 0 /\ at[c] # "handler" /\ pipe[c] = <<>>
Handled(c)   == usr1[c] = 0 /\ at[c] = "handler" /\ pipe[c] = <<>>
Written(c)   == /\ usr1[c] = 0 /\ at[c] # "handler"
                /\ \E r \in Choices : pipe[c] = << <<r, round>> >>

OneAnswer ==
  \A c \in Child :
    IF Asked(c) /\ ~Gone(c) THEN Signalled(c) \/ Handled(c) \/ Written(c)
                           ELSE Nothing(c)

SentAtTheEnd ==
  /\ usr2[1] => pc \in {"end2", "exit"}
  /\ usr2[2] => pc = "exit"

\* Every round that was scored is worth a point, shared or not.
PointsAreRounds ==
  val[1] + val[2] = 2 * (IF pc \in Playing THEN round - 1 ELSE round)

IInv == GameTypeOK /\ ThisRound /\ OneAnswer /\ SentAtTheEnd /\ PointsAreRounds

\* Before the goal nobody has reached it; after it the winner has, and the
\* other one only in a draw at exactly the goal.
Lead ==
  /\ pc \in Playing => \A c \in Child : val[c] < 2 * Goal
  /\ \A c, d \in Child :
       c # d /\ val[c] >= 2 * Goal =>
         val[d] < 2 * Goal \/ (val[c] = 2 * Goal /\ val[d] = 2 * Goal)
  /\ pc = "end" => Over
  /\ pc \in {"end1", "end2", "exit"} =>
       winner \in Child /\ val[winner] >= 2 * Goal

\* The prize goes to a child that has reached the goal and that the other one
\* has not passed (sig.c:148-173).
RightWinner ==
  pc \in {"end1", "end2", "exit"} =>
    /\ winner \in Child /\ val[winner] >= 2 * Goal
    /\ \A c \in Child : val[c] <= val[winner]

-----------------------------------------------------------------------------
LEMMA InitIInv == Init => IInv
<1> SUFFICES ASSUME Init PROVE IInv
  OBVIOUS
<1>1. GameTypeOK
  BY DEF Init, GameTypeOK, ParentAt, Answer, Choices, Child
<1>2. ThisRound /\ SentAtTheEnd /\ PointsAreRounds
  BY DEF Init, ThisRound, SentAtTheEnd, PointsAreRounds, Playing, Child
<1>3. OneAnswer
  BY DEF Init, OneAnswer, Nothing, Asked, Child
<1>4. QED
  BY <1>1, <1>2, <1>3 DEF IInv

LEMMA ParentIInv ==
  ASSUME IInv, ParentStep
  PROVE  IInv'
<1> USE DEF IInv, children
<1>1. CASE Check
  <2> USE <1>1 DEF Check
  <2>1. \A c \in Child : Nothing(c)
    BY DEF OneAnswer, Asked
  <2>2. GameTypeOK'
    <3>1. p' \in [Child -> (Choices \cup {0}) \X Nat] /\ round' \in Nat
      BY SMTT(30) DEF GameTypeOK
    <3>2. pc' \in ParentAt
      BY DEF ParentAt
    <3>3. QED
      BY <3>1, <3>2 DEF GameTypeOK
  <2>3. ThisRound'
    BY <2>1 DEF ThisRound, GameTypeOK, Playing, Nothing
  <2>4. OneAnswer'
    BY <2>1 DEF OneAnswer, Nothing, Asked, Gone
  <2>5. SentAtTheEnd'
    BY DEF SentAtTheEnd
  <2>6. PointsAreRounds'
    BY DEF PointsAreRounds, GameTypeOK, Playing
  <2>7. QED
    BY <2>2, <2>3, <2>4, <2>5, <2>6
<1>2. ASSUME NEW c \in Child, Ask(c) PROVE IInv'
  <2> USE <1>2 DEF Ask, Signal
  <2>1. Nothing(c) /\ round > 0
    BY DEF OneAnswer, Asked, ThisRound, Playing, Child
  <2>2. GameTypeOK'
    BY DEF GameTypeOK, ParentAt
  <2>3. ThisRound'
    BY DEF ThisRound, GameTypeOK, Playing
  <2>4. OneAnswer'
    BY <2>1 DEF OneAnswer, Nothing, Signalled, Handled, Written, Asked, GameTypeOK, Gone, Child
  <2>5. SentAtTheEnd'
    BY DEF SentAtTheEnd
  <2>6. PointsAreRounds'
    BY DEF PointsAreRounds, Playing
  <2>7. QED
    BY <2>2, <2>3, <2>4, <2>5, <2>6
<1>3. ASSUME NEW c \in Child, Read(c) PROVE IInv'
  <2> USE <1>3 DEF Read, ReadAt
  <2>1. Asked(c)
    BY DEF Asked, Child
  <2>2. CASE pipe[c] # <<>>
    <3>1. PICK r \in Choices : pipe[c] = << <<r, round>> >>
      BY <2>2 DEF OneAnswer, Nothing, Signalled, Handled, Written
    <3>2. usr1[c] = 0 /\ at[c] # "handler"
      BY <2>2 DEF OneAnswer, Nothing, Signalled, Handled, Written
    <3>3. /\ p' = [p EXCEPT ![c] = <<r, round>>]
          /\ pipe' = [pipe EXCEPT ![c] = <<>>]
      BY <2>2, <3>1
    <3>4. GameTypeOK'
      BY <3>3 DEF GameTypeOK, ParentAt
    <3>5. ThisRound'
      BY <3>3 DEF ThisRound, GameTypeOK, Playing
    <3>6. OneAnswer'
      BY SMTT(30), <3>2, <3>3 DEF OneAnswer, Nothing, Signalled, Handled, Written, Asked,
                        GameTypeOK, Gone, Child
    <3>7. QED
      BY <3>4, <3>5, <3>6 DEF SentAtTheEnd, PointsAreRounds, Playing
  <2>3. CASE pipe[c] = <<>>
    <3>1. GameTypeOK' /\ ThisRound'
      BY <2>3 DEF GameTypeOK, ParentAt, ThisRound, Playing
    <3>2. OneAnswer'
      BY <2>3 DEF OneAnswer, Nothing, Gone
    <3>3. QED
      BY <2>3, <3>1, <3>2 DEF SentAtTheEnd, PointsAreRounds, Playing
  <2>4. QED
    BY <2>2, <2>3
<1>4. CASE Score
  <2> USE <1>4 DEF Score
  <2>1. pc' \in {"check", "undefined"} /\ UNCHANGED <<round, p, winner, children>>
    OBVIOUS
  <2>2. /\ val' \in [Child -> Nat]
        /\ val'[1] + val'[2] = val[1] + val[2] + IF pc' = "check" THEN 2 ELSE 0
    <3> USE DEF Child
    <3>1. val \in [Child -> Nat]
      BY DEF GameTypeOK
    <3>2. CASE val' = [c \in Child |-> val[c] + 1] /\ pc' = "check"
      BY <3>1, <3>2
    <3>3. ASSUME NEW c \in Child, val' = [val EXCEPT ![c] = @ + 2], pc' = "check"
          PROVE  /\ val' \in [Child -> Nat]
                 /\ val'[1] + val'[2] = val[1] + val[2] + IF pc' = "check" THEN 2 ELSE 0
      BY <3>1, <3>3
    <3>4. CASE UNCHANGED val /\ pc' = "undefined"
      BY <3>1, <3>4
    <3>5. QED
      BY <3>2, <3>3, <3>4
  <2>3. GameTypeOK'
    BY <2>1, <2>2 DEF GameTypeOK, ParentAt
  <2>4. ThisRound' /\ SentAtTheEnd'
    BY <2>1 DEF ThisRound, SentAtTheEnd, Playing
  <2>5. OneAnswer'
    BY <2>1 DEF OneAnswer, Nothing, Asked, Gone
  <2>6. PointsAreRounds'
    <3>1. round \in Nat /\ val \in [Child -> Nat] /\ val[1] + val[2] = 2 * (round - 1)
      BY DEF GameTypeOK, PointsAreRounds, Playing
    <3>2. val[1] \in Nat /\ val[2] \in Nat /\ val'[1] \in Nat /\ val'[2] \in Nat
      BY <2>2, <3>1 DEF Child
    <3>3. QED
      BY <2>1, <2>2, <3>1, <3>2 DEF PointsAreRounds, Playing
  <2>7. QED
    BY <2>3, <2>4, <2>5, <2>6
<1>5. CASE Result
  BY <1>5 DEF Result, GameTypeOK, ParentAt, ThisRound, OneAnswer, Nothing, Asked,
              SentAtTheEnd, PointsAreRounds, Playing, Gone, Child
<1>6. ASSUME NEW c \in Child, End(c) PROVE IInv'
  <2> USE <1>6 DEF End
  <2>1. pc' \in {"end2", "exit"} /\ pc \notin Playing
    BY DEF Playing
  <2>2. GameTypeOK'
    <3>1. usr2' \in [Child -> BOOLEAN]
      BY DEF GameTypeOK, Gone
    <3>2. QED
      BY <2>1, <3>1 DEF GameTypeOK, ParentAt
  <2>3. ThisRound' /\ PointsAreRounds'
    BY <2>1 DEF ThisRound, PointsAreRounds, Playing
  <2>4. OneAnswer'
    BY <2>1 DEF OneAnswer, Nothing, Asked, Gone
  <2>5. SentAtTheEnd'
    BY DEF SentAtTheEnd, GameTypeOK, Child
  <2>6. QED
    BY <2>2, <2>3, <2>4, <2>5
<1>7. QED
  BY <1>1, <1>2, <1>3, <1>4, <1>5, <1>6 DEF ParentStep

LEMMA ChildIInv ==
  ASSUME IInv, NEW c \in Child, ChildStep(c)
  PROVE  IInv'
<1> USE DEF IInv, parent, Goto
<1>0. UNCHANGED parent /\ UNCHANGED usr2
  BY DEF ChildStep, Install, TakeReady, Choose, Return, Leave
<1>1. SentAtTheEnd' /\ PointsAreRounds'
  BY <1>0 DEF SentAtTheEnd, PointsAreRounds
<1>2. CASE Install(c)
  <2> USE <1>2 DEF Install
  <2>1. GameTypeOK'
    <3>1. installed[c] + 1 \in 0..2
      <4>1. installed[c] \in 0..2 /\ installed[c] < 2
        BY DEF GameTypeOK
      <4>2. QED
        BY <4>1
    <3>2. QED
      BY <3>1 DEF GameTypeOK
  <2>2. ThisRound' /\ OneAnswer'
    BY DEF ThisRound, OneAnswer, Nothing, Signalled, Handled, Written, Asked, Gone
  <2>3. QED
    BY <1>1, <2>1, <2>2
<1>3. CASE TakeReady(c)
  <2> USE <1>3 DEF TakeReady
  <2>1. Signalled(c) /\ usr1[c] = round
    BY DEF OneAnswer, Nothing, Signalled, Handled, Written, ThisRound
  <2>2. GameTypeOK'
    <3>1. at' \in [Child -> {"loop", "handler", "nap", "gone"}]
      BY DEF GameTypeOK
    <3>2. /\ usr1' \in [Child -> Nat] /\ request' \in [Child -> Nat]
          /\ UNCHANGED <<pc, round, val, p, winner, installed, usr2, pipe>>
      BY DEF GameTypeOK
    <3>3. QED
      BY <3>1, <3>2 DEF GameTypeOK
  <2>3. ThisRound'
    BY <2>1 DEF ThisRound, GameTypeOK
  <2>4. OneAnswer'
    BY <2>1 DEF OneAnswer, Nothing, Signalled, Handled, Written, Asked, GameTypeOK, Gone
  <2>5. QED
    BY <1>1, <2>2, <2>3, <2>4
<1>4. CASE Choose(c)
  <2> USE <1>4 DEF Choose
  <2>1. Handled(c) /\ request[c] = round /\ Asked(c)
    BY DEF OneAnswer, Nothing, Signalled, Handled, Written, ThisRound
  <2>2. PICK r \in Choices : pipe' = [pipe EXCEPT ![c] = Append(@, <<r, request[c]>>)]
    BY DEF Choices
  <2>3. pipe' = [pipe EXCEPT ![c] = << <<r, round>> >>]
    <3>1. \A m : Append(<<>>, m) = <<m>>
      OBVIOUS
    <3>2. Append(pipe[c], <<r, request[c]>>) = << <<r, round>> >>
      BY <2>1, <3>1 DEF Handled
    <3>3. QED
      BY <2>2, <3>2
  <2>4. GameTypeOK'
    <3>1. << <<r, round>> >> \in Seq(Answer)
      BY DEF GameTypeOK, Answer
    <3>2. QED
      BY <2>3, <3>1 DEF GameTypeOK
  <2>5. ThisRound'
    BY <2>3 DEF ThisRound, GameTypeOK
  <2>6. OneAnswer'
    <3>1. Written(c)'
      BY <2>1, <2>3 DEF Written, Handled, GameTypeOK
    <3>2. QED
      BY <2>1, <2>3, <3>1 DEF OneAnswer, Nothing, Signalled, Handled, Written, Asked,
                              GameTypeOK, Gone
  <2>7. QED
    BY <1>1, <2>4, <2>5, <2>6
<1>5. CASE Return(c)
  <2> USE <1>5 DEF Return
  <2>1. GameTypeOK'
    BY DEF GameTypeOK
  <2>2. ThisRound' /\ OneAnswer'
    BY DEF ThisRound, OneAnswer, Nothing, Signalled, Handled, Written, Asked, Gone, GameTypeOK
  <2>3. QED
    BY <1>1, <2>1, <2>2
<1>6. CASE Leave(c)
  <2> USE <1>6 DEF Leave
  <2>1. Nothing(c)
    BY DEF SentAtTheEnd, Asked, Child, OneAnswer
  <2>2. GameTypeOK' /\ ThisRound'
    BY DEF GameTypeOK, ThisRound
  <2>3. OneAnswer'
    BY <2>1 DEF OneAnswer, Nothing, Signalled, Handled, Written, Asked, GameTypeOK, Gone
  <2>4. QED
    BY <1>1, <2>2, <2>3
<1>7. QED
  BY <1>2, <1>3, <1>4, <1>5, <1>6 DEF ChildStep

LEMMA SpecIInv == Spec => []IInv
<1>1. IInv /\ [Next]_vars => IInv'
  <2> SUFFICES ASSUME IInv, [Next]_vars PROVE IInv'
    OBVIOUS
  <2>1. CASE ParentStep
    BY <2>1, ParentIInv
  <2>2. ASSUME NEW c \in Child, ChildStep(c) PROVE IInv'
    BY <2>2, ChildIInv
  <2>3. CASE UNCHANGED vars
    BY <2>3 DEF vars, parent, children, IInv, GameTypeOK, ThisRound, OneAnswer, Nothing,
                Signalled, Handled, Written, Asked, SentAtTheEnd, PointsAreRounds, Gone
  <2>4. QED
    BY <2>1, <2>2, <2>3 DEF Next
<1>2. QED
  BY InitIInv, <1>1, PTL DEF Spec

-----------------------------------------------------------------------------
\* No request is lost and none answered twice; the choices compared were both
\* made for this round; every round is worth a point.
THEOREM AnswersOnce == Spec => []OneAnswerPerRound
<1>1. ASSUME IInv, NEW c \in Child, ~Gone(c)
      PROVE  OnItsWay(c) = IF Asked(c) THEN 1 ELSE 0
  <2> DEFINE Pending == IF usr1[c] # 0 THEN 1 ELSE 0
             Running == IF at[c] = "handler" THEN 1 ELSE 0
             Unread  == Len(pipe[c])
  <2>1. Len(<<>>) = 0 /\ \A m : Len(<<m>>) = 1
    OBVIOUS
  <2>2. OnItsWay(c) = Pending + Running + Unread
    BY DEF OnItsWay
  <2>3. CASE Asked(c)
    <3>1. CASE Signalled(c)
      <4>1. Pending = 1 /\ Running = 0 /\ Unread = 0
        BY <2>1, <3>1 DEF Signalled
      <4> HIDE DEF Pending, Running, Unread
      <4>2. QED
        BY <2>2, <2>3, <4>1
    <3>2. CASE Handled(c)
      <4>1. Pending = 0 /\ Running = 1 /\ Unread = 0
        BY <2>1, <3>2 DEF Handled
      <4> HIDE DEF Pending, Running, Unread
      <4>2. QED
        BY <2>2, <2>3, <4>1
    <3>3. CASE Written(c)
      <4>1. Pending = 0 /\ Running = 0 /\ Unread = 1
        BY <2>1, <3>3 DEF Written
      <4> HIDE DEF Pending, Running, Unread
      <4>2. QED
        BY <2>2, <2>3, <4>1
    <3>4. QED
      BY <1>1, <2>3, <3>1, <3>2, <3>3 DEF IInv, OneAnswer
  <2>4. CASE ~Asked(c)
    <3>1. Pending = 0 /\ Running = 0 /\ Unread = 0
      BY <1>1, <2>1, <2>4 DEF IInv, OneAnswer, Nothing
    <3> HIDE DEF Pending, Running, Unread
    <3>2. QED
      BY <2>2, <2>4, <3>1
  <2>5. QED
    BY <2>3, <2>4
<1>2. IInv => OneAnswerPerRound
  BY <1>1 DEF IInv, GameTypeOK, ThisRound, PointsAreRounds, OneAnswerPerRound, Playing
<1>3. QED
  BY <1>2, SpecIInv, PTL

LEMMA LeadStep == IInv /\ Lead /\ [Next]_vars => Lead'
<1> SUFFICES ASSUME IInv, Lead, [Next]_vars PROVE Lead'
  OBVIOUS
<1> USE DEF Lead, Playing, Over
<1>1. Goal \in Nat \ {0} /\ val \in [Child -> Nat]
  BY GoalAssumption DEF IInv, GameTypeOK
<1>2. CASE Check
  BY <1>1, <1>2 DEF Check
<1>3. CASE Score
  BY <1>1, <1>3 DEF Score, Child
<1>4. CASE Result
  BY <1>1, <1>4 DEF Result
<1>5. ASSUME NEW c \in Child, Ask(c) \/ Read(c) \/ End(c) PROVE Lead'
  BY <1>5 DEF Ask, Read, ReadAt, End
<1>6. ASSUME NEW c \in Child, ChildStep(c) PROVE Lead'
  BY <1>6 DEF ChildStep, Install, TakeReady, Choose, Return, Leave, parent
<1>7. CASE UNCHANGED vars
  BY <1>7 DEF vars, parent
<1>8. QED
  BY <1>2, <1>3, <1>4, <1>5, <1>6, <1>7 DEF Next, ParentStep

\* The child that gets the prize has reached the goal, and the other one has
\* not more points.
THEOREM PrizeIsRight == Spec => []RightWinner
<1>1. Init => Lead
  BY GoalAssumption DEF Init, Lead, Playing, Child
<1>2. IInv /\ Lead => RightWinner
  BY GoalAssumption DEF IInv, GameTypeOK, Lead, RightWinner, Child
<1>3. QED
  BY <1>1, <1>2, LeadStep, SpecIInv, PTL DEF Spec
=============================================================================
