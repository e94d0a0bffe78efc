------------------------------- MODULE Forest -------------------------------
(***************************************************************************)
(* Lions, jackals and the ranger of "assignment 7", part 1: lion.c,        *)
(* jackal.c (the same program but for which animal is "the other") and     *)
(* ranger.c.  All they share is in System V semaphores, most of which are  *)
(* used as integers: read with GETVAL and written with SETVAL, two steps.  *)
(* mutex protects some of these, mutex2 others; tests are made without.    *)
(* A test and update under a lock that protects every other update of the  *)
(* same value is one step here.  The start-up, in which lions, jackals and *)
(* ranger wait for each other, is Init.                                    *)
(***************************************************************************)
EXTENDS Integers, FiniteSets

CONSTANTS
  Lions, Jackals, \* whoever there may be
  LionMeals, JackalMeals,     \* n in either program: how often each animal eats
  Pits,           \* 3 in the code
  Full, Ration,   \* 50 and 10 in the code
  Herds,          \* bound: which of them there may be, as entered by the user
  MaxCalls        \* bound: pending ups of the semaphore ranger

Animals == Lions \cup Jackals

ASSUME ForestAssumption ==
  /\ IsFiniteSet(Lions) /\ IsFiniteSet(Jackals) /\ Lions \cap Jackals = {}
  /\ LionMeals \in Nat \ {0} /\ JackalMeals \in Nat \ {0}
  /\ Herds \subseteq SUBSET Animals /\ MaxCalls \in Nat \ {0}
  /\ Pits \in 1..9 /\ Full \in Nat /\ Ration \in 1..Full

MaxHerd == Cardinality(Animals)
Species == {"lion", "jackal"}
SpeciesOf(a) == IF a \in Lions THEN "lion" ELSE "jackal"
MealsOf(a)   == IF a \in Lions THEN LionMeals ELSE JackalMeals
OtherOf(a)   == IF a \in Lions THEN "jackal" ELSE "lion"

Pit == 0..(Pits - 1)
NextPit(p) == (p + 1) % Pits
Over == 10       \* told to the ranger as a pit number by the last animal

VARIABLES
  food,           \* food[p]: meat in pit p
  eating,         \* eating[s][p]: the counter of eaters of species s
  mutex, mutex2,
  calls, where,   \* the set ranger: its semaphore and the pit to go to
  number,         \* animals that have announced that they wait
  sema_wait,
  count,          \* animals not over; -1: removed
  pc, pit_no, c, eat_count, read,     \* each animal; read: a GETVAL in use
  rpc, rpit, rc                       \* the ranger

animal == <<pc, pit_no, c, eat_count, read>>
ranger == <<rpc, rpit, rc>>
pits   == <<food, eating>>
waits  == <<number, sema_wait>>
vars   == <<pits, mutex, mutex2, calls, where, waits, count, animal, ranger>>

Init ==
  /\ food = [p \in Pit |-> Full] /\ eating = [s \in Species |-> [p \in Pit |-> 0]]
  /\ mutex = 1 /\ mutex2 = 1
  /\ calls = 0 /\ where = 0 /\ number = 0 /\ sema_wait = 0
  /\ \E herd \in Herds :
       /\ count = Cardinality(herd)
       /\ pc = [a \in Animals |-> IF a \in herd THEN "look" ELSE "absent"]
       /\ pit_no \in {f \in [Animals -> Pit] : \A a \in Animals \ herd : f[a] = 0}
  /\ c = [a \in Animals |-> 0] /\ eat_count = [a \in Animals |-> 0]
  /\ read = [a \in Animals |-> 0]
  /\ rpc = "round" /\ rpit = 0 /\ rc = 0

\* The ranger removes count, then its own semaphore, then mutex.
RangerRemoved == rpc \in {"remove mutex", "done"}
MutexRemoved  == rpc = "done"

-----------------------------------------------------------------------------
(* An animal.                                                              *)

Goto(a, l) == pc' = [pc EXCEPT ![a] = l]
Branch(a, test, yes, no) == Goto(a, IF test THEN yes ELSE no)

Look(a) ==
  /\ pc[a] = "look"
  /\ Branch(a, food[pit_no[a]] = 0, "empty", "look other")
  /\ UNCHANGED <<pits, mutex, mutex2, calls, where, waits, count, pit_no, c,
                 eat_count, read, ranger>>

\* To the next pit, or to wait after the given number of rounds.  A c that has
\* missed the test for 2 passes 3 and is never tested true again: above 3 it
\* stays at 4.
MoveOn(a, rounds) ==
  IF c[a] = rounds
    THEN Goto(a, "announce") /\ c' = [c EXCEPT ![a] = 0] /\ UNCHANGED pit_no
    ELSE /\ Goto(a, "look") /\ pit_no' = [pit_no EXCEPT ![a] = NextPit(@)]
         /\ c' = [c EXCEPT ![a] = IF @ < 4 THEN @ + 1 ELSE @]

\* On being let in, c is dead: line 139 clears it before the next meal.
LookOther(a) ==
  /\ pc[a] = "look other"
  /\ IF eating[OtherOf(a)][pit_no[a]] > 0
       THEN MoveOn(a, 2)
       ELSE Goto(a, "seat") /\ c' = [c EXCEPT ![a] = 0] /\ UNCHANGED pit_no
  /\ UNCHANGED <<pits, mutex, mutex2, calls, where, waits, count, eat_count, read,
                 ranger>>

\* Before the call of the ranger, and after a meal likewise: which pit.
TellPit(a, at, next) ==
  /\ pc[a] = at /\ where' = pit_no[a] /\ Goto(a, next)
  /\ UNCHANGED <<pits, mutex, mutex2, calls, waits, count, pit_no, c, eat_count,
                 read, ranger>>

CallEmpty(a) ==
  /\ pc[a] = "call empty" /\ calls < MaxCalls /\ calls' = calls + 1
  /\ MoveOn(a, 3)
  /\ UNCHANGED <<pits, mutex, mutex2, where, waits, count, eat_count, read, ranger>>

Announce(a) ==
  /\ pc[a] = "announce" /\ mutex = 1
  /\ number' = number + 1 /\ Goto(a, "asleep")
  /\ UNCHANGED <<pits, mutex, mutex2, calls, where, sema_wait, count, pit_no, c,
                 eat_count, read, ranger>>

\* The pit to go to is always 0: wakeupall writes it to the animals of the other
\* programs, whose number is 0 in its own.
Wake(a) ==
  /\ pc[a] = "asleep" /\ sema_wait > 0
  /\ sema_wait' = sema_wait - 1
  /\ pit_no' = [pit_no EXCEPT ![a] = 0] /\ Goto(a, "look")
  /\ UNCHANGED <<pits, mutex, mutex2, calls, where, number, count, c, eat_count,
                 read, ranger>>

GetEating(a) == read' = [read EXCEPT ![a] = eating[SpeciesOf(a)][pit_no[a]]]
\* SETVAL of a negative value fails.
SetEating(a, n) ==
  /\ eating' = IF n < 0 THEN eating ELSE [eating EXCEPT ![SpeciesOf(a)][pit_no[a]] = n]
  /\ read' = [read EXCEPT ![a] = 0]

Seat(a) ==
  /\ pc[a] = "seat" /\ mutex = 1 /\ mutex' = 0
  /\ GetEating(a) /\ Goto(a, "sit")
  /\ UNCHANGED <<pits, mutex2, calls, where, waits, count, pit_no, c, eat_count, ranger>>

Sit(a) ==
  /\ pc[a] = "sit"
  /\ SetEating(a, read[a] + 1) /\ Goto(a, "take")
  /\ UNCHANGED <<food, mutex, mutex2, calls, where, waits, count, pit_no, c,
                 eat_count, ranger>>

\* The pit may be empty by now: SETVAL of -1 fails and the animal eats nothing.
Take(a) ==
  /\ pc[a] = "take"
  /\ food' = [food EXCEPT ![pit_no[a]] = IF @ > 0 THEN @ - 1 ELSE @]
  /\ mutex' = 1 /\ Goto(a, "eat")
  /\ UNCHANGED <<eating, mutex2, calls, where, waits, count, pit_no, c, eat_count,
                 read, ranger>>

Eat(a) ==
  /\ pc[a] = "eat" /\ mutex2 = 1 /\ mutex2' = 0
  /\ eat_count' = [eat_count EXCEPT ![a] = @ + 1]
  /\ GetEating(a) /\ Goto(a, "rise")
  /\ UNCHANGED <<pits, mutex, calls, where, waits, count, pit_no, c, ranger>>

Rise(a) ==
  /\ pc[a] = "rise" /\ mutex2' = 1
  /\ SetEating(a, read[a] - 1) /\ Goto(a, "low")
  /\ UNCHANGED <<food, mutex, calls, where, waits, count, pit_no, c, eat_count, ranger>>

\* One GETVAL of the tests that follow a meal: line, what it tests, where to go.
AfterMeal(a) ==
  LET p == pit_no[a] IN
  /\ \/ pc[a] = "low" /\ Branch(a, food[p] <= Full - Ration, "no lion", "alone")
     \/ pc[a] = "no lion" /\ Branch(a, eating["lion"][p] = 0, "no jackal", "alone")
     \/ pc[a] = "no jackal" /\ Branch(a, eating["jackal"][p] = 0, "tell", "alone")
     \/ pc[a] = "alone" /\ Branch(a, eating[OtherOf(a)][p] = 0, "meat", "leave")
     \/ pc[a] = "meat" /\ Branch(a, food[p] > 0, "wake", "leave")
  /\ UNCHANGED <<pits, mutex, mutex2, calls, where, waits, count, pit_no, c,
                 eat_count, read, ranger>>

CallLow(a) ==
  /\ pc[a] = "call low" /\ calls < MaxCalls /\ calls' = calls + 1
  /\ Goto(a, "alone")
  /\ UNCHANGED <<pits, mutex, mutex2, where, waits, count, pit_no, c, eat_count, read,
                 ranger>>

wakeupall_NoReset == number' = number /\ sema_wait' = sema_wait + number

wakeupall == number' = 0 /\ sema_wait' = sema_wait + number

WakeOthers(a) ==
  /\ pc[a] = "wake" /\ mutex = 1 /\ wakeupall
  /\ Goto(a, "leave")
  /\ UNCHANGED <<pits, mutex, mutex2, calls, where, count, pit_no, c, eat_count, read,
                 ranger>>

\* Another meal, at a random pit.
GoOn(a) ==
  /\ pc[a] = "leave" /\ eat_count[a] < MealsOf(a)
  /\ \E p \in Pit : pit_no' = [pit_no EXCEPT ![a] = p]
  /\ Goto(a, "look")
  /\ UNCHANGED <<pits, mutex, mutex2, calls, where, waits, count, c, eat_count, read,
                 ranger>>

\* The last lines of an animal.  They hold mutex, but the ranger tests count and
\* removes the semaphores without it.
Leave(a) ==
  /\ pc[a] = "leave" /\ eat_count[a] = MealsOf(a) /\ mutex = 1 /\ mutex' = 0
  /\ count' = count - 1 /\ Goto(a, "over")
  /\ UNCHANGED <<pits, mutex2, calls, where, waits, pit_no, c, eat_count, read, ranger>>

SeeCount_OffByOne(a) ==
  /\ pc[a] = "over" /\ Branch(a, count = 1, "tell over", "unlock")
  /\ UNCHANGED <<pits, mutex, mutex2, calls, where, waits, count, pit_no, c, eat_count,
                 read, ranger>>

\* Of a semaphore that has been removed GETVAL is -1.
SeeCount(a) ==
  /\ pc[a] = "over" /\ Branch(a, count = 0, "tell over", "unlock")
  /\ UNCHANGED <<pits, mutex, mutex2, calls, where, waits, count, pit_no, c, eat_count,
                 read, ranger>>

\* Operations on a semaphore that has been removed fail, and nobody looks.
TellOver(a) ==
  /\ pc[a] = "tell over" /\ Goto(a, "call over")
  /\ where' = IF RangerRemoved THEN where ELSE Over
  /\ UNCHANGED <<pits, mutex, mutex2, calls, waits, count, pit_no, c, eat_count, read,
                 ranger>>

CallOver(a) ==
  /\ pc[a] = "call over" /\ Goto(a, "unlock")
  /\ calls' = IF RangerRemoved THEN calls ELSE calls + 1
  /\ UNCHANGED <<pits, mutex, mutex2, where, waits, count, pit_no, c, eat_count, read,
                 ranger>>

UnlockOver(a) ==
  /\ pc[a] = "unlock" /\ Goto(a, "gone")
  /\ mutex' = IF MutexRemoved THEN mutex ELSE 1
  /\ UNCHANGED <<pits, mutex2, calls, where, waits, count, pit_no, c, eat_count, read,
                 ranger>>

-----------------------------------------------------------------------------
(* The ranger.                                                             *)

RangerGoto(l) == rpc' = l

\* while(count > 0): to a random pit.
Round ==
  /\ rpc = "round"
  /\ IF count > 0
       THEN (\E p \in Pit : rpit' = p) /\ rc' = 0 /\ RangerGoto("food")
       ELSE RangerGoto("remove count") /\ UNCHANGED <<rpit, rc>>
  /\ UNCHANGED <<pits, mutex, mutex2, calls, where, waits, count, animal>>

\* The GETVALs of the test at line 130, one at a time.
Inspect ==
  LET Go(test, yes, no) == RangerGoto(IF test THEN yes ELSE no) IN
  /\ \/ rpc = "food" /\ Go(food[rpit] <= Full - Ration, "lions", "empty")
     \/ rpc = "lions" /\ Go(eating["lion"][rpit] = 0, "jackals", "empty")
     \/ rpc = "jackals" /\ Go(eating["jackal"][rpit] = 0, "add", "empty")
     \/ rpc = "empty" /\ Go(food[rpit] = 0, "add", "denied")
  /\ UNCHANGED <<pits, mutex, mutex2, calls, where, waits, count, animal, rpit, rc>>

AddMeat_Twice ==
  /\ rpc = "add" /\ mutex = 1
  /\ food' = [food EXCEPT ![rpit] = @ + 2 * Ration]
  /\ RangerGoto("wake")
  /\ UNCHANGED <<eating, mutex, mutex2, calls, where, waits, count, animal, rpit, rc>>

AddMeat ==
  /\ rpc = "add" /\ mutex = 1
  /\ food' = [food EXCEPT ![rpit] = @ + Ration]
  /\ RangerGoto("wake")
  /\ UNCHANGED <<eating, mutex, mutex2, calls, where, waits, count, animal, rpit, rc>>

WakeAll ==
  /\ rpc = "wake" /\ mutex = 1 /\ wakeupall
  /\ RangerGoto("round")
  /\ UNCHANGED <<pits, mutex, mutex2, calls, where, count, animal, rpit, rc>>

Denied ==
  /\ rpc = "denied"
  /\ IF rc = 2 THEN rc' = 0 /\ RangerGoto("asleep") /\ UNCHANGED rpit
               ELSE rc' = rc + 1 /\ RangerGoto("food") /\ rpit' = NextPit(rpit)
  /\ UNCHANGED <<pits, mutex, mutex2, calls, where, waits, count, animal>>

Called ==
  /\ rpc = "asleep" /\ calls > 0 /\ calls' = calls - 1
  /\ RangerGoto("go")
  /\ UNCHANGED <<pits, mutex, mutex2, where, waits, count, animal, rpit, rc>>

GoWhereTold ==
  /\ rpc = "go"
  /\ IF where = Over THEN RangerGoto("round") /\ UNCHANGED rpit
                     ELSE RangerGoto("food") /\ rpit' = where
  /\ UNCHANGED <<pits, mutex, mutex2, calls, where, waits, count, animal, rc>>

\* Of the other semaphores, those that an animal in its last lines uses no more
\* are left as they are: RangerEnds says that no animal is elsewhere.
Remove ==
  /\ \/ rpc = "remove count" /\ count' = -1 /\ RangerGoto("remove ranger")
     \/ rpc = "remove ranger" /\ RangerGoto("remove mutex") /\ UNCHANGED count
     \/ rpc = "remove mutex" /\ RangerGoto("done") /\ UNCHANGED count
  /\ UNCHANGED <<pits, mutex, mutex2, calls, where, waits, animal, rpit, rc>>

-----------------------------------------------------------------------------
Animal(a) ==
  \/ Look(a) \/ LookOther(a) \/ TellPit(a, "empty", "call empty") \/ CallEmpty(a)
  \/ Announce(a) \/ Wake(a) \/ Seat(a) \/ Sit(a) \/ Take(a) \/ Eat(a) \/ Rise(a)
  \/ AfterMeal(a) \/ TellPit(a, "tell", "call low") \/ CallLow(a) \/ WakeOthers(a)
  \/ GoOn(a) \/ Leave(a) \/ SeeCount(a) \/ TellOver(a) \/ CallOver(a) \/ UnlockOver(a)

Ranger ==
  Round \/ Inspect \/ AddMeat \/ WakeAll \/ Denied \/ Called \/ GoWhereTold \/ Remove

Next == Ranger \/ \E a \in Animals : Animal(a)

Spec == Init /\ [][Next]_vars

\* The ranger is scheduled.
FairSpec == Spec /\ WF_vars(Ranger)

-----------------------------------------------------------------------------
(* Properties.                                                             *)

AllMeals == Cardinality(Lions) * LionMeals + Cardinality(Jackals) * JackalMeals

Gone(a) == pc[a] \in {"absent", "gone"}

\* Every value is one a semaphore may have; in particular a pit never holds more
\* than Full, though the ranger tests it without a lock, nor less than nothing.
TypeOK ==
  /\ food \in [Pit -> 0..Full] /\ eating \in [Species -> [Pit -> 0..AllMeals]]
  /\ mutex \in {0, 1} /\ mutex2 \in {0, 1}
  /\ calls \in 0..(MaxCalls + 1) /\ where \in Pit \cup {Over}
  /\ number \in 0..MaxHerd /\ sema_wait \in 0..MaxHerd /\ count \in -1..MaxHerd
  /\ pc \in [Animals -> {"absent", "look", "look other", "empty", "call empty",
                         "announce", "asleep", "seat", "sit", "take", "eat", "rise",
                         "low", "no lion", "no jackal", "tell", "call low", "alone",
                         "meat", "wake", "leave", "over", "tell over", "call over",
                         "unlock", "gone"}]
  /\ pit_no \in [Animals -> Pit] /\ c \in [Animals -> 0..4]
  /\ eat_count \in [Animals -> Nat] /\ \A a \in Animals : eat_count[a] <= MealsOf(a)
  /\ read \in [Animals -> 0..AllMeals]
  /\ rpc \in {"round", "food", "lions", "jackals", "empty", "add", "wake", "denied",
              "asleep", "go", "remove count", "remove ranger", "remove mutex", "done"}
  /\ rpit \in Pit /\ rc \in 0..2

\* wakeupall ups sema_wait once for every animal that has announced that it
\* waits, also for those not yet in down: none is left out of a wake-up that
\* follows its announcement, and none finds the up of another.
WakeupsAccounted == number + sema_wait = Cardinality({a \in Animals : pc[a] = "asleep"})

\* ranger.c:120: the ranger runs until all animals are over, and then does end:
\* the last one's call is not lost among those for meat.  It reads count without
\* mutex and may so end, and remove the semaphores, while the last animal is still
\* in its last lines, but no animal is before them then: none that would wait on a
\* semaphore, or take a removed one's -1 for meat or for eaters.
LastLines == {"over", "tell over", "call over", "unlock"}
Ending == {"remove count", "remove ranger", "remove mutex", "done"}

OnlyTheLastIsLeft ==
  /\ \A a \in Animals : Gone(a) \/ pc[a] \in LastLines
  /\ \A a, b \in Animals : pc[a] \in LastLines /\ pc[b] \in LastLines => a = b

RangerEnds ==
  /\ [](rpc \in Ending => OnlyTheLastIsLeft)
  /\ (\A a \in Animals : Gone(a)) ~> rpc = "done"
=============================================================================
