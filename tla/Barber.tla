------------------------------- MODULE Barber -------------------------------
(***************************************************************************)
(* The sleeping barber of "assignment 7/.../part2/my_prog.c".  One parent  *)
(* process (the barber) forks the customers; they meet on four System V    *)
(* semaphores:                                                             *)
(*   mutex     the barber's own chair, taken by a customer, given back by  *)
(*             the barber                                                  *)
(*   customer  the free waiting chairs                                     *)
(*   barber    wake-ups the barber has not consumed                        *)
(*   count     customers that have not left the shop                       *)
(* Every semop and every semctl(GETVAL) a decision depends on is a step of *)
(* its own.  The sleep() calls are delays of any length.                   *)
(***************************************************************************)
EXTENDS Integers, FiniteSets

CONSTANTS Customers,   \* the forked children ("custom" of them)
          Chairs       \* the number of waiting chairs

ASSUME ShopAssumption == IsFiniteSet(Customers) /\ Chairs \in Nat

VARIABLES mutex, customer, barber, count,   \* the semaphores' values
          cpc,                              \* where each customer is
          bpc                               \* where the barber is

sems == <<mutex, customer, barber, count>>
shop == <<mutex, customer, barber, count, cpc, bpc>>

CustomerAt == {"arrive", "leaving", "sit", "lock", "wake", "cut", "done"}
BarberAt   == {"check", "sleep", "call", "serve", "reap", "closed"}

At(S) == {c \in Customers : cpc[c] \in S}

CustomerGoto(c, l) == cpc' = [cpc EXCEPT ![c] = l]
BarberGoto(l)      == bpc' = l

ShopInit ==
  /\ mutex = 1 /\ customer = Chairs /\ barber = 0
  /\ count = Cardinality(Customers)
  /\ cpc = [c \in Customers |-> "arrive"]
  /\ bpc = "check"

-----------------------------------------------------------------------------
(* A customer.                                                             *)

\* Line 42: GETVAL finds no free chair; the customer makes for the door.
TurnAway(c) ==
  /\ cpc[c] = "arrive" /\ customer <= 0
  /\ CustomerGoto(c, "leaving")
  /\ UNCHANGED <<sems, bpc>>

\* Line 42: GETVAL finds a free chair, which nothing reserves yet.
SeeChair(c) ==
  /\ cpc[c] = "arrive" /\ customer > 0
  /\ CustomerGoto(c, "sit")
  /\ UNCHANGED <<sems, bpc>>

TakeChair_NoBlock(c) ==
  /\ cpc[c] = "sit"
  /\ customer' = customer - 1
  /\ CustomerGoto(c, "lock")
  /\ UNCHANGED <<mutex, barber, count, bpc>>

TakeChair(c) ==
  /\ cpc[c] = "sit" /\ customer > 0
  /\ customer' = customer - 1
  /\ CustomerGoto(c, "lock")
  /\ UNCHANGED <<mutex, barber, count, bpc>>

LockMutex_NoDown(c) ==
  /\ cpc[c] = "lock" /\ mutex > 0
  /\ CustomerGoto(c, "wake")
  /\ UNCHANGED <<sems, bpc>>

LockMutex(c) ==
  /\ cpc[c] = "lock" /\ mutex > 0
  /\ mutex' = mutex - 1
  /\ CustomerGoto(c, "wake")
  /\ UNCHANGED <<customer, barber, count, bpc>>

WakeBarber_Forgotten(c) ==
  /\ cpc[c] = "wake"
  /\ CustomerGoto(c, "cut")
  /\ UNCHANGED <<sems, bpc>>

WakeBarber(c) ==
  /\ cpc[c] = "wake"
  /\ barber' = barber + 1
  /\ CustomerGoto(c, "cut")
  /\ UNCHANGED <<mutex, customer, count, bpc>>

\* Lines 46-50 and 80-84: down(count), exit.
Exit(c) ==
  /\ cpc[c] \in {"leaving", "cut"} /\ count > 0
  /\ count' = count - 1
  /\ CustomerGoto(c, "done")
  /\ UNCHANGED <<mutex, customer, barber, bpc>>

-----------------------------------------------------------------------------
(* The barber.                                                             *)

\* Line 92: GETVAL of count decides whether the barber goes back to sleep.
CheckCount ==
  /\ bpc = "check"
  /\ BarberGoto(IF count > 0 THEN "sleep" ELSE "reap")
  /\ UNCHANGED <<sems, cpc>>

WakeUp ==
  /\ bpc = "sleep" /\ barber > 0
  /\ barber' = barber - 1
  /\ BarberGoto("call")
  /\ UNCHANGED <<mutex, customer, count, cpc>>

FreeChair_Forgotten ==
  /\ bpc = "call"
  /\ BarberGoto("serve")
  /\ UNCHANGED <<sems, cpc>>

FreeChair ==
  /\ bpc = "call"
  /\ customer' = customer + 1
  /\ BarberGoto("serve")
  /\ UNCHANGED <<mutex, barber, count, cpc>>

ReleaseMutex_Forgotten ==
  /\ bpc = "serve"
  /\ BarberGoto("check")
  /\ UNCHANGED <<sems, cpc>>

ReleaseMutex ==
  /\ bpc = "serve"
  /\ mutex' = mutex + 1
  /\ BarberGoto("check")
  /\ UNCHANGED <<customer, barber, count, cpc>>

\* Lines 117-125: wait() once per child, then remove the four semaphores.
Close ==
  /\ bpc = "reap"
  /\ \A c \in Customers : cpc[c] = "done"
  /\ BarberGoto("closed")
  /\ UNCHANGED <<sems, cpc>>

-----------------------------------------------------------------------------
CustomerStep(c) == \/ TurnAway(c) \/ SeeChair(c) \/ TakeChair(c)
                   \/ LockMutex(c) \/ WakeBarber(c) \/ Exit(c)

BarberStep == CheckCount \/ WakeUp \/ FreeChair \/ ReleaseMutex \/ Close

ShopNext == (\E c \in Customers : CustomerStep(c)) \/ BarberStep

ShopSpec == ShopInit /\ [][ShopNext]_shop

\* Every process is scheduled; a semop waiter is queued by the kernel in the
\* order of arrival, so one that stays able to proceed does proceed.
ShopFairSpec == ShopSpec /\ WF_shop(BarberStep)
                         /\ \A c \in Customers : WF_shop(CustomerStep(c))

-----------------------------------------------------------------------------
(* Properties.                                                             *)

\* The semaphores are natural numbers and every process is at a line of the
\* program.
TypeOK ==
  /\ mutex \in Nat /\ customer \in Nat /\ barber \in Nat /\ count \in Nat
  /\ cpc \in [Customers -> CustomerAt]
  /\ bpc \in BarberAt

\* No chair is lost and none is invented: each is free, or held by a customer
\* that has sat down and not been called.  Customers take chairs and the
\* barber, who does not know whom he serves, frees them.
ChairAccounting ==
  customer + Cardinality(At({"lock", "wake"})) + barber
           + (IF bpc = "call" THEN 1 ELSE 0) = Chairs

\* The barber's own chair is held by exactly one party: free, a customer about
\* to wake the barber, a pending wake-up, or the haircut in progress.  So one
\* customer at a time is served although holder and releaser differ.
OneHaircutAtATime ==
  mutex + Cardinality(At({"wake"})) + barber
        + (IF bpc \in {"call", "serve"} THEN 1 ELSE 0) = 1

\* count is the number of customers still in the shop, whichever way each one
\* leaves; the barber's decision to close reads nothing else.
CountAccounting == count = Cardinality(Customers \ At({"done"}))

\* When the barber sleeps with no wake-up pending, nobody is stranded in a
\* chair or before one: some customer inside can move on towards waking him.
SleepingBarberCanBeWoken ==
  (bpc = "sleep" /\ barber = 0 /\ At({"sit", "lock"}) # {})
    => \/ At({"wake"}) # {}
       \/ mutex > 0 /\ At({"lock"}) # {}
       \/ customer > 0 /\ At({"sit"}) # {}

\* The shop empties for good: every customer leaves, served or turned away, and
\* the barber closes it, or sleeps on in the empty shop.  He does the latter if
\* he looked at count (line 92) before the last customer had left, whom nobody
\* follows to wake him; he then never gets to line 116.
ShopEmpties ==
  <>[](/\ At({"done"}) = Customers
       /\ \/ bpc = "closed"
          \/ bpc = "sleep" /\ barber = 0)
=============================================================================
