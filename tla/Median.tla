------------------------------- MODULE Median -------------------------------
(***************************************************************************)
(* The median over five processes of "assignment 3": parent.c and its      *)
(* children running child.c, joined by one pipe in each direction per      *)
(* child.  Every read() and write() is a step; a message is 1024 bytes, so *)
(* a read returns exactly one.  A code and the number that follows it are  *)
(* written back to back to a single reader and are one message here.       *)
(* random.c, which writes the files, is the choice of actual in Init.      *)
(* Assumed: the pivot that child.c declares inside its loop and reads at a *)
(* SMALL or LARGE, without setting it, is still there.  In C its value is  *)
(* indeterminate; as its address goes to sscanf and no variable of another *)
(* block is alive between two rounds of the loop, it keeps a place in      *)
(* memory that nothing else is given, and cpivot persists.                 *)
(***************************************************************************)
EXTENDS Integers, FiniteSets, Sequences

CONSTANTS N,          \* children; 5 in the code
          PerFile,    \* numbers in a file; 5 in the code
          Values      \* what random.c may draw; 1..50 in the code

ASSUME MedianAssumption ==
  /\ N \in Nat \ {0} /\ PerFile \in Nat \ {0}
  /\ Values \subseteq Nat \ {0} /\ IsFiniteSet(Values)

READY == 500          \* what a child answers first; -1 answers "empty"

VARIABLES
  actual,             \* actual[c]: the numbers of child c's file
  num_arr,            \* num_arr[c]: those child c still considers
  cpivot,             \* cpivot[c]: child c's pivot variable
  cpc,                \* cpc[c]: "boot", "serve" or "dead"
  down, up,           \* the pipes to and from each child
  sig,                \* children with SIGUSR1 sent
  pc, i, r,           \* the parent's line, loop index, child asked
  pivot, k, num,      \* the parent's variables
  med_found

child  == <<num_arr, cpivot, cpc>>
parent == <<pc, i, r, pivot, k, num, med_found>>
vars   == <<actual, child, down, up, sig, parent>>

Child == 1..N

ParentAt == {"id", "ready", "pick", "reply", "pivot", "count", "decide", "small",
             "large", "check", "sum", "kill", "wait", "done"}

Unread == 0           \* cpivot before the first PIVOT: uninitialised

Above(S, p) == {x \in S : x > p}

Data == UNION {actual[c] : c \in Child}

Half == (N * PerFile) \div 2

DataFiles ==
  {f \in [Child -> SUBSET Values] :
     /\ \A c \in Child : Cardinality(f[c]) = PerFile
     /\ \A c, d \in Child : c # d => f[c] \cap f[d] = {}}

Init ==
  /\ actual \in DataFiles
  /\ num_arr = [c \in Child |-> {}] /\ cpivot = [c \in Child |-> Unread]
  /\ cpc = [c \in Child |-> "boot"]
  /\ down = [c \in Child |-> <<>>] /\ up = [c \in Child |-> <<>>]
  /\ sig = {}
  /\ pc = "id" /\ i = 1 /\ r = 1
  /\ pivot = 0 /\ k = Half /\ num = 0 /\ med_found = FALSE

-----------------------------------------------------------------------------
(* The parent.                                                             *)

Send(c, code, arg) == down' = [down EXCEPT ![c] = Append(@, [code |-> code, arg |-> arg])]

Recv(c) == up[c] # <<>> /\ up' = [up EXCEPT ![c] = Tail(@)]

\* for(i = 0; i < 5; i++), the body at "loop" and what follows it at "next".
Loop(loop, next) ==
  /\ pc = loop
  /\ IF i < N THEN i' = i + 1 /\ pc' = loop
              ELSE i' = 1 /\ pc' = next

SendId ==
  /\ Loop("id", "ready") /\ Send(i, "ID", i)
  /\ UNCHANGED <<actual, child, up, sig, r, pivot, k, num, med_found>>

\* The code counts the READYs but goes on whatever it read.
ReadReady ==
  /\ Loop("ready", "pick") /\ Recv(i)
  /\ UNCHANGED <<actual, child, down, sig, r, pivot, k, num, med_found>>

Request(c) ==
  /\ pc = "pick"
  /\ r' = c /\ pc' = "reply"
  /\ Send(c, "REQUEST", 0)
  /\ UNCHANGED <<actual, child, up, sig, i, pivot, k, num, med_found>>

ReadReply_TakeAny ==
  /\ pc = "reply" /\ Recv(r)
  /\ pivot' = Head(up[r]) /\ pc' = "pivot"
  /\ UNCHANGED <<actual, child, down, sig, i, r, k, num, med_found>>

ReadReply ==
  /\ pc = "reply" /\ Recv(r)
  /\ IF Head(up[r]) # -1
       THEN pivot' = Head(up[r]) /\ pc' = "pivot"
       ELSE pc' = "pick" /\ UNCHANGED pivot
  /\ UNCHANGED <<actual, child, down, sig, i, r, k, num, med_found>>

SendPivot ==
  /\ Loop("pivot", "count") /\ Send(i, "PIVOT", pivot)
  /\ num' = 0
  /\ UNCHANGED <<actual, child, up, sig, r, pivot, k, med_found>>

ReadCount ==
  /\ Loop("count", "decide") /\ Recv(i)
  /\ num' = num + Head(up[i])
  /\ UNCHANGED <<actual, child, down, sig, r, pivot, k, med_found>>

Decide ==
  /\ pc = "decide"
  /\ \/ num > k /\ pc' = "small" /\ UNCHANGED <<num, med_found>>
     \/ num < k /\ pc' = "large" /\ UNCHANGED <<num, med_found>>
     \/ num = k /\ pc' = "check" /\ med_found' = TRUE /\ num' = 0
  /\ UNCHANGED <<actual, child, down, up, sig, i, r, pivot, k>>

SendSmall ==
  /\ Loop("small", "pick") /\ Send(i, "SMALL", 0)
  /\ UNCHANGED <<actual, child, up, sig, r, pivot, k, num, med_found>>

SendLarge_KeepK ==
  /\ Loop("large", "pick") /\ Send(i, "LARGE", 0)
  /\ UNCHANGED <<actual, child, up, sig, r, pivot, k, num, med_found>>

\* k = k-m follows the loop; m is num.
SendLarge ==
  /\ Loop("large", "pick") /\ Send(i, "LARGE", 0)
  /\ k' = IF i = N THEN k - num ELSE k
  /\ UNCHANGED <<actual, child, up, sig, r, pivot, num, med_found>>

SendCheck ==
  /\ Loop("check", "sum") /\ Send(i, "CHECK", pivot)
  /\ UNCHANGED <<actual, child, up, sig, r, pivot, k, num, med_found>>

ReadCheck ==
  /\ Loop("sum", "kill") /\ Recv(i)
  /\ num' = num + Head(up[i])
  /\ UNCHANGED <<actual, child, down, sig, r, pivot, k, med_found>>

SendKill ==
  /\ pc = "kill" /\ pc' = "wait"
  /\ sig' = sig \cup {i}
  /\ UNCHANGED <<actual, child, down, up, i, r, pivot, k, num, med_found>>

\* wait(NULL): i-1 dead children are reaped, one more has to be dead.
Wait ==
  /\ pc = "wait" /\ Cardinality({c \in Child : cpc[c] = "dead"}) >= i
  /\ IF i < N THEN i' = i + 1 /\ pc' = "kill"
              ELSE i' = i /\ pc' = "done"
  /\ UNCHANGED <<actual, child, down, up, sig, r, pivot, k, num, med_found>>

-----------------------------------------------------------------------------
(* A child.                                                                *)

\* Child c, in its loop, takes the next message, which has this code.
Take(c, code) ==
  /\ cpc[c] = "serve"
  /\ down[c] # <<>> /\ Head(down[c]).code = code
  /\ down' = [down EXCEPT ![c] = Tail(@)]

Reply(c, v) == up' = [up EXCEPT ![c] = Append(@, v)]

Arg(c) == Head(down[c]).arg

Boot(c) ==
  /\ cpc[c] = "boot" /\ down[c] # <<>>
  /\ down' = [down EXCEPT ![c] = Tail(@)]
  /\ num_arr' = [num_arr EXCEPT ![c] = actual[Arg(c)]]
  /\ cpc' = [cpc EXCEPT ![c] = "serve"]
  /\ Reply(c, READY)
  /\ UNCHANGED <<actual, cpivot, sig, parent>>

\* num_arr[rand()%arr_size]: any of the numbers left.
AnswerRequest(c, x) ==
  /\ Take(c, "REQUEST")
  /\ x \in IF num_arr[c] = {} THEN {-1} ELSE num_arr[c]
  /\ Reply(c, x)
  /\ UNCHANGED <<actual, child, sig, parent>>

OnSmall_Acks(c) ==
  /\ Take(c, "SMALL")
  /\ num_arr' = [num_arr EXCEPT ![c] = {x \in @ : x >= cpivot[c]}]
  /\ Reply(c, READY)
  /\ UNCHANGED <<actual, cpivot, cpc, sig, parent>>

OnSmall(c) ==
  /\ Take(c, "SMALL")
  /\ num_arr' = [num_arr EXCEPT ![c] = {x \in @ : x >= cpivot[c]}]
  /\ UNCHANGED <<actual, cpivot, cpc, up, sig, parent>>

OnLarge_Strict(c) ==
  /\ Take(c, "LARGE")
  /\ num_arr' = [num_arr EXCEPT ![c] = {x \in @ : x < cpivot[c]}]
  /\ UNCHANGED <<actual, cpivot, cpc, up, sig, parent>>

OnLarge(c) ==
  /\ Take(c, "LARGE")
  /\ num_arr' = [num_arr EXCEPT ![c] = {x \in @ : x <= cpivot[c]}]
  /\ UNCHANGED <<actual, cpivot, cpc, up, sig, parent>>

\* The pivot replaces the old one for the SMALL or LARGE that may follow.
OnPivot_Forgets(c) ==
  /\ Take(c, "PIVOT")
  /\ Reply(c, Cardinality(Above(num_arr[c], Arg(c))))
  /\ UNCHANGED <<actual, child, sig, parent>>

OnPivot(c) ==
  /\ Take(c, "PIVOT")
  /\ cpivot' = [cpivot EXCEPT ![c] = Arg(c)]
  /\ Reply(c, Cardinality(Above(num_arr[c], Arg(c))))
  /\ UNCHANGED <<actual, num_arr, cpc, sig, parent>>

OnCheck_OnlyLeft(c) ==
  /\ Take(c, "CHECK")
  /\ cpivot' = [cpivot EXCEPT ![c] = Arg(c)]
  /\ Reply(c, Cardinality(Above(num_arr[c], Arg(c))))
  /\ UNCHANGED <<actual, num_arr, cpc, sig, parent>>

\* Counts over all the numbers of the file, dropped ones included.
OnCheck(c) ==
  /\ Take(c, "CHECK")
  /\ cpivot' = [cpivot EXCEPT ![c] = Arg(c)]
  /\ Reply(c, Cardinality(Above(actual[c], Arg(c))))
  /\ UNCHANGED <<actual, num_arr, cpc, sig, parent>>

\* childSigHandler: prints and exits.
Terminate(c) ==
  /\ c \in sig /\ cpc[c] # "dead"
  /\ cpc' = [cpc EXCEPT ![c] = "dead"]
  /\ UNCHANGED <<actual, num_arr, cpivot, down, up, sig, parent>>

-----------------------------------------------------------------------------
ParentStep == \/ SendId \/ ReadReady \/ (\E c \in Child : Request(c)) \/ ReadReply
              \/ SendPivot \/ ReadCount \/ Decide \/ SendSmall \/ SendLarge
              \/ SendCheck \/ ReadCheck \/ SendKill \/ Wait

ChildStep(c) == \/ Boot(c) \/ (\E x \in Values \cup {-1} : AnswerRequest(c, x))
                \/ OnSmall(c) \/ OnLarge(c) \/ OnPivot(c) \/ OnCheck(c)
                \/ Terminate(c)

Next == ParentStep \/ \E c \in Child : ChildStep(c)

Spec == Init /\ [][Next]_vars

Medians == {x \in Data : Cardinality(Above(Data, x)) = Half}

\* rand()%5 and rand()%arr_size do not avoid for ever the child that holds the
\* median and, in it, the median; everyone else is just scheduled.
LuckyRequest == \E c \in Child : actual[c] \cap Medians # {} /\ Request(c)
LuckyAnswer  == \E c \in Child, x \in Medians : AnswerRequest(c, x)

FairSpec == /\ Spec
            /\ WF_vars(ParentStep) /\ \A c \in Child : WF_vars(ChildStep(c))
            /\ SF_vars(LuckyRequest) /\ SF_vars(LuckyAnswer)

-----------------------------------------------------------------------------
(* Refinement: the candidates are what the children will be left with once *)
(* the SMALLs and LARGEs decided on, sent or not, have reached them.       *)

Sent(c, code) == \E j \in DOMAIN down[c] : down[c][j].code = code

Left(c) ==
  {x \in IF cpc[c] = "boot" THEN actual[c] ELSE num_arr[c] :
     /\ Sent(c, "SMALL") => x >= cpivot[c]
     /\ Sent(c, "LARGE") => x <= cpivot[c]
     /\ pc = "small" /\ c >= i => x >= pivot
     /\ pc = "large" /\ c >= i => x <= pivot}

Selected == INSTANCE Selection WITH
  data    <- Data,
  cand    <- UNION {Left(c) : c \in Child},
  rank    <- IF pc = "large" THEN k - num ELSE k,
  answer  <- IF med_found THEN {pivot} ELSE {}

-----------------------------------------------------------------------------
(* Properties.                                                             *)

Messages == [code : {"ID", "REQUEST", "PIVOT", "SMALL", "LARGE", "CHECK"},
             arg : Values \cup Child \cup {0}]

\* The variables hold what their declarations and the protocol say.
TypeOK ==
  /\ actual \in DataFiles
  /\ num_arr \in [Child -> SUBSET Values]
  /\ cpivot \in [Child -> Values \cup {Unread}]
  /\ cpc \in [Child -> {"boot", "serve", "dead"}]
  /\ down \in [Child -> Seq(Messages)] /\ up \in [Child -> Seq(Int)]
  /\ sig \in SUBSET Child
  /\ pc \in ParentAt /\ i \in Child /\ r \in Child
  /\ pivot \in Values \cup {0} /\ k \in Nat /\ num \in Nat
  /\ med_found \in BOOLEAN

\* Parent and children together carry out the rounds of Selection, though the
\* children filter late, at different times, and with their own pivot variable.
ImplementsSelection == Selected!SearchSpec

\* parent.c:155-171 lowers k by the numbers above the pivot only when LARGE drops
\* them, and SMALL and LARGE both keep the pivot: whatever pivots are drawn and
\* whichever SMALLs and LARGEs are still under way, the median of all the files
\* stays with one of the children, to be drawn.
MedianNotDropped == Selected!MedianKept

\* What the parent prints at the end is true of the files: the median has
\* exactly half of all numbers above it, and the check the children make over
\* the original numbers confirms it.
CheckConfirmsMedian ==
  pc \in {"kill", "wait", "done"} => /\ Cardinality(Above(Data, pivot)) = Half
                                     /\ num = Half

\* No pipe ever holds more than two messages down and one up: no write blocks,
\* so parent and children cannot block each other by both writing.
PipesStayShort ==
  \A c \in Child : Len(down[c]) <= 2 /\ Len(up[c]) <= 1

\* The search ends: the median is printed and every child reaped.
Terminates == <>(pc = "done")
=============================================================================
