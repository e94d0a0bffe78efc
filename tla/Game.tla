-------------------------------- MODULE Game --------------------------------
(***************************************************************************)
(* Rock, paper, scissors of "assignment 4/sig.c".  The parent asks each of *)
(* its two children for a choice with SIGUSR1 and reads it from the        *)
(* child's pipe; SIGUSR2 ends the children.  A signal is pending until the *)
(* child takes it; a second one of the same kind meanwhile is lost; the    *)
(* handler of SIGUSR1 runs with SIGUSR1 blocked, its second of sleep       *)
(* included.  Before a child has installed its handler SIGUSR1 kills it.   *)
(* Both children hold the write ends of both pipes.  Points are counted in *)
(* halves.  The sleep() calls are delays of any length.                    *)
(***************************************************************************)
EXTENDS Integers, Sequences

CONSTANT Goal   \* the points that end the game (10 in the code)

ASSUME GoalAssumption == Goal \in Nat \ {0}

Child == {1, 2}
ROCK    == 1
PAPER   == 2
SCISSOR == 3

VARIABLES pc,            \* where the parent is
          round,         \* the number of rounds begun
          val,           \* half points of each child
          p,             \* what was read from each child, <<choice, round>>
          winner,        \* as printed
          at,            \* where each child is
          installed,     \* has it installed the handlers of SIGUSR1, of SIGUSR2
          usr1, usr2,    \* the signals pending for it; usr1 is the round's number
          request,       \* the round it is in the handler for
          pipe           \* pip1, pip2

parent   == <<pc, round, val, p, winner>>
children == <<at, installed, usr1, usr2, request, pipe>>
vars     == <<parent, children>>

ParentAt == {"check", "ask1", "ask2", "read1", "read2", "score", "end", "end1", "end2",
             "exit", "undefined"}

Gone(c) == at[c] = "gone"

Init ==
  /\ pc = "check" /\ round = 0 /\ winner = 0
  /\ val = [c \in Child |-> 0] /\ p = [c \in Child |-> <<0, 0>>]
  /\ at = [c \in Child |-> "loop"]
  /\ installed = [c \in Child |-> 0]
  /\ usr1 = [c \in Child |-> 0] /\ usr2 = [c \in Child |-> FALSE]
  /\ request = [c \in Child |-> 0]
  /\ pipe = [c \in Child |-> <<>>]

-----------------------------------------------------------------------------
(* The parent.                                                             *)

Over_Both == \A c \in Child : val[c] >= 2 * Goal

Over == \E c \in Child : val[c] >= 2 * Goal

Check ==
  /\ pc = "check"
  /\ IF Over THEN pc' = "end" /\ UNCHANGED <<round, p>>
             ELSE /\ pc' = "ask1" /\ round' = round + 1
                  /\ p' = [c \in Child |-> <<0, 0>>]
  /\ UNCHANGED <<val, winner, children>>

\* kill(SIGUSR1); a child that has died is still there to be signalled.
Signal(c) == usr1' = [usr1 EXCEPT ![c] = IF Gone(c) \/ @ # 0 THEN @ ELSE round]

Ask(c) ==
  /\ pc = (IF c = 1 THEN "ask1" ELSE "ask2")
  /\ Signal(c)
  /\ pc' = (IF c = 1 THEN "ask2" ELSE "read1")
  /\ UNCHANGED <<round, val, p, winner, at, installed, usr2, request, pipe>>

ReadAt(c) == IF c = 1 THEN "read1" ELSE "read2"

Read_NoWait(c) ==
  /\ pc = ReadAt(c)
  /\ IF pipe[c] # <<>>
       THEN /\ p' = [p EXCEPT ![c] = Head(pipe[c])]
            /\ pipe' = [pipe EXCEPT ![c] = Tail(@)]
       ELSE UNCHANGED <<p, pipe>>
  /\ pc' = (IF c = 1 THEN "read2" ELSE "score")
  /\ UNCHANGED <<round, val, winner, at, installed, usr1, usr2, request>>

\* Lines 119-124: a choice, or the end of the pipe once nobody can write it.
Read(c) ==
  /\ pc = ReadAt(c)
  /\ \/ /\ pipe[c] # <<>>
        /\ p' = [p EXCEPT ![c] = Head(pipe[c])]
        /\ pipe' = [pipe EXCEPT ![c] = Tail(@)]
     \/ /\ pipe[c] = <<>> /\ \A d \in Child : Gone(d)
        /\ UNCHANGED <<p, pipe>>
  /\ pc' = (IF c = 1 THEN "read2" ELSE "score")
  /\ UNCHANGED <<round, val, winner, at, installed, usr1, usr2, request>>

Beats == {<<PAPER, ROCK>>, <<SCISSOR, PAPER>>, <<ROCK, SCISSOR>>}

\* Lines 125-143.  Without a choice str() returns nothing that can be printed.
Score ==
  /\ pc = "score"
  /\ LET p1 == p[1][1]
         p2 == p[2][1]
         Won(c) == val' = [val EXCEPT ![c] = @ + 2]
     IN \/ 0 \in {p1, p2} /\ pc' = "undefined" /\ UNCHANGED val
        \/ /\ p1 # 0 /\ p1 = p2
           /\ val' = [c \in Child |-> val[c] + 1] /\ pc' = "check"
        \/ <<p1, p2>> \in Beats /\ Won(1) /\ pc' = "check"
        \/ <<p2, p1>> \in Beats /\ Won(2) /\ pc' = "check"
  /\ UNCHANGED <<round, p, winner, children>>

\* Lines 148-173: a coin decides if both have reached the goal.
Result ==
  /\ pc = "end"
  /\ winner' \in {c \in Child : val[c] >= 2 * Goal}
  /\ pc' = "end1"
  /\ UNCHANGED <<round, val, p, children>>

End(c) ==
  /\ pc = (IF c = 1 THEN "end1" ELSE "end2")
  /\ usr2' = [usr2 EXCEPT ![c] = ~Gone(c)]
  /\ pc' = (IF c = 1 THEN "end2" ELSE "exit")
  /\ UNCHANGED <<round, val, p, winner, at, installed, usr1, request, pipe>>

-----------------------------------------------------------------------------
(* A child.                                                                *)

Goto(c, l) == at' = [at EXCEPT ![c] = l]

\* Lines 85-86 and 95-96: first SIGUSR1's handler, then that of SIGUSR2.
Install(c) ==
  /\ at[c] = "loop" /\ installed[c] < 2
  /\ installed' = [installed EXCEPT ![c] = @ + 1]
  /\ UNCHANGED <<parent, at, usr1, usr2, request, pipe>>

\* The handler starts, if there is one.
TakeReady(c) ==
  /\ at[c] = "loop" /\ usr1[c] # 0
  /\ Goto(c, IF installed[c] = 0 THEN "gone" ELSE "handler")
  /\ request' = [request EXCEPT ![c] = usr1[c]]
  /\ usr1' = [usr1 EXCEPT ![c] = 0]
  /\ UNCHANGED <<parent, installed, usr2, pipe>>

\* Lines 26-36 and 37-47.
Choose(c) ==
  /\ at[c] = "handler"
  /\ \E r \in {ROCK, PAPER, SCISSOR} :
       pipe' = [pipe EXCEPT ![c] = Append(@, <<r, request[c]>>)]
  /\ Goto(c, "nap")
  /\ UNCHANGED <<parent, installed, usr1, usr2, request>>

Return(c) ==
  /\ at[c] = "nap"
  /\ Goto(c, "loop")
  /\ UNCHANGED <<parent, installed, usr1, usr2, request, pipe>>

\* SIGUSR2 ends a child wherever it is: exiting() if installed, by default else.
Leave(c) ==
  /\ usr2[c] /\ ~Gone(c)
  /\ Goto(c, "gone")
  /\ UNCHANGED <<parent, installed, usr1, usr2, request, pipe>>

-----------------------------------------------------------------------------
ParentStep == \/ Check \/ Score \/ Result
              \/ \E c \in Child : Ask(c) \/ Read(c) \/ End(c)

ChildStep(c) == Install(c) \/ TakeReady(c) \/ Choose(c) \/ Return(c) \/ Leave(c)

Next == ParentStep \/ \E c \in Child : ChildStep(c)

Spec == Init /\ [][Next]_vars

\* All three processes run.
FairSpec == Spec /\ WF_vars(ParentStep) /\ \A c \in Child : WF_vars(ChildStep(c))

-----------------------------------------------------------------------------
(* Properties.                                                             *)

\* Has the parent asked c in this round, without having read the answer yet?
Asked(c) == \/ pc = "read1"
            \/ c = 1 /\ pc = "ask2"
            \/ c = 2 /\ pc = "read2"

\* Whether a choice of c is on its way: as a signal, in the handler, in the pipe.
OnItsWay(c) == (IF usr1[c] # 0 THEN 1 ELSE 0)
             + (IF at[c] = "handler" THEN 1 ELSE 0) + Len(pipe[c])

\* No request is lost and none is answered twice, though a child may still be
\* in the handler of the round before when it is asked again; the choices that
\* are compared were both made for this round, and every round is worth a point.
OneAnswerPerRound ==
  /\ pc \in ParentAt
  /\ \A c \in Child : /\ ~Gone(c) => OnItsWay(c) = IF Asked(c) THEN 1 ELSE 0
                      /\ pc = "score" => p[c][1] = 0 \/ p[c][2] = round
  /\ val[1] + val[2] = 2 * (IF pc \in {"ask1", "ask2", "read1", "read2", "score", "undefined"}
                              THEN round - 1 ELSE round)

\* The game ends with every process gone and the prize in the right hands: the
\* goal was reached by the winner, and by the other one only in a draw.  The
\* one exception is a child killed by the signal that asks it for its first
\* choice, for which nothing makes the parent wait.
GameEnds ==
  \/ <>(/\ pc = "exit" /\ \A c \in Child : Gone(c) /\ val[winner] >= val[c]
        /\ \A c \in Child : val[c] >= 2 * Goal => val[c] = val[winner])
  \/ <>(\E c \in Child : Gone(c) /\ installed[c] = 0)
=============================================================================
