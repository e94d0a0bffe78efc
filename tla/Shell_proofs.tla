---------------------------- MODULE Shell_proofs ----------------------------
(***************************************************************************)
(* Proofs about the shell, for any lines of any number of stages, however  *)
(* many of them are typed and whatever their programs write.  Most of it   *)
(* is plumbing: which descriptor leads where at each line of parseAndExec, *)
(* and how many are open, which says that the kernel finds a free one.     *)
(***************************************************************************)
EXTENDS Shell, FiniteSetTheorems, SequenceTheorems, TLAPS

OpenFds(t) == {n \in Fds : t[n] # Closed}
Opened(t)  == Cardinality(OpenFds(t))

InUse == {p \in Pipes : Open(p)}

InLine == pc \in {"stage", "call", "wait", "next"}

\* n is a descriptor that leads to the terminal and is not the standard input or
\* output.
SavesTty(n) == n \in Fds \ {0, 1} /\ fd[n] = Tty

\* Descriptor n reads the pipe that the shell itself writes to with descriptor 1
\* and no other.
ReadsOwn(n) ==
  /\ n \in Fds \ {0, 1}
  /\ \E p \in Pipes : /\ fd[n] = R(p) /\ fd[1] = W(p)
                      /\ \A m \in Fds : fd[m] = W(p) => m = 1

Types ==
  /\ pc \in {"prompt", "stage", "call", "wait", "next", "exited", "crashed", "stuck"}
  /\ fd \in [Fds -> Files] /\ fd[0] # Closed /\ fd[1] # Closed
  /\ content \in [Pipes -> 0 .. Capacity]
  /\ child \in [at : {"none", "new", "exec"}, fd : [Fds -> Files], left : Nat]
  /\ doomed \subseteq [Fds -> Files]
  /\ lines \in 0..MaxLines

\* The child's table is the shell's but for its own redirections
\* (advshell.c:354-382).
ChildInherits ==
  /\ child.at = "none" => child = NoChild
  /\ child.at # "none" => /\ pc = "wait"
                          /\ child.fd[0] \in {fd[0], File} /\ child.fd[1] \in {fd[1], File}
                          /\ \A n \in Fds \ {0, 1} : child.fd[n] = fd[n]

\* Whatever the shell's standard input is, the shell cannot write to it.
NoOwnInput == \A p \in Pipes : fd[0] = R(p) => \A n \in Fds : fd[n] # W(p)

\* Before a line.
AtPrompt == pc = "prompt" => fd[0] = Tty /\ fd[1] = Tty /\ Opened(fd) = 3 + 2 * lines

\* Within a line, where a stage begins and where it has been set up
\* (advshell.c:216-256).
Plumbed ==
  InLine =>
    /\ m_argv \in Lines /\ lines > 0 /\ SavesTty(saved_in)
    /\ pc = "stage" =>
         /\ cmd_start \in 1..Len(m_argv) /\ SavesTty(saved_out) /\ saved_out # saved_in
         /\ in = 0 => Opened(fd) = 3 + 2 * lines
         /\ in # 0 => ReadsOwn(in) /\ Opened(fd) = 4 + 2 * lines
    /\ pc # "stage" =>
         /\ bar \in 1..Len(m_argv) /\ Opened(fd) = 4 + 2 * lines
         /\ bar = Len(m_argv) => fd[1] = Tty
         /\ bar < Len(m_argv) => ReadsOwn(fd0) /\ SavesTty(saved_out) /\ saved_out # saved_in

\* A stage takes one pipe, so that as many are open as stages have begun at most.
PipesSuffice ==
  /\ pc = "prompt" => Cardinality(InUse) <= lines * MaxArgs
  /\ pc = "stage" => Cardinality(InUse) < (lines - 1) * MaxArgs + cmd_start
  /\ pc \in {"call", "wait", "next"} => Cardinality(InUse) <= (lines - 1) * MaxArgs + bar

IInv == Types /\ ChildInherits /\ NoOwnInput /\ AtPrompt /\ Plumbed /\ PipesSuffice
-----------------------------------------------------------------------------
(* Descriptors.                                                            *)

\* What a descriptor leads to, and how one kind is told from another.
LEMMA Kinds ==
  /\ {Tty, File, Closed} \subseteq Files /\ Tty # Closed /\ File # Closed
  /\ Tty[1] \notin {"read", "write"} /\ File[1] \notin {"read", "write"}
  /\ \A p \in Pipes : /\ R(p) \in Files /\ R(p)[1] = "read" /\ R(p)[2] = p
                      /\ W(p) \in Files /\ W(p)[1] = "write" /\ W(p)[2] = p
                      /\ R(p) \notin {Tty, File, Closed} /\ W(p) \notin {Tty, File, Closed}
  /\ \A p, q \in Pipes : /\ R(p) # W(q) /\ (R(p) = R(q) => p = q) /\ (W(p) = W(q) => p = q)
  /\ \A f \in Files : /\ f[1] = "read" => \E p \in Pipes : f = R(p)
                      /\ f[1] = "write" => \E p \in Pipes : f = W(p)
  BY DEF Files, Tty, File, Closed, R, W

LEMMA FdsFinite ==
  /\ IsFiniteSet(Fds) /\ Cardinality(Fds) = 2 * MaxLines + 9 /\ Fds \subseteq Nat
  /\ {0, 1, 2} \subseteq Fds
<1>1. MaxLines \in Nat
  BY ShellAssumption
<1>2. IsFiniteSet(0 .. 2 * MaxLines + 8) /\ Cardinality(0 .. 2 * MaxLines + 8) = (2 * MaxLines + 8) - 0 + 1
  BY <1>1, FS_Interval
<1>3. QED
  BY <1>1, <1>2 DEF Fds

LEMMA OpenFdsFinite ==
  ASSUME NEW t
  PROVE  IsFiniteSet(OpenFds(t)) /\ Opened(t) \in Nat /\ OpenFds(t) \subseteq Fds
<1>1. OpenFds(t) \in SUBSET Fds
  BY DEF OpenFds
<1>2. QED
  BY <1>1, FdsFinite, FS_Subset, FS_CardinalityType DEF Opened

\* The least of a set of natural numbers.
LEMMA MinOfNaturals ==
  ASSUME NEW T, T \subseteq Nat, T # {}
  PROVE  Min(T) \in T
<1>1. PICK n \in T : \A m \in T : ~(<<m, n>> \in OpToRel(<, Nat))
  BY WFMin, NatLessThanWellFounded
<1>2. ASSUME NEW m \in T, m < n PROVE FALSE
  <2>1. <<m, n>> \in {ss \in Nat \X Nat : ss[1] < ss[2]}
    BY <1>2
  <2>2. QED
    BY <1>1, <2>1 DEF OpToRel
<1>3. \A m \in T : n <= m
  BY <1>2
<1>4. QED
  BY <1>3 DEF Min

\* The kernel finds a descriptor as long as not all are open.
LEMMA LowestIsFree ==
  ASSUME NEW t, Opened(t) < Cardinality(Fds)
  PROVE  Lowest(t) \in Fds /\ t[Lowest(t)] = Closed
<1>1. OpenFds(t) # Fds
  BY FdsFinite, ShellAssumption DEF Opened
<1>2. {n \in Fds : t[n] = Closed} # {} /\ {n \in Fds : t[n] = Closed} \subseteq Nat
  BY <1>1, FdsFinite DEF OpenFds
<1>3. QED
  BY <1>2, MinOfNaturals DEF Lowest

LEMMA OpenOne ==
  ASSUME NEW t, NEW u, NEW n \in Fds, t[n] = Closed, u[n] # Closed,
         \A m \in Fds \ {n} : u[m] = t[m]
  PROVE  Opened(u) = Opened(t) + 1
<1>1. OpenFds(u) = OpenFds(t) \cup {n} /\ n \notin OpenFds(t)
  BY DEF OpenFds
<1>2. Cardinality(OpenFds(t) \cup {n}) = Cardinality(OpenFds(t)) + 1
  BY <1>1, OpenFdsFinite, FS_AddElement
<1>3. QED
  BY <1>1, <1>2 DEF Opened

\* A descriptor moved onto another open one closes it and its old place.
LEMMA MoveClosesOne ==
  ASSUME NEW t \in [Fds -> Files], NEW from \in Fds, NEW to \in Fds, from # to,
         t[from] # Closed, t[to] # Closed
  PROVE  /\ Move(t, from, to) \in [Fds -> Files]
         /\ Opened(Move(t, from, to)) = Opened(t) - 1
         /\ \A n \in Fds : Move(t, from, to)[n] = IF n = from THEN Closed
                                                  ELSE IF n = to THEN t[from] ELSE t[n]
<1>1. /\ Move(t, from, to) \in [Fds -> Files]
      /\ \A n \in Fds : Move(t, from, to)[n] = IF n = from THEN Closed
                                               ELSE IF n = to THEN t[from] ELSE t[n]
  BY Kinds DEF Move
<1>2. OpenFds(Move(t, from, to)) = OpenFds(t) \ {from} /\ from \in OpenFds(t)
  BY <1>1 DEF OpenFds
<1>3. Cardinality(OpenFds(t) \ {from}) = Cardinality(OpenFds(t)) - 1
  BY <1>2, OpenFdsFinite, FS_RemoveElement
<1>4. QED
  BY <1>1, <1>2, <1>3 DEF Opened

\* Two descriptors taken one after the other (advshell.c:216-217, 232).
LEMMA TwoFree ==
  ASSUME NEW t \in [Fds -> Files], Opened(t) + 2 <= Cardinality(Fds), NEW f \in Files, f # Closed
  PROVE  /\ Lowest(t) \in Fds /\ t[Lowest(t)] = Closed
         /\ Lowest(Assign(t, f)) \in Fds /\ t[Lowest(Assign(t, f))] = Closed
         /\ Lowest(t) # Lowest(Assign(t, f))
<1> DEFINE a == Lowest(t)
           s == Assign(t, f)
<1>1. a \in Fds /\ t[a] = Closed
  BY LowestIsFree, OpenFdsFinite, FdsFinite, ShellAssumption
<1>2. s[a] = f /\ \A m \in Fds \ {a} : s[m] = t[m]
  BY <1>1 DEF Assign
<1> HIDE DEF a, s
<1>3. Opened(s) = Opened(t) + 1
  BY <1>1, <1>2, OpenOne
<1>4. Lowest(s) \in Fds /\ s[Lowest(s)] = Closed
  BY <1>3, LowestIsFree, OpenFdsFinite, FdsFinite, ShellAssumption
<1>5. QED
  BY <1>1, <1>2, <1>4 DEF a, s

LEMMA OpenTwo ==
  ASSUME NEW t, NEW u, NEW a \in Fds, NEW b \in Fds, a # b, t[a] = Closed, t[b] = Closed,
         u[a] # Closed, u[b] # Closed, \A m \in Fds \ {a, b} : u[m] = t[m]
  PROVE  Opened(u) = Opened(t) + 2
<1>1. /\ OpenFds(u) = (OpenFds(t) \cup {a}) \cup {b}
      /\ a \notin OpenFds(t) /\ b \notin OpenFds(t) \cup {a}
  BY DEF OpenFds
<1>2. /\ IsFiniteSet(OpenFds(t) \cup {a})
      /\ Cardinality(OpenFds(t) \cup {a}) = Cardinality(OpenFds(t)) + 1
  BY <1>1, OpenFdsFinite, FS_AddElement
<1>3. Cardinality((OpenFds(t) \cup {a}) \cup {b}) = Cardinality(OpenFds(t) \cup {a}) + 1
  BY <1>1, <1>2, FS_AddElement
<1>4. QED
  BY <1>1, <1>2, <1>3, OpenFdsFinite DEF Opened

-----------------------------------------------------------------------------
(* Pipes.                                                                  *)

LEMMA InUseFinite ==
  /\ IsFiniteSet(Pipes) /\ Cardinality(Pipes) = MaxLines * MaxArgs
  /\ IsFiniteSet(InUse) /\ Cardinality(InUse) \in Nat /\ InUse \subseteq Pipes
<1>1. MaxLines * MaxArgs \in Nat
  BY ShellAssumption
<1>2. IsFiniteSet(Pipes) /\ Cardinality(Pipes) = MaxLines * MaxArgs
  <2> DEFINE n == MaxLines * MaxArgs
  <2> HIDE DEF n
  <2>1. n \in Nat => IsFiniteSet(1..n) /\ Cardinality(1..n) = n
    BY FS_Interval
  <2>2. QED
    BY <1>1, <2>1 DEF Pipes, n
<1>3. InUse \in SUBSET Pipes
  BY DEF InUse
<1>4. QED
  BY <1>2, <1>3, FS_Subset, FS_CardinalityType

\* The lines typed so far have fewer stages than slots in the arrays each.
LEMMA Products ==
  ASSUME NEW n \in Nat, NEW m \in Nat, n <= m
  PROVE  /\ n * MaxArgs \in Nat /\ n * MaxArgs <= m * MaxArgs
         /\ (n + 1) * MaxArgs = n * MaxArgs + MaxArgs
<1>1. MaxArgs \in Nat
  BY ShellAssumption
<1>2. (m - n) * MaxArgs \in Nat /\ m * MaxArgs = n * MaxArgs + (m - n) * MaxArgs
  BY <1>1
<1>3. QED
  BY <1>1, <1>2

\* At the beginning of a stage there is a pipe that no process has an end of.
LEMMA UnusedIsNot ==
  ASSUME IInv, pc = "stage"
  PROVE  Unused \in Pipes /\ ~Open(Unused)
<1>1. /\ lines \in 1..MaxLines /\ MaxLines \in Nat /\ MaxArgs \in Nat
      /\ cmd_start \in Nat /\ cmd_start < MaxArgs
  <2>1. Len(m_argv) < MaxArgs /\ Len(m_argv) \in Nat /\ cmd_start \in 1..Len(m_argv) /\ lines > 0
    BY ShellAssumption, LenProperties DEF IInv, Plumbed, InLine
  <2>2. QED
    BY <2>1, ShellAssumption DEF IInv, Types
<1>2. Cardinality(InUse) < (lines - 1) * MaxArgs + cmd_start
  BY DEF IInv, PipesSuffice
<1>3. Cardinality(InUse) < MaxLines * MaxArgs
  <2> DEFINE a == (lines - 1) * MaxArgs
             b == lines * MaxArgs
             c == MaxLines * MaxArgs
             k == Cardinality(InUse)
  <2>1. lines - 1 \in Nat /\ lines \in Nat /\ (lines - 1) + 1 = lines /\ lines - 1 <= lines /\ lines <= MaxLines
    BY <1>1
  <2>2. a \in Nat /\ b = a + MaxArgs
    BY <2>1, Products
  <2>3. b \in Nat /\ b <= c
    BY <1>1, <2>1, Products
  <2>4. c \in Nat /\ k \in Nat
    BY <1>1, <2>3, InUseFinite
  <2>5. k < a + cmd_start
    BY <1>2
  <2> HIDE DEF a, b, c, k
  <2>6. k < c
    BY <1>1, <2>2, <2>3, <2>4, <2>5
  <2>7. QED
    BY <2>6 DEF c, k
<1>4. InUse # Pipes
  BY <1>3, InUseFinite
<1>5. \E p \in Pipes : ~Open(p)
  BY <1>4, InUseFinite DEF InUse
<1>6. QED
  BY <1>5 DEF Unused

\* A step that opens no pipe but q leaves at most one more in use.
LEMMA OneMoreInUse ==
  ASSUME NEW q, \A p \in Pipes : Open(p)' => Open(p) \/ p = q
  PROVE  /\ Cardinality(InUse') \in Nat /\ Cardinality(InUse') <= Cardinality(InUse) + 1
         /\ q \notin InUse' => Cardinality(InUse') <= Cardinality(InUse)
<1>1. InUse' \subseteq InUse \cup {q}
  BY DEF InUse
<1>2. IsFiniteSet(InUse \cup {q}) /\ Cardinality(InUse \cup {q}) <= Cardinality(InUse) + 1
  BY InUseFinite, FS_AddElement
<1>3. Cardinality(InUse') \in Nat /\ Cardinality(InUse') <= Cardinality(InUse \cup {q})
  BY <1>1, <1>2, FS_Subset, FS_CardinalityType
<1>4. q \notin InUse' => Cardinality(InUse') <= Cardinality(InUse)
  <2>1. q \notin InUse' => InUse' \in SUBSET InUse
    BY <1>1
  <2>2. QED
    BY <2>1, InUseFinite, FS_Subset
<1>5. QED
  BY <1>2, <1>3, <1>4, InUseFinite, FS_CardinalityType

-----------------------------------------------------------------------------
(* Where a stage begins.                                                   *)

\* StageEnd is a position in the line, not before the stage's first.
LEMMA StageEnds ==
  ASSUME IInv, pc = "stage"
  PROVE  /\ m_argv \in Seq(STRING) /\ Len(m_argv) \in Nat
         /\ StageEnd \in cmd_start .. Len(m_argv) /\ cmd_start \in 1 .. Len(m_argv)
<1>1. m_argv \in Seq(STRING) /\ Len(m_argv) \in Nat /\ cmd_start \in 1 .. Len(m_argv)
  BY ShellAssumption, LenProperties DEF IInv, Plumbed, InLine
<1> DEFINE T == {k \in cmd_start .. Len(m_argv) : m_argv[k] = "|" \/ k = Len(m_argv)}
<1>2. T \subseteq Nat /\ Len(m_argv) \in T
  BY <1>1
<1>3. Min(T) \in T
  BY <1>2, MinOfNaturals
<1>4. QED
  BY <1>1, <1>3 DEF StageEnd

\* The descriptors when the stage's pipe has been made and its ends have been
\* moved (advshell.c:232-256).
LEMMA StageFds ==
  ASSUME IInv, StartStage
  PROVE  /\ fd' \in [Fds -> Files] /\ fd'[0] # Closed /\ fd'[1] # Closed
         /\ Opened(fd)' = 4 + 2 * lines
         /\ SavesTty(saved_in)' /\ NoOwnInput'
         /\ IsLast => fd'[1] = Tty
         /\ ~IsLast => ReadsOwn(fd0)' /\ SavesTty(saved_out)'
         /\ \A q \in Pipes, n \in Fds : fd'[n] \in {R(q), W(q)} =>
              q = Unused \/ \E m \in Fds : fd[m] = fd'[n]
<1> DEFINE p == Unused
           r == Lowest(fd)
           w == Lowest(Assign(fd, R(p)))
           made == [fd EXCEPT ![r] = R(p), ![w] = W(p)]
           from == IF IsLast THEN saved_out ELSE w
<1>0. pc = "stage" /\ fd' = Move(Joined(made), from, 1) /\ fd0' = r /\ UNCHANGED <<saved_in, saved_out, lines>>
  BY DEF StartStage, Redirect
<1>1. p \in Pipes /\ \A n \in Fds : fd[n] \notin {R(p), W(p)}
  BY <1>0, UnusedIsNot DEF Open, Tables
<1>2. /\ fd \in [Fds -> Files] /\ fd[0] # Closed /\ fd[1] # Closed /\ lines \in 0..MaxLines
      /\ SavesTty(saved_in) /\ SavesTty(saved_out) /\ saved_out # saved_in
      /\ in = 0 => Opened(fd) = 3 + 2 * lines
      /\ in # 0 => ReadsOwn(in) /\ Opened(fd) = 4 + 2 * lines
      /\ NoOwnInput /\ {0, 1} \subseteq Fds
  BY <1>0, FdsFinite DEF IInv, Types, Plumbed, InLine
<1>3. /\ r \in Fds /\ w \in Fds /\ r # w /\ fd[r] = Closed /\ fd[w] = Closed
      /\ made \in [Fds -> Files] /\ Opened(made) = Opened(fd) + 2
      /\ \A n \in Fds : made[n] = IF n = w THEN W(p) ELSE IF n = r THEN R(p) ELSE fd[n]
  <2>1. Opened(fd) + 2 <= Cardinality(Fds)
    BY <1>2, FdsFinite, ShellAssumption
  <2>2. R(p) \in Files /\ R(p) # Closed /\ W(p) \in Files /\ W(p) # Closed
    BY <1>1, Kinds
  <2>3. /\ r \in Fds /\ fd[r] = Closed /\ w \in Fds /\ fd[w] = Closed /\ r # w
    BY <1>2, <2>1, <2>2, TwoFree
  <2> HIDE DEF p, r, w
  <2>4. /\ made \in [Fds -> Files]
        /\ \A n \in Fds : made[n] = IF n = w THEN W(p) ELSE IF n = r THEN R(p) ELSE fd[n]
    BY <1>2, <2>2, <2>3
  <2> HIDE DEF made
  <2>5. Opened(made) = Opened(fd) + 2
    BY <2>2, <2>3, <2>4, OpenTwo
  <2>6. QED
    BY <2>3, <2>4, <2>5
<1> HIDE DEF p, r, w, made
<1>4. r \notin {0, 1, saved_in, saved_out, in} /\ w \notin {0, 1, saved_in, saved_out, in}
  BY <1>2, <1>3, Kinds DEF SavesTty, ReadsOwn
<1>5. /\ Joined(made) \in [Fds -> Files] /\ Opened(Joined(made)) = 5 + 2 * lines
      /\ in = 0 => \A n \in Fds : Joined(made)[n] = made[n]
      /\ in # 0 => \A n \in Fds : Joined(made)[n] = IF n = in THEN Closed
                                                    ELSE IF n = 0 THEN fd[in] ELSE made[n]
  <2>1. CASE in = 0
    BY <1>2, <1>3, <2>1 DEF Joined
  <2>2. CASE in # 0
    <3>1. in \in Fds /\ in # 0 /\ 0 \in Fds /\ made[in] = fd[in] /\ made[0] = fd[0] /\ fd[in] # Closed
      BY <1>2, <1>3, <1>4, <2>2, Kinds DEF ReadsOwn
    <3>2. Opened(made) = 6 + 2 * lines
      BY <1>2, <1>3, <2>2
    <3>3. QED
      BY <1>2, <1>3, <2>2, <3>1, <3>2, MoveClosesOne DEF Joined
  <2>3. QED
    BY <2>1, <2>2
<1>6. /\ from \in Fds /\ from # 1 /\ Joined(made)[from] = IF IsLast THEN Tty ELSE W(p)
      /\ Joined(made)[from] # Closed /\ Joined(made)[1] # Closed
  <2>1. from \in Fds \ {0, 1} /\ from # in /\ made[from] = IF IsLast THEN Tty ELSE W(p)
    BY <1>2, <1>3, <1>4, Kinds DEF SavesTty, ReadsOwn
  <2>2. Joined(made)[from] = made[from]
    BY <1>5, <2>1
  <2>3. Joined(made)[1] = fd[1]
    BY <1>2, <1>3, <1>4, <1>5 DEF ReadsOwn
  <2>4. QED
    BY <1>1, <1>2, <2>1, <2>2, <2>3, Kinds
<1>7. /\ fd' \in [Fds -> Files] /\ Opened(fd') = 4 + 2 * lines
      /\ \A n \in Fds : fd'[n] = IF n = from THEN Closed
                                 ELSE IF n = 1 THEN Joined(made)[from] ELSE Joined(made)[n]
  <2>1. Opened(Joined(made)) - 1 = 4 + 2 * lines
    BY <1>2, <1>5, ShellAssumption
  <2>2. QED
    BY <1>0, <1>2, <1>5, <1>6, <2>1, MoveClosesOne
\* What each descriptor leads to now.
<1>8. /\ fd'[0] = IF in = 0 THEN fd[0] ELSE fd[in]
      /\ fd'[1] = IF IsLast THEN Tty ELSE W(p)
      /\ fd'[r] = R(p) /\ fd'[saved_in] = Tty
      /\ ~IsLast => fd'[saved_out] = Tty /\ fd'[w] = Closed
      /\ \A n \in Fds \ {0, 1, r, w} : fd'[n] \in {fd[n], Closed}
      /\ fd'[w] \in {W(p), Closed}
  <2>1. fd'[0] = IF in = 0 THEN fd[0] ELSE fd[in]
    BY <1>2, <1>3, <1>4, <1>5, <1>6, <1>7 DEF SavesTty
  <2>2. fd'[1] = IF IsLast THEN Tty ELSE W(p)
    BY <1>2, <1>6, <1>7
  <2>3. fd'[r] = R(p)
    BY <1>2, <1>3, <1>4, <1>5, <1>7
  <2>4. fd'[saved_in] = Tty /\ (~IsLast => fd'[saved_out] = Tty /\ fd'[w] = Closed)
    <3>1. /\ saved_in \in Fds \ {0, 1, in} /\ saved_in # from /\ made[saved_in] = Tty
          /\ saved_out \in Fds \ {0, 1, in} /\ made[saved_out] = Tty
      BY <1>1, <1>2, <1>3, <1>4, Kinds DEF SavesTty, ReadsOwn
    <3>2. QED
      BY <1>3, <1>4, <1>5, <1>7, <3>1
  <2>5. /\ \A n \in Fds \ {0, 1, r, w} : fd'[n] \in {fd[n], Closed}
        /\ fd'[w] \in {W(p), Closed}
    BY <1>3, <1>4, <1>5, <1>7
  <2>6. QED
    BY <2>1, <2>2, <2>3, <2>4, <2>5
<1>9. fd'[0] # Closed /\ fd'[1] # Closed
  BY <1>1, <1>2, <1>8, Kinds DEF ReadsOwn
<1>10. NoOwnInput'
  <2> SUFFICES ASSUME NEW q \in Pipes, fd'[0] = R(q), NEW n \in Fds, fd'[n] = W(q)
               PROVE  FALSE
    BY DEF NoOwnInput
  <2>1. q # p
    BY <1>1, <1>2, <1>8 DEF ReadsOwn
  <2>2. n \notin {0, 1, r, w} /\ fd[n] = W(q)
    <3>1. W(q) \notin {R(q), R(p), W(p), Tty, Closed}
      BY <1>1, <2>1, Kinds
    <3>2. n \notin {0, 1, r, w}
      BY <1>8, <3>1
    <3>3. QED
      BY <1>8, <3>1, <3>2
  <2>3. CASE in = 0
    BY <1>2, <1>8, <2>2, <2>3 DEF NoOwnInput
  <2>4. CASE in # 0
    <3>1. PICK o \in Pipes : fd[in] = R(o) /\ \A m \in Fds : fd[m] = W(o) => m = 1
      BY <1>2, <2>4 DEF ReadsOwn
    <3>2. R(o) = R(q)
      BY <1>8, <2>4, <3>1
    <3>3. o = q
      BY <3>2 DEF R
    <3>4. QED
      BY <2>2, <3>1, <3>3
  <2>5. QED
    BY <2>3, <2>4
<1>11. SavesTty(saved_in)' /\ (~IsLast => SavesTty(saved_out)')
  BY <1>0, <1>2, <1>8 DEF SavesTty
<1>12. ~IsLast => ReadsOwn(fd0)'
  <2> SUFFICES ASSUME ~IsLast, NEW m \in Fds, fd'[m] = W(p) PROVE m = 1
    BY <1>0, <1>1, <1>3, <1>4, <1>8 DEF ReadsOwn
  <2>1. m # 0
    BY <1>1, <1>2, <1>8 DEF ReadsOwn
  <2>2. QED
    BY <1>1, <1>8, <2>1, Kinds
<1>13. ASSUME NEW q \in Pipes, NEW n \in Fds, fd'[n] \in {R(q), W(q)}
       PROVE  q = p \/ \E m \in Fds : fd[m] = fd'[n]
  BY <1>1, <1>2, <1>8, <1>13, Kinds DEF ReadsOwn
<1>14. QED
  BY <1>7, <1>8, <1>9, <1>10, <1>11, <1>12, <1>13 DEF p
-----------------------------------------------------------------------------
(* The steps.                                                              *)

LEMMA InitIInv == Init => IInv
<1> SUFFICES ASSUME Init PROVE IInv
  OBVIOUS
<1> USE ShellAssumption DEF Init
<1>1. Closed \in Files /\ Tty \in Files /\ Tty # Closed
  BY Kinds
<1>2. {0, 1, 2} \subseteq Fds /\ fd \in [Fds -> Files] /\ fd[0] = Tty /\ fd[1] = Tty
  BY <1>1, FdsFinite
<1>3. Types /\ ChildInherits
  <2>1. NoChild \in [at : {"none", "new", "exec"}, fd : [Fds -> Files], left : Nat] /\ NoChild.at = "none"
    BY <1>1 DEF NoChild
  <2>2. content \in [Pipes -> 0 .. Capacity]
    OBVIOUS
  <2>3. QED
    BY <1>1, <1>2, <2>1, <2>2 DEF Types, ChildInherits
<1>4. NoOwnInput /\ Plumbed
  BY <1>2, Kinds DEF NoOwnInput, Plumbed, InLine
<1>5. AtPrompt
  <2> DEFINE k == 2
  <2>1. OpenFds(fd) = 0..k
    <3>1. \A n \in Fds : n \in Nat /\ (n <= 2 <=> n \in 0..2)
      BY FdsFinite
    <3>2. \A n \in 0..2 : n \in Fds
      BY FdsFinite
    <3>3. \A n \in Fds : fd[n] # Closed <=> n <= 2
      BY <1>1
    <3>4. QED
      BY <3>1, <3>2, <3>3 DEF OpenFds
  <2>2. k \in Int /\ k = 2
    OBVIOUS
  <2> HIDE DEF k
  <2>3. k \in Nat => Cardinality(0..k) = k - 0 + 1
    BY FS_Interval
  <2>4. QED
    BY <1>2, <2>1, <2>2, <2>3 DEF AtPrompt, Opened
<1>6. PipesSuffice
  <2>1. InUse = {}
    <3>1. \A n \in Fds : fd[n] \in {Tty, Closed} /\ child.fd[n] = Closed
      BY DEF NoChild
    <3>2. QED
      BY <3>1, Kinds DEF InUse, Open, Tables
  <2>2. Cardinality(InUse) = 0 /\ 0 * MaxArgs = 0
    BY <2>1, FS_EmptySet
  <2>3. QED
    BY <2>2 DEF PipesSuffice
<1>7. QED
  BY <1>3, <1>4, <1>5, <1>6 DEF IInv

\* Steps within a stage: the shell's descriptors stay, and nobody opens a pipe.
LEMMA WithinStage ==
  ASSUME IInv,
         UNCHANGED <<fd, m_argv, cmd_start, bar, saved_in, saved_out, in, fd0, lines>>,
         \/ pc' = pc
         \/ pc \in {"call", "wait", "next"} /\ pc' \in {"wait", "next", "exited", "stuck"},
         \A t \in Tables' : \A n \in Fds : \/ t[n] \in {File, Closed}
                                           \/ \E s \in Tables : s[n] = t[n]
  PROVE  NoOwnInput' /\ AtPrompt' /\ Plumbed' /\ PipesSuffice'
<1>1. NoOwnInput /\ AtPrompt /\ Plumbed /\ PipesSuffice /\ Types
  BY DEF IInv
<1>2. NoOwnInput'
  BY <1>1 DEF NoOwnInput
<1>3. AtPrompt'
  BY <1>1 DEF AtPrompt, Opened, OpenFds
<1>4. Plumbed'
  <2>1. \A n : /\ SavesTty(n)' <=> SavesTty(n)
               /\ ReadsOwn(n)' <=> ReadsOwn(n)
    BY DEF SavesTty, ReadsOwn
  <2>2. Opened(fd') = Opened(fd)
    OBVIOUS
  <2>3. CASE pc' = pc
    BY <1>1, <2>1, <2>2, <2>3 DEF Plumbed, InLine
  <2>4. CASE pc \in {"call", "wait", "next"} /\ pc' \in {"wait", "next", "exited", "stuck"}
    <3>1. /\ m_argv \in Lines /\ lines > 0 /\ SavesTty(saved_in)
          /\ bar \in 1..Len(m_argv) /\ Opened(fd) = 4 + 2 * lines
          /\ bar = Len(m_argv) => fd[1] = Tty
          /\ bar < Len(m_argv) => ReadsOwn(fd0) /\ SavesTty(saved_out) /\ saved_out # saved_in
      BY <1>1, <2>4 DEF Plumbed, InLine
    <3>2. pc' # "stage"
      BY <2>4
    <3>3. QED
      BY <2>1, <2>2, <3>1, <3>2 DEF Plumbed
  <2>5. QED
    BY <2>3, <2>4
<1>5. PipesSuffice'
  <2>1. \A p \in Pipes : Open(p)' => Open(p)
    <3> SUFFICES ASSUME NEW p \in Pipes, NEW t \in Tables', NEW n \in Fds, t[n] \in {R(p), W(p)}
                 PROVE  Open(p)
      BY DEF Open
    <3>1. PICK s \in Tables : s[n] = t[n]
      BY Kinds
    <3>2. QED
      BY <3>1 DEF Open
  <2>2. InUse' \in SUBSET InUse
    BY <2>1 DEF InUse
  <2>3. Cardinality(InUse') \in Nat /\ Cardinality(InUse') <= Cardinality(InUse)
    BY <2>2, InUseFinite, FS_Subset, FS_CardinalityType
  <2> DEFINE k == Cardinality(InUse)
             a == (lines - 1) * MaxArgs
             b == lines * MaxArgs
  <2>4. /\ k \in Nat /\ a \in Int /\ b \in Int
        /\ pc = "stage" => cmd_start \in Nat
        /\ pc \in {"call", "wait", "next"} => bar \in Nat
    BY <1>1, ShellAssumption, InUseFinite DEF Types, Plumbed, InLine
  <2>5. /\ pc = "prompt" => k <= b
        /\ pc = "stage" => k < a + cmd_start
        /\ pc \in {"call", "wait", "next"} => k <= a + bar
    BY <1>1 DEF PipesSuffice
  <2>6. Cardinality(InUse') \in Nat /\ Cardinality(InUse') <= k
    BY <2>3
  <2> HIDE DEF k, a, b
  <2>7. /\ pc' = "prompt" => Cardinality(InUse') <= b
        /\ pc' = "stage" => Cardinality(InUse') < a + cmd_start
        /\ pc' \in {"call", "wait", "next"} => Cardinality(InUse') <= a + bar
    BY <2>4, <2>5, <2>6
  <2>8. QED
    BY <2>7 DEF PipesSuffice, a, b
<1>6. QED
  BY <1>2, <1>3, <1>4, <1>5

\* A unit is written to a pipe that is not full.
LEMMA PutFits ==
  ASSUME Types, NEW f \in Files, Put(f)
  PROVE  content' \in [Pipes -> 0 .. Capacity]
<1>1. content \in [Pipes -> 0 .. Capacity] /\ Capacity \in Nat
  BY ShellAssumption DEF Types
<1>2. CASE f[1] = "write"
  <2>1. f[2] \in Pipes
    BY <1>2, Kinds
  <2>2. content' = [content EXCEPT ![f[2]] = content[f[2]] + 1] /\ content[f[2]] # Capacity
    BY <1>2 DEF Put, IsFull
  <2>3. content[f[2]] + 1 \in 0 .. Capacity
    BY <1>1, <2>1, <2>2
  <2>4. QED
    BY <1>1, <2>2, <2>3
<1>3. CASE f[1] # "write"
  BY <1>1, <1>3 DEF Put
<1>4. QED
  BY <1>2, <1>3

LEMMA ShellWithin ==
  ASSUME IInv, Pwd \/ ExitShell \/ EmptyStage \/ Fork \/ Waited \/ UNCHANGED vars
  PROVE  IInv'
<1> USE DEF vars, locals
<1>0. Types /\ ChildInherits /\ {0, 1} \subseteq Fds
  BY FdsFinite DEF IInv
<1>1. UNCHANGED <<fd, m_argv, cmd_start, bar, saved_in, saved_out, in, fd0, lines>>
  BY DEF Pwd, ExitShell, EmptyStage, Fork, Waited
<1>2. \/ pc' = pc
      \/ pc \in {"call", "wait", "next"} /\ pc' \in {"wait", "next", "exited", "stuck"}
  BY DEF Pwd, ExitShell, EmptyStage, Fork, Waited
<1>3. \/ UNCHANGED child /\ pc' # "wait" /\ child.at = "none"
      \/ UNCHANGED <<child, pc>>
      \/ pc' = "wait" /\ child' = [at |-> "new", fd |-> fd, left |-> 0]
  BY <1>0 DEF Pwd, ExitShell, EmptyStage, Fork, Waited, ChildInherits
<1>4. UNCHANGED doomed \/ doomed' = doomed \union {fd}
  BY DEF Pwd, ExitShell, EmptyStage, Fork, Waited
<1>5. content' \in [Pipes -> 0 .. Capacity]
  <2>1. CASE Pwd
    BY <1>0, <2>1, PutFits DEF Pwd, Types
  <2>2. CASE UNCHANGED content
    BY <1>0, <2>2 DEF Types
  <2>3. QED
    BY <2>1, <2>2 DEF ExitShell, EmptyStage, Fork, Waited
<1>6. Types'
  <2>1. child' \in [at : {"none", "new", "exec"}, fd : [Fds -> Files], left : Nat]
    BY <1>0, <1>3 DEF Types
  <2>2. doomed' \subseteq [Fds -> Files]
    BY <1>0, <1>4 DEF Types
  <2>3. QED
    BY <1>0, <1>1, <1>2, <1>5, <2>1, <2>2 DEF Types
<1>7. ChildInherits'
  BY <1>0, <1>1, <1>3 DEF ChildInherits
<1>8. \A t \in Tables' : \A n \in Fds : \E s \in Tables : s[n] = t[n]
  BY <1>1, <1>3, <1>4 DEF Tables
<1>9. QED
  BY <1>1, <1>2, <1>6, <1>7, <1>8, WithinStage DEF IInv

LEMMA ChildWithin ==
  ASSUME IInv, Exec \/ Get \/ Write \/ Finish \/ BackgroundDies \/ Interrupt
  PROVE  IInv'
<1> USE DEF locals, Running
<1>0. Types /\ ChildInherits /\ {0, 1} \subseteq Fds
  BY FdsFinite DEF IInv
<1>1. UNCHANGED <<fd, m_argv, cmd_start, bar, saved_in, saved_out, in, fd0, lines>>
  BY DEF Exec, Get, Write, Finish, BackgroundDies, Interrupt
<1>2. \/ pc' = pc
      \/ pc = "wait" /\ pc' = "stuck"
  BY <1>0 DEF Exec, Get, Write, Finish, BackgroundDies, Interrupt, ChildInherits
<1>3. doomed' \subseteq doomed
  BY DEF Exec, Get, Write, Finish, BackgroundDies, Interrupt
<1>4. /\ child' \in [at : {"none", "new", "exec"}, fd : [Fds -> Files], left : Nat]
      /\ \/ child' = NoChild
         \/ /\ UNCHANGED pc /\ child.at # "none" /\ child'.at # "none"
            /\ child'.fd[0] \in {child.fd[0], File} /\ child'.fd[1] \in {child.fd[1], File}
            /\ \A n \in Fds \ {0, 1} : child'.fd[n] = child.fd[n]
         \/ UNCHANGED <<child, pc>>
  <2>1. CASE Exec
    <3>1. PICK opened : child' = [at   |-> "exec",
                 fd   |-> [child.fd EXCEPT ![0] = IF "<" \in opened THEN File ELSE @,
                                           ![1] = IF ">" \in opened THEN File ELSE @],
                 left |-> IF n_argv[1] \in DOMAIN Output THEN Output[n_argv[1]] ELSE 0]
      BY <2>1 DEF Exec
    <3>2. (IF n_argv[1] \in DOMAIN Output THEN Output[n_argv[1]] ELSE 0) \in Nat
      BY ShellAssumption
    <3>3. UNCHANGED pc /\ child.at # "none" /\ child.fd \in [Fds -> Files]
      BY <1>0, <2>1 DEF Exec, Types
    <3>4. QED
      BY <1>0, <3>1, <3>2, <3>3, Kinds
  <2>2. CASE Get \/ Write
    BY <1>0, <2>2 DEF Get, Write, Types
  <2>3. CASE Finish \/ Interrupt
    <3>1. NoChild \in [at : {"none", "new", "exec"}, fd : [Fds -> Files], left : Nat]
      BY Kinds DEF NoChild
    <3>2. QED
      BY <2>3, <3>1 DEF Finish, Interrupt
  <2>4. CASE BackgroundDies
    BY <1>0, <2>4 DEF BackgroundDies, Types
  <2>5. QED
    BY <2>1, <2>2, <2>3, <2>4
<1>5. content' \in [Pipes -> 0 .. Capacity]
  <2>1. CASE Get
    <3>1. Input \in Files /\ Input[1] = "read"
      BY <1>0, <2>1 DEF Get, Input, Types
    <3>2. Input[2] \in Pipes
      BY <3>1, Kinds
    <3>3. content[Input[2]] - 1 \in 0 .. Capacity
      BY <1>0, <2>1, <3>2, ShellAssumption DEF Get, Types
    <3>4. content' = [content EXCEPT ![Input[2]] = content[Input[2]] - 1]
      BY <2>1 DEF Get
    <3>5. QED
      BY <1>0, <3>3, <3>4 DEF Types
  <2>2. CASE Write
    <3>1. child.fd[1] \in Files
      BY <1>0 DEF Types
    <3>2. QED
      BY <1>0, <2>2, <3>1, PutFits DEF Write
  <2>3. CASE Interrupt /\ Put(fd[1])
    BY <1>0, <2>3, PutFits DEF Types
  <2>4. CASE UNCHANGED content
    BY <1>0, <2>4 DEF Types
  <2>5. QED
    BY <2>1, <2>2, <2>3, <2>4 DEF Exec, Finish, BackgroundDies, Interrupt
<1>6. Types'
  BY <1>0, <1>1, <1>2, <1>3, <1>4, <1>5 DEF Types
<1>7. ChildInherits'
  <2>1. CASE child' = NoChild
    BY <2>1 DEF ChildInherits, NoChild
  <2>2. CASE /\ UNCHANGED pc /\ child.at # "none" /\ child'.at # "none"
             /\ child'.fd[0] \in {child.fd[0], File} /\ child'.fd[1] \in {child.fd[1], File}
             /\ \A n \in Fds \ {0, 1} : child'.fd[n] = child.fd[n]
    BY <1>0, <1>1, <2>2 DEF ChildInherits
  <2>3. CASE UNCHANGED <<child, pc>>
    BY <1>0, <1>1, <2>3 DEF ChildInherits
  <2>4. QED
    BY <1>4, <2>1, <2>2, <2>3
<1>8. \A t \in Tables' : \A n \in Fds : \/ t[n] \in {File, Closed}
                                        \/ \E s \in Tables : s[n] = t[n]
  <2>1. \A n \in Fds : child'.fd[n] \in {File, Closed} \/ child'.fd[n] = child.fd[n]
    BY <1>4 DEF NoChild
  <2>2. \A t \in Tables' : t \in Tables \/ t = child'.fd
    BY <1>1, <1>3 DEF Tables
  <2>3. child.fd \in Tables
    BY DEF Tables
  <2>4. QED
    BY <2>1, <2>2, <2>3
<1>9. QED
  BY <1>1, <1>2, <1>6, <1>7, <1>8, WithinStage DEF IInv
\* A line is read: the terminal is saved twice.
LEMMA ReadLineStep ==
  ASSUME IInv, ReadLine
  PROVE  IInv'
<1>0. Types /\ ChildInherits /\ AtPrompt /\ {0, 1} \subseteq Fds /\ MaxLines \in Nat
  BY FdsFinite, ShellAssumption DEF IInv
<1>1. /\ pc = "prompt" /\ pc' = "stage" /\ lines < MaxLines /\ lines' = lines + 1
      /\ m_argv' \in Lines /\ cmd_start' = 1 /\ in' = 0
      /\ UNCHANGED <<child, doomed, content>>
  BY DEF ReadLine
<1>2. fd[0] = Tty /\ fd[1] = Tty /\ Opened(fd) = 3 + 2 * lines /\ fd \in [Fds -> Files] /\ lines \in 0..MaxLines
  BY <1>0, <1>1 DEF AtPrompt, Types
<1>3. /\ saved_out' \in Fds /\ saved_in' \in Fds /\ saved_out' # saved_in'
      /\ fd[saved_out'] = Closed /\ fd[saved_in'] = Closed
      /\ fd' \in [Fds -> Files] /\ Opened(fd') = Opened(fd) + 2
      /\ \A n \in Fds : fd'[n] = IF n \in {saved_in', saved_out'} THEN Tty ELSE fd[n]
  <2>1. Opened(fd) + 2 <= Cardinality(Fds)
    BY <1>0, <1>1, <1>2, FdsFinite
  <2>2. /\ saved_out' = Lowest(fd) /\ saved_in' = Lowest(Assign(fd, Tty))
        /\ fd' = [fd EXCEPT ![saved_out'] = Tty, ![saved_in'] = Tty]
    BY <1>2 DEF ReadLine
  <2>3. Tty \in Files /\ Tty # Closed
    BY Kinds
  <2>4. /\ saved_out' \in Fds /\ saved_in' \in Fds /\ saved_out' # saved_in'
        /\ fd[saved_out'] = Closed /\ fd[saved_in'] = Closed
    BY <1>2, <2>1, <2>2, <2>3, TwoFree
  <2>5. /\ fd' \in [Fds -> Files]
        /\ \A n \in Fds : fd'[n] = IF n \in {saved_in', saved_out'} THEN Tty ELSE fd[n]
    BY <1>2, <2>2, <2>3, <2>4
  <2>6. Opened(fd') = Opened(fd) + 2
    BY <2>3, <2>4, <2>5, OpenTwo
  <2>7. QED
    BY <2>4, <2>5, <2>6
<1>4. /\ saved_in' \notin {0, 1} /\ saved_out' \notin {0, 1}
      /\ fd'[0] = Tty /\ fd'[1] = Tty
  BY <1>0, <1>2, <1>3, Kinds
<1>5. Types' /\ ChildInherits' /\ AtPrompt'
  BY <1>0, <1>1, <1>2, <1>3, <1>4, Kinds DEF Types, ChildInherits, AtPrompt
<1>6. NoOwnInput'
  BY <1>4, Kinds DEF NoOwnInput
<1>7. Plumbed'
  <2>1. SavesTty(saved_in)' /\ SavesTty(saved_out)'
    BY <1>3, <1>4 DEF SavesTty
  <2>2. 1 \in 1..Len(m_argv') /\ lines' > 0
    BY <1>1, <1>2, ShellAssumption, LenProperties
  <2>3. Opened(fd') = 3 + 2 * lines'
    BY <1>1, <1>2, <1>3
  <2>4. QED
    BY <1>1, <1>3, <2>1, <2>2, <2>3 DEF Plumbed
<1>8. PipesSuffice'
  <2>1. \A q \in Pipes : Open(q)' => Open(q)
    <3> SUFFICES ASSUME NEW q \in Pipes, NEW t \in Tables', NEW n \in Fds, t[n] \in {R(q), W(q)}
                 PROVE  Open(q)
      BY DEF Open
    <3>1. t = fd' \/ t \in Tables
      BY <1>1 DEF Tables
    <3>2. CASE t = fd'
      BY <1>3, <3>2, Kinds DEF Open, Tables
    <3>3. CASE t \in Tables
      BY <3>3 DEF Open
    <3>4. QED
      BY <3>1, <3>2, <3>3
  <2>2. Cardinality(InUse') <= Cardinality(InUse) /\ Cardinality(InUse') \in Nat /\ Cardinality(InUse) \in Nat
    <3>1. InUse' \in SUBSET InUse
      BY <2>1 DEF InUse
    <3>2. QED
      BY <3>1, InUseFinite, FS_Subset, FS_CardinalityType
  <2> DEFINE a == lines * MaxArgs
             k == Cardinality(InUse')
  <2>3. k <= a
    <3>1. Cardinality(InUse) <= a /\ a \in Int
      BY <1>1, <1>2, ShellAssumption DEF IInv, PipesSuffice
    <3> HIDE DEF a
    <3>2. QED
      BY <2>2, <3>1
  <2>4. (lines' - 1) * MaxArgs = a /\ a \in Int /\ k \in Nat
    <3>1. lines' - 1 = lines
      BY <1>1, <1>2
    <3>2. QED
      BY <1>2, <2>2, <3>1, ShellAssumption
  <2> HIDE DEF a, k
  <2>5. k < a + 1
    BY <2>3, <2>4
  <2>6. QED
    BY <1>1, <2>4, <2>5 DEF PipesSuffice, k
<1>9. QED
  BY <1>5, <1>6, <1>7, <1>8 DEF IInv

\* A stage is set up.
LEMMA StartStageStep ==
  ASSUME IInv, StartStage
  PROVE  IInv'
<1>0. Types /\ ChildInherits /\ Plumbed /\ PipesSuffice
  BY DEF IInv
<1>1. /\ pc = "stage" /\ pc' \in {"call", "crashed"} /\ bar' = StageEnd
      /\ content' = [content EXCEPT ![Unused] = 0]
      /\ UNCHANGED <<m_argv, cmd_start, saved_in, saved_out, lines, child, doomed>>
  BY DEF StartStage, CopyTokens
<1>2. /\ m_argv \in Seq(STRING) /\ Len(m_argv) \in Nat
      /\ StageEnd \in cmd_start .. Len(m_argv) /\ cmd_start \in 1 .. Len(m_argv)
      /\ lines \in 0..MaxLines /\ lines > 0
  BY <1>0, <1>1, StageEnds DEF Types, Plumbed, InLine
<1>3. /\ fd' \in [Fds -> Files] /\ fd'[0] # Closed /\ fd'[1] # Closed
      /\ Opened(fd)' = 4 + 2 * lines
      /\ SavesTty(saved_in)' /\ NoOwnInput'
      /\ IsLast => fd'[1] = Tty
      /\ ~IsLast => ReadsOwn(fd0)' /\ SavesTty(saved_out)'
      /\ \A q \in Pipes, n \in Fds : fd'[n] \in {R(q), W(q)} =>
           q = Unused \/ \E m \in Fds : fd[m] = fd'[n]
  BY StageFds
<1>4. Types'
  <2>1. content' \in [Pipes -> 0 .. Capacity]
    <3>1. 0 \in 0 .. Capacity /\ content \in [Pipes -> 0 .. Capacity]
      BY <1>0, ShellAssumption DEF Types
    <3>2. QED
      BY <1>1, <3>1
  <2>2. QED
    BY <1>0, <1>1, <1>3, <2>1 DEF Types
<1>5. ChildInherits' /\ AtPrompt'
  BY <1>0, <1>1 DEF ChildInherits, AtPrompt
<1>6. Plumbed'
  <2>1. m_argv \in Lines /\ saved_out # saved_in
    BY <1>0, <1>1 DEF Plumbed, InLine
  <2>2. bar' \in 1..Len(m_argv)
    BY <1>1, <1>2
  <2>3. IsLast <=> bar' = Len(m_argv)
    BY <1>1 DEF IsLast
  <2>4. bar' < Len(m_argv) => ~IsLast
    BY <1>2, <2>3
  <2>5. QED
    BY <1>1, <1>2, <1>3, <2>1, <2>2, <2>3, <2>4 DEF Plumbed
<1>7. PipesSuffice'
  <2>1. \A q \in Pipes : Open(q)' => Open(q) \/ q = Unused
    <3> SUFFICES ASSUME NEW q \in Pipes, NEW t \in Tables', NEW n \in Fds, t[n] \in {R(q), W(q)},
                        q # Unused
                 PROVE  Open(q)
      BY DEF Open
    <3>1. t = fd' \/ t \in Tables
      BY <1>1 DEF Tables
    <3>2. CASE t = fd'
      <4>1. PICK m \in Fds : fd[m] = fd'[n]
        BY <1>3, <3>2
      <4>2. QED
        BY <3>2, <4>1 DEF Open, Tables
    <3>3. CASE t \in Tables
      BY <3>3 DEF Open
    <3>4. QED
      BY <3>1, <3>2, <3>3
  <2>2. Cardinality(InUse') \in Nat /\ Cardinality(InUse') <= Cardinality(InUse) + 1
    BY <2>1, OneMoreInUse
  <2> DEFINE a == (lines - 1) * MaxArgs
             k == Cardinality(InUse)
             l == Cardinality(InUse')
  <2>3. k < a + cmd_start /\ a \in Int /\ k \in Nat /\ l \in Nat /\ l <= k + 1
    BY <1>0, <1>1, <1>2, <2>2, InUseFinite, ShellAssumption DEF PipesSuffice
  <2> HIDE DEF a, k, l
  <2>4. l <= a + bar'
    BY <1>1, <1>2, <2>3
  <2>5. QED
    BY <1>1, <2>4 DEF PipesSuffice, a, l
<1>8. QED
  BY <1>3, <1>4, <1>5, <1>6, <1>7 DEF IInv

\* The next stage will read what the last one wrote.
LEMMA NextStageStep ==
  ASSUME IInv, NextStage
  PROVE  IInv'
<1> USE DEF locals
<1>0. Types /\ ChildInherits /\ Plumbed /\ PipesSuffice /\ NoOwnInput
  BY DEF IInv
<1>1. /\ pc = "next" /\ pc' = "stage" /\ bar < Len(m_argv) /\ cmd_start' = bar + 1 /\ in' = fd0
      /\ UNCHANGED <<fd, m_argv, bar, saved_in, saved_out, lines, child, doomed, content>>
  BY DEF NextStage
<1>2. Types' /\ ChildInherits' /\ NoOwnInput'
  BY <1>0, <1>1 DEF Types, ChildInherits, NoOwnInput
<1>3. /\ m_argv \in Lines /\ lines > 0 /\ SavesTty(saved_in) /\ SavesTty(saved_out)
      /\ saved_out # saved_in /\ ReadsOwn(fd0) /\ Opened(fd) = 4 + 2 * lines
      /\ bar \in 1..Len(m_argv) /\ Len(m_argv) \in Nat
  BY <1>0, <1>1, ShellAssumption, LenProperties DEF Plumbed, InLine
<1>4. Plumbed'
  <2>1. bar + 1 \in 1..Len(m_argv) /\ fd0 # 0
    BY <1>1, <1>3 DEF ReadsOwn
  <2>2. SavesTty(saved_in)' /\ SavesTty(saved_out)' /\ ReadsOwn(in)' /\ Opened(fd') = Opened(fd)
    BY <1>1, <1>3 DEF SavesTty, ReadsOwn
  <2>3. QED
    BY <1>1, <1>3, <2>1, <2>2 DEF Plumbed
<1>5. PipesSuffice'
  <2>1. InUse' = InUse
    BY <1>1 DEF InUse, Open, Tables
  <2> DEFINE a == (lines - 1) * MaxArgs
             k == Cardinality(InUse)
  <2>2. k <= a + bar /\ a \in Int /\ k \in Nat
    BY <1>0, <1>1, InUseFinite, ShellAssumption DEF PipesSuffice, Types
  <2> HIDE DEF a, k
  <2>3. k < a + (bar + 1)
    BY <1>3, <2>2
  <2>4. QED
    BY <1>1, <2>1, <2>3 DEF PipesSuffice, a, k
<1>6. QED
  BY <1>1, <1>2, <1>4, <1>5 DEF IInv, AtPrompt

\* A line ends: the terminal is the standard input again.
LEMMA EndLineStep ==
  ASSUME IInv, EndLine
  PROVE  IInv'
<1> USE DEF locals
<1>0. Types /\ ChildInherits /\ Plumbed /\ PipesSuffice /\ {0, 1} \subseteq Fds
  BY FdsFinite DEF IInv
<1>1. /\ pc = "next" /\ pc' = "prompt" /\ bar = Len(m_argv) /\ fd' = Move(fd, saved_in, 0)
      /\ UNCHANGED <<m_argv, bar, lines, child, doomed, content>>
  BY DEF EndLine
<1>2. /\ m_argv \in Lines /\ lines \in 1..MaxLines /\ MaxLines \in Nat /\ MaxArgs \in Nat
      /\ SavesTty(saved_in) /\ fd[1] = Tty /\ Opened(fd) = 4 + 2 * lines
      /\ bar \in Nat /\ bar < MaxArgs
  BY <1>0, <1>1, ShellAssumption, LenProperties DEF Plumbed, InLine, Types
<1>3. /\ fd' \in [Fds -> Files] /\ Opened(fd') = Opened(fd) - 1
      /\ \A n \in Fds : fd'[n] = IF n = saved_in THEN Closed
                                 ELSE IF n = 0 THEN fd[saved_in] ELSE fd[n]
  BY <1>0, <1>1, <1>2, MoveClosesOne, Kinds DEF SavesTty, Types
<1>4. fd'[0] = Tty /\ fd'[1] = Tty /\ Opened(fd') = 3 + 2 * lines
  BY <1>0, <1>2, <1>3 DEF SavesTty
<1>5. Types' /\ ChildInherits' /\ AtPrompt'
  BY <1>0, <1>1, <1>3, <1>4, Kinds DEF Types, ChildInherits, AtPrompt
<1>6. NoOwnInput' /\ Plumbed'
  BY <1>1, <1>4, Kinds DEF NoOwnInput, Plumbed, InLine
<1>7. PipesSuffice'
  <2>1. \A q \in Pipes : Open(q)' => Open(q)
    <3> SUFFICES ASSUME NEW q \in Pipes, NEW t \in Tables', NEW n \in Fds, t[n] \in {R(q), W(q)}
                 PROVE  Open(q)
      BY DEF Open
    <3>1. t = fd' \/ t \in Tables
      BY <1>1 DEF Tables
    <3>2. CASE t = fd'
      BY <1>2, <1>3, <3>2, Kinds DEF Open, Tables, SavesTty
    <3>3. CASE t \in Tables
      BY <3>3 DEF Open
    <3>4. QED
      BY <3>1, <3>2, <3>3
  <2>2. InUse' \in SUBSET InUse
    BY <2>1 DEF InUse
  <2>3. Cardinality(InUse') <= Cardinality(InUse) /\ Cardinality(InUse') \in Nat /\ Cardinality(InUse) \in Nat
    BY <2>2, InUseFinite, FS_Subset, FS_CardinalityType
  <2> DEFINE a == (lines - 1) * MaxArgs
             b == lines * MaxArgs
             k == Cardinality(InUse)
             l == Cardinality(InUse')
  <2>4. k <= a + bar /\ k \in Nat /\ l \in Nat /\ l <= k
    BY <1>0, <1>1, <2>3 DEF PipesSuffice
  <2>5. a \in Nat /\ b = a + MaxArgs
    <3>1. lines - 1 \in Nat /\ lines \in Nat /\ (lines - 1) + 1 = lines /\ lines - 1 <= lines
      BY <1>2
    <3>2. QED
      BY <3>1, Products
  <2> HIDE DEF a, b, k, l
  <2>6. l <= b
    BY <1>2, <2>4, <2>5
  <2>7. QED
    BY <1>1, <2>6 DEF PipesSuffice, b, l
<1>8. QED
  BY <1>5, <1>6, <1>7 DEF IInv

LEMMA SpecIInv == Spec => []IInv
<1>1. IInv /\ [Next]_vars => IInv'
  BY ReadLineStep, StartStageStep, NextStageStep, EndLineStep, ShellWithin, ChildWithin
     DEF Next, ShellStep, ChildStep
<1>2. QED
  BY InitIInv, <1>1, PTL DEF Spec

-----------------------------------------------------------------------------
\* At every prompt the shell reads and prints on the terminal, whatever the lines
\* were, and two descriptors are lost for each of them; descriptors 0 and 1 are
\* open at all times, pipes hold no more than they can (advshell.c:216-328).
THEOREM TypeCorrect == Spec => []TypeOK
<1>1. IInv => TypeOK
  <2> SUFFICES ASSUME IInv PROVE TypeOK
    OBVIOUS
  <2>1. PromptRestored
    BY DEF IInv, AtPrompt, ChildInherits, Types, PromptRestored, Opened, OpenFds
  <2>2. QED
    BY <2>1 DEF IInv, Types, TypeOK
<1>2. QED
  BY <1>1, SpecIInv, PTL

\* The program that reads a pipe will see its end: neither the shell nor the
\* program itself has the end that writes to it (advshell.c:242-256).
THEOREM EndIsSeen == Spec => []ReaderSeesEnd
<1>1. IInv => ReaderSeesEnd
  <2> SUFFICES ASSUME IInv, child.at # "none", Input[1] = "read", NEW n \in Fds
               PROVE  W(Input[2]) \notin {fd[n], child.fd[n]}
    BY DEF ReaderSeesEnd
  <2>0. Types /\ ChildInherits /\ NoOwnInput /\ {0, 1} \subseteq Fds
    BY FdsFinite DEF IInv
  <2>1. Input \in Files /\ Input \in {fd[0], File}
    BY <2>0 DEF Input, Types, ChildInherits
  <2>2. PICK p \in Pipes : Input = R(p)
    BY <2>1, Kinds
  <2>3. fd[0] = R(p) /\ Input[2] = p
    BY <2>1, <2>2, Kinds
  <2>4. fd[n] # W(p)
    BY <2>0, <2>3 DEF NoOwnInput
  <2>5. child.fd[n] \in {fd[n], File, R(p)}
    BY <2>0, <2>2 DEF ChildInherits, Input
  <2>6. QED
    BY <2>3, <2>4, <2>5, Kinds
<1>2. QED
  BY <1>1, SpecIInv, PTL
=============================================================================
