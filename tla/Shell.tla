------------------------------- MODULE Shell -------------------------------
(***************************************************************************)
(* Pipelines of the shell of "assignment 5/.../advshell.c".  A line is cut *)
(* into stages at the bars; parseAndExec runs the stages one after the     *)
(* other: it makes a pipe, moves the ends onto its own descriptors 0 and   *)
(* 1, copies the stage's tokens into n_argv, and calls a built-in or forks *)
(* a child and waits for it.  All it does between two calls that other     *)
(* processes can see is one action.                                        *)
(*                                                                         *)
(* Descriptors are numbers as the kernel gives them, the lowest free first *)
(* (external).  A pipe holds a number of units; a unit is a write.  The    *)
(* programs children execute are external: filters copy their input, the   *)
(* others write a number of units and end.  Two built-ins stand for the    *)
(* seven: pwd for those that print and return, and exit.                   *)
(***************************************************************************)
EXTENDS Integers, FiniteSetsExt, SequencesExt

CONSTANTS Lines,      \* the lines a user may type, as sequences of tokens
          MaxLines,   \* how many of them are typed
          MaxArgs,    \* slots of m_argv and of n_argv; 100 in the code
          Capacity,   \* the units a pipe holds
          Filters,    \* programs that read their input to its end
          Output      \* units written by each program that writes by itself

ASSUME ShellAssumption ==
  /\ MaxLines \in Nat /\ Capacity \in Nat \ {0}
  /\ \A p \in DOMAIN Output : Output[p] \in Nat
  /\ MaxArgs \in Nat
  /\ \A l \in Lines : l \in Seq(STRING) /\ 0 < Len(l) /\ Len(l) < MaxArgs

NULL     == "(null)"
Garbage  == "(fresh)"      \* what malloc left
BuiltIns == {"pwd", "exit"}

\* Enough for the descriptors and the pipes that the lines may leave open.
Fds   == 0 .. 2 * MaxLines + 8
Pipes == 1 .. MaxLines * MaxArgs

Tty    == <<"tty", 0>>
File   == <<"file", 0>>
Closed == <<"closed", 0>>
R(p)   == <<"read", p>>
W(p)   == <<"write", p>>
Files  == {Tty, File, Closed} \union {R(p) : p \in Pipes} \union {W(p) : p \in Pipes}

VARIABLES pc,
          m_argv, n_argv, n_argc, \* the line, the stage's tokens, their number
          cmd_start, bar,         \* where the stage starts; i, where it ends
          fd,                     \* the shell's descriptors
          saved_in, saved_out, in, fd0,  \* fd0 is fd[0]
          child,                  \* the child waited for
          doomed,                 \* descriptors of children of "&" stages
          content,                \* of each pipe
          lines                   \* parsed so far

locals == <<m_argv, n_argv, n_argc, cmd_start, bar, saved_in, saved_out, in, fd0, lines>>
vars   == <<locals, pc, fd, child, doomed, content>>

NoChild == [at |-> "none", fd |-> [n \in Fds |-> Closed], left |-> 0]

Tables == {fd, child.fd} \union doomed
Open(p)   == \E t \in Tables, n \in Fds : t[n] \in {R(p), W(p)}
Writer(p) == \E t \in Tables, n \in Fds : t[n] = W(p)
Unused    == CHOOSE p \in Pipes : ~Open(p)

Lowest(t)    == Min({n \in Fds : t[n] = Closed})
Assign(t, n) == [t EXCEPT ![Lowest(t)] = n]
\* dup2(from, to); close(from)
Move(t, from, to) == [t EXCEPT ![to] = t[from], ![from] = Closed]

-----------------------------------------------------------------------------
(* parseAndExec.                                                           *)

\* Lines 78-80 and 172-219: a line with a token in it.
ReadLine ==
  /\ pc = "prompt" /\ lines < MaxLines
  /\ m_argv' \in Lines
  /\ n_argv' = [k \in 1 .. MaxArgs |-> Garbage] /\ n_argc' = 0
  /\ cmd_start' = 1 /\ in' = 0
  /\ saved_out' = Lowest(fd)
  /\ saved_in' = Lowest(Assign(fd, Tty))
  /\ fd' = [fd EXCEPT ![saved_out'] = fd[1], ![saved_in'] = fd[0]]
  /\ lines' = lines + 1
  /\ pc' = "stage"
  /\ UNCHANGED <<bar, fd0, child, doomed, content>>

\* The stage ends at the next bar, or with the line, whose last token is an
\* argument even if it is a bar.
StageEnd == Min({k \in cmd_start .. Len(m_argv) : m_argv[k] = "|" \/ k = Len(m_argv)})
IsLast   == StageEnd = Len(m_argv)
Tokens   == SubSeq(m_argv, cmd_start, IF IsLast THEN StageEnd ELSE StageEnd - 1)

\* Lines 258-263: n_argv's buffers receive the tokens; a NULL among them, left
\* by an earlier stage, is written through.
CopyTokens ==
  /\ n_argc' = Len(Tokens)
  /\ n_argv' = [k \in DOMAIN n_argv |-> IF k <= Len(Tokens) THEN Tokens[k] ELSE n_argv[k]]
  /\ pc' = IF \E k \in 1 .. Max({1, Len(Tokens)}) : n_argv[k] = NULL
             THEN "crashed" ELSE "call"

Joined(t) == IF in # 0 THEN Move(t, in, 0) ELSE t

Redirect_KeepsWriteEnd(t, w) ==
  IF IsLast THEN Move(Joined(t), saved_out, 1) ELSE [Joined(t) EXCEPT ![1] = t[w]]

Redirect_LeavesOut(t, w) == IF IsLast THEN Joined(t) ELSE Move(Joined(t), w, 1)

\* Lines 242-256: the read end of the last pipe becomes 0; the write end of
\* this one, or what was saved of the terminal, becomes 1.
Redirect(t, w) == Move(Joined(t), IF IsLast THEN saved_out ELSE w, 1)

\* Lines 229-273.
StartStage ==
  /\ pc = "stage"
  /\ LET p == Unused
         r == Lowest(fd)
         w == Lowest(Assign(fd, R(p)))
     IN /\ fd0' = r
        /\ fd' = Redirect([fd EXCEPT ![r] = R(p), ![w] = W(p)], w)
        /\ content' = [content EXCEPT ![p] = 0]
  /\ bar' = StageEnd
  /\ CopyTokens
  /\ UNCHANGED <<m_argv, cmd_start, saved_in, saved_out, in, lines, child, doomed>>

IsFull(f) == f[1] = "write" /\ content[f[2]] = Capacity

\* A unit is written to f; a write to a full pipe has to wait.
Put(f) ==
  /\ ~IsFull(f)
  /\ content' = IF f[1] = "write" THEN [content EXCEPT ![f[2]] = @ + 1] ELSE content

\* Lines 113-116 and 537-541: the shell itself prints, into the pipe if that is
\* its standard output.
Pwd ==
  /\ pc = "call" /\ n_argv[1] = "pwd"
  /\ Put(fd[1])
  /\ pc' = "next"
  /\ UNCHANGED <<locals, fd, child, doomed>>

ExitShell ==
  /\ pc = "call" /\ n_argv[1] = "exit"
  /\ pc' = "exited"
  /\ UNCHANGED <<locals, fd, child, doomed, content>>

\* Lines 333-336: nothing between two bars.
EmptyStage ==
  /\ pc = "call" /\ n_argv[1] \notin BuiltIns /\ n_argc = 0
  /\ pc' = "next"
  /\ UNCHANGED <<locals, fd, child, doomed, content>>

IsBackground == n_argv[n_argc] = "&"

SetNull_OffByOne == [n_argv EXCEPT ![n_argc] = NULL]

\* Lines 346-352, in the shell's own array.
SetNull == [n_argv EXCEPT ![IF IsBackground THEN n_argc ELSE n_argc + 1] = NULL]

\* Lines 354-386.  The child of a "&" stage is not waited for.
Fork ==
  /\ pc = "call" /\ n_argv[1] \notin BuiltIns /\ n_argc > 0
  /\ n_argv' = SetNull
  /\ IF IsBackground
       THEN /\ doomed' = doomed \union {fd}
            /\ pc' = "next" /\ UNCHANGED child
       ELSE /\ child' = [at |-> "new", fd |-> fd, left |-> 0]
            /\ pc' = "wait" /\ UNCHANGED doomed
  /\ UNCHANGED <<m_argv, n_argc, cmd_start, bar, saved_in, saved_out, in, fd0, lines,
                 fd, content>>

\* Line 382: wait returns the child's pid.
Waited ==
  /\ pc = "wait" /\ child.at = "none"
  /\ pc' = "next"
  /\ UNCHANGED <<locals, fd, child, doomed, content>>

\* Lines 318-319.
NextStage ==
  /\ pc = "next" /\ bar < Len(m_argv)
  /\ cmd_start' = bar + 1 /\ in' = fd0
  /\ pc' = "stage"
  /\ UNCHANGED <<m_argv, n_argv, n_argc, bar, saved_in, saved_out, fd0, lines,
                 fd, child, doomed, content>>

\* Lines 325-328.
EndLine ==
  /\ pc = "next" /\ bar = Len(m_argv)
  /\ fd' = Move(fd, saved_in, 0)
  /\ pc' = "prompt"
  /\ UNCHANGED <<locals, child, doomed, content>>

-----------------------------------------------------------------------------
(* The children.                                                           *)

Argument(t) == \E k \in 1 .. n_argc - 1 : n_argv[k] = t

\* Lines 360-375: the redirections, then the program.  A file that cannot be
\* opened leaves the descriptor as it was.
Exec ==
  /\ child.at = "new"
  /\ \E opened \in SUBSET {t \in {"<", ">"} : Argument(t)} :
       child' = [at   |-> "exec",
                 fd   |-> [child.fd EXCEPT ![0] = IF "<" \in opened THEN File ELSE @,
                                           ![1] = IF ">" \in opened THEN File ELSE @],
                 left |-> IF n_argv[1] \in DOMAIN Output THEN Output[n_argv[1]] ELSE 0]
  /\ UNCHANGED <<locals, pc, fd, doomed, content>>

IsFilter == n_argv[1] \in Filters
Input    == child.fd[0]
Running  == child.at = "exec"

\* (external) A filter takes a unit, which it then writes.
Get ==
  /\ Running /\ IsFilter /\ child.left = 0
  /\ Input[1] = "read" /\ content[Input[2]] > 0
  /\ content' = [content EXCEPT ![Input[2]] = @ - 1]
  /\ child' = [child EXCEPT !.left = 1]
  /\ UNCHANGED <<locals, pc, fd, doomed>>

\* (external)
Write ==
  /\ Running /\ child.left > 0
  /\ Put(child.fd[1])
  /\ child' = [child EXCEPT !.left = @ - 1]
  /\ UNCHANGED <<locals, pc, fd, doomed>>

\* (external) read returns 0 from an empty pipe that nobody can write to.  What
\* is read from the terminal or a file ends some time.
AtEnd == Input[1] = "read" => content[Input[2]] = 0 /\ ~Writer(Input[2])

Finish ==
  /\ Running /\ child.left = 0
  /\ IsFilter => AtEnd
  /\ child' = NoChild
  /\ UNCHANGED <<locals, pc, fd, doomed, content>>

\* Lines 347 and 361: a "&" child compares the NULL it has just stored, and
\* dies of it before it executes anything.
BackgroundDies ==
  /\ \E t \in doomed : doomed' = doomed \ {t}
  /\ UNCHANGED <<locals, pc, fd, child, content>>

\* Ctrl-C while a program runs: the program dies; the shell's handler, lines
\* 389-392, prints the prompt, into the pipe if that is its standard output,
\* and waits there if the pipe is full.
Interrupt ==
  /\ Running
  /\ child' = NoChild
  /\ \/ Put(fd[1]) /\ UNCHANGED pc
     \/ IsFull(fd[1]) /\ pc' = "stuck" /\ UNCHANGED content
  /\ UNCHANGED <<locals, fd, doomed>>

-----------------------------------------------------------------------------
Init ==
  /\ pc = "prompt" /\ lines = 0
  /\ m_argv = <<>> /\ n_argv = <<>> /\ n_argc = 0 /\ cmd_start = 1 /\ bar = 0
  /\ fd = [n \in Fds |-> IF n <= 2 THEN Tty ELSE Closed]
  /\ saved_in = 0 /\ saved_out = 0 /\ in = 0 /\ fd0 = 0
  /\ child = NoChild /\ doomed = {}
  /\ content = [p \in Pipes |-> 0]

ShellStep == \/ StartStage \/ Pwd \/ ExitShell \/ EmptyStage \/ Fork
             \/ Waited \/ NextStage \/ EndLine

ChildStep == Exec \/ Get \/ Write \/ Finish

Next == ReadLine \/ ShellStep \/ ChildStep \/ BackgroundDies \/ Interrupt

Spec == Init /\ [][Next]_vars

\* Every process runs.  Nobody has to type a line or press Ctrl-C.
FairSpec == Spec /\ WF_vars(ShellStep) /\ WF_vars(ChildStep) /\ WF_vars(BackgroundDies)

-----------------------------------------------------------------------------
(* Properties.                                                             *)

\* At the prompt the shell reads and prints on the terminal again, whatever the
\* line was, and two descriptors are lost for each line so far: the pipe that
\* is made for the last stage is never closed.
PromptRestored ==
  pc = "prompt" => /\ fd[0] = Tty /\ fd[1] = Tty /\ child = NoChild
                   /\ Cardinality({n \in Fds : fd[n] # Closed}) = 3 + 2 * lines

\* Descriptors 0 and 1 are open at all times, and the pipes' contents fit.
TypeOK ==
  /\ pc \in {"prompt", "stage", "call", "wait", "next", "exited", "crashed", "stuck"}
  /\ fd \in [Fds -> Files] /\ fd[0] # Closed /\ fd[1] # Closed
  /\ content \in [Pipes -> 0 .. Capacity]
  /\ child.at \in {"none", "new", "exec"}
  /\ PromptRestored

\* The program that reads a pipe will see its end: nobody has the other end, not
\* the shell nor the program itself, but children that are about to die.
ReaderSeesEnd ==
  child.at # "none" /\ Input[1] = "read" =>
    \A n \in Fds : W(Input[2]) \notin {fd[n], child.fd[n]}

\* The stages of the line by their first token and their length.
Starts == {1} \union {k + 1 : k \in {j \in 1 .. Len(m_argv) - 1 : m_argv[j] = "|"}}
Length(b) == Min({k \in b .. Len(m_argv) - 1 : m_argv[k] = "|"} \union {Len(m_argv) + 1}) - b

\* A stage needs a slot of n_argv that an earlier external one has set to NULL:
\* the one after its tokens, or that of its "&".
OverwritesNull ==
  \E a, b \in Starts :
    /\ a < b /\ Length(a) > 0 /\ m_argv[a] \notin BuiltIns
    /\ Max({1, Length(b)}) >= Length(a) + (IF m_argv[a + Length(a) - 1] = "&" THEN 0 ELSE 1)

\* The shell, or the program it waits for, fills a pipe that nobody reads yet.
Overfilled == pc \in {"call", "wait", "stuck"} /\ IsFull(fd[1])

\* Each line comes to an end: the prompt comes back or the shell exits, but for
\* lines with a stage longer than an external one before it, and for lines that
\* write more into a pipe than it holds while the next stage is not running.
LineEnds ==
  []<>(\/ pc \in {"prompt", "exited"}
       \/ pc = "crashed" /\ OverwritesNull
       \/ Overfilled)
=============================================================================
