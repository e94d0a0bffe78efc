# Verification of the operating-systems assignments

The repository holds ten small systems programs in C and C++: processes that
meet on System V semaphores, message queues, shared memory, pipes, signals and
pthread locks. Each assignment is a system of its own; nothing is shared between
them. This directory holds TLA+ models of these programs, TLC configurations
that model-check them on small instances, and proofs, checked by TLAPS, of the
results that hold for every value of the constants.

How to run: `tlc -config X.cfg M.tla` for the runs listed below, and
`tlapm M_proofs.tla` for the proofs.

## 1. Inventory

| part | code | processes | what they share |
|---|---|---|---|
| sleeping barber | `assignment 7/.../part2/my_prog.c` | barber (parent), customers (children) | four semaphores |
| distributed median | `assignment 3/.../parent.c`, `child.c`, `random.c` | parent, five children | two pipes per child, SIGUSR1, the data files |
| crawler | `assignment 9/new.cpp` | main and five threads | queues and maps, four mutexes, a condition variable, a global `i` |
| conference | `assignment 8/.../server.c`, `client.c` | server, per client a sender and a receiver | message queue, two shared segments (pids, message), two semaphores |
| message-queue chat | `assignment 6/.../server.c`, `client.c` | server, clients | an "up" and a "down" message queue |
| forest | `assignment 7/.../part1/lion.c`, `jackal.c`, `ranger.c` | lions, jackals, one ranger | semaphores: one set per pit, animal and counter |
| game | `assignment 4/sig.c` | parent, two children | pipes, SIGUSR1/SIGUSR2 |
| page replacement | `assignment 10/.../file_handling.cpp` | one | none |
| advanced shell | `assignment 5/.../advshell.c` | shell, its commands | pipes, descriptors |
| shell built-ins | `assignment 2/myshell.c`, `advshell.c` | one | the file system |
| Fibonacci trees | `assignment 1/.../fibchild.c`, `fibchildpar.c`, `fibchildpar_ch.c` | a tree of processes | exit statuses, files |
| teaching samples, terminal launcher | `assignment 1/sample_code`, `assignment 2/signal_pipe`, `assignment 8/.../commence.c` | - | - |

State, operations, hard behaviours and correctness, part by part:

**Sleeping barber.** State: semaphores `mutex` (the barber's own chair),
`customer` (free chairs), `barber` (wake-ups), `count` (customers inside).
Customer: look for a chair, take it, lock, wake the barber, have the hair cut,
leave. Barber: while somebody is inside, sleep, call, serve, release. Hard: the
look and the taking are two steps; the lock is released by another process than
the one that took it; the barber decides to sleep on a count that is about to
change. Correct: chairs and the barber's chair conserved, one customer served at
a time, nobody stranded, the shop closes.

**Distributed median.** State: the children's remaining numbers and their own
copy of the pivot, the pipes, the parent's `k`, `num`, `pivot`. Operations: the
REQUEST / PIVOT / SMALL / LARGE / CHECK / READY messages and SIGUSR1. Hard:
children filter at different times, with a pivot remembered from an earlier
message; random choices may make no progress; both sides write to pipes before
reading. Correct: the answer is the median, the median is never dropped, the
children's final check agrees, nobody blocks, the search ends.

**Crawler.** State: `to_do`, `to_do_next`, `done_list`, `crawl_list`,
`label_list`, `url_level`, the barrier's counter. Threads take a URL of the
current level, fetch it, queue the links not yet done, wait for each other at the
end of a level; the last one swaps the lists. Hard: the barrier waits on a
condition variable without a loop, one mutex is unlocked by threads that do not
hold it, and `i` is a loop variable of `main` and of every thread at once.
Correct: each URL crawled once, at its distance from the start page; nobody
crawls while the lists are swapped; the results are final when printed; the
mutexes outlive the threads.

**Conference.** State: the list of connected pids (shared memory, under semaphore `sem1`),
one message (shared memory, with `sem2`, which is polled for values: 0 free, 1 being
written, 2 to be read), the message queue. Client: the receiver registers its pid and prints
what is queued for it; the sender, on Ctrl-C, reads a line, waits for 0, sets 1, writes the
message, `.` or, for the last one's `bye`, `*`, and sets 2. Server: on 2 copy the message and
set 0; then ignore `.`, remove everything on `*`, and send anything else to all listed but its
sender. Hard: waiting for a value and setting the next one are two steps; the last client
leaving ends the conference; a receiver is killed while it may hold `sem1`; everything is
removed while others use it. Correct: the list agrees with the receivers that listen; messages
arrive in order and once; what the server takes reaches everybody; the server ends.

**Message-queue chat.** State: server's maps from pid to name, the two queues.
Operations: NEW, LIST, MSG. Hard: the server takes the sender from the queue's
`msg_lspid`, the last sender of any message, not from the message it received.
Correct: each name belongs to the pid that announced it; an answer goes to who
asked.

**Forest.** State: three pits with their meat and their counts of lions and jackals eating,
the counters of animals and of sleepers, the ranger's calls, start-up handshakes; all in
semaphores, most of them read with GETVAL and written with SETVAL. One ranger goes from pit
to pit. Hard: values are tested without the lock and updated under it; a counter is decremented
under one mutex and incremented under another; an animal announces that it sleeps after
deciding to; the ranger ends on a counter it reads without the lock. Correct: a pit is never
overdrawn, no wake-up is lost, the ranger removes the semaphores when nobody needs them.

**Game.** State: the round, the points, the choices read, each child's handlers, pending
signals and pipe. Parent: ask both children with SIGUSR1, read both choices, score,
until somebody has ten points; then end both with SIGUSR2. Child: choose in the handler,
write, sleep. Hard: a signal of a kind that is already pending is lost; a child may still
be in its handler when it is asked again; before the handler is installed the signal
kills it. Correct: one answer per request, both of the same round; points add up to
rounds; the game ends with the right winner.

**Page replacement.** State: the reference string of a matrix product, a policy's deque,
the count of faults, the file of results. Operations: a reference under first-come,
least recently used, second chance or least frequently used; the loop over numbers
of frames. Hard: what a hit does to the order and the marks, which end the victim is
taken from, ranges at their ends (no frames, more frames than pages, counts at the
sentinel). Correct: demand paging whichever victim is picked; LRU holds the pages
used last.

**Advanced shell.** State: its descriptors, the copies of 0 and 1 it saved, the current
pipe, the argument array, the child it waits for. Operations: the stages of a line one
after the other, each with a pipe, redirections, a built-in or a child; Ctrl-C. Hard:
descriptors are inherited by whoever is forked meanwhile; a stage runs to its end
before its reader starts; the argument array is written by every stage. Correct: 0 and
1 restored at the prompt, a reader sees the end of its pipe, every line ends.

**Shell built-ins.** `cd`, `ls`, `mkdir`, `rmdir`, `cp`: calls to the file system.
**Fibonacci trees.** A process per number; results travel in eight-bit exit statuses.

## 2. Modules

| module | models | status |
|---|---|---|
| `Barber` | my_prog.c; theorems in `BarberGame_proofs` | built |
| `Selection` | the search for the median, abstractly | built |
| `Median`, `Median_proofs` | parent.c, child.c, random.c; implements `Selection`; theorems on both | built |
| `Crawler`, `MCCrawler`, `Crawler_proofs` | new.cpp; webs to crawl; theorems | built |
| `Conference`, `Conference_proofs` | server.c, client.c of assignment 8; theorems | built |
| `MsgChat`, `MCMsgChat`, `MsgChat_proofs` | server.c, client.c of assignment 6; symmetry; theorems | built |
| `Forest`, `MCForest`, `Forest_proofs` | lion.c, jackal.c, ranger.c; the animals of the run; theorems | built |
| `PageReplacement`, `MCPageReplacement`, `PageReplacement_proofs` | file_handling.cpp; the inputs; theorems | built |
| `DemandPaging` | what any replacement policy promises; implemented by `PageReplacement` | built |
| `Shell`, `MCShell`, `Shell_proofs` | advshell.c: parseAndExec, other_func; the lines typed; theorems | built |
| `Game` | sig.c; theorems in `BarberGame_proofs` | built |
| `BarberGame_proofs` | theorems on `Barber` and on `Game`, two small programs that share nothing | built |

Conventions. A process is a `pc` value per process (`pc`, `cpc`, `spc`, ...) and one
action per stretch of code between two points where another process can see or
change something. A semop that would block is a guard; GETVAL and the SETVAL that
uses it are two actions unless one lock protects all uses of the value. `sleep` is a
delay of any length, `rand` an existential choice, printing is left out. A definition
whose name ends in `_Something` next to the one it varies (`TakeChair_NoBlock`) is
not part of a specification: it is a plausible mistake in that action, kept to
confirm that the property named beside it in `PROJECT.json` notices the mistake.

### Barber
`mutex`, `customer`, `barber`, `count` are the four semaphores, by their values. A
customer looks (`SeeChair`, `TurnAway`: GETVAL), sits (`TakeChair`), locks
(`LockMutex`), wakes the barber (`WakeBarber`) and leaves (`Exit`: the `count`
down). The barber tests `count` (`CheckCount`), sleeps (`WakeUp`: down of
`barber`), calls (`FreeChair`), gives the lock back (`ReleaseMutex`) and closes
(`Close`). That the look and the taking are two steps, and that the barber's test
may come before the last customer's `Exit`, are the two races of this program. The second
decides how the day ends, and `ShopEmpties` says it exactly: every customer leaves,
and then the barber has closed, or sleeps in the empty shop with no wake-up pending.

### Selection and Median
`Selection` has the sets of all numbers and of candidates; a round draws any pivot
and drops one side or answers. `Median` has the processes: `down[c]` and `up[c]`
are the pipes as sequences; `ParentStep`'s actions follow parent.c from sending the
ids to `wait()`, `ChildStep`'s those of child.c, with the child's own `cpivot`. The
refinement maps the parent's and the children's states to the set of candidates
they will have when every SMALL and LARGE already decided on has arrived (`Left`);
the lowering of `k` is mapped to the decision, which the parent makes before it
tells the children. `ImplementsSelection` is `Selection`'s specification as a
property of `Median`, and `MedianNotDropped` its `MedianKept` seen through the same mapping:
strict and non-strict comparisons in the two programs agree.

One thing is assumed of the compiler. child.c:74 declares `pivot` inside the loop, and a later
round uses it at SMALL and LARGE without setting it: in C its value is indeterminate. Its
address is passed to `sscanf`, so it lives in memory, and no variable of another block is alive
between two rounds, so nothing else is put there; `cpivot` persists from message to message.

### Crawler
`to_do`, `to_do_next`, `done_list`, `crawl_list`, `label_list` are the program's
containers, `i` its global counter, the mutexes booleans (one of them is unlocked by
threads that do not hold it: `While`). `Poll` to `LinksStored` are a thread's work on
a page, `ArriveAndWait`, `ArriveLast`, `MovePage`, `RaiseLevel`, `Resume` the
barrier, `Create` to `Destroy` main. The web is given: fetching and parsing HTML
and the network are outside. `WakeSpuriously` lets `pthread_cond_wait` return
without a broadcast, as POSIX allows; `MaxSpurious` bounds it.

`i` is main's counter and the threads'. `Create`, `Spawn` and `Increment` are main's loop of
creation, reading `i` where the code reads it, and `Fetch` and `NextLink` a thread's loop over
links, which nothing keeps from running meanwhile. A page that comes that early makes main
skip threads, or create more than the barrier counts (a handle in `threads` is
overwritten, and lost), join a slot with no handle or write past its arrays (`undefined`), or
move `i` between a thread's test and its `s.at(i)`, which throws (`LinkOutOfRange`). `early`
records that it happened. The barrier needs exactly the threads it counts and a wait
that returns at a broadcast only (new.cpp:106 has no loop), so the barrier's properties are
stated for `Undisturbed` runs: no spurious wake-up, no page before main's first `pthread_join`.
`CrawledOnce` is stated for all. In practice the first page takes a network transfer
and the loop of creation microseconds, but nothing in the program says so.

### Conference
`members` and `ptrmsg` are shared memory, `sem1` and `sem2` the semaphores, `inbox`
the message queue by type, `alive` becomes FALSE when the server has removed them.
Server, senders and receivers are three groups of actions; `Die` is SIGUSR1. `ReadMembers`
takes the whole list, `Broadcast` goes through it and passes over the sender, `Unlist` is
the loop of client.c that writes the list again without the own pid. Users type whenever
they like: `TypeIn` needs only a sender that is idle. Two history variables record what
then goes wrong: `together`, two senders have gone past line 126 for one turn of `sem2`; `hasty`,
a user's bye reached the receiver before it was registered. The properties say exactly what each of
the two costs, and hold without condition otherwise. `ClaimExcludes` is what the comment
at client.c:127 says, that nobody else gets in after line 126; it is violated.

### MsgChat
`up` is the queue to the server, `down[c]` what waits for pid `c` in the other one,
`lspid` the kernel's note of the last sender. `Receive` is the server's msgrcv,
`AddName` the msgctl and the new entry, `SendList` one msgsnd of the list, `Relay` a
chat message. A client joins, takes its first answer for a list (`Welcome`), then
sends (`Talk`) and receives (`Hear`) in turns. Its properties hold although the server
may take one client for another; that it does is the finding of `msgchat_names`.

### Forest
`food[p]` and `eating[s][p]` are slots 0 and 1 (lions) or 2 (jackals) of pit `p`,
`calls` and `where` the ranger's semaphore and the pit it is called to, `number`
and `sema_wait` the animals that wait. Lions and jackals are the same program with
the roles exchanged: `OtherOf`. `Look` to `UnlockOver` follow lion.c from line 141,
`Round` to `Remove` ranger.c from line 121. `Seat`, `Sit` and `Eat`, `Rise` are
each a GETVAL and a SETVAL under different locks, so that updates are lost in the
model as in the code. The last lines of an animal (`Leave` to `UnlockOver`, lion.c:225-236) are
a step each although they hold `mutex`, for the ranger reads `count` without it: it may
leave its loop right after `Leave` and remove `count`, `ranger` and `mutex` (`Remove`) while the
last animal still uses them. A GETVAL then gives -1 and the other operations fail, unnoticed. `Init` is the state after the three programs have waited for
each other.

### PageReplacement
`ReferenceString` is the program's own string for two n x n matrices with d elements
on a page. `deque`, `faults` and `out` are the policy's deque, its counter and the
file. An iteration of a policy's loop is an action; the actions of one policy (`Sc...`, `Lfu...`)
are its cases: hit, free frame, victim, no victim. Second chance's inner loop is one
`ScPassOver` per page it spares. `Choose`, `WriteLine` and `Exit` are the menu and
the loop over numbers of frames. Where the code takes the end of an empty deque or
erases an iterator that points nowhere the model goes to `undefined`. `DemandPaging`
forgets the order: a page not held is a fault and is brought in, one other goes only
if no frame is free. `Paging` maps the deque to the set of its pages, and hits and spared
pages to stutters.

### Shell
`fd` is the shell's descriptor table, as the kernel fills it: lowest free number first.
`ReadLine` saves 0 and 1; `StartStage` makes the pipe, moves its ends (`Redirect`) and
copies the stage's tokens into `n_argv`; `Pwd`, `ExitShell`, `EmptyStage`, `Fork` are
what the stage may be; `Waited`, `NextStage`, `EndLine` go on. `child` is the process
waited for with its own table: `Exec` redirects, `Get`, `Write` and `Finish` are the
program it runs (external). `doomed` has the tables of children of `&` stages, which die
at advshell.c:361 before they execute anything. `n_argv` keeps its NULLs from stage to stage,
as in the code, and a token copied over one crashes the shell. `Interrupt` is Ctrl-C while
a program runs. A pipe is a number of units, of which it holds `Capacity`. `LineEnds`
names exactly the lines that do not end: `OverwritesNull` is stated on the line typed,
not on the array.

### Game
`usr1[c]` is the pending SIGUSR1 of child `c` with the number of the round that sent it
(0: none), so that an answer can be traced to its request through handler (`request`)
and pipe. `Ask`, `Read`, `Score`, `Result`, `End` follow main; `Install`, `TakeReady`,
`Choose`, `Return`, `Leave` the children. `Read` returns at the end of the pipe only
when both children are gone, since each holds both write ends.

## 3. Runs

| run | instance | what it shows |
|---|---|---|
| `barber` | 3 customers, 2 chairs | chairs and lock are conserved; a sleeping barber can be woken by those who sit; every customer leaves, and the barber then has closed or sleeps on |
| `median` | 2 children, 3 numbers each, all ways to spread 1..6 | the processes implement the search, no round drops the median, no pipe fills, the final check agrees, the search ends |
| `crawler` | 3 threads, a fourth in disturbed runs, 3 webs, depth 2, one spurious wake-up | one crawl per page always; levels, barrier, complete results and an end in undisturbed runs |
| `crawler_destroy` | the same without spurious wake-ups and without a fourth thread | *violated*: main may destroy mutexes in use |
| `conference` | 2 clients, each types one message or `.` at most, then `bye` | `sem1` guards the list; messages in order, and once unless two senders shared a turn; until a hasty bye the list is exact; what the server takes reaches everybody; the server ends but for these two accidents |
| `conference_claim` | the same | *violated*: two senders are between lines 126 and 156 at once |
| `msgchat` | 3 clients, 2 names, any number of messages | first answer is a list, lists only grow, queues bounded, the chat as a whole never stops |
| `msgchat_names` | 2 clients, 2 names | *violated*: a name is recorded with another client's pid |
| `forest` | two lions, or a lion and a jackal (two meals), 2 pits of one piece | no wake-up lost between announcement and sleep; the ranger ends once all animals are over, and removes semaphores only when at most the last animal is left, in its last lines |
| `pages` | 6 matrices and page sizes, 0 to 6 frames, any sequence of menu choices | every policy is demand paging; LRU holds the pages used last, in their order |
| `shell` | two of 12 lines, pipes of 2 units, Ctrl-C at any time | descriptors restored, readers see the end of their pipes, lines end but for the stated exceptions |
| `game` | 3 points | one answer per request and round; the game ends with the right winner unless a child was killed at its start |

Bounds, and why they are enough. The barber needs more customers than chairs and two
chairs, so that chairs are contended and a second customer can wait behind the one
at the lock. In `median` the values matter by their order only, so that 1..6 spread in
every way stand for any six numbers, and with two children either may hold the pivot while the other
filters late, or runs empty; other numbers of children and numbers are left to the theorems
(three children with two numbers each pass too). Three threads are the
fewest for which one can be late at the barrier while another is early; the webs have
a page at two distances, repeated links, links back to the start and a page without
links, and depth 2 makes the lists be swapped twice. `MaxThreads` is one more than the threads
the barrier counts, enough for one in excess; `DisturbedOnce` in `MCCrawler` stops following a run
that is disturbed in both ways, and one with a thread in excess after its first level. The
theorems need neither bound. Two clients of the conference
are the fewest with a sender, a listener and a last one to leave, and with two senders
in one turn; a message and a `bye` of one client are two whose order can be wrong. Three chat clients
allow the server to take a second client's pid for the first while a third one talks;
the states are finitely many although messages are not counted. In the forest the
meals outnumber the pieces in the pits, so that pits run empty and animals wait;
`MaxCalls` bounds the pending calls of the ranger (an animal waits at the bound, the
last one's call is always possible). In `pages` the strings have 1 to 15 pages, so that there are fewer, as many and more
pages than frames, and ranges that are empty or start at 0; `LeastInit` is 4 instead of the
code's 1000, which counts of these short strings reach (4 uses after the first
decide whether a victim is found, as 1000 do). `shell` has two lines, for the second
to meet what the first one left open, and lines with every kind of stage in every
position that matters: filter, source, built-in, `exit`, `&`, redirection, empty, longer and shorter
than the one before; `MaxArgs`, 100 in the code, is one more than the longest line has tokens; a program writes nothing, what the pipe holds, or one more. Ctrl-C
comes while a program runs, not between fork and exec. `game` needs a goal of at least
two points for a lead to change; 3 has draws at the goal too. Symmetry is used only in `msgchat`, which
checks no liveness property.

Deadlock is not checked in the runs whose programs end or may block for ever; in
`msgchat` no program ends, and it is checked.

## 4. Fairness

The operating system runs every process that can run (`WF` of each process); a
process blocked in semop, msgrcv, read or a mutex counts as able to run only while
what it waits for is there. `barber` (`ShopEmpties`): weak fairness is enough, for each of finitely
many customers downs each semaphore once, and the kernel queues the waiters. `median`: weak fairness for every process, and strong
fairness of drawing the median from the child that holds it, since parent.c and child.c
choose with `rand()`: without it the search need not end. `crawler` and `conference`:
weak fairness for every thread and process, none for users and spurious wake-ups.
`forest`: weak fairness of the ranger only, since its property is about what the
ranger does when the animals are over. `shell`: weak fairness of the shell, of the child and of children about
to die; nobody has to type a line or to press Ctrl-C. `game`: weak fairness of the three
processes. The safety properties need none.

## 5. Proofs

`tlapm` checks every step of these modules; the theorems hold for every value of the
constants that satisfies the module's assumption.

`BarberGame_proofs` has the theorems about two programs; their definitions have
different names so that it can extend both. The first half is about `Barber` (any finite
set of customers, any number of chairs). The accounting
equations count customers at sets of lines. `Move` says how the cardinality of such a set
changes when one customer goes to another line, and each action's effect on each
equation follows by arithmetic. `ShopIInv` adds `NoChairNoService` to the properties:
without chairs nobody gets past the look at them, needed for the last theorem.
From `ShopIInv`: `TypeOK`, chairs conserved, one haircut at a time, that `count` is the number
of customers inside (`CountAccounting`, in no run), and that a sleeping barber can be woken.

The second half is about `Game` (any goal). That both choices compared are of this round is not inductive:
`OneAnswer` follows the one request of a child from signal to handler to pipe, `ThisRound`
says that whatever is under way carries this round's number, `SentAtTheEnd` that no child
is ended before. With `PointsAreRounds` (every round is worth two half points) this gives
`OneAnswerPerRound`; `Lead` gives `PrizeIsRight`, in no run: who is told to have won has
reached the goal, and the other one has no more points.

`Median_proofs` (any number of children, length of files and finite set of values; for `Selection`,
any finite set of integers) has the theorems about both modules, whose names differ so that it
can extend both. For `Selection`
the invariant is `Ranked`: ranks among candidates and among all numbers differ by what `rank` was
lowered by, and the median is a candidate. `KeepUpper`, `KeepLower` and `RankFound` say that
a round keeps it, from `AboveMonotone` and `AboveSplit`, two facts about counting.
That every set of numbers has a median is `RankTaken`, by taking the least number
of which something holds (`LeastNatural`) instead of induction.
`Selection` has no run of its own: `median` checks `MedianKept` through the mapping, and the rest is
proved. For `Median` the heart is
`Conversation`: at every line of the parent, what is in the two pipes of every child and
what the child knows. It is more than `PipesStayShort` says, which follows from it: a child's number
counts only if it was asked about this pivot, after it dropped what the last round left it
to drop. `ChildRest` and `ParentRest` take from the steps' proofs what most steps leave alone;
`Left`, what a child will be left with, is changed by the decision alone (`DecideStep`), and there
`num` is the count of candidates above the pivot (`Tally`, by `HowManyAdds`, since no number is
in two files). So each decision is a round of `Selection` (`Decides`), every other step a stutter,
which gives `ImplementsSelection`; that `k` starts at half of the number of data is `DataCounted`.
`CheckConfirmsMedian` follows from `Ranked` and the second half of `Tally`, `MedianNotDropped` from
`Ranked` of what the children will be left with (`MedianRanked`). That an answer is
found is liveness and stays with TLC.

`Crawler_proofs` (any web, depth, number of threads, of threads in excess and of spurious wake-ups).
`LinksAlone` is the
heart: `to_do_mutex` stays locked from the claim of a page to its last link, whoever else
unlocks what, hence one thread at a time appends to the lists (`CrawledOnce`,
`ListedOnce`) and loops with `i`; none of this needs a premise. The rest is about the undisturbed
runs, which is the premise of the properties themselves. `CreatedInOrder` says that `i` is the number of threads
created while main creates them, so that there are `N` of them when it joins the first. `Counted` ties the barrier's counter to the threads that wait, by
the cardinality of their set, and says who is at the swap once it is full; `SwapAlone` follows.
`LevelsAreDistances` and `CompleteWhenPrinted` need `BreadthFirst`, which says where every page of
the levels reached is: listed with its distance (`Labelled`), and crawled, in `to_do` or in a thread's
hands (`DueInHand`), or queued for the next level (`NextQueued`). At the swap `to_do` is empty
(`NothingLeft`) and no thread holds a page (`Counted`), so the level is crawled and its links, the next
level, are listed (`LevelsListed`); while a level is crawled a link that is not listed is therefore
in no earlier one. `MainWaits` keeps main's uses of `i` apart from the threads'. `reach` is a
recursive function; that it satisfies its equation is proved by least counterexample (`LevelsExist`).

`MsgChat_proofs` (any finite set of at most 100 clients, any names). `ListsInOrder`: what a
client was told, the lists that wait for it and the server's map are a chain of prefixes.
`Greeted`: whoever is in the map has a list waiting before anything else can come.
`Deliverable` and `Alive` find, in every state, somebody who can go on. From these
`FirstIsList`, the action property `NumbersKeepTheirNames` and `SomeoneTalks`, although the
server takes the sender from `msg_lspid`, which may be another client. `QueuesStayShort` has
an invariant of its own, for it is a matter of counting: `MessagesAccounted` says exactly how many
messages are under way, from the rounds of lists begun, what the server owes (`Owed`) and the clients that
talk, and `EveryoneAnnounced` that there are no more rounds than clients. Who gets a message does
not matter to either, so that both hold although pids are mistaken.

`Conference_proofs` (any finite set of clients, any number of messages, users who type whenever
they like). `OneInside` is made inductive by what a process with `sem1`
in hand may be, one killed in the middle of registering included. `ListExact`: as long as no bye was hasty,
nothing but his own `bye` ends a receiver while the server runs (`ByeEnds`). `EachOnceInOrder`: the numbers of
a sender's messages never fall along what was sent, the server's copy and the message in
shared memory (`Numbered`, `Chained`), whoever overwrites whose; and while no two senders have shared
a turn one is at `ptrmsg` at a time (`OneSender`), and what it writes or the server copies is newer than
all that was sent (`FreshIsNew`, `CopyIsNew`). The conditions are those of the two properties,
and the run reaches both sides of them.

`Forest_proofs` (any herd, any number of pits, capacity and ration). An eater counter
may be too high, for updates of it are lost; `EatersBounded` says by how much at most: no
counter exceeds the number of meals begun, counted by the cardinality of a set of pairs
(`Taken`). `Room` is what the ranger's test leaves true until the meat is there, `Counted`
that `count` is exactly the animals that have not reached line 227, until the ranger removes it. `Alone`
says that `mutex` has one holder, so that one animal at most is in the last lines, and `CallerLast` that
one which calls the ranger to its end was the last. Hence `RangerEndsLast`, the safety half of `RangerEnds`.
It does not say that the last animal is gone: the ranger may well be ahead of it.

`PageReplacement_proofs` (any sizes, page sizes and ranges). `Pushed`, `Appended`,
`Dropped`, `Moved` and `Marked` say what each operation does to the pages of a deque that holds
none twice; `PolicyStep` puts them together: a step of any policy is a page fault as `DemandPaging`
has it (`Missed`) or leaves pages and faults alone (`Same`). `TypeOK` and the refinement
(`ImplementsDemandPaging`) follow. For `LruExact` the invariant is `InOrder`: times of last use fall along
the deque, and a page used but not held was last used before all that are held, and then
no frame is free. The ranks that `LruKeepsRecent` counts are the cardinalities of
sets of pages that `InOrder` determines.

`Shell_proofs` (any lines of any number of stages, any number of them, any capacity, any
programs). The invariant is `Plumbed`: where each descriptor that matters leads, and exactly
how many are open, at every line of `parseAndExec`. In the middle of a line the copies of
the terminal are two descriptors other than 0 and 1 (`SavesTty`), and the pipe the next stage
will read is written by descriptor 1 and by no other (`ReadsOwn`). Counting matters because descriptors are
numbers that the kernel chooses: `LowestIsFree` says that it finds one as long as not all are
open, and `OpenOne`, `OpenTwo`, `MoveClosesOne` what each call does to the count, by the cardinality of
the set of open ones. So a stage ends with as many open as it began with or one more, and a line
with two more than it began with, which is `PromptRestored` in `TypeOK`. Which number the kernel
chooses is not used beyond its being free. `PipesSuffice` does the same for pipes, so that
`Unused` is one nobody has open (`UnusedIsNot`): a fresh pipe cannot be mistaken for one that a
background child still holds. `NoOwnInput`, the shell never has the writing end of what it reads, is kept
because `StageFds` puts the last pipe's end on 0 at the same time as it replaces its writer on 1;
with `ChildInherits` (a child's table is the shell's but for its own redirections) it gives
`ReaderSeesEnd`. That the least of a set of numbers exists is `MinOfNaturals`, by least counterexample.

## 6. Only model-checked, and not modelled

Only model-checked: all liveness (the second half of `RangerEnds` included), as the prover
does not reason about fairness: `ShopEmpties`, `Terminates`, `Finishes`, `EveryMemberHears`,
`ServerEnds`, `RangerEnds`, `GameEnds`, `LineEnds`. Every invariant and every action property of the
passing runs, and both refinements, are theorems.

True of the code, without a run of its own:

- *Barber*: a customer who saw a free chair may wait standing (my_prog.c:42); the
  barber may sleep on instead of closing (line 92).
- *Crawler*: a spurious wake-up breaks the levels (new.cpp:106). A page that comes before main's
  first join changes main's counter: threads are skipped or created twice, the barrier, which
  counts five, is then never met, or opens with a thread elsewhere; main prints early, joins a
  handle that was never written, writes past its arrays, or a thread dies of an exception
  (lines 71-73, 152-170).
- *Conference*: two clients that are past line 126 together (`conference_claim`) overwrite each
  other's message, or have one sent twice. If one of them is the last to leave, its `*` may be
  overwritten, or its SETVAL 2 falls between server.c:258 and 260 and is reset to 0; then the server
  never ends. Nor does it after a bye before the own receiver has registered: the list is then
  empty or the dead receiver stays in it, `bye` is written instead of `*`; a receiver
  killed while it registers leaves `sem1` at 0 and the server stands at line 275. `ServerEnds`
  leaves out just these. A sender that waits when the server ends spins in `wait_for` for ever;
  a client that has not registered is not counted when the conference ends; a full queue blocks
  the server (server.c:301); a second server clears the state of the first before it notices
  (server.c:172); a copy of `ptrmsg` while another client writes may be half of each message.
- *Chat*: the 101st name is written past the end of `map[100]` (server.c:145).
- *Forest*: lions and jackals can eat at one pit at once, the counters of eaters drift,
  and all animals can sleep for ever with the ranger asleep (lion.c:155, 167, 200);
  an animal whose `c` passed 2 polls (lion.c:171); the last animal may use semaphores that the
  ranger has removed (lion.c:228-235, ranger.c:184-190), which harms nothing, since its results
  are not used any more.
- *Median*: a child's pivot is read after the block that declares it has ended (child.c:74, see
  section 2).
- *Page replacement*: with no frames second chance and LFU work on an empty deque; LFU
  finds no victim when every page held was used 1000 times, as with n = 50, d = 1250
  and 4 frames (file_handling.cpp:230); the page numbers of the first matrix, from
  101, run into those of the second, from 501, when it has more than 400 pages (line 33).
- *Shell*: no `&` command ever runs (advshell.c:347, 361); output beyond a pipe's capacity
  hangs the line, and Ctrl-C then hangs the shell; a stage longer than an external one
  before it crashes the shell; a line of 100 tokens or more runs past `m_argv` (line 192), which the
  assumption on `Lines` leaves out; the prompt that Ctrl-C prints goes into the pipe; two descriptors
  are lost per line, so that pipelines stop working after some five hundred; `>` does not
  truncate (line 368).
- *Built-ins*: `cp` refuses when the target is older than the source and says the
  opposite, and compares times of day without the date (lines 426, 473).
- *Fibonacci*: from the thirteenth on the numbers are sums of exit statuses cut to eight bits
  (fibchild.c:34); fibchildpar.c:49 takes the children's pids to be consecutive, as they
  are only while nothing else forks.

Not modelled: the start-up handshake of the forest and the removal of the semaphores that
nobody uses by then; a second server of the conference; pipe ends inherited by sibling processes of the median;
capacities of kernel queues; network and HTML; users who kill a program; gnuplot. The shell's
built-ins: each makes one or two calls to the file system and prints, and the shell keeps
only its directory between them; `myshell.c` is the earlier shell without pipes, with
the same way to fork. The Fibonacci programs: fork, compute, exit, wait, with nothing
shared but the terminal. The teaching samples and the terminal
launcher keep no state.

## 7. Plan

The modules planned are built, and no safety property of a passing run is left to prove. What could
be added: the start-up of the forest, whose handshake is left out; capacities of the kernel's message
queues, of which `QueuesStayShort` and `PipesStayShort` say how many messages they must hold; and
for liveness, the lattice of leads-to steps behind `ShopEmpties` and `ServerEnds`, whose
non-temporal parts the invariants of section 5 would supply.
