------------------------------- MODULE Crawler -------------------------------
(***************************************************************************)
(* The crawler of "assignment 9/new.cpp": threads take the pages of one    *)
(* level of a breadth-first search, meet at a barrier, and the last one to *)
(* arrive moves the pages of the next level into to_do.  main creates the  *)
(* threads, joins them, prints crawl_list and destroys the mutexes.        *)
(*                                                                         *)
(* i is one global variable: main counts with it in the loops of creation  *)
(* and of joining, and each thread in its loop over the links. A page that *)
(* arrives while main is still counting makes main skip threads or create  *)
(* them twice, read a handle that was never written, write past its        *)
(* arrays, or move i between a thread's test and its s.at(i), which then   *)
(* throws. An i++ is one step: the only two that can meet are main's and a *)
(* thread's, in runs whose count has gone wrong anyway.                    *)
(*                                                                         *)
(* Between two steps of a thread lie the places where it locks a mutex or  *)
(* touches data it shares; queue_mutex guards one such step only.          *)
(***************************************************************************)
EXTENDS Integers, Sequences, SequencesExt

CONSTANTS N,             \* threads; 5 in the code
          Start,         \* http://cse.iitkgp.ac.in/
          Webs,          \* the link structures considered: page -> its links
          no_of_times,   \* the depth asked for
          MaxThreads,    \* bound: threads that main ever creates
          MaxSpurious    \* bound: wake-ups that no broadcast has caused

ASSUME CrawlerAssumption ==
  /\ N \in Nat \ {0} /\ no_of_times \in Nat /\ MaxSpurious \in Nat
  /\ MaxThreads \in Nat /\ MaxThreads >= N
  /\ \A w \in Webs : /\ Start \in DOMAIN w
                     /\ \A u \in DOMAIN w : w[u] \in Seq(DOMAIN w)

VARIABLES
  web,                             \* the web crawled
  to_do, to_do_next,               \* queues of pages
  done_list, crawl_list,           \* pages crawled, pages found
  label_list,                      \* the levels of crawl_list
  url_level, nthreads, i,          \* the global counters
  to_do_mutex, donemutex, donemutex2,   \* TRUE when locked
  pc, url,                         \* each thread's line and to_do_url
  mpc, joining,                    \* main's line and the thread it waits for
  created, threads,                \* threads created so far, main's handles (0: none)
  spurious,                        \* spurious wake-ups so far
  early                            \* history: a page came before main's first join

queues == <<to_do, to_do_next>>
lists  == <<done_list, crawl_list, label_list>>
count  == <<url_level, nthreads>>
locks  == <<to_do_mutex, donemutex, donemutex2>>
main   == <<mpc, joining, created, threads>>
past   == <<spurious, early>>
vars   == <<web, queues, lists, count, i, locks, pc, url, main, past>>

\* The threads that may come to be, in the order in which main creates them.
Thread == 1..MaxThreads

ThreadAt == {"none", "lock2", "while", "poll", "claim", "fetch", "links", "link",
             "arrive", "waiting", "woken", "swap", "exit"}

\* Main's lines in the loop that creates threads, and after that of the joins.
BeforeJoins == {"create", "spawn", "increment"}
AfterJoins  == {"print", "destroy", "done"}

Init ==
  /\ web \in Webs
  /\ to_do = <<Start>> /\ to_do_next = <<>>
  /\ done_list = <<>> /\ crawl_list = <<>> /\ label_list = <<>>
  /\ url_level = 0 /\ nthreads = 0 /\ i = 0
  /\ to_do_mutex = FALSE /\ donemutex = FALSE /\ donemutex2 = FALSE
  /\ pc = [t \in Thread |-> "none"] /\ url = [t \in Thread |-> Start]
  /\ mpc = "create" /\ joining = 0
  /\ created = 0 /\ threads = [k \in 1..N |-> 0]
  /\ spurious = 0 /\ early = FALSE

\* The process has not been ended by an exception or by what C++ leaves undefined.
Alive == mpc \notin {"aborted", "undefined"}

Goto(t, l) == pc' = [pc EXCEPT ![t] = l]

-----------------------------------------------------------------------------
(* A thread.                                                               *)

LockLevel(t) ==
  /\ pc[t] = "lock2" /\ ~donemutex2
  /\ donemutex2' = TRUE
  /\ Goto(t, "while")
  /\ UNCHANGED <<web, queues, lists, count, i, to_do_mutex, donemutex, url, main, past>>

\* Lines 53-55 and 127.  From the second round on the thread does not hold
\* donemutex2: the unlock frees it for whoever does.
While(t) ==
  /\ pc[t] = "while"
  /\ donemutex2' = FALSE
  /\ Goto(t, IF url_level < no_of_times THEN "poll" ELSE "exit")
  /\ UNCHANGED <<web, queues, lists, count, i, to_do_mutex, donemutex, url, main, past>>

Poll(t) ==
  /\ pc[t] = "poll"
  /\ \/ /\ to_do # <<>>
        /\ url' = [url EXCEPT ![t] = Head(to_do)] /\ to_do' = Tail(to_do)
        /\ Goto(t, "claim")
     \/ /\ to_do = <<>>
        /\ Goto(t, "arrive") /\ UNCHANGED <<url, to_do>>
  /\ UNCHANGED <<web, to_do_next, lists, count, i, locks, main, past>>

Claim_NoCheck(t) ==
  /\ pc[t] = "claim" /\ ~to_do_mutex
  /\ done_list' = Append(done_list, url[t])
  /\ to_do_mutex' = TRUE
  /\ Goto(t, "fetch")
  /\ UNCHANGED <<web, queues, crawl_list, label_list, count, i, donemutex,
                 donemutex2, url, main, past>>

\* Under to_do_mutex, which is kept until the links are stored.
Claim(t) ==
  /\ pc[t] = "claim" /\ ~to_do_mutex
  /\ IF url[t] \in ToSet(done_list)
       THEN Goto(t, "while") /\ UNCHANGED <<done_list, to_do_mutex>>
       ELSE /\ done_list' = Append(done_list, url[t])
            /\ to_do_mutex' = TRUE
            /\ Goto(t, "fetch")
  /\ UNCHANGED <<web, queues, crawl_list, label_list, count, i, donemutex,
                 donemutex2, url, main, past>>

\* __getLinks, and the start of the loop over the links.
Fetch(t) ==
  /\ pc[t] = "fetch"
  /\ i' = 0
  /\ early' = (early \/ joining = 0)
  /\ Goto(t, "links")
  /\ UNCHANGED <<web, queues, lists, count, locks, url, main, spurious>>

\* Line 72.
NextLink(t) ==
  /\ pc[t] = "links" /\ i < Len(web[url[t]])
  /\ Goto(t, "link")
  /\ UNCHANGED <<web, queues, lists, count, i, locks, url, main, past>>

StoreLink_NoLookup(t) ==
  /\ pc[t] = "link" /\ i < Len(web[url[t]])
  /\ LET link == web[url[t]][i + 1] IN
     /\ to_do_next' = Append(to_do_next, link)
     /\ crawl_list' = Append(crawl_list, link)
     /\ label_list' = Append(label_list, url_level + 1)
  /\ i' = i + 1
  /\ Goto(t, "links")
  /\ UNCHANGED <<web, to_do, done_list, count, locks, url, main, past>>

\* Lines 74-91.
StoreLink(t) ==
  /\ pc[t] = "link" /\ i < Len(web[url[t]])
  /\ LET link == web[url[t]][i + 1] IN
     /\ to_do_next' = Append(to_do_next, link)
     /\ IF link \in ToSet(crawl_list)
          THEN UNCHANGED <<crawl_list, label_list>>
          ELSE /\ crawl_list' = Append(crawl_list, link)
               /\ label_list' = Append(label_list, url_level + 1)
  /\ i' = i + 1
  /\ Goto(t, "links")
  /\ UNCHANGED <<web, to_do, done_list, count, locks, url, main, past>>

\* main has moved i since the test: s.at(i) throws and nobody catches.
LinkOutOfRange(t) ==
  /\ pc[t] = "link" /\ i >= Len(web[url[t]])
  /\ mpc' = "aborted"
  /\ UNCHANGED <<web, queues, lists, count, i, locks, pc, url, joining, created, threads, past>>

LinksStored(t) ==
  /\ pc[t] = "links" /\ i >= Len(web[url[t]])
  /\ to_do_mutex' = FALSE
  /\ Goto(t, "while")
  /\ UNCHANGED <<web, queues, lists, count, i, donemutex, donemutex2, url, main, past>>

\* Lines 101-109: count oneself and wait, which gives donemutex back.
ArriveAndWait(t) ==
  /\ pc[t] = "arrive" /\ ~donemutex /\ nthreads + 1 # N
  /\ nthreads' = nthreads + 1
  /\ Goto(t, "waiting")
  /\ UNCHANGED <<web, queues, lists, url_level, i, locks, url, main, past>>

ArriveLast_OffByOne(t) ==
  /\ pc[t] = "arrive" /\ ~donemutex /\ nthreads + 2 = N
  /\ nthreads' = nthreads + 1 /\ donemutex' = TRUE
  /\ pc' = [u \in Thread |-> IF u = t THEN "swap"
                             ELSE IF pc[u] = "waiting" THEN "woken" ELSE pc[u]]
  /\ UNCHANGED <<web, queues, lists, url_level, i, to_do_mutex, donemutex2, url, main, past>>

ArriveLast_One(t) ==
  /\ pc[t] = "arrive" /\ ~donemutex /\ nthreads + 1 = N
  /\ nthreads' = nthreads + 1 /\ donemutex' = TRUE
  /\ pc' = [u \in Thread |->
              IF u = t THEN "swap"
              ELSE IF /\ pc[u] = "waiting"
                      /\ \A v \in Thread : pc[v] = "waiting" => u <= v
                   THEN "woken" ELSE pc[u]]
  /\ UNCHANGED <<web, queues, lists, url_level, i, to_do_mutex, donemutex2, url, main, past>>

\* Lines 101-102 and 113: the last one wakes the others and keeps donemutex.
ArriveLast(t) ==
  /\ pc[t] = "arrive" /\ ~donemutex /\ nthreads + 1 = N
  /\ nthreads' = nthreads + 1 /\ donemutex' = TRUE
  /\ pc' = [u \in Thread |-> IF u = t THEN "swap"
                             ELSE IF pc[u] = "waiting" THEN "woken" ELSE pc[u]]
  /\ UNCHANGED <<web, queues, lists, url_level, i, to_do_mutex, donemutex2, url, main, past>>

MovePage(t) ==
  /\ pc[t] = "swap" /\ to_do_next # <<>>
  /\ to_do' = Append(to_do, Head(to_do_next)) /\ to_do_next' = Tail(to_do_next)
  /\ UNCHANGED <<web, lists, count, i, locks, pc, url, main, past>>

RaiseLevel_KeepCount(t) ==
  /\ pc[t] = "swap" /\ to_do_next = <<>>
  /\ url_level' = url_level + 1
  /\ donemutex' = FALSE
  /\ Goto(t, "while")
  /\ UNCHANGED <<web, queues, lists, nthreads, i, to_do_mutex, donemutex2, url, main, past>>

RaiseLevel_EarlyUnlock(t) ==
  /\ pc[t] = "swap"
  /\ url_level' = url_level + 1 /\ nthreads' = 0
  /\ donemutex' = FALSE
  /\ Goto(t, "while")
  /\ UNCHANGED <<web, queues, lists, i, to_do_mutex, donemutex2, url, main, past>>

RaiseLevel(t) ==
  /\ pc[t] = "swap" /\ to_do_next = <<>>
  /\ url_level' = url_level + 1 /\ nthreads' = 0
  /\ donemutex' = FALSE
  /\ Goto(t, "while")
  /\ UNCHANGED <<web, queues, lists, i, to_do_mutex, donemutex2, url, main, past>>

\* Line 106 returns with donemutex locked, line 108 unlocks it.
Resume(t) ==
  /\ pc[t] = "woken" /\ ~donemutex
  /\ Goto(t, "while")
  /\ UNCHANGED <<web, queues, lists, count, i, locks, url, main, past>>

\* pthread_cond_wait may return although nobody has called broadcast.
WakeSpuriously(t) ==
  /\ pc[t] = "waiting" /\ spurious < MaxSpurious /\ Alive
  /\ spurious' = spurious + 1
  /\ Goto(t, "woken")
  /\ UNCHANGED <<web, queues, lists, count, i, locks, url, main, early>>

-----------------------------------------------------------------------------
(* main.                                                                   *)

Create ==
  /\ mpc = "create"
  /\ IF i < N THEN mpc' = "spawn" /\ UNCHANGED i
              ELSE mpc' = "join" /\ i' = 0
  /\ UNCHANGED <<web, queues, lists, count, locks, pc, url, joining, created, threads, past>>

\* Lines 154-161, with i as it is by then: past the arrays, what follows is
\* undefined; in a slot used before, the handle of that thread is lost.
Spawn ==
  /\ mpc = "spawn"
  /\ \/ /\ i < N /\ created < MaxThreads
        /\ created' = created + 1
        /\ threads' = [threads EXCEPT ![i + 1] = created + 1]
        /\ Goto(created + 1, "lock2")
        /\ mpc' = "increment"
     \/ /\ i >= N
        /\ mpc' = "undefined" /\ UNCHANGED <<created, threads, pc>>
  /\ UNCHANGED <<web, queues, lists, count, i, locks, url, joining, past>>

Increment ==
  /\ mpc = "increment"
  /\ i' = i + 1 /\ mpc' = "create"
  /\ UNCHANGED <<web, queues, lists, count, locks, pc, url, joining, created, threads, past>>

\* The thread to wait for is chosen before waiting, i is read again after it.
\* A slot that no thread was created in holds no handle.
JoinNext ==
  /\ mpc = "join"
  /\ \/ i < N /\ threads[i + 1] # 0 /\ joining' = threads[i + 1] /\ mpc' = "joining"
     \/ i < N /\ threads[i + 1] = 0 /\ mpc' = "undefined" /\ UNCHANGED joining
     \/ i >= N /\ mpc' = "print" /\ UNCHANGED joining
  /\ UNCHANGED <<web, queues, lists, count, i, locks, pc, url, created, threads, past>>

\* A thread that has been joined before is not waited for.
Joined ==
  /\ mpc = "joining" /\ pc[joining] = "exit"
  /\ i' = i + 1 /\ mpc' = "join"
  /\ UNCHANGED <<web, queues, lists, count, locks, pc, url, joining, created, threads, past>>

PrintLists ==
  /\ mpc = "print"
  /\ i' = Len(crawl_list) /\ mpc' = "destroy"
  /\ UNCHANGED <<web, queues, lists, count, locks, pc, url, joining, created, threads, past>>

Destroy ==
  /\ mpc = "destroy" /\ mpc' = "done"
  /\ UNCHANGED <<web, queues, lists, count, i, locks, pc, url, joining, created, threads, past>>

-----------------------------------------------------------------------------
Step(t) ==
  /\ Alive
  /\ \/ LockLevel(t) \/ While(t) \/ Poll(t) \/ Claim(t) \/ Fetch(t) \/ NextLink(t)
     \/ StoreLink(t) \/ LinkOutOfRange(t) \/ LinksStored(t) \/ ArriveAndWait(t)
     \/ ArriveLast(t) \/ MovePage(t) \/ RaiseLevel(t) \/ Resume(t)

Main == Create \/ Spawn \/ Increment \/ JoinNext \/ Joined \/ PrintLists \/ Destroy

Next == Main \/ \E t \in Thread : Step(t) \/ WakeSpuriously(t)

Spec == Init /\ [][Next]_vars

\* Threads are scheduled, and a mutex that is free goes to one that waits.
FairSpec == Spec /\ WF_vars(Main) /\ \A t \in Thread : WF_vars(Step(t))

-----------------------------------------------------------------------------
(* Properties.  What the barrier guarantees is stated for the runs in which *)
(* no wait has returned without a broadcast, and in which main had called   *)
(* its first pthread_join before the first page arrived.                    *)

\* Counters stay in range, queues and lists hold pages of the web, and the
\* handles that main keeps are those of threads it has created.
TypeOK ==
  /\ web \in Webs
  /\ \A s \in {to_do, to_do_next, done_list, crawl_list} : s \in Seq(DOMAIN web)
  /\ label_list \in Seq(Nat) /\ Len(label_list) = Len(crawl_list)
  /\ url_level \in Nat /\ nthreads \in 0..N /\ i \in Nat
  /\ <<to_do_mutex, donemutex, donemutex2>> \in BOOLEAN \X BOOLEAN \X BOOLEAN
  /\ pc \in [Thread -> ThreadAt] /\ url \in [Thread -> DOMAIN web]
  /\ mpc \in BeforeJoins \cup {"join", "joining", "aborted", "undefined"} \cup AfterJoins
  /\ created \in 0..MaxThreads
  /\ threads \in [1..N -> 0..created] /\ joining \in 0..created
  /\ spurious \in 0..MaxSpurious /\ early \in BOOLEAN

\* reach[n]: the pages n links away from the start page.
reach[n \in 0..no_of_times] ==
  IF n = 0 THEN {Start} ELSE UNION {ToSet(web[u]) : u \in reach[n - 1]}

Undisturbed == spurious = 0 /\ ~early

\* No page is crawled twice, though threads pop the same page many times; not
\* even when spurious wake-ups have broken the barrier, or when there are more
\* threads than the barrier counts.
CrawledOnce == IsInjective(done_list)

\* The level printed with a page is its distance from the start page, the
\* shortest one, and a page is listed once.
LevelsAreDistances ==
  Undisturbed =>
  /\ IsInjective(crawl_list)
  /\ \A j \in DOMAIN crawl_list :
       /\ crawl_list[j] \in reach[label_list[j]]
       /\ \A n \in 1..(label_list[j] - 1) : crawl_list[j] \notin reach[n]

\* Whoever moves the next level into to_do is alone: every other thread is at
\* the barrier, so to_do and to_do_next need no lock of their own then.
SwapAlone ==
  Undisturbed => \A t \in 1..created : pc[t] = "swap" =>
    \A u \in 1..created \ {t} : pc[u] \in {"waiting", "woken"}

\* The search is complete when main prints: all pages up to the depth asked
\* for are listed, none beyond.  Threads write the i with which main counts its
\* joins, so that main may print before it has joined them all.
CompleteWhenPrinted ==
  Undisturbed /\ mpc \in AfterJoins =>
    ToSet(crawl_list) = UNION {reach[n] : n \in 1..no_of_times}

\* All N threads are created, leave their loop, and main reaches its end: the
\* process neither hangs at the barrier nor aborts.
Finishes ==
  [](Undisturbed) =>
    <>(mpc = "done" /\ created = N /\ \A t \in 1..created : pc[t] = "exit")

\* Line 179, "Clean up and exit": the mutexes are destroyed when no thread is
\* left to use them.  Even in the undisturbed runs this fails.
MutexesOutliveThreads ==
  Undisturbed /\ mpc = "done" => \A t \in 1..created : pc[t] = "exit"
=============================================================================
