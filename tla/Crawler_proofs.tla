--------------------------- MODULE Crawler_proofs ---------------------------
(***************************************************************************)
(* Proofs about the crawler, for every number of threads, web, depth and   *)
(* number of spurious wake-ups and of threads created in excess.  That the *)
(* one who swaps is alone rests on a count: in an undisturbed run nthreads *)
(* is the number of threads that wait as long as donemutex is free, and    *)
(* the thread that makes it N finds all the others waiting, because there  *)
(* are no more than N: main counts with i, and no thread writes it before  *)
(* main is in its first join (CreatedInOrder).  That the labels are        *)
(* distances and the search is complete follows from BreadthFirst, an      *)
(* invariant of the undisturbed runs.  That no page is crawled or listed   *)
(* twice, and that one thread at a time stores links, needs no such        *)
(* premise.                                                                *)
(***************************************************************************)
EXTENDS Crawler, FiniteSetTheorems, SequenceTheorems, TLAPS

Waiting == {t \in Thread : pc[t] = "waiting"}

Parsing(t) == pc[t] \in {"fetch", "links", "link"}
Storing(t) == pc[t] \in {"links", "link"}

\* The threads that exist are those that main has created.
ThreadsExist ==
  \A t \in Thread : pc[t] = "none" <=> t > created

\* While main creates threads its counter is that of the threads created, unless
\* a thread has begun to store links before main's first join.
CreatedInOrder ==
  /\ mpc \in BeforeJoins => joining = 0
  /\ ~early => /\ created <= N
               /\ mpc \in {"create", "spawn"} => created = i
               /\ mpc = "spawn" => i < N
               /\ mpc = "increment" => created = i + 1
               /\ joining = 0 => \A t \in Thread : ~Storing(t)

\* to_do_mutex is held from the claim of a page to its last link (new.cpp:63-94):
\* one thread at a time fetches and stores links, and i is its own meanwhile.
LinksAlone ==
  /\ \A t \in Thread : Parsing(t) => to_do_mutex
  /\ \A t, u \in Thread : Parsing(t) /\ Parsing(u) => t = u

\* No page is listed twice (new.cpp:75-85).
ListedOnce == IsInjective(crawl_list)

\* The barrier (new.cpp:101-124): nthreads counts those who wait until the last
\* one comes; from then on it is at the swap, the others have been woken.
Counted ==
  /\ donemutex <=> nthreads = N
  /\ Undisturbed =>
       /\ donemutex => \E t \in 1..N : /\ pc[t] = "swap"
                                       /\ \A u \in (1..N) \ {t} : pc[u] = "woken"
       /\ ~donemutex => /\ nthreads = Cardinality(Waiting)
                        /\ \A t \in Thread : pc[t] # "swap"

IInv == /\ TypeOK /\ ThreadsExist /\ CreatedInOrder
        /\ LinksAlone /\ CrawledOnce /\ ListedOnce /\ Counted

-----------------------------------------------------------------------------
\* Appending what a list without repetitions does not hold repeats nothing.
LEMMA AppendNew ==
  ASSUME NEW S, NEW s \in Seq(S), NEW e \in S, e \notin ToSet(s), IsInjective(s)
  PROVE  IsInjective(Append(s, e))
<1>1. /\ DOMAIN s = 1..Len(s) /\ Len(s) \in Nat
      /\ DOMAIN Append(s, e) = 1..(Len(s) + 1)
  BY LenProperties, AppendProperties
<1>2. /\ \A j \in 1..Len(s) : Append(s, e)[j] = s[j] /\ s[j] # e
      /\ Append(s, e)[Len(s) + 1] = e
  BY <1>1, AppendProperties DEF ToSet
<1>3. SUFFICES ASSUME NEW a \in 1..(Len(s) + 1), NEW b \in 1..(Len(s) + 1),
                      Append(s, e)[a] = Append(s, e)[b]
               PROVE  a = b
  BY <1>1 DEF IsInjective
<1>4. CASE a \in 1..Len(s) /\ b \in 1..Len(s)
  BY <1>1, <1>2, <1>3, <1>4 DEF IsInjective
<1>5. CASE a = Len(s) + 1 \/ b = Len(s) + 1
  BY <1>1, <1>2, <1>3, <1>5
<1>6. QED
  BY <1>1, <1>4, <1>5

LEMMA InitIInv == Init => IInv
<1> SUFFICES ASSUME Init PROVE IInv
  OBVIOUS
<1> USE CrawlerAssumption DEF Init
<1>1. Start \in DOMAIN web /\ <<Start>> \in Seq(DOMAIN web) /\ <<>> \in Seq(DOMAIN web)
  OBVIOUS
<1>2. TypeOK
  <2>1. \A s \in {to_do, to_do_next, done_list, crawl_list} : s \in Seq(DOMAIN web)
    BY <1>1
  <2>2. label_list \in Seq(Nat) /\ Len(label_list) = Len(crawl_list)
    OBVIOUS
  <2>3. /\ nthreads \in 0..N /\ spurious \in 0..MaxSpurious
        /\ url_level \in Nat /\ i \in Nat /\ created \in 0..MaxThreads
    OBVIOUS
  <2>7. early \in BOOLEAN
    OBVIOUS
  <2>6. joining \in 0..created /\ threads \in [1..N -> 0..created]
    OBVIOUS
  <2>4. pc \in [Thread -> ThreadAt] /\ url \in [Thread -> DOMAIN web]
    BY <1>1 DEF ThreadAt
  <2>5. QED
    BY <2>1, <2>2, <2>3, <2>4, <2>6, <2>7 DEF TypeOK, BeforeJoins
<1>3. ThreadsExist /\ CreatedInOrder /\ LinksAlone
  BY DEF ThreadsExist, CreatedInOrder, LinksAlone, Parsing, Storing, Thread
<1>4. CrawledOnce /\ ListedOnce
  BY DEF CrawledOnce, ListedOnce, IsInjective
<1>5. Counted
  <2>1. Waiting = {}
    BY DEF Waiting
  <2>2. QED
    BY <2>1, FS_EmptySet DEF Counted, Undisturbed
<1>6. QED
  BY <1>2, <1>3, <1>4, <1>5 DEF IInv

\* A link is a page of the web.
LEMMA LinkIsPage ==
  ASSUME TypeOK, NEW t \in Thread, i < Len(web[url[t]])
  PROVE  web[url[t]][i + 1] \in DOMAIN web
<1>1. web[url[t]] \in Seq(DOMAIN web) /\ i \in Nat
  BY CrawlerAssumption DEF TypeOK
<1>2. i + 1 \in 1..Len(web[url[t]])
  BY <1>1, LenProperties
<1>3. QED
  BY <1>1, <1>2, ElementOfSeq

LEMMA TypeStep ==
  ASSUME IInv, [Next]_vars
  PROVE  TypeOK'
<1> USE CrawlerAssumption DEF queues, lists, count, locks, main, past, Goto, ThreadAt, BeforeJoins, AfterJoins
<1>0. TypeOK
  BY DEF IInv
<1>1. ASSUME NEW t \in Thread, LockLevel(t) \/ While(t) \/ Resume(t) PROVE TypeOK'
  BY ZenonT(60), <1>0, <1>1 DEF LockLevel, While, Resume, TypeOK
<1>2. ASSUME NEW t \in Thread, Poll(t) PROVE TypeOK'
  <2>1. CASE to_do # <<>> /\ to_do' = Tail(to_do) /\ url' = [url EXCEPT ![t] = Head(to_do)]
    <3>1. Head(to_do) \in DOMAIN web /\ Tail(to_do) \in Seq(DOMAIN web)
      BY <1>0, <2>1, HeadTailProperties DEF TypeOK
    <3>2. QED
      BY ZenonT(60), <1>0, <1>2, <2>1, <3>1 DEF Poll, TypeOK
  <2>2. CASE UNCHANGED <<url, to_do>>
    BY <1>0, <1>2, <2>2 DEF Poll, TypeOK
  <2>3. QED
    BY <1>2, <2>1, <2>2 DEF Poll
<1>3. ASSUME NEW t \in Thread, Claim(t) PROVE TypeOK'
  <2>1. Append(done_list, url[t]) \in Seq(DOMAIN web)
    BY <1>0 DEF TypeOK
  <2>2. QED
    BY ZenonT(60), <1>0, <1>3, <2>1 DEF Claim, TypeOK
<1>4. ASSUME NEW t \in Thread, Fetch(t) PROVE TypeOK'
  <2>1. early' \in BOOLEAN
    BY <1>0, <1>4 DEF Fetch, TypeOK
  <2>2. QED
    BY <1>0, <1>4, <2>1 DEF Fetch, TypeOK
<1>19. ASSUME NEW t \in Thread, NextLink(t) PROVE TypeOK'
  BY <1>0, <1>19 DEF NextLink, TypeOK
<1>20. ASSUME NEW t \in Thread, LinkOutOfRange(t) PROVE TypeOK'
  BY <1>0, <1>20 DEF LinkOutOfRange, TypeOK
<1>5. ASSUME NEW t \in Thread, StoreLink(t) PROVE TypeOK'
  <2> DEFINE link == web[url[t]][i + 1]
  <2>1. link \in DOMAIN web
    BY <1>0, <1>5, LinkIsPage DEF StoreLink
  <2>2. Append(to_do_next, link) \in Seq(DOMAIN web) /\ Append(crawl_list, link) \in Seq(DOMAIN web)
    BY <1>0, <2>1 DEF TypeOK
  <2>3. /\ Append(label_list, url_level + 1) \in Seq(Nat)
        /\ Len(Append(label_list, url_level + 1)) = Len(Append(crawl_list, link))
    <3>1. /\ label_list \in Seq(Nat) /\ url_level + 1 \in Nat
          /\ crawl_list \in Seq(DOMAIN web) /\ Len(label_list) = Len(crawl_list)
      BY <1>0 DEF TypeOK
    <3>2. Len(Append(label_list, url_level + 1)) = Len(label_list) + 1
      BY <3>1, AppendProperties
    <3>3. Len(Append(crawl_list, link)) = Len(crawl_list) + 1
      BY <2>1, <3>1, AppendProperties
    <3>4. QED
      BY <3>1, <3>2, <3>3
  <2>4. /\ to_do_next' \in Seq(DOMAIN web) /\ crawl_list' \in Seq(DOMAIN web)
        /\ label_list' \in Seq(Nat) /\ Len(label_list') = Len(crawl_list')
    BY <1>0, <1>5, <2>2, <2>3 DEF StoreLink, TypeOK
  <2>5. i' \in Nat /\ pc' \in [Thread -> ThreadAt]
    BY <1>0, <1>5 DEF StoreLink, TypeOK
  <2>6. UNCHANGED <<web, to_do, done_list, count, locks, url, main, past>>
    BY <1>5 DEF StoreLink
  <2>7. QED
    BY <1>0, <2>4, <2>5, <2>6 DEF TypeOK
<1>6. ASSUME NEW t \in Thread, LinksStored(t) PROVE TypeOK'
  BY <1>0, <1>6 DEF LinksStored, TypeOK
<1>7. ASSUME NEW t \in Thread, ArriveAndWait(t) PROVE TypeOK'
  <2>1. nthreads + 1 \in 0..N
    BY <1>0, <1>7 DEF ArriveAndWait, TypeOK, IInv, Counted
  <2>2. QED
    BY <1>0, <1>7, <2>1 DEF ArriveAndWait, TypeOK
<1>8. ASSUME NEW t \in Thread, ArriveLast(t) PROVE TypeOK'
  <2>1. pc' \in [Thread -> ThreadAt]
    BY <1>0, <1>8 DEF ArriveLast, TypeOK
  <2>2. nthreads' \in 0..N /\ donemutex' \in BOOLEAN
    BY <1>8 DEF ArriveLast
  <2>3. QED
    BY <1>0, <1>8, <2>1, <2>2 DEF ArriveLast, TypeOK
<1>9. ASSUME NEW t \in Thread, MovePage(t) PROVE TypeOK'
  <2>1. Head(to_do_next) \in DOMAIN web /\ Tail(to_do_next) \in Seq(DOMAIN web)
    BY <1>0, <1>9, HeadTailProperties DEF MovePage, TypeOK
  <2>2. Append(to_do, Head(to_do_next)) \in Seq(DOMAIN web)
    BY <1>0, <2>1 DEF TypeOK
  <2>3. QED
    BY <1>0, <1>9, <2>1, <2>2 DEF MovePage, TypeOK
<1>10. ASSUME NEW t \in Thread, RaiseLevel(t) PROVE TypeOK'
  <2>1. nthreads' \in 0..N /\ url_level' \in Nat
    BY <1>0, <1>10 DEF RaiseLevel, TypeOK
  <2>2. QED
    BY ZenonT(60), <1>0, <1>10, <2>1 DEF RaiseLevel, TypeOK
<1>11. ASSUME NEW t \in Thread, WakeSpuriously(t) PROVE TypeOK'
  BY <1>0, <1>11 DEF WakeSpuriously, TypeOK
<1>12. CASE Create \/ Increment
  <2>1. /\ i' \in Nat /\ mpc' \in {"create", "spawn", "join"}
        /\ UNCHANGED <<web, queues, lists, count, locks, pc, url, joining, created, threads, past>>
    BY SMTT(30), <1>0, <1>12 DEF Create, Increment, TypeOK
  <2>2. QED
    BY <1>0, <2>1 DEF TypeOK
<1>18. CASE Spawn
  <2>1. CASE i < N /\ created < MaxThreads
    <3>1. /\ created' = created + 1 /\ threads' = [threads EXCEPT ![i + 1] = created + 1]
          /\ pc' = [pc EXCEPT ![created + 1] = "lock2"] /\ mpc' = "increment"
          /\ UNCHANGED <<web, queues, lists, count, i, locks, url, joining, past>>
      BY <1>0, <1>18, <2>1 DEF Spawn, TypeOK
    <3>2. /\ created' \in 0..MaxThreads /\ 0..created \subseteq 0..(created + 1)
          /\ created + 1 \in 0..(created + 1)
      BY <1>0, <2>1, <3>1 DEF TypeOK
    <3>3. threads' \in [1..N -> 0..created'] /\ joining' \in 0..created'
      BY <1>0, <3>1, <3>2 DEF TypeOK
    <3>4. pc' \in [Thread -> ThreadAt]
      BY <1>0, <3>1 DEF TypeOK
    <3>5. QED
      BY <1>0, <3>1, <3>2, <3>3, <3>4 DEF TypeOK
  <2>2. CASE i >= N
    <3>1. mpc' = "undefined"
          /\ UNCHANGED <<web, queues, lists, count, i, locks, pc, url, joining, created, threads, past>>
      BY <1>0, <1>18, <2>2 DEF Spawn, TypeOK
    <3>2. QED
      BY <1>0, <3>1 DEF TypeOK
  <2>3. QED
    BY <1>18, <2>1, <2>2 DEF Spawn
<1>13. CASE JoinNext
  <2>1. i < N => threads[i + 1] \in 0..created
    BY <1>0 DEF TypeOK
  <2>2. QED
    BY <1>0, <1>13, <2>1 DEF JoinNext, TypeOK
<1>14. CASE Joined \/ Destroy
  <2>1. i' \in Nat /\ mpc' \in {"join", "done"}
    BY SMTT(30), <1>0, <1>14 DEF Joined, Destroy, TypeOK
  <2>2. QED
    BY ZenonT(60), <1>0, <1>14, <2>1 DEF Joined, Destroy, TypeOK
<1>15. CASE PrintLists
  <2>1. Len(crawl_list) \in Nat
    BY <1>0, LenProperties DEF TypeOK
  <2>2. QED
    BY <1>0, <1>15, <2>1 DEF PrintLists, TypeOK
<1>16. CASE UNCHANGED vars
  BY <1>0, <1>16 DEF vars, TypeOK
<1>17. QED
  BY <1>1, <1>2, <1>3, <1>4, <1>5, <1>6, <1>7, <1>8, <1>9, <1>10, <1>11, <1>12, <1>13,
     <1>14, <1>15, <1>16, <1>18, <1>19, <1>20 DEF Next, Main, Step

\* Threads are created by main alone, the next one each time.
LEMMA ExistStep ==
  ASSUME IInv, [Next]_vars
  PROVE  ThreadsExist'
<1> USE DEF ThreadsExist, Goto, main
<1>0. TypeOK /\ ThreadsExist /\ created \in Nat /\ \A t \in Thread : t \in Nat
  BY SMTT(30), CrawlerAssumption DEF IInv, TypeOK, Thread
<1>1. ASSUME NEW t \in Thread, Step(t) \/ WakeSpuriously(t) PROVE ThreadsExist'
  <2>1. UNCHANGED created
    BY <1>1 DEF Step, LockLevel, While, Poll, Claim, Fetch, NextLink, StoreLink, LinkOutOfRange,
                LinksStored, ArriveAndWait, ArriveLast, MovePage, RaiseLevel, Resume, WakeSpuriously
  <2>2. \A u \in Thread : pc[u] = "none" <=> pc'[u] = "none"
    BY <1>0, <1>1 DEF Step, LockLevel, While, Poll, Claim, Fetch, NextLink, StoreLink, LinkOutOfRange,
                LinksStored, ArriveAndWait, ArriveLast, MovePage, RaiseLevel, Resume, WakeSpuriously, TypeOK
  <2>3. QED
    BY <1>0, <2>1, <2>2
<1>2. CASE Spawn
  <2>1. CASE created' = created + 1 /\ pc' = [pc EXCEPT ![created + 1] = "lock2"]
    BY <1>0, <2>1 DEF TypeOK
  <2>2. CASE UNCHANGED <<created, pc>>
    BY <1>0, <2>2
  <2>3. QED
    BY <1>2, <2>1, <2>2 DEF Spawn
<1>3. CASE Create \/ Increment \/ JoinNext \/ Joined \/ PrintLists \/ Destroy \/ UNCHANGED vars
  BY <1>0, <1>3 DEF Create, Increment, JoinNext, Joined, PrintLists, Destroy, vars
<1>4. QED
  BY <1>1, <1>2, <1>3 DEF Next, Main

\* A thread that writes i before main's first join makes early true.
LEMMA CreateStep ==
  ASSUME IInv, [Next]_vars
  PROVE  CreatedInOrder'
<1> USE DEF CreatedInOrder, BeforeJoins, Goto, main
<1>0. /\ TypeOK /\ CreatedInOrder /\ created \in Nat /\ i \in Nat /\ N \in Nat \ {0}
      /\ pc \in [Thread -> ThreadAt]
  BY CrawlerAssumption DEF IInv, TypeOK
<1>1. ASSUME NEW t \in Thread, Step(t) \/ WakeSpuriously(t) PROVE CreatedInOrder'
  <2>1. UNCHANGED <<created, joining>> /\ mpc' \in {mpc, "aborted"}
    BY <1>1 DEF Step, LockLevel, While, Poll, Claim, Fetch, NextLink, StoreLink, LinkOutOfRange,
                LinksStored, ArriveAndWait, ArriveLast, MovePage, RaiseLevel, Resume, WakeSpuriously
  <2>5. early => early'
    BY <1>0, <1>1 DEF Step, LockLevel, While, Poll, Claim, Fetch, NextLink, StoreLink, LinkOutOfRange,
                LinksStored, ArriveAndWait, ArriveLast, MovePage, RaiseLevel, Resume, WakeSpuriously,
                past, TypeOK
  <2>2. CASE joining = 0 /\ ~early'
    <3>1. \A u \in Thread : ~Storing(u)
      BY <1>0, <2>1, <2>2, <2>5
    <3>2. ~Fetch(t) /\ ~NextLink(t) /\ ~StoreLink(t) /\ ~LinkOutOfRange(t) /\ ~LinksStored(t)
      BY <2>2, <3>1 DEF Fetch, NextLink, StoreLink, LinkOutOfRange, LinksStored, Storing
    <3>3. /\ UNCHANGED i
          /\ \A u \in Thread : Storing(u)' => Storing(u)
      BY <1>0, <1>1, <3>2 DEF Step, LockLevel, While, Poll, Claim, ArriveAndWait, ArriveLast,
                              MovePage, RaiseLevel, Resume, WakeSpuriously, Storing
    <3>4. QED
      BY <1>0, <2>1, <2>2, <2>5, <3>1, <3>3
  <2>3. CASE joining # 0 \/ early'
    BY <1>0, <2>1, <2>3, <2>5
  <2>4. QED
    BY <2>2, <2>3
<1>2. CASE Create
  BY <1>0, <1>2 DEF Create, Storing, past
<1>3. CASE Spawn
  <2>1. UNCHANGED <<i, joining, past>> /\ mpc = "spawn" /\ mpc' \in {"increment", "undefined"}
    BY <1>3 DEF Spawn
  <2>2. CASE created' = created + 1 /\ pc' = [pc EXCEPT ![created + 1] = "lock2"]
    <3>1. \A u \in Thread : Storing(u)' => Storing(u)
      BY <1>0, <2>2 DEF Storing
    <3>2. QED
      BY <1>0, <2>1, <2>2, <3>1 DEF past
  <2>3. CASE UNCHANGED <<created, pc>> /\ mpc' = "undefined"
    BY <1>0, <2>1, <2>3 DEF Storing, past
  <2>4. QED
    BY <1>3, <2>2, <2>3 DEF Spawn
<1>4. CASE Increment
  BY <1>0, <1>4 DEF Increment, Storing, past
<1>5. CASE JoinNext \/ Joined \/ PrintLists \/ Destroy
  BY <1>0, <1>5 DEF JoinNext, Joined, PrintLists, Destroy, Storing, past
<1>6. CASE UNCHANGED vars
  BY <1>0, <1>6 DEF vars, Storing, past
<1>7. QED
  BY <1>1, <1>2, <1>3, <1>4, <1>5, <1>6 DEF Next, Main

LEMMA LinksStep ==
  ASSUME IInv, [Next]_vars
  PROVE  LinksAlone'
<1> USE DEF LinksAlone, Parsing, Goto, locks
<1>0. TypeOK /\ LinksAlone
  BY DEF IInv
<1>1. ASSUME NEW t \in Thread,
             \/ LockLevel(t) \/ While(t) \/ Poll(t) \/ ArriveAndWait(t) \/ ArriveLast(t)
             \/ MovePage(t) \/ RaiseLevel(t) \/ Resume(t) \/ WakeSpuriously(t)
      PROVE  LinksAlone'
  <2>1. UNCHANGED to_do_mutex
    BY <1>1 DEF LockLevel, While, Poll, ArriveAndWait, ArriveLast, MovePage, RaiseLevel, Resume,
                WakeSpuriously
  <2>2. \A u \in Thread : Parsing(u)' => Parsing(u)
    BY <1>0, <1>1 DEF LockLevel, While, Poll, ArriveAndWait, ArriveLast, MovePage, RaiseLevel,
                      Resume, WakeSpuriously, TypeOK
  <2>3. QED
    BY <1>0, <2>1, <2>2
<1>2. ASSUME NEW t \in Thread, Claim(t) PROVE LinksAlone'
  BY <1>0, <1>2 DEF Claim, TypeOK
<1>3. ASSUME NEW t \in Thread, Fetch(t) PROVE LinksAlone'
  BY <1>0, <1>3 DEF Fetch, TypeOK
<1>4. ASSUME NEW t \in Thread, NextLink(t) \/ StoreLink(t) \/ LinkOutOfRange(t) PROVE LinksAlone'
  <2>1. /\ UNCHANGED to_do_mutex /\ Parsing(t)
        /\ pc' \in {pc, [pc EXCEPT ![t] = "link"], [pc EXCEPT ![t] = "links"]}
    BY <1>4 DEF NextLink, StoreLink, LinkOutOfRange
  <2>2. QED
    BY <1>0, <2>1 DEF TypeOK
<1>5. ASSUME NEW t \in Thread, LinksStored(t) PROVE LinksAlone'
  BY <1>0, <1>5 DEF LinksStored, TypeOK
<1>6. CASE Spawn
  <2>1. UNCHANGED to_do_mutex /\ (UNCHANGED pc \/ pc' = [pc EXCEPT ![created + 1] = "lock2"])
    BY <1>6 DEF Spawn
  <2>2. QED
    BY <1>0, <2>1 DEF TypeOK
<1>7. CASE Create \/ Increment \/ JoinNext \/ Joined \/ PrintLists \/ Destroy
  BY <1>0, <1>7 DEF Create, Increment, JoinNext, Joined, PrintLists, Destroy
<1>8. CASE UNCHANGED vars
  BY <1>0, <1>8 DEF vars
<1>9. QED
  BY <1>1, <1>2, <1>3, <1>4, <1>5, <1>6, <1>7, <1>8 DEF Next, Main, Step

LEMMA OnceStep ==
  ASSUME IInv, [Next]_vars
  PROVE  CrawledOnce' /\ ListedOnce'
<1> USE DEF CrawledOnce, ListedOnce, lists
<1>0. TypeOK /\ CrawledOnce /\ ListedOnce
  BY DEF IInv
<1>1. ASSUME NEW t \in Thread, Claim(t) PROVE CrawledOnce' /\ ListedOnce'
  <2>1. done_list \in Seq(DOMAIN web) /\ url[t] \in DOMAIN web
    BY <1>0 DEF TypeOK
  <2>2. url[t] \notin ToSet(done_list) => IsInjective(Append(done_list, url[t]))
    BY <1>0, <2>1, AppendNew
  <2>3. UNCHANGED crawl_list
    BY <1>1 DEF Claim
  <2>4. CASE done_list' = Append(done_list, url[t]) /\ url[t] \notin ToSet(done_list)
    BY <1>0, <2>2, <2>3, <2>4
  <2>5. CASE UNCHANGED done_list
    BY <1>0, <2>3, <2>5
  <2>6. QED
    BY <1>1, <2>4, <2>5 DEF Claim
<1>2. ASSUME NEW t \in Thread, StoreLink(t) PROVE CrawledOnce' /\ ListedOnce'
  <2> DEFINE link == web[url[t]][i + 1]
  <2>1. crawl_list \in Seq(DOMAIN web) /\ link \in DOMAIN web
    BY <1>0, <1>2, LinkIsPage DEF TypeOK, StoreLink
  <2>2. link \notin ToSet(crawl_list) => IsInjective(Append(crawl_list, link))
    BY <1>0, <2>1, AppendNew
  <2>3. /\ UNCHANGED done_list
        /\ crawl_list' = IF link \in ToSet(crawl_list) THEN crawl_list ELSE Append(crawl_list, link)
    BY <1>2 DEF StoreLink
  <2>4. QED
    BY <1>0, <2>2, <2>3
<1>3. CASE UNCHANGED <<done_list, crawl_list>>
  BY <1>0, <1>3
<1>4. QED
  BY <1>1, <1>2, <1>3 DEF Next, Main, Step, vars, LockLevel, While, Poll, Fetch, NextLink,
       LinkOutOfRange, LinksStored, ArriveAndWait, ArriveLast, MovePage, RaiseLevel, Resume,
       WakeSpuriously, Create, Spawn, Increment, JoinNext, Joined, PrintLists, Destroy

-----------------------------------------------------------------------------
\* The threads that wait are finitely many.
LEMMA WaitingFinite == IsFiniteSet(Waiting) /\ Cardinality(Waiting) \in Nat
<1>1. IsFiniteSet(Thread)
  BY CrawlerAssumption, FS_Interval DEF Thread
<1>2. Waiting \in SUBSET Thread
  BY DEF Waiting
<1>3. QED
  BY <1>1, <1>2, FS_Subset, FS_CardinalityType

\* When the last thread but one waits, and there are no more than N, all the
\* others do.
LEMMA AllOthersWait ==
  ASSUME IInv, ~early, NEW t \in Thread, pc[t] \notin {"waiting", "none"},
         Cardinality(Waiting) + 1 = N
  PROVE  t \in 1..N /\ \A u \in (1..N) \ {t} : pc[u] = "waiting"
<1>0. /\ N \in Nat /\ created \in Nat /\ created <= N
      /\ \A u \in Thread : u \in Nat \ {0} /\ (u \in 1..N <=> u <= N)
  <2>1. N \in Nat /\ MaxThreads \in Nat /\ created \in 0..MaxThreads /\ created <= N
    BY CrawlerAssumption DEF IInv, TypeOK, CreatedInOrder
  <2>2. QED
    BY <2>1 DEF Thread
<1>1. \A u \in Thread : pc[u] # "none" => u \in 1..N
  BY <1>0 DEF IInv, ThreadsExist, Thread
<1>2. IsFiniteSet(1..N) /\ Cardinality(1..N) = N
  BY <1>0, FS_Interval
<1>3. t \notin Waiting
  BY DEF Waiting
<1>4. Cardinality(Waiting \cup {t}) = N
  BY <1>3, WaitingFinite, FS_AddElement
<1>5. Waiting \cup {t} \in SUBSET (1..N)
  BY <1>1 DEF Waiting
<1>6. Waiting \cup {t} = 1..N
  BY <1>2, <1>4, <1>5, FS_Subset
<1>7. QED
  BY <1>6 DEF Waiting

\* In an undisturbed run there has been no disturbance before.
LEMMA StaysUndisturbed ==
  ASSUME IInv, [Next]_vars, Undisturbed'
  PROVE  Undisturbed /\ \A t \in Thread : ~WakeSpuriously(t)
<1>0. spurious \in Nat /\ early \in BOOLEAN
  BY CrawlerAssumption DEF IInv, TypeOK
<1>1. \A t \in Thread : ~WakeSpuriously(t)
  BY <1>0 DEF WakeSpuriously, Undisturbed
<1>2. UNCHANGED past \/ \E t \in Thread : Fetch(t)
  BY <1>1 DEF Next, Main, Step, vars, LockLevel, While, Poll, Claim, NextLink, StoreLink,
       LinkOutOfRange, LinksStored, ArriveAndWait, ArriveLast, MovePage, RaiseLevel, Resume,
       Create, Spawn, Increment, JoinNext, Joined, PrintLists, Destroy
<1>3. QED
  BY <1>0, <1>1, <1>2 DEF Fetch, Undisturbed, past

\* Where the threads are from the arrival of the last one to the end of the swap.
LEMMA SwapPlaces ==
  ASSUME IInv, Undisturbed, NEW t \in Thread, pc[t] = "swap"
  PROVE  /\ donemutex
         /\ \A u \in Thread : u = t \/ pc[u] \in {"woken", "none"}
<1>1. donemutex
  BY DEF IInv, Counted
<1>2. PICK v \in 1..N : pc[v] = "swap" /\ \A u \in (1..N) \ {v} : pc[u] = "woken"
  BY <1>1 DEF IInv, Counted
<1>3. \A u \in Thread : u \in 1..N \/ pc[u] = "none"
  BY CrawlerAssumption DEF IInv, TypeOK, ThreadsExist, CreatedInOrder, Undisturbed, Thread
<1>4. v = t
  BY <1>2, <1>3
<1>5. QED
  BY <1>1, <1>2, <1>3, <1>4

\* The steps at the barrier, and those that have nothing to do with it.
LEMMA BarrierStep ==
  ASSUME IInv, [Next]_vars
  PROVE  Counted'
<1> USE DEF Counted, Goto, count, locks
<1>0. /\ TypeOK /\ Counted /\ pc \in [Thread -> ThreadAt] /\ nthreads \in 0..N /\ N \in Nat \ {0}
  BY CrawlerAssumption DEF IInv, TypeOK
<1>n. 1..N \subseteq Thread
  BY CrawlerAssumption DEF Thread
<1>b. Undisturbed' => Undisturbed /\ ~early
  BY StaysUndisturbed DEF Undisturbed
<1>1. ASSUME NEW t \in Thread, ArriveAndWait(t) PROVE Counted'
  <2>1. Waiting' = Waiting \cup {t} /\ t \notin Waiting
    BY <1>0, <1>1 DEF ArriveAndWait, Waiting
  <2>2. Cardinality(Waiting') = Cardinality(Waiting) + 1
    BY <2>1, WaitingFinite, FS_AddElement
  <2>3. ~donemutex /\ ~donemutex' /\ nthreads' = nthreads + 1 /\ nthreads' # N
    BY <1>1 DEF ArriveAndWait
  <2>4. \A u \in Thread : pc'[u] = "swap" => pc[u] = "swap"
    BY <1>0, <1>1 DEF ArriveAndWait
  <2>5. QED
    BY <1>0, <1>n, <1>b, <2>2, <2>3, <2>4
<1>2. ASSUME NEW t \in Thread, ArriveLast(t) PROVE Counted'
  <2>1. donemutex' /\ nthreads' = N
    BY <1>2 DEF ArriveLast
  <2>2. ASSUME Undisturbed'
        PROVE  t \in 1..N /\ pc'[t] = "swap" /\ \A u \in (1..N) \ {t} : pc'[u] = "woken"
    <3>1. nthreads = Cardinality(Waiting) /\ nthreads + 1 = N /\ pc[t] = "arrive" /\ ~early
      BY <1>0, <1>b, <1>2, <2>2 DEF ArriveLast
    <3>2. t \in 1..N /\ \A u \in (1..N) \ {t} : pc[u] = "waiting"
      BY <3>1, AllOthersWait
    <3>3. QED
      BY <1>0, <1>n, <1>2, <3>2 DEF ArriveLast
  <2>3. QED
    BY <2>1, <2>2
<1>3. ASSUME NEW t \in Thread, RaiseLevel(t) PROVE Counted'
  <2>1. ~donemutex' /\ nthreads' = 0
    BY <1>3 DEF RaiseLevel
  <2>2. ASSUME Undisturbed'
        PROVE  \A u \in Thread : pc'[u] \notin {"swap", "waiting"}
    <3>1. \A u \in Thread : pc[u] \in {"swap", "woken", "none"} /\ (u # t => pc[u] # "swap")
      BY <1>b, <1>3, <2>2, SwapPlaces DEF RaiseLevel
    <3>2. QED
      BY <1>0, <1>3, <3>1 DEF RaiseLevel
  <2>3. Undisturbed' => Waiting' = {}
    BY <2>2 DEF Waiting
  <2>4. QED
    BY <1>0, <1>n, <2>1, <2>2, <2>3, FS_EmptySet
<1>4. ASSUME NEW t \in Thread, Resume(t) PROVE Counted'
  <2>1. Waiting' = Waiting
    BY <1>0, <1>4 DEF Resume, Waiting
  <2>2. \A u \in Thread : pc'[u] = "swap" => pc[u] = "swap"
    BY <1>0, <1>4 DEF Resume
  <2>3. QED
    BY <1>0, <1>n, <1>b, <1>4, <2>1, <2>2 DEF Resume
<1>5. ASSUME NEW t \in Thread, WakeSpuriously(t) PROVE Counted'
  <2>1. ~Undisturbed'
    BY <1>5, StaysUndisturbed
  <2>2. QED
    BY <1>0, <1>n, <1>5, <2>1 DEF WakeSpuriously
<1>6. ASSUME UNCHANGED <<count, donemutex>>,
             \A u \in Thread : /\ pc[u] \in {"swap", "woken", "waiting"} => pc'[u] = pc[u]
                               /\ pc'[u] \in {"swap", "waiting"} => pc[u] = pc'[u]
      PROVE  Counted'
  <2>1. Waiting' = Waiting
    BY <1>6 DEF Waiting
  <2>2. QED
    BY <1>0, <1>n, <1>b, <1>6, <2>1
<1>7. ASSUME NEW t \in Thread,
             \/ LockLevel(t) \/ While(t) \/ Poll(t) \/ Claim(t) \/ Fetch(t) \/ NextLink(t)
             \/ StoreLink(t) \/ LinkOutOfRange(t) \/ LinksStored(t) \/ MovePage(t)
      PROVE  Counted'
  <2>1. UNCHANGED <<count, donemutex>>
    BY <1>7 DEF LockLevel, While, Poll, Claim, Fetch, NextLink, StoreLink, LinkOutOfRange,
                LinksStored, MovePage
  <2>2. \A u \in Thread : /\ pc[u] \in {"swap", "woken", "waiting"} => pc'[u] = pc[u]
                          /\ pc'[u] \in {"swap", "waiting"} => pc[u] = pc'[u]
    BY <1>0, <1>7 DEF LockLevel, While, Poll, Claim, Fetch, NextLink, StoreLink, LinkOutOfRange,
                LinksStored, MovePage
  <2>3. QED
    BY <1>6, <2>1, <2>2
<1>8. CASE Spawn
  <2>1. UNCHANGED <<count, donemutex>>
    BY <1>8 DEF Spawn
  <2>2. CASE pc' = [pc EXCEPT ![created + 1] = "lock2"]
    <3>1. created + 1 \in Thread => pc[created + 1] = "none"
      BY CrawlerAssumption DEF IInv, TypeOK, ThreadsExist
    <3>2. QED
      BY <1>0, <1>6, <2>1, <2>2, <3>1
  <2>3. CASE UNCHANGED pc
    BY <1>6, <2>1, <2>3
  <2>4. QED
    BY <1>8, <2>2, <2>3 DEF Spawn
<1>9. CASE Create \/ Increment \/ JoinNext \/ Joined \/ PrintLists \/ Destroy \/ UNCHANGED vars
  BY <1>6, <1>9 DEF Create, Increment, JoinNext, Joined, PrintLists, Destroy, vars
<1>10. QED
  BY <1>1, <1>2, <1>3, <1>4, <1>5, <1>7, <1>8, <1>9 DEF Next, Main, Step

LEMMA SpecIInv == Spec => []IInv
<1>1. IInv /\ [Next]_vars => IInv'
  BY TypeStep, ExistStep, CreateStep, LinksStep, OnceStep, BarrierStep DEF IInv
<1>2. QED
  BY InitIInv, <1>1, PTL DEF Spec

-----------------------------------------------------------------------------
(* The levels of the web.                                                  *)

\* What reach is for a web w, and the equation that f solves as far as level m.
Reach(w) == CHOOSE f : f = [n \in 0..no_of_times |->
              IF n = 0 THEN {Start} ELSE UNION {ToSet(w[u]) : u \in f[n - 1]}]

LevelsUpTo(w, m, f) == f = [n \in 0..m |->
              IF n = 0 THEN {Start} ELSE UNION {ToSet(w[u]) : u \in f[n - 1]}]

\* A set of natural numbers has a least one.
LEMMA LeastNatural ==
  ASSUME NEW T, T \subseteq Nat, T # {}
  PROVE  \E n \in T : \A m \in T : n <= m
<1>1. PICK n \in T : \A m \in T : ~(<<m, n>> \in OpToRel(<, Nat))
  BY WFMin, NatLessThanWellFounded
<1>2. ASSUME NEW m \in T, m < n PROVE FALSE
  <2>1. <<m, n>> \in {ss \in Nat \X Nat : ss[1] < ss[2]}
    BY <1>2
  <2>2. QED
    BY <1>1, <2>1 DEF OpToRel
<1>3. \A m \in T : m \in Nat /\ n \in Nat
  OBVIOUS
<1>4. QED
  BY <1>2, <1>3

LEMMA LevelsExist ==
  ASSUME NEW w, NEW m \in Nat
  PROVE  \E f : LevelsUpTo(w, m, f)
<1> DEFINE S == {k \in Nat : \A f : ~LevelsUpTo(w, k, f)}
<1>1. SUFFICES ASSUME S # {} PROVE FALSE
  OBVIOUS
<1>2. PICK k \in S : \A l \in S : k <= l
  BY <1>1, LeastNatural
<1>3. k # 0
  <2>1. LevelsUpTo(w, 0, [n \in 0..0 |-> {Start}])
    BY DEF LevelsUpTo
  <2>2. QED
    BY <2>1
<1>4. k - 1 \in Nat /\ k - 1 \notin S
  BY <1>2, <1>3
<1>5. PICK f : LevelsUpTo(w, k - 1, f)
  BY <1>4
<1> DEFINE g == [n \in 0..k |-> IF n = 0 THEN {Start} ELSE UNION {ToSet(w[u]) : u \in f[n - 1]}]
<1>6. \A n \in 0..k : g[n] = IF n = 0 THEN {Start} ELSE UNION {ToSet(w[u]) : u \in f[n - 1]}
  OBVIOUS
<1>7. \A n \in 0..(k - 1) : n \in 0..k /\ g[n] = f[n]
  <2>1. \A n \in 0..(k - 1) : f[n] = IF n = 0 THEN {Start} ELSE UNION {ToSet(w[u]) : u \in f[n - 1]}
    BY <1>5 DEF LevelsUpTo
  <2>2. \A n \in 0..(k - 1) : n \in 0..k
    BY <1>2, <1>4
  <2>3. QED
    BY <1>6, <2>1, <2>2
<1>8. LevelsUpTo(w, k, g)
  <2>1. \A n \in 0..k : n # 0 => n - 1 \in 0..(k - 1)
    BY <1>2
  <2>2. \A n \in 0..k : n # 0 => f[n - 1] = g[n - 1]
    BY <1>7, <2>1
  <2>3. g = [n \in 0..k |-> g[n]]
    OBVIOUS
  <2> HIDE DEF g
  <2>4. \A n \in 0..k : g[n] = IF n = 0 THEN {Start} ELSE UNION {ToSet(w[u]) : u \in g[n - 1]}
    BY <1>6, <2>2
  <2>5. QED
    BY <2>3, <2>4 DEF LevelsUpTo
<1>9. QED
  BY <1>8

LEMMA ReachEquation ==
  /\ reach = Reach(web)
  /\ reach[0] = {Start}
  /\ \A n \in 1..no_of_times : reach[n] = UNION {ToSet(web[u]) : u \in reach[n - 1]}
<1>1. reach = Reach(web)
  BY DEF reach, Reach
<1>2. LevelsUpTo(web, no_of_times, Reach(web))
  <2>1. \E f : LevelsUpTo(web, no_of_times, f)
    BY LevelsExist, CrawlerAssumption
  <2>2. QED
    BY <2>1 DEF LevelsUpTo, Reach
<1>3. \A n \in 0..no_of_times :
        Reach(web)[n] = IF n = 0 THEN {Start} ELSE UNION {ToSet(web[u]) : u \in Reach(web)[n - 1]}
  BY <1>2 DEF LevelsUpTo
<1>4. 0 \in 0..no_of_times /\ \A n \in 1..no_of_times : n \in 0..no_of_times /\ n # 0
  BY CrawlerAssumption
<1>5. QED
  BY <1>1, <1>3, <1>4

LEMMA ReachKept == UNCHANGED web => UNCHANGED reach
<1>1. reach = Reach(web)
  BY ReachEquation
<1>2. reach' = Reach(web')
  BY DEF reach, Reach
<1>3. QED
  BY <1>1, <1>2

-----------------------------------------------------------------------------
(* The search is breadth-first as long as the barrier holds.  While         *)
(* url_level is L, to_do holds pages of level L and to_do_next pages of     *)
(* level L + 1; a page listed with a label up to L has been crawled, or is  *)
(* in to_do or in the hands of a thread.  At the swap to_do is empty and no *)
(* thread holds a page, so all of level L has been crawled, its links, and  *)
(* thus all of level L + 1, are listed, and url_level may be raised.        *)

Listed == ToSet(crawl_list)
Done   == ToSet(done_list)

\* A thread is in a round only while there is a level to crawl, and leaves its
\* loop when there is none (new.cpp:53).
LevelsLeft ==
  /\ url_level <= no_of_times
  /\ \A t \in Thread :
       /\ pc[t] \in {"poll", "claim", "fetch", "links", "link", "arrive", "waiting", "swap"}
            => url_level < no_of_times
       /\ pc[t] = "exit" => url_level = no_of_times

\* main has waited for a thread before it goes on, whatever a thread has made of
\* the i that main counts with.
MainWaits ==
  /\ joining = 0 => /\ mpc \notin {"joining"} \cup AfterJoins
                    /\ mpc = "join" => i = 0
  /\ joining # 0 /\ mpc \in {"join"} \cup AfterJoins => \E t \in Thread : pc[t] = "exit"

\* Who has come to the barrier found to_do empty, and it stays so until all have.
NothingLeft ==
  \A t \in Thread : ~donemutex /\ pc[t] \in {"arrive", "waiting"} => to_do = <<>>

\* The level of the pages in to_do: the swap brings in those of the next one.
Ahead == IF donemutex THEN url_level + 1 ELSE url_level

QueuesOfLevel ==
  /\ ToSet(to_do) \subseteq reach[Ahead]
  /\ \A u \in ToSet(to_do_next) : url_level < no_of_times /\ u \in reach[url_level + 1]
  /\ \A t \in Thread : pc[t] \in {"claim", "fetch", "links", "link"} => url[t] \in reach[url_level]

\* A label is a distance, the shortest one, and at most one ahead of url_level.
Labelled ==
  \A j \in DOMAIN crawl_list :
    /\ label_list[j] \in 1..no_of_times /\ label_list[j] <= url_level + 1
    /\ crawl_list[j] \in reach[label_list[j]]
    /\ \A n \in 1..(label_list[j] - 1) : crawl_list[j] \notin reach[n]

\* No page of the levels up to url_level is missing.
LevelsListed == \A n \in 1..url_level : reach[n] \subseteq Listed

InHand(u) == \/ u \in Done
             \/ ~donemutex /\ (u \in ToSet(to_do) \/ \E t \in Thread : pc[t] = "claim" /\ url[t] = u)

\* No page of those levels is forgotten: it has been crawled or will be.
DueInHand ==
  /\ InHand(Start)
  /\ \A j \in DOMAIN crawl_list : label_list[j] <= url_level => InHand(crawl_list[j])

\* A page of the next level waits for it.
NextQueued ==
  \A j \in DOMAIN crawl_list : label_list[j] = url_level + 1 =>
    crawl_list[j] \in ToSet(to_do_next) \/ (donemutex /\ crawl_list[j] \in ToSet(to_do))

\* The links of a page that has been crawled are listed, those of a page that is
\* being crawled as far as i has come (new.cpp:71-91).
LinksListed ==
  /\ \A u \in Done : ToSet(web[u]) \subseteq Listed \/ \E t \in Thread : Parsing(t) /\ url[t] = u
  /\ \A t \in Thread : Storing(t) =>
       \A k \in 1..Len(web[url[t]]) : k <= i => web[url[t]][k] \in Listed

Rounds == LevelsLeft /\ MainWaits /\ NothingLeft
Search == QueuesOfLevel /\ Labelled /\ LevelsListed /\ DueInHand /\ NextQueued /\ LinksListed

BreadthFirst == Undisturbed => Rounds /\ Search

LEMMA InitBreadthFirst == Init => BreadthFirst
<1> SUFFICES ASSUME Init PROVE Rounds /\ Search
  BY DEF BreadthFirst
<1> USE CrawlerAssumption DEF Init
<1>1. Rounds
  BY DEF Rounds, LevelsLeft, MainWaits, NothingLeft, AfterJoins
<1>2. ToSet(to_do) = {Start} /\ ToSet(to_do_next) = {} /\ Done = {} /\ DOMAIN crawl_list = {}
  BY DEF ToSet, Done
<1>3. QueuesOfLevel
  <2>1. reach[0] = {Start}
    BY ReachEquation
  <2>2. QED
    BY <1>2, <2>1 DEF QueuesOfLevel, Ahead
<1>4. Labelled /\ LevelsListed /\ NextQueued
  BY <1>2 DEF Labelled, LevelsListed, NextQueued
<1>5. DueInHand
  BY <1>2 DEF DueInHand, InHand
<1>6. LinksListed
  BY <1>2 DEF LinksListed, Storing
<1>7. QED
  BY <1>1, <1>3, <1>4, <1>5, <1>6 DEF Search

LEMMA AppendSet ==
  ASSUME NEW S, NEW s \in Seq(S), NEW e \in S
  PROVE  ToSet(Append(s, e)) = ToSet(s) \cup {e}
<1>1. /\ DOMAIN s = 1..Len(s) /\ Len(s) \in Nat
      /\ DOMAIN Append(s, e) = 1..(Len(s) + 1)
      /\ \A j \in 1..Len(s) : Append(s, e)[j] = s[j]
      /\ Append(s, e)[Len(s) + 1] = e
  BY LenProperties, AppendProperties
<1>2. QED
  BY <1>1 DEF ToSet

LEMMA TailSet ==
  ASSUME NEW S, NEW s \in Seq(S), s # <<>>
  PROVE  ToSet(s) = {Head(s)} \cup ToSet(Tail(s))
<1>1. /\ DOMAIN s = 1..Len(s) /\ Len(s) \in Nat \ {0} /\ Head(s) = s[1]
      /\ DOMAIN Tail(s) = 1..(Len(s) - 1)
      /\ \A j \in 1..(Len(s) - 1) : Tail(s)[j] = s[j + 1]
  BY LenProperties, EmptySeq, HeadTailProperties
<1>2. \A j \in 1..Len(s) : j = 1 \/ j - 1 \in 1..(Len(s) - 1)
  BY <1>1
<1>3. \A j \in 1..(Len(s) - 1) : j + 1 \in 1..Len(s)
  BY <1>1
<1>4. ASSUME NEW e \in ToSet(s) PROVE e \in {Head(s)} \cup ToSet(Tail(s))
  <2>1. PICK j \in 1..Len(s) : e = s[j]
    BY <1>1 DEF ToSet
  <2>2. CASE j = 1
    BY <1>1, <2>1, <2>2
  <2>3. CASE j # 1
    <3>1. j - 1 \in 1..(Len(s) - 1) /\ (j - 1) + 1 = j
      BY <1>1, <1>2, <2>3
    <3>2. Tail(s)[j - 1] = e
      BY <1>1, <2>1, <3>1
    <3>3. QED
      BY <1>1, <3>1, <3>2 DEF ToSet
  <2>4. QED
    BY <2>2, <2>3
<1>5. ASSUME NEW e \in {Head(s)} \cup ToSet(Tail(s)) PROVE e \in ToSet(s)
  BY <1>1, <1>3, <1>5 DEF ToSet
<1>6. QED
  BY <1>4, <1>5

\* The web and its levels never change.
LEMMA WebKept == [Next]_vars => UNCHANGED web /\ UNCHANGED reach
<1>1. [Next]_vars => UNCHANGED web
  BY DEF Next, Main, Step, vars, LockLevel, While, Poll, Claim, Fetch, NextLink, StoreLink,
       LinkOutOfRange, LinksStored, ArriveAndWait, ArriveLast, MovePage, RaiseLevel, Resume,
       WakeSpuriously, Create, Spawn, Increment, JoinNext, Joined, PrintLists, Destroy
<1>2. QED
  BY <1>1, ReachKept

\* What the barrier means to the others: donemutex stays locked from the arrival
\* of the last thread to the end of the swap, and no other thread moves.
LEMMA AtBarrier ==
  ASSUME IInv, Undisturbed
  PROVE  /\ donemutex => \A t \in Thread : pc[t] \in {"swap", "woken", "none"}
         /\ ~donemutex => \A t \in Thread : pc[t] # "swap"
<1>1. ASSUME donemutex PROVE \A t \in Thread : pc[t] \in {"swap", "woken", "none"}
  <2>1. PICK v \in 1..N : pc[v] = "swap" /\ \A u \in (1..N) \ {v} : pc[u] = "woken"
    BY <1>1 DEF IInv, Counted
  <2>2. v \in Thread
    BY CrawlerAssumption DEF Thread
  <2>3. QED
    BY <2>1, <2>2, SwapPlaces
<1>2. QED
  BY <1>1 DEF IInv, Counted

\* Who is where, from step to step.
LEMMA RoundsStep ==
  ASSUME IInv, [Next]_vars, Undisturbed, Undisturbed', Rounds
  PROVE  Rounds'
<1> USE CrawlerAssumption DEF Rounds, LevelsLeft, MainWaits, NothingLeft, Goto, queues, count, locks, main, past,
                         BeforeJoins, AfterJoins
<1>0. /\ pc \in [Thread -> ThreadAt] /\ url_level \in Nat /\ i \in Nat /\ N \in Nat \ {0}
      /\ CreatedInOrder /\ ~early
  BY DEF IInv, TypeOK, Undisturbed
<1>1. /\ donemutex => \A t \in Thread : pc[t] \in {"swap", "woken", "none"}
      /\ ~donemutex => \A t \in Thread : pc[t] # "swap"
  BY AtBarrier
<1>2. ASSUME NEW t \in Thread,
             LockLevel(t) \/ While(t) \/ Claim(t) \/ Resume(t)
      PROVE  Rounds'
  BY <1>0, <1>2 DEF LockLevel, While, Claim, Resume
<1>3. ASSUME NEW t \in Thread, Poll(t) PROVE Rounds'
  <2>1. UNCHANGED <<url_level, donemutex, mpc, joining, i>>
    BY <1>3 DEF Poll
  <2>2. LevelsLeft' /\ MainWaits'
    BY <1>0, <1>3, <2>1 DEF Poll
  <2>3. NothingLeft'
    <3>1. CASE to_do = <<>> /\ UNCHANGED to_do
      BY <3>1
    <3>2. CASE to_do # <<>> /\ pc' = [pc EXCEPT ![t] = "claim"]
      BY <1>0, <2>1, <3>2
    <3>3. QED
      BY <1>3, <3>1, <3>2 DEF Poll
  <2>4. QED
    BY <2>2, <2>3
<1>4. ASSUME NEW t \in Thread, Fetch(t) PROVE Rounds'
  <2>1. /\ UNCHANGED <<url_level, donemutex, joining, mpc, to_do>>
        /\ pc[t] = "fetch" /\ pc' = [pc EXCEPT ![t] = "links"]
    BY <1>4 DEF Fetch
  <2>2. joining # 0
    BY <1>4 DEF Fetch, Undisturbed
  <2>3. QED
    BY <1>0, <2>1, <2>2
<1>5. ASSUME NEW t \in Thread, NextLink(t) \/ StoreLink(t) \/ LinkOutOfRange(t) \/ LinksStored(t)
      PROVE  Rounds'
  <2>1. /\ UNCHANGED <<url_level, donemutex, joining, to_do>> /\ mpc' \in {mpc, "aborted"}
        /\ pc[t] \in {"links", "link"}
        /\ pc' \in {pc, [pc EXCEPT ![t] = "link"], [pc EXCEPT ![t] = "links"], [pc EXCEPT ![t] = "while"]}
    BY <1>5 DEF NextLink, StoreLink, LinkOutOfRange, LinksStored
  <2>2. joining # 0
    BY <1>0, <2>1 DEF CreatedInOrder, Storing
  <2>3. QED
    BY <1>0, <2>1, <2>2
<1>6. ASSUME NEW t \in Thread, ArriveAndWait(t) PROVE Rounds'
  BY <1>0, <1>6 DEF ArriveAndWait
<1>7. ASSUME NEW t \in Thread, ArriveLast(t) PROVE Rounds'
  <2>1. /\ UNCHANGED <<url_level, mpc, joining, i>> /\ donemutex' /\ pc[t] = "arrive"
        /\ \A u \in Thread : pc'[u] = IF u = t THEN "swap"
                                      ELSE IF pc[u] = "waiting" THEN "woken" ELSE pc[u]
    BY <1>7 DEF ArriveLast
  <2>2. QED
    BY <1>0, <2>1
<1>8. ASSUME NEW t \in Thread, MovePage(t) PROVE Rounds'
  BY <1>0, <1>1, <1>8 DEF MovePage
<1>9. ASSUME NEW t \in Thread, RaiseLevel(t) PROVE Rounds'
  <2>1. /\ url_level' = url_level + 1 /\ pc' = [pc EXCEPT ![t] = "while"] /\ pc[t] = "swap"
        /\ UNCHANGED <<mpc, joining, i, to_do>>
    BY <1>9 DEF RaiseLevel
  <2>2. \A u \in Thread : u # t => pc[u] \in {"woken", "none"}
    BY <2>1, SwapPlaces
  <2>3. QED
    BY <1>0, <2>1, <2>2
<1>10. CASE Create \/ Increment
  <2>1. /\ UNCHANGED <<url_level, donemutex, to_do, joining, pc>> /\ mpc \in BeforeJoins
        /\ mpc' \in {"create", "spawn", "join"} /\ (mpc' = "join" => i' = 0)
    BY <1>10 DEF Create, Increment
  <2>2. joining = 0
    BY <1>0, <2>1 DEF CreatedInOrder
  <2>3. QED
    BY <1>0, <2>1, <2>2
<1>16. CASE Spawn
  <2>1. /\ UNCHANGED <<url_level, donemutex, to_do, joining>> /\ mpc \in BeforeJoins
        /\ mpc' \in {"increment", "undefined"}
        /\ pc' = pc \/ pc' = [pc EXCEPT ![created + 1] = "lock2"]
    BY <1>16 DEF Spawn
  <2>2. joining = 0
    BY <1>0, <2>1 DEF CreatedInOrder
  <2>3. QED
    BY <1>0, <2>1, <2>2
<1>11. CASE JoinNext
  BY <1>0, <1>11 DEF JoinNext
<1>12. CASE Joined
  <2>1. joining # 0
    BY <1>12 DEF Joined
  <2>2. joining \in Thread /\ pc[joining] = "exit"
    BY <1>12, <2>1, CrawlerAssumption DEF Joined, Thread, IInv, TypeOK
  <2>3. QED
    BY <1>0, <1>12, <2>1, <2>2 DEF Joined
<1>13. CASE PrintLists \/ Destroy
  BY <1>0, <1>13 DEF PrintLists, Destroy
<1>14. CASE UNCHANGED vars
  BY <1>14 DEF vars
<1>15. QED
  BY <1>2, <1>3, <1>4, <1>5, <1>6, <1>7, <1>8, <1>9, <1>10, <1>11, <1>12, <1>13, <1>14,
     <1>16, StaysUndisturbed DEF Next, Main, Step

Busy(t) == pc[t] = "claim" \/ Parsing(t)

\* Steps that leave the queues, the lists, url_level and the pages in the hands of
\* threads as they are.
LEMMA OtherSteps ==
  ASSUME IInv, Search, UNCHANGED <<web, reach, to_do, to_do_next, done_list, crawl_list, label_list,
                                   url_level, donemutex>>,
         \A t \in Thread : Busy(t) \/ Busy(t)' =>
           /\ (pc[t] = "claim") <=> (pc'[t] = "claim")
           /\ (pc[t] = "fetch") <=> (pc'[t] = "fetch")
           /\ Storing(t) <=> Storing(t)'
           /\ url'[t] = url[t],
         \A t \in Thread : Storing(t) => i' = i
  PROVE  Search'
<1> USE DEF Search, Listed, Done, Busy, Parsing, Storing
<1>1. QueuesOfLevel' /\ Labelled' /\ LevelsListed' /\ NextQueued'
  BY DEF QueuesOfLevel, Ahead, Labelled, LevelsListed, NextQueued
<1>2. \A u : InHand(u) => InHand(u)'
  BY DEF InHand
<1>3. DueInHand'
  BY <1>2 DEF DueInHand
<1>4. LinksListed'
  <2>1. \A t \in Thread : Parsing(t) => Parsing(t)' /\ url'[t] = url[t]
    BY DEF Parsing
  <2>2. \A u \in Done : ToSet(web[u]) \subseteq Listed \/ \E t \in Thread : Parsing(t)' /\ url'[t] = u
    BY <2>1 DEF LinksListed
  <2>3. \A t \in Thread : Storing(t)' => Storing(t) /\ url'[t] = url[t] /\ i' = i
    OBVIOUS
  <2>4. QED
    BY <2>2, <2>3 DEF LinksListed
<1>5. QED
  BY <1>1, <1>3, <1>4

\* A page taken from to_do is in the hands of the thread that took it.
LEMMA PollStep ==
  ASSUME IInv, Undisturbed, Rounds, Search, NEW t \in Thread, Poll(t), UNCHANGED reach
  PROVE  Search'
<1> USE DEF Goto, lists, count, locks
<1>0. /\ pc \in [Thread -> ThreadAt] /\ url \in [Thread -> DOMAIN web]
      /\ to_do \in Seq(DOMAIN web)
  BY DEF IInv, TypeOK
<1>1. /\ UNCHANGED <<web, to_do_next, done_list, crawl_list, label_list, url_level, donemutex, i>>
      /\ pc[t] = "poll"
  BY DEF Poll
<1>2. ~donemutex
  BY <1>1, AtBarrier
<1>3. CASE to_do = <<>>
  BY <1>0, <1>1, <1>3, OtherSteps DEF Poll, Busy, Parsing, Storing
<1>4. CASE to_do # <<>>
  <2> USE DEF Search, Listed, Done
  <2>1. /\ to_do' = Tail(to_do) /\ url' = [url EXCEPT ![t] = Head(to_do)]
        /\ pc' = [pc EXCEPT ![t] = "claim"]
    BY <1>4 DEF Poll
  <2>2. ToSet(to_do) = {Head(to_do)} \cup ToSet(to_do')
    BY <1>0, <1>4, <2>1, TailSet
  <2>3. \A u \in Thread : u # t => pc'[u] = pc[u] /\ url'[u] = url[u]
    BY <1>0, <2>1
  <2>4. pc'[t] = "claim" /\ url'[t] = Head(to_do)
    BY <1>0, <2>1
  <2>5. QueuesOfLevel'
    BY <1>1, <1>2, <2>2, <2>3, <2>4 DEF QueuesOfLevel, Ahead
  <2>6. Labelled' /\ LevelsListed' /\ NextQueued'
    BY <1>1, <1>2 DEF Labelled, LevelsListed, NextQueued
  <2>7. \A u : InHand(u) => InHand(u)'
    BY <1>1, <1>2, <2>2, <2>3, <2>4 DEF InHand
  <2>8. DueInHand'
    BY <1>1, <2>7 DEF DueInHand
  <2>9. LinksListed'
    <3>1. \A v \in Thread : Parsing(v) => Parsing(v)' /\ url'[v] = url[v]
      BY <1>1, <2>3 DEF Parsing
    <3>2. \A u \in Done : ToSet(web[u]) \subseteq Listed \/ \E v \in Thread : Parsing(v)' /\ url'[v] = u
      BY <3>1 DEF LinksListed
    <3>3. \A v \in Thread : Storing(v)' => Storing(v) /\ url'[v] = url[v]
      BY <2>3, <2>4 DEF Storing
    <3>4. QED
      BY <1>1, <3>2, <3>3 DEF LinksListed
  <2>10. QED
    BY <2>5, <2>6, <2>8, <2>9
<1>5. QED
  BY <1>3, <1>4

\* A page that is claimed has been crawled before or is crawled now.
LEMMA ClaimStep ==
  ASSUME IInv, Undisturbed, Rounds, Search, NEW t \in Thread, Claim(t), UNCHANGED reach
  PROVE  Search'
<1> USE DEF Search, Listed, Goto, lists, count, queues
<1>0. /\ pc \in [Thread -> ThreadAt] /\ url \in [Thread -> DOMAIN web]
      /\ done_list \in Seq(DOMAIN web)
  BY DEF IInv, TypeOK
<1>1. /\ UNCHANGED <<web, to_do, to_do_next, crawl_list, label_list, url_level, donemutex, i, url>>
      /\ pc[t] = "claim" /\ ~to_do_mutex
  BY DEF Claim
<1>2. ~donemutex /\ ~donemutex'
  BY <1>1, AtBarrier
<1>3. \A u \in Thread : u # t => pc'[u] = pc[u]
  BY <1>0 DEF Claim
<1>4. /\ pc'[t] \in {"while", "fetch"} /\ Done' = Done \cup {url[t]}
      /\ (url[t] \in Done \/ pc'[t] = "fetch")
  <2>1. CASE url[t] \in ToSet(done_list)
    BY <1>0, <2>1 DEF Claim, Done
  <2>2. CASE url[t] \notin ToSet(done_list)
    <3>1. done_list' = Append(done_list, url[t]) /\ pc' = [pc EXCEPT ![t] = "fetch"]
      BY <2>2 DEF Claim
    <3>2. ToSet(done_list') = ToSet(done_list) \cup {url[t]}
      BY <1>0, <3>1, AppendSet
    <3>3. QED
      BY <1>0, <3>1, <3>2 DEF Done
  <2>3. QED
    BY <2>1, <2>2
<1>5. QueuesOfLevel'
  BY <1>1, <1>2, <1>3, <1>4 DEF QueuesOfLevel, Ahead
<1>6. Labelled' /\ LevelsListed' /\ NextQueued'
  BY <1>1 DEF Labelled, LevelsListed, NextQueued
<1>7. \A u : InHand(u) => InHand(u)'
  BY <1>1, <1>2, <1>3, <1>4 DEF InHand
<1>8. DueInHand'
  BY <1>1, <1>7 DEF DueInHand
<1>9. LinksListed'
  <2>1. \A v \in Thread : Parsing(v) => Parsing(v)' /\ url'[v] = url[v]
    BY <1>1, <1>3 DEF Parsing
  <2>2. \A u \in Done' : u \in Done \/ (Parsing(t)' /\ url'[t] = u)
    BY <1>1, <1>4 DEF Parsing
  <2>3. \A u \in Done' : ToSet(web[u]) \subseteq Listed \/ \E v \in Thread : Parsing(v)' /\ url'[v] = u
    BY <2>1, <2>2 DEF LinksListed
  <2>4. \A v \in Thread : Storing(v)' => Storing(v) /\ url'[v] = url[v]
    BY <1>1, <1>3, <1>4 DEF Storing
  <2>5. QED
    BY <1>1, <2>3, <2>4 DEF LinksListed
<1>10. QED
  BY <1>5, <1>6, <1>8, <1>9

\* The links of a page begin to be stored, or all of them have been.
LEMMA FetchAndLinksStoredStep ==
  ASSUME IInv, Undisturbed, Rounds, Search, NEW t \in Thread, Fetch(t) \/ LinksStored(t), UNCHANGED reach
  PROVE  Search'
<1> USE DEF Search, Listed, Done, Goto, lists, count, queues, locks
<1>0. /\ pc \in [Thread -> ThreadAt] /\ url \in [Thread -> DOMAIN web] /\ i \in Nat
  BY DEF IInv, TypeOK
<1>1. /\ UNCHANGED <<web, to_do, to_do_next, done_list, crawl_list, label_list, url_level, donemutex, url>>
      /\ Parsing(t)
  BY DEF Fetch, LinksStored, Parsing
<1>2. /\ \A u \in Thread : u # t => pc'[u] = pc[u]
      /\ \/ pc[t] = "fetch" /\ pc'[t] = "links" /\ i' = 0
         \/ pc[t] = "links" /\ pc'[t] = "while" /\ i >= Len(web[url[t]]) /\ i' = i
  BY <1>0 DEF Fetch, LinksStored
<1>3. \A u \in Thread : u # t => ~Parsing(u)
  BY <1>1 DEF IInv, LinksAlone
<1>4. QueuesOfLevel'
  BY <1>1, <1>2 DEF QueuesOfLevel, Ahead
<1>5. Labelled' /\ LevelsListed' /\ NextQueued'
  BY <1>1 DEF Labelled, LevelsListed, NextQueued
<1>6. \A u : InHand(u) => InHand(u)'
  BY <1>1, <1>2 DEF InHand
<1>7. DueInHand'
  BY <1>1, <1>6 DEF DueInHand
<1>8. LinksListed'
  <2>1. CASE pc[t] = "fetch"
    <3>1. pc'[t] = "links" /\ i' = 0
      BY <1>2, <2>1
    <3>2. \A v \in Thread : Parsing(v) => Parsing(v)' /\ url'[v] = url[v]
      BY <1>1, <1>2, <3>1 DEF Parsing
    <3>3. \A v \in Thread : Storing(v)' => v = t
      BY <1>2, <1>3 DEF Parsing, Storing
    <3>4. \A v : \A k \in 1..Len(web[url[v]]) : ~(k <= 0)
      OBVIOUS
    <3>5. QED
      BY <1>1, <3>1, <3>2, <3>3, <3>4 DEF LinksListed
  <2>2. CASE pc[t] = "links"
    <3>1. pc'[t] = "while" /\ i >= Len(web[url[t]]) /\ i' = i
      BY <1>2, <2>2
    <3>2. ToSet(web[url[t]]) \subseteq Listed
      <4>1. web[url[t]] \in Seq(DOMAIN web)
        BY <1>0, CrawlerAssumption DEF IInv, TypeOK
      <4>2. DOMAIN web[url[t]] = 1..Len(web[url[t]]) /\ Len(web[url[t]]) \in Nat
        BY <4>1, LenProperties
      <4>3. \A k \in 1..Len(web[url[t]]) : k <= i
        BY <1>0, <3>1, <4>2
      <4>4. \A k \in 1..Len(web[url[t]]) : web[url[t]][k] \in Listed
        BY <2>2, <4>3 DEF LinksListed, Storing
      <4>5. QED
        BY <4>2, <4>4 DEF ToSet
    <3>3. \A v \in Thread : ~Storing(v)'
      BY <1>2, <1>3, <3>1 DEF Parsing, Storing
    <3>4. \A u \in Done : ToSet(web[u]) \subseteq Listed
      BY <1>3, <3>2 DEF LinksListed
    <3>5. QED
      BY <1>1, <3>3, <3>4 DEF LinksListed
  <2>3. QED
    BY <1>2, <2>1, <2>2
<1>9. QED
  BY <1>4, <1>5, <1>7, <1>8

\* A link is queued, and listed with the next level unless it is listed already:
\* no level up to url_level holds it then, since all their pages are listed.
LEMMA StoreLinkStep ==
  ASSUME IInv, Undisturbed, Rounds, Search, NEW t \in Thread, StoreLink(t), UNCHANGED reach
  PROVE  Search'
<1> DEFINE link == web[url[t]][i + 1]
<1> USE DEF Search, Listed, Done, count, locks
<1>0. /\ url_level \in Nat /\ no_of_times \in Nat /\ i \in Nat
      /\ to_do_next \in Seq(DOMAIN web) /\ crawl_list \in Seq(DOMAIN web)
      /\ label_list \in Seq(Nat) /\ Len(label_list) = Len(crawl_list)
  BY CrawlerAssumption DEF IInv, TypeOK
<1>1. /\ UNCHANGED <<web, to_do, done_list, url_level, donemutex, url>>
      /\ pc[t] = "link" /\ i' = i + 1 /\ i < Len(web[url[t]])
      /\ to_do_next' = Append(to_do_next, link) /\ pc' = [pc EXCEPT ![t] = "links"]
  BY DEF StoreLink, Goto
<1>p. \A v \in Thread : IF v = t THEN pc'[v] = "links" ELSE pc'[v] = pc[v]
  BY <1>1 DEF IInv, TypeOK
<1>2. ~donemutex /\ url_level < no_of_times
  BY <1>1, AtBarrier DEF Rounds, LevelsLeft
<1>3. link \in DOMAIN web
  BY <1>1, LinkIsPage DEF IInv
<1>4. link \in reach[url_level + 1]
  <2>1. web[url[t]] \in Seq(DOMAIN web)
    BY CrawlerAssumption DEF IInv, TypeOK
  <2>2. i + 1 \in DOMAIN web[url[t]]
    BY <1>0, <1>1, <2>1, LenProperties
  <2>3. link \in ToSet(web[url[t]])
    BY <2>2 DEF ToSet
  <2>4. url[t] \in reach[url_level]
    BY <1>1 DEF QueuesOfLevel
  <2>5. url_level + 1 \in 1..no_of_times /\ (url_level + 1) - 1 = url_level
    BY <1>0, <1>2
  <2>6. reach[url_level + 1] = UNION {ToSet(web[u]) : u \in reach[url_level]}
    BY <2>5, ReachEquation
  <2>7. QED
    BY <2>3, <2>4, <2>6
<1>5. ToSet(to_do_next') = ToSet(to_do_next) \cup {link}
  BY <1>0, <1>1, <1>3, AppendSet
<1>6. /\ Listed' = Listed \cup {link}
      /\ \A j \in DOMAIN crawl_list' :
           \/ /\ j \in DOMAIN crawl_list
              /\ crawl_list'[j] = crawl_list[j] /\ label_list'[j] = label_list[j]
           \/ /\ link \notin Listed
              /\ crawl_list'[j] = link /\ label_list'[j] = url_level + 1
  <2>1. CASE link \in Listed
    BY <2>1 DEF StoreLink
  <2>2. CASE link \notin Listed
    <3>1. crawl_list' = Append(crawl_list, link) /\ label_list' = Append(label_list, url_level + 1)
      BY <2>2 DEF StoreLink
    <3>2. Listed' = Listed \cup {link}
      BY <1>0, <1>3, <3>1, AppendSet
    <3>3. /\ Len(crawl_list) \in Nat
          /\ DOMAIN crawl_list = 1..Len(crawl_list) /\ DOMAIN crawl_list' = 1..(Len(crawl_list) + 1)
          /\ \A j \in 1..Len(crawl_list) : crawl_list'[j] = crawl_list[j]
          /\ crawl_list'[Len(crawl_list) + 1] = link
      BY <1>0, <1>3, <3>1, LenProperties, AppendProperties
    <3>4. /\ \A j \in 1..Len(crawl_list) : label_list'[j] = label_list[j]
          /\ label_list'[Len(crawl_list) + 1] = url_level + 1
      <4>1. url_level + 1 \in Nat
        BY <1>0
      <4>2. QED
        BY <1>0, <3>1, <4>1, AppendProperties
    <3>5. \A j \in 1..(Len(crawl_list) + 1) : j \in 1..Len(crawl_list) \/ j = Len(crawl_list) + 1
      BY <3>3
    <3>6. QED
      BY <2>2, <3>2, <3>3, <3>4, <3>5
  <2>3. QED
    BY <2>1, <2>2
<1>7. QueuesOfLevel'
  BY <1>1, <1>p, <1>2, <1>4, <1>5 DEF QueuesOfLevel, Ahead
<1>8. Labelled'
  <2> SUFFICES ASSUME NEW j \in DOMAIN crawl_list'
               PROVE  /\ label_list'[j] \in 1..no_of_times /\ label_list'[j] <= url_level + 1
                      /\ crawl_list'[j] \in reach[label_list'[j]]
                      /\ \A n \in 1..(label_list'[j] - 1) : crawl_list'[j] \notin reach[n]
    BY <1>1 DEF Labelled
  <2>1. CASE /\ j \in DOMAIN crawl_list
             /\ crawl_list'[j] = crawl_list[j] /\ label_list'[j] = label_list[j]
    BY <2>1 DEF Labelled
  <2>2. CASE link \notin Listed /\ crawl_list'[j] = link /\ label_list'[j] = url_level + 1
    <3>1. \A n \in 1..url_level : link \notin reach[n]
      BY <2>2 DEF LevelsListed
    <3>2. /\ url_level + 1 \in 1..no_of_times /\ url_level + 1 <= url_level + 1
          /\ (url_level + 1) - 1 = url_level
      BY <1>0, <1>2
    <3>3. QED
      BY <1>4, <2>2, <3>1, <3>2
  <2>3. QED
    BY <1>6, <2>1, <2>2
<1>9. LevelsListed'
  BY <1>1, <1>6 DEF LevelsListed
<1>10. DueInHand'
  <2>1. \A u : InHand(u) => InHand(u)'
    BY <1>1, <1>p DEF InHand
  <2>2. ~(url_level + 1 <= url_level)
    BY <1>0
  <2>3. QED
    BY <1>1, <1>6, <2>1, <2>2 DEF DueInHand
<1>11. NextQueued'
  BY <1>1, <1>2, <1>5, <1>6 DEF NextQueued
<1>12. LinksListed'
  <2>1. \A u \in Done : ToSet(web[u]) \subseteq Listed' \/ \E v \in Thread : Parsing(v)' /\ url'[v] = u
    BY <1>1, <1>p, <1>6 DEF LinksListed, Parsing
  <2>2. ASSUME NEW v \in Thread, Storing(v)', NEW k \in 1..Len(web[url[v]]), k <= i'
        PROVE  web[url[v]][k] \in Listed'
    <3>1. v = t
      BY <1>1, <1>p, <2>2 DEF IInv, LinksAlone, Parsing, Storing
    <3>2. CASE k <= i
      BY <1>1, <1>6, <3>1, <3>2 DEF LinksListed, Storing
    <3>3. CASE k = i + 1
      BY <1>6, <3>1, <3>3
    <3>4. QED
      BY <1>0, <1>1, <2>2, <3>2, <3>3
  <2>3. QED
    BY <1>1, <2>1, <2>2 DEF LinksListed
<1>13. QED
  BY <1>7, <1>8, <1>9, <1>10, <1>11, <1>12

\* The last thread comes: to_do is empty and no thread holds a page, so that a
\* page in hand is a page that has been crawled.
LEMMA ArriveLastStep ==
  ASSUME IInv, Undisturbed, Rounds, Search, NEW t \in Thread, ArriveLast(t), UNCHANGED reach
  PROVE  Search'
<1> USE DEF Search, Listed, Done, lists
<1>0. pc \in [Thread -> ThreadAt] /\ url_level \in Nat
  BY DEF IInv, TypeOK
<1>1. /\ UNCHANGED <<web, to_do, to_do_next, done_list, crawl_list, label_list, url_level, url>>
      /\ pc[t] = "arrive" /\ ~donemutex /\ donemutex' /\ nthreads + 1 = N
      /\ \A u \in Thread : pc'[u] = IF u = t THEN "swap"
                                    ELSE IF pc[u] = "waiting" THEN "woken" ELSE pc[u]
  BY DEF ArriveLast, queues
<1>2. to_do = <<>>
  BY <1>1 DEF Rounds, NothingLeft
<1>3. ToSet(to_do) = {}
  BY <1>2 DEF ToSet
<1>4. t \in 1..N /\ \A u \in (1..N) \ {t} : pc[u] = "waiting"
  BY <1>1, AllOthersWait DEF IInv, Counted, Undisturbed
<1>n. \A u \in Thread : u \in 1..N \/ pc[u] = "none"
  BY CrawlerAssumption DEF IInv, TypeOK, ThreadsExist, CreatedInOrder, Undisturbed, Thread
<1>5. \A u \in Thread : /\ pc'[u] \in {"swap", "woken", "none"}
                         /\ pc[u] \notin {"claim", "fetch", "links", "link"}
  BY <1>1, <1>4, <1>n
<1>6. QueuesOfLevel'
  BY <1>1, <1>3, <1>5 DEF QueuesOfLevel
<1>7. Labelled' /\ LevelsListed' /\ NextQueued'
  BY <1>1 DEF Labelled, LevelsListed, NextQueued
<1>8. \A u : InHand(u) => InHand(u)'
  BY <1>1, <1>3, <1>5 DEF InHand
<1>9. DueInHand'
  BY <1>1, <1>8 DEF DueInHand
<1>10. LinksListed'
  BY <1>1, <1>5 DEF LinksListed, Parsing, Storing
<1>11. QED
  BY <1>6, <1>7, <1>9, <1>10

\* A page goes from to_do_next to to_do.
LEMMA MovePageStep ==
  ASSUME IInv, Undisturbed, Rounds, Search, NEW t \in Thread, MovePage(t), UNCHANGED reach
  PROVE  Search'
<1> USE DEF Search, Listed, Done, lists, count, locks
<1>0. to_do \in Seq(DOMAIN web) /\ to_do_next \in Seq(DOMAIN web) /\ to_do_next # <<>>
  BY DEF IInv, TypeOK, MovePage
<1>1. /\ UNCHANGED <<web, done_list, crawl_list, label_list, url_level, donemutex, pc, url, i>>
      /\ pc[t] = "swap"
      /\ to_do' = Append(to_do, Head(to_do_next)) /\ to_do_next' = Tail(to_do_next)
  BY DEF MovePage
<1>2. donemutex
  BY <1>1, AtBarrier
<1>3. /\ ToSet(to_do_next) = {Head(to_do_next)} \cup ToSet(to_do_next')
      /\ ToSet(to_do') = ToSet(to_do) \cup {Head(to_do_next)}
  <2>1. Head(to_do_next) \in DOMAIN web
    BY <1>0, HeadTailProperties
  <2>2. QED
    BY <1>0, <1>1, <2>1, TailSet, AppendSet
<1>4. QueuesOfLevel'
  BY <1>1, <1>2, <1>3 DEF QueuesOfLevel, Ahead
<1>5. Labelled' /\ LevelsListed'
  BY <1>1 DEF Labelled, LevelsListed
<1>6. NextQueued'
  BY <1>1, <1>2, <1>3 DEF NextQueued
<1>7. DueInHand'
  BY <1>1, <1>2 DEF DueInHand, InHand
<1>8. LinksListed'
  BY <1>1 DEF LinksListed, Parsing, Storing
<1>9. QED
  BY <1>4, <1>5, <1>6, <1>7, <1>8

\* The level is raised: its pages have all been crawled, so their links, which
\* are the pages of the next level, are listed.
LEMMA RaiseLevelStep ==
  ASSUME IInv, Undisturbed, Rounds, Search, NEW t \in Thread, RaiseLevel(t), UNCHANGED reach
  PROVE  Search'
<1> USE DEF Search, Listed, Done, lists, Goto
<1>0. /\ pc \in [Thread -> ThreadAt] /\ url_level \in Nat /\ no_of_times \in Nat
      /\ DOMAIN crawl_list = DOMAIN label_list /\ label_list \in Seq(Nat)
  BY CrawlerAssumption, LenProperties DEF IInv, TypeOK
<1>1. /\ UNCHANGED <<web, to_do, to_do_next, done_list, crawl_list, label_list, url>>
      /\ pc[t] = "swap" /\ to_do_next = <<>> /\ url_level' = url_level + 1 /\ ~donemutex'
      /\ pc' = [pc EXCEPT ![t] = "while"]
  BY DEF RaiseLevel, queues
<1>2. donemutex /\ \A u \in Thread : pc[u] \in {"swap", "woken", "none"}
  BY <1>1, AtBarrier
<1>3. \A u \in Thread : pc'[u] \in {"swap", "woken", "while", "none"}
  BY <1>0, <1>1, <1>2
<1>4. \A u : InHand(u) => u \in Done /\ InHand(u)'
  BY <1>1, <1>2 DEF InHand
<1>5. ToSet(to_do_next) = {}
  BY <1>1 DEF ToSet
<1>6. url_level < no_of_times /\ url_level + 1 \in 1..no_of_times /\ (url_level + 1) - 1 = url_level
  <2>1. url_level < no_of_times
    BY <1>1 DEF Rounds, LevelsLeft
  <2>2. QED
    BY <1>0, <2>1
<1>7. QueuesOfLevel'
  BY <1>1, <1>2, <1>3, <1>5 DEF QueuesOfLevel, Ahead
<1>8. Labelled'
  <2>1. \A j \in DOMAIN crawl_list : label_list[j] <= url_level + 1 => label_list[j] <= url_level' + 1
    BY <1>0, <1>1
  <2>2. QED
    BY <1>1, <2>1 DEF Labelled
<1>9. LevelsListed'
  <2>1. reach[url_level] \subseteq Done
    <3>1. CASE url_level = 0
      BY <1>4, <3>1, ReachEquation DEF DueInHand
    <3>2. CASE url_level # 0
      <4>1. url_level \in 1..url_level
        BY <1>0, <3>2
      <4>2. SUFFICES ASSUME NEW u \in reach[url_level] PROVE u \in Done
        OBVIOUS
      <4>3. PICK j \in DOMAIN crawl_list : crawl_list[j] = u
        BY <4>1 DEF LevelsListed, ToSet
      <4>4. label_list[j] <= url_level
        <5>1. /\ label_list[j] \in 1..no_of_times
              /\ \A n \in 1..(label_list[j] - 1) : u \notin reach[n]
          BY <4>3 DEF Labelled
        <5>2. SUFFICES ASSUME url_level < label_list[j] PROVE FALSE
          BY <1>0, <5>1
        <5>3. url_level \in 1..(label_list[j] - 1)
          BY <1>0, <3>2, <5>1, <5>2
        <5>4. QED
          BY <5>1, <5>3
      <4>5. QED
        BY <1>4, <4>3, <4>4 DEF DueInHand
    <3>3. QED
      BY <3>1, <3>2
  <2>2. \A u \in Done : ToSet(web[u]) \subseteq Listed
    BY <1>2 DEF LinksListed, Parsing
  <2>3. reach[url_level + 1] \subseteq Listed
    <3>1. reach[url_level + 1] = UNION {ToSet(web[u]) : u \in reach[url_level]}
      BY <1>6, ReachEquation
    <3>2. QED
      BY <2>1, <2>2, <3>1
  <2>4. \A n \in 1..(url_level + 1) : n \in 1..url_level \/ n = url_level + 1
    BY <1>0
  <2>5. QED
    BY <1>1, <2>3, <2>4 DEF LevelsListed
<1>10. DueInHand'
  <2>1. \A j \in DOMAIN crawl_list : label_list[j] <= url_level + 1 =>
           label_list[j] <= url_level \/ label_list[j] = url_level + 1
    BY <1>0
  <2>2. \A u \in ToSet(to_do) : InHand(u)'
    BY <1>1 DEF InHand
  <2>3. \A j \in DOMAIN crawl_list : label_list[j] = url_level + 1 => InHand(crawl_list[j])'
    BY <1>1, <1>5, <2>2 DEF NextQueued
  <2>4. QED
    BY <1>1, <1>4, <2>1, <2>3 DEF DueInHand
<1>11. NextQueued'
  <2>1. \A j \in DOMAIN crawl_list : label_list[j] # url_level' + 1
    BY <1>0, <1>1 DEF Labelled
  <2>2. QED
    BY <1>1, <2>1 DEF NextQueued
<1>12. LinksListed'
  BY <1>1, <1>2, <1>3 DEF LinksListed, Parsing, Storing
<1>13. QED
  BY <1>7, <1>8, <1>9, <1>10, <1>11, <1>12

LEMMA SearchStep ==
  ASSUME IInv, [Next]_vars, Undisturbed, Undisturbed', Rounds, Search
  PROVE  Search'
<1> USE DEF Goto, queues, lists, count, locks, main, Busy, Parsing, Storing
<1>0. /\ pc \in [Thread -> ThreadAt] /\ CreatedInOrder /\ ~early
      /\ created + 1 \in Thread => pc[created + 1] = "none"
  BY CrawlerAssumption DEF IInv, TypeOK, ThreadsExist, Undisturbed
<1>1. UNCHANGED reach
  BY WebKept
<1>2. ASSUME NEW t \in Thread,
             Poll(t) \/ Claim(t) \/ Fetch(t) \/ StoreLink(t) \/ LinksStored(t) \/ ArriveLast(t)
               \/ MovePage(t) \/ RaiseLevel(t)
      PROVE  Search'
  BY <1>1, <1>2, PollStep, ClaimStep, FetchAndLinksStoredStep, StoreLinkStep, ArriveLastStep,
     MovePageStep, RaiseLevelStep
<1>3. ASSUME NEW t \in Thread,
             \/ LockLevel(t) \/ While(t) \/ ArriveAndWait(t) \/ Resume(t)
             \/ NextLink(t) \/ LinkOutOfRange(t)
      PROVE  Search'
  BY <1>0, <1>1, <1>3, OtherSteps DEF LockLevel, While, ArriveAndWait, Resume, NextLink, LinkOutOfRange
<1>4. CASE Create \/ Increment
  <2>1. \A t \in Thread : ~Storing(t)
    BY <1>0, <1>4 DEF Create, Increment, CreatedInOrder, BeforeJoins
  <2>2. QED
    BY <1>1, <1>4, <2>1, OtherSteps DEF Create, Increment
<1>8. CASE Spawn
  <2>1. /\ UNCHANGED <<web, to_do, to_do_next, done_list, crawl_list, label_list, url_level, donemutex,
                       url, i>>
        /\ pc' = pc \/ pc' = [pc EXCEPT ![created + 1] = "lock2"]
    BY <1>8 DEF Spawn
  <2>2. QED
    BY <1>0, <1>1, <2>1, OtherSteps
<1>5. CASE JoinNext \/ Destroy \/ UNCHANGED vars
  BY <1>1, <1>5, OtherSteps DEF JoinNext, Destroy, vars
<1>6. CASE Joined \/ PrintLists
  <2>1. \E t \in Thread : pc[t] = "exit"
    <3>1. CASE Joined
      <4>1. joining # 0
        BY <3>1 DEF Joined, Rounds, MainWaits
      <4>2. joining \in Thread /\ pc[joining] = "exit"
        BY <3>1, <4>1, CrawlerAssumption DEF Joined, Thread, IInv, TypeOK
      <4>3. QED
        BY <4>2
    <3>2. CASE PrintLists
      BY <3>2 DEF PrintLists, Rounds, MainWaits, AfterJoins
    <3>3. QED
      BY <1>6, <3>1, <3>2
  <2>2. url_level = no_of_times
    BY <2>1 DEF Rounds, LevelsLeft
  <2>3. \A t \in Thread : ~Storing(t)
    BY <2>2, CrawlerAssumption DEF Rounds, LevelsLeft
  <2>4. QED
    BY <1>1, <1>6, <2>3, OtherSteps DEF Joined, PrintLists
<1>7. QED
  BY <1>2, <1>3, <1>4, <1>5, <1>6, <1>8, StaysUndisturbed DEF Next, Main, Step

LEMMA SpecBreadthFirst == Spec => []BreadthFirst
<1>1. IInv /\ BreadthFirst /\ [Next]_vars => BreadthFirst'
  BY RoundsStep, SearchStep, StaysUndisturbed DEF BreadthFirst
<1>2. QED
  BY InitBreadthFirst, SpecIInv, <1>1, PTL DEF Spec

-----------------------------------------------------------------------------
\* The counters stay in range, the queues and lists hold pages of the web.
THEOREM TypeCorrect == Spec => []TypeOK
<1>1. IInv => TypeOK
  BY DEF IInv
<1>2. QED
  BY <1>1, SpecIInv, PTL

\* No page is crawled twice and none is listed twice, however many threads have
\* taken the same page from to_do, and whether or not the barrier holds
\* (new.cpp:65-85).
THEOREM NoPageTwice == Spec => [](CrawledOnce /\ ListedOnce)
<1>1. IInv => CrawledOnce /\ ListedOnce
  BY DEF IInv
<1>2. QED
  BY <1>1, SpecIInv, PTL

\* The threads that fetch a page and loop over its links share the global i;
\* never are there two of them (new.cpp:63-94).
THEOREM OneParser == Spec => []LinksAlone
<1>1. IInv => LinksAlone
  BY DEF IInv
<1>2. QED
  BY <1>1, SpecIInv, PTL

\* In an undisturbed run the thread that moves to_do_next into to_do is alone, so
\* that neither queue needs a mutex there (new.cpp:110-124).
THEOREM SwapperIsAlone == Spec => []SwapAlone
<1>1. IInv => SwapAlone
  <2> SUFFICES ASSUME IInv, Undisturbed, NEW t \in 1..created, pc[t] = "swap",
                      NEW u \in (1..created) \ {t}
               PROVE  pc[u] \in {"waiting", "woken"}
    BY DEF SwapAlone
  <2>1. t \in Thread /\ u \in Thread /\ ~(u > created)
    BY CrawlerAssumption DEF IInv, TypeOK, Thread
  <2>2. pc[u] # "none"
    BY <2>1 DEF IInv, ThreadsExist
  <2>3. QED
    BY <2>1, <2>2, SwapPlaces
<1>2. QED
  BY <1>1, SpecIInv, PTL

\* In an undisturbed run each page is listed once, and the level printed with
\* it is its distance from the start page, the shortest one, although the threads
\* meet the links in any order (new.cpp:75-85, 101-124).
THEOREM LevelsExact == Spec => []LevelsAreDistances
<1>1. IInv /\ BreadthFirst => LevelsAreDistances
  <2> SUFFICES ASSUME IInv, BreadthFirst, Undisturbed
               PROVE  /\ IsInjective(crawl_list)
                      /\ \A j \in DOMAIN crawl_list :
                           /\ crawl_list[j] \in reach[label_list[j]]
                           /\ \A n \in 1..(label_list[j] - 1) : crawl_list[j] \notin reach[n]
    BY DEF LevelsAreDistances
  <2>1. IsInjective(crawl_list)
    BY DEF IInv, ListedOnce
  <2>2. Labelled
    BY DEF BreadthFirst, Search
  <2>3. QED
    BY <2>1, <2>2 DEF Labelled
<1>2. QED
  BY <1>1, SpecIInv, SpecBreadthFirst, PTL

\* The search is complete when main comes to print it: crawl_list holds the pages
\* of the levels 1 to no_of_times and no others (new.cpp:161-178), if no wait has
\* returned without a broadcast and main was in its first pthread_join when the
\* first page arrived.  Whatever the threads do to the i that main then counts its
\* joins with, it prints after at least one of them has left its loop.
THEOREM SearchComplete == Spec => []CompleteWhenPrinted
<1>1. IInv /\ BreadthFirst => CompleteWhenPrinted
  <2> SUFFICES ASSUME IInv, BreadthFirst, Undisturbed, mpc \in AfterJoins
               PROVE  Listed = UNION {reach[n] : n \in 1..no_of_times}
    BY DEF CompleteWhenPrinted, Listed
  <2>1. Rounds /\ Labelled /\ LevelsListed
    BY DEF BreadthFirst, Search
  <2>2. \E t \in Thread : pc[t] = "exit"
    BY <2>1 DEF Rounds, MainWaits, AfterJoins
  <2>3. url_level = no_of_times
    BY <2>1, <2>2 DEF Rounds, LevelsLeft
  <2>4. Listed \subseteq UNION {reach[n] : n \in 1..no_of_times}
    BY <2>1 DEF Labelled, Listed, ToSet
  <2>5. \A n \in 1..no_of_times : reach[n] \subseteq Listed
    BY <2>1, <2>3 DEF LevelsListed
  <2>6. QED
    BY <2>4, <2>5
<1>2. QED
  BY <1>1, SpecIInv, SpecBreadthFirst, PTL
=============================================================================
