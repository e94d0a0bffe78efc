------------------------------ MODULE MCCrawler ------------------------------
(* Webs small enough to crawl: pages that link back to the start page, a page *)
(* reachable at two distances, repeated links, a page that links to itself,   *)
(* pages without links.                                                       *)
EXTENDS Crawler

Diamond == [a |-> <<"b", "c">>, b |-> <<"c", "d">>, c |-> <<"d">>, d |-> <<"a">>]
Loops   == [a |-> <<"b", "b">>, b |-> <<"b", "a">>]
Lonely  == [a |-> <<>>]

MCWebs == {Diamond, Loops, Lonely}

(* A bound: a run that an early page has disturbed has no spurious wake-ups   *)
(* too, and once there are more threads than N it is followed as far as the   *)
(* first level only.                                                          *)
DisturbedOnce == early => /\ spurious = 0
                          /\ created > N => url_level = 0
=============================================================================
