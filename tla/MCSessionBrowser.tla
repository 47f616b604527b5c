-------------------------- MODULE MCSessionBrowser --------------------------
(* Instances of SessionBrowser for TLC: connections, discoveries and requests are model values. *)
EXTENDS SessionBrowser

CONSTANTS c1, c2, d1, r1, r2, r3

Interchangeable == Permutations(Connects) \cup Permutations(Requests)

(* The bound of the run of the safety properties: two threads and two calls as long as
   there is no discovery, one thread and one call at a time from then on. *)
Crowd ==
  (\E d \in Discoveries : at[d] # "idle") =>
    Cardinality(busy) <= 1 /\ Cardinality(Pending \cap CallJobs) <= 1
=============================================================================
