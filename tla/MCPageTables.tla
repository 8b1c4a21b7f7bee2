--------------------------- MODULE MCPageTables ---------------------------
(***************************************************************************)
(* Tables of two entries, so that 16 pages span every level; a few calls   *)
(* that share tables at different levels, cross table boundaries, wrap     *)
(* around the address space, map frames that hold tables, or are rejected. *)
(***************************************************************************)
EXTENDS PageTables

Page(a, b, c, d) == [k \in Level |-> CASE k = 4 -> a [] k = 3 -> b [] k = 2 -> c [] k = 1 -> d]

MCJunk == {Unmapped, 3}

MCRequests ==
    {[v |-> Page(0, 0, 0, 1), p |-> 0, n |-> 2, aligned |-> TRUE],
     [v |-> Page(0, 0, 1, 0), p |-> 3, n |-> 1, aligned |-> TRUE],
     [v |-> Page(1, 1, 1, 1), p |-> 1, n |-> 2, aligned |-> TRUE],
     [v |-> Page(0, 0, 0, 0), p |-> 0, n |-> 0, aligned |-> TRUE],
     [v |-> Page(0, 0, 0, 0), p |-> 0, n |-> 1, aligned |-> FALSE]}

=============================================================================
