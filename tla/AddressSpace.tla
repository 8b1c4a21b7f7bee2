---------------------------- MODULE AddressSpace ----------------------------
(***************************************************************************)
(* What mem_map_page, mem_map_pages and mem_free_tables (memory.c) promise *)
(* their caller: an address space in which each page is either unmapped or *)
(* maps to one physical page.  A call maps its pages one after the other   *)
(* and changes no other page; it may stop early, and then what it mapped   *)
(* so far stays.                                                           *)
(***************************************************************************)
EXTENDS Paging

CONSTANT Requests   \* the calls a caller may make

VARIABLES
    space,   \* the physical page of each virtual page, or Unmapped
    todo     \* what is left of the call in progress

AVars == <<space, todo>>

NoCall == [n |-> 0]

AInit ==
    /\ space = [v \in VAddr |-> Unmapped]
    /\ todo = NoCall

(* The caller asks for r.n pages from r.v to be mapped to those from r.p.  *)
ACall ==
    /\ todo = NoCall
    /\ \E r \in Requests : r.n > 0 /\ todo' = [v |-> r.v, p |-> r.p, n |-> r.n]
    /\ UNCHANGED space

AMapPage ==
    /\ todo # NoCall
    /\ space' = [space EXCEPT ![todo.v] = todo.p]
    /\ todo' = IF todo.n = 1 THEN NoCall
               ELSE [v |-> NextPage(todo.v), p |-> todo.p + 1, n |-> todo.n - 1]

AGiveUp ==
    /\ todo # NoCall
    /\ todo' = NoCall
    /\ UNCHANGED space

ATearDown ==
    /\ todo = NoCall
    /\ space' = [v \in VAddr |-> Unmapped]
    /\ UNCHANGED todo

ANext == ACall \/ AMapPage \/ AGiveUp \/ ATearDown

ASpec == AInit /\ [][ANext]_AVars

=============================================================================
