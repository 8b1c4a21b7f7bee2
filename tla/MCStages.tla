------------------------------ MODULE MCStages ------------------------------
(***************************************************************************)
(* Every configuration file of up to three options; three file systems,    *)
(* two of them on the same partition, the last two with the file of the    *)
(* search.                                                                 *)
(***************************************************************************)
EXTENDS Stages

CONSTANTS g1, g2, p1, p2

MCConfigs ==
    {[empty |-> TRUE, header |-> FALSE, options |-> <<>>],
     [empty |-> FALSE, header |-> FALSE, options |-> <<>>]}
    \cup {[empty |-> FALSE, header |-> TRUE, options |-> o]
          : o \in UNION {[1 .. n -> Option] : n \in 0 .. 3}}

MCVolumes == <<g1, g2, g1>>

=============================================================================
