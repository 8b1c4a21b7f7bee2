------------------------------- MODULE Paging -------------------------------
(***************************************************************************)
(* Virtual addresses as the page-table macros of memory.h see them.        *)
(***************************************************************************)
EXTENDS Integers

CONSTANT Entries   \* entries of a table: 512 on the machine

Level == 1 .. 4
Idx   == 0 .. Entries - 1

(* A page's virtual address is the four table indices PT_ENTRY (level 1)   *)
(* ... PML4_ENTRY (level 4) take from it.                                  *)
VAddr == [Level -> Idx]

(* vaddr += 0x1000: a carry runs through the indices.  Past the last       *)
(* index of the PML4 the address wraps, for the bits above are not used.   *)
NextPage(v) ==
    [l \in Level |-> IF \A k \in 1 .. l - 1 : v[k] = Entries - 1
                     THEN IF v[l] = Entries - 1 THEN 0 ELSE v[l] + 1
                     ELSE v[l]]

Unmapped == -1

=============================================================================
