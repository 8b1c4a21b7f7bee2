----------------------------- MODULE MCNyxBoot -----------------------------
(***************************************************************************)
(* A small machine for TLC: the loader's image in the first frame, four or *)
(* five frames of conventional memory and one the firmware keeps reserved. *)
(***************************************************************************)
EXTENDS NyxBoot

MCBootMaps ==
    {[f \in Frame |->
        CASE f = 0           -> "LoaderCode"
          [] f = NFrames - 1 -> "Reserved"
          [] OTHER           -> IF f \in B THEN "BsData" ELSE "Conventional"]
     : B \in {{}, {2}}}

MCGrantSizes ==
    [t \in Tag |-> CASE t \in {"sections", "pml4"} -> {1}
                     [] t = "tables" -> {1}
                     [] t = "memmap" -> {0, 1}
                     [] t = "bootinfo" -> {0, 1}
                     [] OTHER -> {0}]

=============================================================================
