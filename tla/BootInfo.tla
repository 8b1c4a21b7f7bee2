------------------------------ MODULE BootInfo ------------------------------
(***************************************************************************)
(* Building the boot information (bootinfo.c): bi_build_bootinfo with      *)
(* bi_build_memmap and bi_build_kernelmap, five pool allocations each of   *)
(* which may fail.  What was built so far is unwound through the pointers  *)
(* stored in the structure that is being given up, so pool memory is kept  *)
(* by address: a block has contents, which are junk when it is allocated   *)
(* and outlive FreePool.                                                   *)
(***************************************************************************)
EXTENDS Integers, Sequences

CONSTANTS
    Addr,          \* addresses of pool blocks
    NULL,
    Section,       \* records of loaded sections
    SectionLists   \* what elf_load_file may have recorded

Field == {"pMemMap", "pKernelMap", "pDescriptors"}
Ptr   == Addr \cup {NULL}

ASSUME PoolAssumption == NULL \notin Addr
ASSUME SectionAssumption == SectionLists \subseteq Seq(Section)

VARIABLES
    pc,        \* where bi_build_bootinfo is
    sections,  \* createInfo->elfSections
    info,      \* *bootInfo
    used,      \* blocks allocated
    ptr,       \* the pointers in a block
    count,     \* descriptorCount of a block
    descs,     \* the kernel sections described in a block
    bad        \* TRUE once a block not allocated was freed or accessed

heap == <<ptr, count, descs>>
vars == <<pc, sections, info, used, heap, bad>>

Terminal == {"built", "failed"}

(* efi_main starts with bootInfo = NULL; the pool holds anything.          *)
Init ==
    /\ pc = "bootinfo" /\ sections \in SectionLists
    /\ info = NULL /\ used = {} /\ bad = FALSE
    /\ \E p \in Ptr : ptr = [a \in Addr |-> [f \in Field |-> p]]
    /\ count = [a \in Addr |-> 0] /\ descs = [a \in Addr |-> <<>>]

-----------------------------------------------------------------------------
Fresh == Addr \ used

(* SetMem of a block's pointers to zero.                                   *)
Zeroed == [f \in Field |-> NULL]

Free(S) ==
    /\ used' = used \ S
    /\ bad' = (bad \/ ~(S \subseteq used))

AllocBootinfo ==
    /\ pc = "bootinfo"
    /\ \/ \E a \in Fresh :
            /\ used' = used \cup {a} /\ info' = a
            /\ ptr' = [ptr EXCEPT ![a] = Zeroed]
            /\ pc' = "memmap"
       \/ pc' = "failed" /\ UNCHANGED <<used, info, ptr>>
    /\ UNCHANGED <<sections, count, descs, bad>>

(* bi_build_memmap: the header, entered in the boot information as it is   *)
(* allocated, with room for 256 descriptors and more.                      *)
AllocMemmap ==
    /\ pc = "memmap"
    /\ \/ \E a \in Fresh :
            /\ used' = used \cup {a}
            /\ ptr' = [ptr EXCEPT ![info] = [@ EXCEPT !["pMemMap"] = a], ![a] = Zeroed]
            /\ count' = [count EXCEPT ![a] = 256]
            /\ pc' = "memmap_descs"
       \/ pc' = "fail_bootinfo" /\ UNCHANGED <<used, ptr, count>>
    /\ bad' = (bad \/ info \notin used)
    /\ UNCHANGED <<sections, info, descs>>

memmap    == ptr[info]["pMemMap"]
kernelMap == ptr[info]["pKernelMap"]

(* Mutant: the pointer to the freed header stays, and is unwound again.    *)
MutMemmapAgain ==
    /\ pc = "memmap_descs"
    /\ \/ \E a \in Fresh :
            /\ used' = used \cup {a}
            /\ ptr' = [ptr EXCEPT ![memmap] = [@ EXCEPT !["pDescriptors"] = a]]
            /\ pc' = "kernelmap"
            /\ UNCHANGED bad
       \/ Free({memmap}) /\ pc' = "fail_memmap" /\ UNCHANGED ptr
    /\ UNCHANGED <<sections, info, count, descs>>

(* The descriptors of the memory map, zeroed; without them the header is   *)
(* freed and its pointer reset.                                            *)
AllocMemmapDescs ==
    /\ pc = "memmap_descs"
    /\ \/ \E a \in Fresh :
            /\ used' = used \cup {a}
            /\ ptr' = [ptr EXCEPT ![memmap] = [@ EXCEPT !["pDescriptors"] = a]]
            /\ pc' = "kernelmap"
            /\ UNCHANGED bad
       \/ /\ Free({memmap})
          /\ ptr' = [ptr EXCEPT ![info] = [@ EXCEPT !["pMemMap"] = NULL]]
          /\ pc' = "fail_bootinfo"
    /\ UNCHANGED <<sections, info, count, descs>>

(* The kernel map's descriptorCount.                                       *)
SectionCount == Len(sections)

AllocKernelmap ==
    /\ pc = "kernelmap"
    /\ \/ \E a \in Fresh :
            /\ used' = used \cup {a}
            /\ ptr' = [ptr EXCEPT ![info] = [@ EXCEPT !["pKernelMap"] = a], ![a] = Zeroed]
            /\ count' = [count EXCEPT ![a] = SectionCount]
            /\ pc' = "kernelmap_descs"
       \/ pc' = "fail_memmap" /\ UNCHANGED <<used, ptr, count>>
    /\ bad' = (bad \/ info \notin used)
    /\ UNCHANGED <<sections, info, descs>>

(* Mutant: the descriptors are entered in the memory map.                  *)
MutWrongMap ==
    /\ pc = "kernelmap_descs"
    /\ \/ \E a \in Fresh :
            /\ used' = used \cup {a}
            /\ descs' = [descs EXCEPT ![a] = SubSeq(sections, 1, count[kernelMap])]
            /\ ptr' = [ptr EXCEPT ![memmap] = [@ EXCEPT !["pDescriptors"] = a]]
            /\ pc' = "built"
            /\ UNCHANGED bad
       \/ /\ Free({kernelMap})
          /\ ptr' = [ptr EXCEPT ![info] = [@ EXCEPT !["pKernelMap"] = NULL]]
          /\ pc' = "fail_memmap"
          /\ UNCHANGED descs
    /\ UNCHANGED <<sections, info, count>>

(* One descriptor for each section, copied from its record.                *)
AllocKernelmapDescs ==
    /\ pc = "kernelmap_descs"
    /\ \/ \E a \in Fresh :
            /\ used' = used \cup {a}
            /\ descs' = [descs EXCEPT ![a] = SubSeq(sections, 1, count[kernelMap])]
            /\ ptr' = [ptr EXCEPT ![kernelMap] = [@ EXCEPT !["pDescriptors"] = a]]
            /\ pc' = "built"
            /\ UNCHANGED bad
       \/ /\ Free({kernelMap})
          /\ ptr' = [ptr EXCEPT ![info] = [@ EXCEPT !["pKernelMap"] = NULL]]
          /\ pc' = "fail_memmap"
          /\ UNCHANGED descs
    /\ UNCHANGED <<sections, info, count>>

-----------------------------------------------------------------------------
(* Mutant: the descriptors of the memory map are forgotten.                *)
MutHeaderOnly == IF memmap = NULL THEN {} ELSE {memmap}

(* The blocks the label fail_memmap frees.                                 *)
MemmapBlocks ==
    IF memmap = NULL THEN {} ELSE {memmap, ptr[memmap]["pDescriptors"]} \ {NULL}

fail_memmap ==
    /\ pc = "fail_memmap"
    /\ Free(MemmapBlocks)
    /\ pc' = "fail_bootinfo"
    /\ UNCHANGED <<sections, info, heap>>

fail_bootinfo ==
    /\ pc = "fail_bootinfo"
    /\ Free({info})
    /\ info' = NULL
    /\ pc' = "failed"
    /\ UNCHANGED <<sections, heap>>

Terminated == pc \in Terminal /\ UNCHANGED vars

bi_build_bootinfo ==
    \/ AllocBootinfo \/ AllocMemmap \/ AllocMemmapDescs
    \/ AllocKernelmap \/ AllocKernelmapDescs \/ fail_memmap \/ fail_bootinfo

Next == bi_build_bootinfo \/ Terminated

Spec == Init /\ [][Next]_vars /\ WF_vars(bi_build_bootinfo)

-----------------------------------------------------------------------------
(* Every variable stays in its type.                                       *)
TypeOK ==
    /\ pc \in {"bootinfo", "memmap", "memmap_descs", "kernelmap", "kernelmap_descs",
               "fail_memmap", "fail_bootinfo"} \cup Terminal
    /\ sections \in Seq(Section)
    /\ info \in Ptr /\ used \subseteq Addr
    /\ ptr \in [Addr -> [Field -> Ptr]]
    /\ count \in [Addr -> Nat] /\ descs \in [Addr -> Seq(Section)]
    /\ bad \in BOOLEAN

(* What bi_update_memmap and the kernel find when bi_build_bootinfo        *)
(* succeeds: from the boot information both maps and their descriptors can *)
(* be reached, in five allocated blocks that do not overlap, nothing else  *)
(* is allocated, and the kernel map lists each loaded section.             *)
BuiltWhole ==
    pc = "built" =>
        LET md == ptr[memmap]["pDescriptors"]
            kd == ptr[kernelMap]["pDescriptors"]
            blocks == <<info, memmap, md, kernelMap, kd>>
        IN  /\ used = {blocks[j] : j \in 1 .. 5}
            /\ \A j, k \in 1 .. 5 : j # k => blocks[j] # blocks[k]
            /\ count[kernelMap] = Len(sections) /\ descs[kd] = sections

(* Whichever allocation failed, bi_build_bootinfo has freed the others and *)
(* reset its caller's pointer.                                             *)
FailedReleases == pc = "failed" => used = {} /\ info = NULL

(* No block is freed twice, and none written through after it was freed.   *)
PoolSafe == ~bad

=============================================================================
