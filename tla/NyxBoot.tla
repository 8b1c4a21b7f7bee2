------------------------------ MODULE NyxBoot ------------------------------
(***************************************************************************)
(* The UEFI loader's main line: efi_main and load_boot_bin (main.c), the   *)
(* memory-map helpers (types.c) and bi_update_memmap (bootinfo.c), running *)
(* against a firmware that may change its memory map between any two calls *)
(* until boot services have been exited.                                   *)
(*                                                                         *)
(* Physical memory is the frames 0..NFrames-1, each with an EFI memory     *)
(* type.  A run of equal types is one descriptor of the firmware's map.    *)
(* An allocation takes a set of conventional frames (empty when the pool   *)
(* serves it from a page it already has) and is named by a tag, so that    *)
(* what is held, leaked or freed twice can be told.                        *)
(***************************************************************************)
EXTENDS Integers, FiniteSets

CONSTANTS
    NFrames,       \* number of physical frames
    BootMaps,      \* the memory maps the loader may be started with
    Pinned,        \* frames of the loader's own image and stack, and of the
                   \* stage before it
    FwTypes,       \* memory types firmware event handlers allocate and free
    GrantSizes,    \* per tag, the numbers of frames an allocation may take
    Extra,         \* EFI_MAP_DESCRIPTOR_EXTRA, in descriptors
    BiCap,         \* descriptors that fit the boot info's map buffer
    ExitAttempts   \* EXIT_BS_MAX_ATTEMPTS

Frame == 0 .. NFrames - 1

EfiType == {"Reserved", "LoaderCode", "LoaderData", "BsCode", "BsData",
            "RtCode", "RtData", "Conventional", "Unusable", "AcpiReclaim",
            "AcpiNvs", "Mmio", "MmioPort", "PalCode", "Persistent",
            "Unaccepted"}

(* The descriptors map_memory passes over.                                 *)
SkipTypes == {"Unusable", "Reserved", "Mmio", "MmioPort", "PalCode",
              "Persistent"}

LoaderTypes == {"LoaderCode", "LoaderData"}

BiType == {"RESERVED", "RECLAIMABLE", "EFI_RT_CODE", "EFI_RT_DATA", "USABLE",
           "UNUSABLE", "ACPI_RECLAIMABLE", "ACPI_NVS", "MMIO",
           "MMIO_PORT_SPACE", "PERSISTENT_MEM", "UNKNOWN"}

(* Mutant: the loader's code pages offered as free memory.                 *)
MutLoaderCodeUsable(t) ==
    IF t \in {"LoaderCode", "Conventional"} THEN "USABLE"
    ELSE IF t \in {"LoaderData", "BsCode", "BsData"} THEN "RECLAIMABLE"
    ELSE "RESERVED"

memtype_efi_to_bi(t) ==
    CASE t \in {"Reserved", "PalCode"}                            -> "RESERVED"
      [] t \in LoaderTypes \cup {"BsCode", "BsData"}              -> "RECLAIMABLE"
      [] t = "RtCode"                                             -> "EFI_RT_CODE"
      [] t = "RtData"                                             -> "EFI_RT_DATA"
      [] t = "Conventional"                                       -> "USABLE"
      [] t \in {"Unusable", "Unaccepted"}                         -> "UNUSABLE"
      [] t = "AcpiReclaim"                                        -> "ACPI_RECLAIMABLE"
      [] t = "AcpiNvs"                                            -> "ACPI_NVS"
      [] t = "Mmio"                                               -> "MMIO"
      [] t = "MmioPort"                                           -> "MMIO_PORT_SPACE"
      [] t = "Persistent"                                         -> "PERSISTENT_MEM"
      [] OTHER                                                    -> "UNKNOWN"

(* What the loader allocates: the configuration's binary path, the program *)
(* headers, the section records, the section pages, the memory-map buffer, *)
(* the PML4, the lower page tables, and the boot information.              *)
Tag == {"binPath", "phdrs", "secinfo", "sections", "memmap", "pml4", "tables",
        "bootinfo"}

Window == {"identity", "direct", "kernel"}

ASSUME FramesAssumption == NFrames \in Nat \ {0}
ASSUME BoundsAssumption ==
    /\ Extra \in Nat /\ BiCap \in Nat /\ ExitAttempts \in Nat \ {0}
    /\ GrantSizes \in [Tag -> SUBSET Nat]
(* Event handlers allocate ordinary memory: they neither use the loader's  *)
(* types nor turn memory map_memory passes over into usable memory.        *)
ASSUME FwAssumption ==
    FwTypes \subseteq EfiType \ (SkipTypes \cup LoaderTypes \cup {"Conventional"})
(* The loader runs from memory that is neither free nor passed over; its   *)
(* own image and what the stage before it left are the only loader memory. *)
ASSUME BootAssumption ==
    /\ BootMaps \subseteq [Frame -> EfiType]
    /\ Pinned \subseteq Frame
    /\ \A m \in BootMaps, f \in Frame :
          /\ f \in Pinned => m[f] \notin SkipTypes \cup {"Conventional"}
          /\ m[f] \in LoaderTypes => f \in Pinned

VARIABLES
    pc,        \* where efi_main is
    bs,        \* TRUE while boot services are up
    ftype,     \* the firmware's memory map: the type of every frame
    live,      \* tags allocated and not freed
    held,      \* the frames of each tag
    badFree,   \* TRUE once something not allocated was freed
    size,      \* memMap.size, in descriptors
    bufSize,   \* memMapBufferSize, in descriptors
    view,      \* the descriptors in the memMap buffer, as frame types
    keyCur,    \* memMap.key is the firmware's current key
    attempt,   \* iterations of the exit loop done
    mapped,    \* what the page tables map: <<window, frame>>
    bimap      \* the memory map written into the boot information

vars == <<pc, bs, ftype, live, held, badFree, size, bufSize, view, keyCur,
          attempt, mapped, bimap>>

fwVars   == <<ftype, live, held, badFree>>
mapVars  == <<size, bufSize, view>>

Terminal == {"handoff", "halt", "returned", "failed"}

(* The cleanup chain at the end of efi_main: what each label frees, and    *)
(* the label that follows it.                                              *)
CleanTag == [free_tables   |-> "tables",
             free_pml4     |-> "pml4",
             free_map      |-> "memmap",
             free_sections |-> "sections",
             free_loadinfo |-> "secinfo",
             free_config   |-> "binPath"]

(* Mutant: err_free_pageTables forgets the FreePages of the PML4.          *)
MutKeepPml4 == [free_tables   |-> "free_map",
                free_pml4     |-> "free_map",
                free_map      |-> "free_sections",
                free_sections |-> "free_loadinfo",
                free_loadinfo |-> "free_config",
                free_config   |-> "returned"]

CleanNext == [free_tables   |-> "free_pml4",
              free_pml4     |-> "free_map",
              free_map      |-> "free_sections",
              free_sections |-> "free_loadinfo",
              free_loadinfo |-> "free_config",
              free_config   |-> "returned"]

Label == {"config", "open", "elf", "mm_size", "mm_alloc", "mm_fill", "pml4",
          "map_memory", "bootinfo", "refresh", "exit", "realloc_free",
          "update"}
         \cup DOMAIN CleanTag \cup Terminal

-----------------------------------------------------------------------------
(* Firmware memory services, as the loader uses them.                      *)

Free == {f \in Frame : ftype[f] = "Conventional"}

(* Number of descriptors GetMemoryMap needs for a map: its runs of equal   *)
(* type.                                                                   *)
NumDescs(m) == Cardinality({f \in Frame : f = 0 \/ m[f] # m[f - 1]})

Grants(t) == {S \in SUBSET Free : Cardinality(S) \in GrantSizes[t]}

(* A buffer no descriptor was written to: it makes nothing accessible.     *)
NoMap == [f \in Frame |-> "Reserved"]

Retype(S, t) == [f \in Frame |-> IF f \in S THEN t ELSE ftype[f]]

(* AllocatePages and AllocatePool: the frames S become t's, of type ty.    *)
(* The map key changes with the map.                                       *)
Allocate(t, S, ty) ==
    /\ ftype'  = Retype(S, ty)
    /\ live'   = live \cup {t}
    /\ held'   = [held EXCEPT ![t] = @ \cup S]
    /\ keyCur' = (keyCur /\ S = {})
    /\ UNCHANGED badFree

(* FreePages and FreePool of everything under tag t.                       *)
Release(t) ==
    /\ ftype'   = Retype(held[t], "Conventional")
    /\ live'    = live \ {t}
    /\ held'    = [held EXCEPT ![t] = {}]
    /\ badFree' = (badFree \/ t \notin live)

-----------------------------------------------------------------------------
Init ==
    /\ pc = "config" /\ bs = TRUE
    /\ ftype \in BootMaps
    /\ live = {} /\ held = [t \in Tag |-> {}] /\ badFree = FALSE
    /\ size = 0 /\ bufSize = 0 /\ view = NoMap /\ keyCur = FALSE
    /\ attempt = 0
    /\ mapped = {}
    /\ bimap = [f \in Frame |-> "UNKNOWN"]

(* load_boot_bin: parse_config.  The configuration may leave the path out, *)
(* and it may fail after it allocated the path.                            *)
ParseConfig ==
    /\ pc = "config"
    /\ pc' \in {"open", "failed"}
    /\ \/ \E S \in Grants("binPath") : Allocate("binPath", S, "LoaderData")
       \/ UNCHANGED <<fwVars, keyCur>>
    /\ UNCHANGED <<bs, mapVars, attempt, mapped, bimap>>

(* load_boot_bin: find the filesystem, open its root and the binary.  The  *)
(* firmware opens no file for a missing path.                              *)
OpenBinary ==
    /\ pc = "open"
    /\ \/ "binPath" \in live /\ pc' = "elf"
       \/ pc' = "failed"
    /\ UNCHANGED <<bs, fwVars, keyCur, mapVars, attempt, mapped, bimap>>

(* Section pages are allocated; of what the ELF loader allocated, tags     *)
(* stay.                                                                   *)
LoadSections(tags) ==
    \E S \in Grants("sections") :
        /\ ftype' = Retype(S, "LoaderData")
        /\ live' = live \cup tags
        /\ held' = [held EXCEPT !["sections"] = @ \cup S]
        /\ UNCHANGED badFree

(* load_boot_bin: elf_load_file in discontiguous mode.  The program        *)
(* headers and the section records come from the pool; a failure frees     *)
(* both, and leaves the pages of the sections loaded so far allocated.     *)
ElfLoad ==
    /\ pc = "elf"
    /\ \/ /\ pc' = "mm_size"
          /\ LoadSections({"phdrs", "secinfo", "sections"})
       \/ /\ pc' = "failed"
          /\ LoadSections({"sections"}) \/ UNCHANGED fwVars
    /\ keyCur' = FALSE
    /\ UNCHANGED <<bs, mapVars, attempt, mapped, bimap>>

-----------------------------------------------------------------------------
(* efi_get_memmap, called before the page tables are built and again when  *)
(* every attempt to exit failed.                                           *)
Again == attempt = ExitAttempts

(* The query with no buffer only returns the size, and the current key.    *)
GetMapSize ==
    /\ pc = "mm_size"
    /\ size' = NumDescs(ftype) + Extra
    /\ bufSize' = size'
    /\ keyCur' = TRUE
    /\ pc' = "mm_alloc"
    /\ UNCHANGED <<bs, fwVars, view, attempt, mapped, bimap>>

(* Mutant: a failed first efi_get_memmap goes to err_free_map.             *)
MutFreeMapAgain == IF Again THEN "halt" ELSE "free_map"

MapFailLabel == IF Again THEN "halt" ELSE "free_sections"

AllocMap ==
    /\ pc = "mm_alloc"
    /\ \/ /\ \E S \in Grants("memmap") : Allocate("memmap", S, "LoaderData")
          /\ pc' = "mm_fill"
       \/ /\ pc' = MapFailLabel
          /\ UNCHANGED <<fwVars, keyCur>>
    /\ UNCHANGED <<bs, mapVars, attempt, mapped, bimap>>

(* The buffer may have become too small since its size was asked for.      *)
FillMap ==
    /\ pc = "mm_fill"
    /\ size' = NumDescs(ftype)
    /\ IF NumDescs(ftype) <= size
       THEN /\ view' = ftype
            /\ keyCur' = TRUE
            /\ pc' = IF Again THEN "exit" ELSE "pml4"
            /\ UNCHANGED fwVars
       ELSE /\ Release("memmap")
            /\ keyCur' = FALSE
            /\ pc' = MapFailLabel
            /\ UNCHANGED view
    /\ UNCHANGED <<bs, bufSize, attempt, mapped, bimap>>

-----------------------------------------------------------------------------
AllocPml4 ==
    /\ pc = "pml4"
    /\ \/ /\ \E S \in Grants("pml4") :
               /\ ftype' = Retype(S, "LoaderData")
               /\ held' = [held EXCEPT !["pml4"] = @ \cup S]
          /\ live' = live \cup {"pml4", "tables"}
          /\ keyCur' = FALSE
          /\ pc' = "map_memory"
          /\ UNCHANGED badFree
       \/ /\ pc' = "free_map"
          /\ UNCHANGED <<fwVars, keyCur>>
    /\ UNCHANGED <<bs, mapVars, attempt, mapped, bimap>>

(* Mutant: only memory in use at the time of the capture is mapped.        *)
MutMapUsed ==
    ({"identity", "direct"} \X
        {f \in Frame : view[f] \notin SkipTypes \cup {"Conventional"}})
    \cup ({"kernel"} \X held["sections"])

(* The descriptors map_memory walks: the identity and the direct mapping   *)
(* of all memory the captured map does not pass over, and the sections.    *)
MapWalk ==
    ({"identity", "direct"} \X {f \in Frame : view[f] \notin SkipTypes})
    \cup ({"kernel"} \X held["sections"])

(* map_memory.  It may run out of memory after some tables: the partial    *)
(* mapping is torn down with them, so "mapped" records complete ones only. *)
MapMemory ==
    /\ pc = "map_memory"
    /\ \/ /\ \E S \in Grants("tables") : Allocate("tables", S, "LoaderData")
          /\ mapped' = MapWalk
          /\ pc' = "bootinfo"
       \/ /\ \/ \E S \in Grants("tables") : Allocate("tables", S, "LoaderData")
             \/ UNCHANGED <<fwVars, keyCur>>
          /\ pc' = "free_tables"
          /\ UNCHANGED mapped
    /\ UNCHANGED <<bs, mapVars, attempt, bimap>>

(* bi_build_bootinfo: the header comes from the loader-code pool.  On a    *)
(* failure it frees what it allocated.                                     *)
BuildBootinfo ==
    /\ pc = "bootinfo"
    /\ \/ /\ \E S \in Grants("bootinfo") : Allocate("bootinfo", S, "LoaderCode")
          /\ pc' = "refresh"
       \/ /\ pc' = "free_tables"
          /\ keyCur' \in {keyCur, FALSE}
          /\ UNCHANGED fwVars
    /\ UNCHANGED <<bs, mapVars, attempt, mapped, bimap>>

-----------------------------------------------------------------------------
(* Mutant: attempts that are not counted.                                  *)
MutNoCount == pc' = "refresh" /\ UNCHANGED attempt

(* The end of an iteration of the exit loop that did not exit.             *)
NextAttempt ==
    /\ attempt' = attempt + 1
    /\ pc' = IF attempt + 1 = ExitAttempts THEN "realloc_free" ELSE "refresh"

(* Mutant: the exit loop goes on to ExitBootServices with a map that did   *)
(* not fit.                                                                *)
MutIgnoreTooSmall ==
    /\ pc = "refresh"
    /\ size' = NumDescs(ftype)
    /\ keyCur' = TRUE
    /\ view' = IF NumDescs(ftype) <= bufSize THEN ftype ELSE view
    /\ pc' = "exit"
    /\ UNCHANGED <<attempt, bs, fwVars, bufSize, mapped, bimap>>

(* efi_get_memmap_norealloc: the map must fit the buffer of the first one. *)
(* The firmware returns the size needed and its key in either case.        *)
RefreshMap ==
    /\ pc = "refresh"
    /\ size' = NumDescs(ftype)
    /\ keyCur' = TRUE
    /\ IF NumDescs(ftype) <= bufSize
       THEN /\ view' = ftype
            /\ pc' = "exit"
            /\ UNCHANGED attempt
       ELSE NextAttempt /\ UNCHANGED view
    /\ UNCHANGED <<bs, fwVars, bufSize, mapped, bimap>>

(* The firmware accepts ExitBootServices only with its current key.        *)
ExitBootServices ==
    /\ pc = "exit"
    /\ \/ /\ keyCur
          /\ bs' = FALSE
          /\ pc' = "update"
          /\ UNCHANGED attempt
       \/ /\ ~keyCur
          /\ IF Again THEN pc' = "halt" /\ UNCHANGED attempt ELSE NextAttempt
          /\ UNCHANGED bs
    /\ UNCHANGED <<fwVars, keyCur, mapVars, mapped, bimap>>

(* efi_free_memmap on the way to the second efi_get_memmap.                *)
ReallocFree ==
    /\ pc = "realloc_free"
    /\ Release("memmap")
    /\ size' = 0 /\ keyCur' = FALSE
    /\ pc' = "mm_size"
    /\ UNCHANGED <<bs, bufSize, view, attempt, mapped, bimap>>

(* Mutants: a map too large for the boot information takes the abnormal    *)
(* exit path; the last descriptor slot is not used.                        *)
MutUpdateReturns ==
    /\ pc = "update"
    /\ IF size <= BiCap
       THEN /\ bimap' = [f \in Frame |-> memtype_efi_to_bi(view[f])]
            /\ pc' = "handoff"
       ELSE pc' = "free_tables" /\ UNCHANGED bimap
    /\ UNCHANGED <<bs, fwVars, keyCur, mapVars, attempt, mapped>>

MutLastSlot ==
    /\ pc = "update"
    /\ IF size < BiCap
       THEN /\ bimap' = [f \in Frame |-> memtype_efi_to_bi(view[f])]
            /\ pc' = "handoff"
       ELSE pc' = "halt" /\ UNCHANGED bimap
    /\ UNCHANGED <<bs, fwVars, keyCur, mapVars, attempt, mapped>>

(* bi_update_memmap, then the jump to the loaded binary.                   *)
UpdateMemMap ==
    /\ pc = "update"
    /\ IF size <= BiCap
       THEN /\ bimap' = [f \in Frame |-> memtype_efi_to_bi(view[f])]
            /\ pc' = "handoff"
       ELSE pc' = "halt" /\ UNCHANGED bimap
    /\ UNCHANGED <<bs, fwVars, keyCur, mapVars, attempt, mapped>>

(* The labels err_free_pageTables ... err_free_loadedBin, in their order.  *)
Cleanup ==
    /\ pc \in DOMAIN CleanTag
    /\ Release(CleanTag[pc])
    /\ keyCur' = FALSE
    /\ size' = IF pc = "free_map" THEN 0 ELSE size
    /\ pc' = CleanNext[pc]
    /\ UNCHANGED <<bs, bufSize, view, attempt, mapped, bimap>>

-----------------------------------------------------------------------------
(* Timers and event handlers of the firmware, until boot services are      *)
(* exited.                                                                 *)
FwAlloc ==
    /\ bs
    /\ \E f \in Free, t \in FwTypes : ftype' = [ftype EXCEPT ![f] = t]
    /\ keyCur' = FALSE
    /\ UNCHANGED <<pc, bs, live, held, badFree, mapVars, attempt, mapped, bimap>>

FwFree ==
    /\ bs
    /\ \E f \in Frame \ Pinned :
         /\ ftype[f] \in FwTypes
         /\ ftype' = [ftype EXCEPT ![f] = "Conventional"]
    /\ keyCur' = FALSE
    /\ UNCHANGED <<pc, bs, live, held, badFree, mapVars, attempt, mapped, bimap>>

Terminated == pc \in Terminal /\ UNCHANGED vars

Loader ==
    \/ ParseConfig \/ OpenBinary \/ ElfLoad
    \/ GetMapSize \/ AllocMap \/ FillMap
    \/ AllocPml4 \/ MapMemory \/ BuildBootinfo
    \/ RefreshMap \/ ExitBootServices \/ ReallocFree \/ UpdateMemMap
    \/ Cleanup

Next == Loader \/ FwAlloc \/ FwFree \/ Terminated

(* The loader is the only thread: it keeps running, whatever the firmware  *)
(* does between its steps.                                                 *)
Spec == Init /\ [][Next]_vars /\ WF_vars(Loader)

-----------------------------------------------------------------------------
(* Every variable stays in its type, whatever the firmware does.           *)
TypeOK ==
    /\ pc \in Label /\ bs \in BOOLEAN
    /\ ftype \in [Frame -> EfiType] /\ view \in [Frame -> EfiType]
    /\ live \subseteq Tag /\ held \in [Tag -> SUBSET Frame]
    /\ badFree \in BOOLEAN /\ keyCur \in BOOLEAN
    /\ size \in Nat /\ bufSize \in Nat
    /\ attempt \in 0 .. ExitAttempts
    /\ mapped \subseteq Window \X Frame
    /\ bimap \in [Frame -> BiType]

(* main.c:140, "abnormal exit path - only valid before exiting boot        *)
(* services": once boot services are down, no step of the loader allocates *)
(* or frees memory, and they stay down.                                    *)
ServicesFrozen == [][~bs => UNCHANGED <<bs, ftype, live, held, badFree>>]_vars

(* The memory map the kernel is handed describes memory as it is at the    *)
(* jump, although it was captured before boot services were exited and the *)
(* firmware may have changed its map between any two calls.                *)
HandoffMapFresh ==
    pc = "handoff" =>
        \A f \in Frame : bimap[f] = memtype_efi_to_bi(ftype[f])

(* map_memory works from a map captured before the page tables, the boot   *)
(* information and any later firmware allocation existed.  Still, at the   *)
(* jump all memory it does not pass over is reachable through both         *)
(* windows, and the loaded sections at their own addresses.                *)
HandoffMapped ==
    pc = "handoff" =>
        /\ \A f \in Frame : ftype[f] \notin SkipTypes =>
               <<"identity", f>> \in mapped /\ <<"direct", f>> \in mapped
        /\ \A f \in held["sections"] : <<"kernel", f>> \in mapped

(* Nothing the kernel still needs at the jump (its sections, the page      *)
(* tables, the boot information, the memory the loader runs from) is       *)
(* offered to it as free memory, and no two of these share a frame.        *)
HandoffIntact ==
    pc = "handoff" =>
        /\ {"sections", "pml4", "tables", "bootinfo"} \subseteq live
        /\ \A f \in Pinned \cup UNION {held[t] : t \in Tag} :
               bimap[f] # "USABLE"
        /\ \A t, u \in Tag : t # u => held[t] \cap held[u] = {}

(* The error paths of efi_main, efi_get_memmap and the second efi_get_memmap *)
(* free nothing that is not allocated.                                     *)
NoBadFree == ~badFree

(* The abnormal exit path gives everything back to the firmware, except    *)
(* the program headers, which elf_load_file_discont keeps when it succeeds *)
(* and nobody frees.  (A configuration that names its path twice leaves    *)
(* the first one allocated as well, see BootConfig; here it names it once  *)
(* at most.)                                                               *)
ReturnReleases ==
    pc = "returned" =>
        /\ live \subseteq {"phdrs"}
        /\ \A f \in Frame \ Pinned : ftype[f] \in LoaderTypes => f \in held["phdrs"]

(* The loop of EXIT_BS_MAX_ATTEMPTS attempts and the last one after it     *)
(* cannot be kept going by firmware that changes its map forever.          *)
Termination == <>(pc \in Terminal)

(* Past ExitBootServices only a map larger than the boot information's     *)
(* buffer keeps the kernel from being entered.                             *)
ExitedHandsOff == (~bs /\ NumDescs(ftype) <= BiCap) ~> (pc = "handoff")

=============================================================================
