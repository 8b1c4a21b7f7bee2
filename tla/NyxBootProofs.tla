--------------------------- MODULE NyxBootProofs ---------------------------
(***************************************************************************)
(* Proofs about NyxBoot, for every machine: any number of frames, any boot *)
(* map, any firmware event types, allocation sizes, buffer sizes and       *)
(* number of attempts that the module's assumptions allow.                 *)
(***************************************************************************)
EXTENDS NyxBoot, FiniteSetTheorems, TLAPS

Loaded == {"binPath", "phdrs", "secinfo", "sections"}

(* What is allocated at each label of efi_main.                            *)
LiveOK ==
    /\ pc = "config" => live = {}
    /\ pc = "open" => live \subseteq {"binPath"}
    /\ pc = "elf" => live = {"binPath"}
    /\ pc \in {"mm_size", "mm_alloc"} =>
          live = IF Again THEN Tag \ {"memmap"} ELSE Loaded
    /\ pc = "mm_fill" => live = IF Again THEN Tag ELSE Loaded \cup {"memmap"}
    /\ pc \in {"pml4", "free_map"} => live = Loaded \cup {"memmap"}
    /\ pc \in {"map_memory", "bootinfo", "free_tables"} => live = Tag \ {"bootinfo"}
    /\ pc \in {"refresh", "exit", "realloc_free", "update", "handoff"} => live = Tag
    /\ pc = "free_pml4" => live = Loaded \cup {"memmap", "pml4"}
    /\ pc = "free_sections" => live = Loaded
    /\ pc = "free_loadinfo" => live = Loaded \ {"sections"}
    /\ pc = "free_config" => live = {"binPath", "phdrs"}
    /\ pc = "returned" => live = {"phdrs"}

(* The exit loop's counter tells whether efi_get_memmap runs again.        *)
AttemptOK ==
    /\ pc \in {"config", "open", "elf", "pml4", "map_memory", "bootinfo"}
          \cup DOMAIN CleanTag => attempt = 0
    /\ pc \in {"mm_size", "mm_alloc", "mm_fill"} => attempt \in {0, ExitAttempts}
    /\ pc = "refresh" => attempt < ExitAttempts
    /\ pc = "realloc_free" => attempt = ExitAttempts

ServicesOK ==
    /\ ~bs => pc \in {"update", "handoff", "halt"}
    /\ pc \in {"update", "handoff"} => ~bs

(* Where efi_main is, which of the loader's allocations exist and whether  *)
(* boot services are up go together.                                       *)
ControlInv == AttemptOK /\ LiveOK /\ ServicesOK /\ ~badFree

(* Every frame has one owner, and its type says which kind.                *)
MemoryInv ==
    /\ \A t \in Tag : held[t] # {} => t \in live
    /\ \A t, u \in Tag : t # u => held[t] \cap held[u] = {}
    /\ \A t \in Tag : \A f \in held[t] : ftype[f] \in LoaderTypes /\ f \notin Pinned
    /\ \A f \in Pinned : ftype[f] \notin SkipTypes \cup {"Conventional"}
    /\ \A f \in Frame \ Pinned : ftype[f] \in LoaderTypes =>
          \E t \in Tag : f \in held[t]

BeforeMap == {"pml4", "map_memory"}
AfterMap  == {"bootinfo", "refresh", "exit", "realloc_free", "update", "handoff"}

(* The second efi_get_memmap also runs with the page tables built.         *)
TablesBuilt == pc \in AfterMap \/ (Again /\ pc \in {"mm_size", "mm_alloc", "mm_fill"})

(* No frame leaves the memory map_memory passes over after the capture.    *)
CaptureInv ==
    /\ pc \in BeforeMap =>
          \A f \in Frame : ftype[f] \notin SkipTypes => view[f] \notin SkipTypes
    /\ TablesBuilt =>
          /\ \A f \in Frame : ftype[f] \notin SkipTypes =>
                <<"identity", f>> \in mapped /\ <<"direct", f>> \in mapped
          /\ \A f \in held["sections"] : <<"kernel", f>> \in mapped

(* A key the firmware accepts comes with an up-to-date view.               *)
FreshInv ==
    /\ pc = "exit" /\ keyCur => view = ftype
    /\ pc \in {"update", "handoff"} => view = ftype
    /\ pc = "handoff" => bimap = [f \in Frame |-> memtype_efi_to_bi(view[f])]

IInv == TypeOK /\ ControlInv /\ MemoryInv /\ CaptureInv /\ FreshInv

-----------------------------------------------------------------------------
(* GetMemoryMap's descriptor count is a number, whatever the map.          *)
LEMMA NumDescsNat == ASSUME NEW m PROVE NumDescs(m) \in Nat
<1>1. IsFiniteSet(Frame)
  BY FramesAssumption, FS_Interval DEF Frame
<1>2. IsFiniteSet({f \in Frame : f = 0 \/ m[f] # m[f - 1]})
  BY <1>1, FS_Subset
<1> QED
  BY <1>2, FS_CardinalityType DEF NumDescs

(* Retyping frames, which every allocation and release does, keeps a map a *)
(* map.                                                                    *)
LEMMA RetypeMap ==
    ASSUME TypeOK, NEW S, NEW t \in EfiType
    PROVE  Retype(S, t) \in [Frame -> EfiType]
BY DEF Retype, TypeOK

(* Every entry of memtype_efi_to_bi is a type the boot information knows.  *)
LEMMA MemTypeKnown == \A t : memtype_efi_to_bi(t) \in BiType
BY DEF memtype_efi_to_bi, BiType

(* The firmware's two services keep the memory state well typed.           *)
LEMMA AllocateType ==
    ASSUME TypeOK, NEW t \in Tag, NEW S \in SUBSET Frame, NEW ty \in EfiType,
           Allocate(t, S, ty)
    PROVE  /\ ftype' \in [Frame -> EfiType]
           /\ live' \subseteq Tag /\ held' \in [Tag -> SUBSET Frame]
           /\ badFree' \in BOOLEAN /\ keyCur' \in BOOLEAN
BY RetypeMap DEF TypeOK, Allocate

(* FreePages and FreePool likewise.                                        *)
LEMMA ReleaseType ==
    ASSUME TypeOK, NEW t \in Tag, Release(t)
    PROVE  /\ ftype' \in [Frame -> EfiType]
           /\ live' \subseteq Tag /\ held' \in [Tag -> SUBSET Frame]
           /\ badFree' \in BOOLEAN
<1>1. ftype' \in [Frame -> EfiType]
  BY RetypeMap DEF Release, EfiType
<1> QED
  BY <1>1 DEF TypeOK, Release

(* The counter of the exit loop stays within its bound and with its label. *)
LEMMA AttemptStep ==
    ASSUME TypeOK, AttemptOK, [Next]_vars
    PROVE  attempt' \in 0 .. ExitAttempts /\ AttemptOK'
<1> USE BoundsAssumption DEF TypeOK, AttemptOK
<1>d. DOMAIN CleanTag = {"free_tables", "free_pml4", "free_map", "free_sections",
                        "free_loadinfo", "free_config"}
  BY DEF CleanTag
<1>1. CASE ParseConfig \/ OpenBinary \/ ElfLoad
  BY <1>1, <1>d DEF ParseConfig, OpenBinary, ElfLoad
<1>2. CASE GetMapSize \/ AllocMap \/ FillMap
  BY <1>2, <1>d DEF GetMapSize, AllocMap, FillMap, MapFailLabel, Again
<1>3. CASE AllocPml4 \/ MapMemory \/ BuildBootinfo
  <2>1. /\ pc \in {"pml4", "map_memory", "bootinfo"} /\ UNCHANGED attempt
        /\ pc' \in {"map_memory", "bootinfo", "refresh", "free_map", "free_tables"}
    BY <1>3 DEF AllocPml4, MapMemory, BuildBootinfo
  <2> QED BY <2>1, <1>d
<1>4. CASE RefreshMap
  BY <1>4, <1>d DEF RefreshMap, NextAttempt
<1>5. CASE ExitBootServices
  BY <1>5, <1>d DEF ExitBootServices, NextAttempt, Again
<1>6. CASE ReallocFree \/ UpdateMemMap
  BY <1>6, <1>d DEF ReallocFree, UpdateMemMap
<1>7. CASE Cleanup
  <2>1. CleanNext[pc] \in DOMAIN CleanTag \cup {"returned"}
    BY <1>7, <1>d DEF Cleanup, CleanNext
  <2> QED BY <1>7, <1>d, <2>1 DEF Cleanup
<1>8. CASE FwAlloc \/ FwFree \/ Terminated \/ UNCHANGED vars
  BY <1>8 DEF FwAlloc, FwFree, Terminated, vars
<1> QED
  BY <1>1, <1>2, <1>3, <1>4, <1>5, <1>6, <1>7, <1>8 DEF Next, Loader

(* Types hold at entry of efi_main, and every step keeps them.             *)
LEMMA TypeInit == Init => TypeOK /\ AttemptOK
<1> SUFFICES ASSUME Init PROVE TypeOK /\ AttemptOK
  OBVIOUS
<1>1. pc \in Label /\ NoMap \in [Frame -> EfiType] /\ "UNKNOWN" \in BiType
  BY DEF Init, Label, NoMap, EfiType, BiType
<1>2. AttemptOK
  BY BoundsAssumption DEF Init, AttemptOK
<1>3. held \in [Tag -> SUBSET Frame]
  BY DEF Init
<1>4. ftype \in [Frame -> EfiType] /\ bimap \in [Frame -> BiType]
  BY <1>1, BootAssumption DEF Init
<1>5. size \in Nat /\ bufSize \in Nat /\ attempt \in 0 .. ExitAttempts
  BY BoundsAssumption DEF Init
<1>6. view \in [Frame -> EfiType] /\ live \subseteq Tag /\ mapped \subseteq Window \X Frame
  BY <1>1 DEF Init
<1> QED
  BY <1>1, <1>2, <1>3, <1>4, <1>5, <1>6, Zenon DEF Init, TypeOK

(* Every step keeps the types and the counter's place.                     *)
LEMMA TypeStep == TypeOK /\ AttemptOK /\ [Next]_vars => TypeOK' /\ AttemptOK'
<1> SUFFICES ASSUME TypeOK, AttemptOK, [Next]_vars PROVE TypeOK'
  BY AttemptStep
<1>1. attempt' \in 0 .. ExitAttempts
  BY AttemptStep
<1>2. TypeOK'
  <2> USE DEF TypeOK
  <2>l. /\ {"LoaderData", "LoaderCode", "Conventional"} \subseteq EfiType
        /\ \A t \in Tag : Grants(t) \subseteq SUBSET Frame
    BY DEF EfiType, Grants, Free
  <2>t. Tag = {"binPath", "phdrs", "secinfo", "sections", "memmap", "pml4",
               "tables", "bootinfo"}
    BY DEF Tag
  <2>n. NumDescs(ftype) \in Nat
    BY NumDescsNat
  <2>1. CASE ParseConfig
    <3>1. pc' \in Label /\ UNCHANGED <<bs, mapVars, attempt, mapped, bimap>>
      BY <2>1 DEF ParseConfig, Label, Terminal
    <3>2. CASE \E S \in Grants("binPath") : Allocate("binPath", S, "LoaderData")
      BY <3>1, <3>2, <2>l, <2>t, AllocateType DEF mapVars
    <3>3. CASE UNCHANGED <<fwVars, keyCur>>
      BY <3>1, <3>3 DEF fwVars, mapVars
    <3> QED BY <2>1, <3>2, <3>3 DEF ParseConfig
  <2>2. CASE OpenBinary
    BY <2>2 DEF OpenBinary, Label, Terminal, fwVars, mapVars
  <2>3. CASE ElfLoad
    <3>1. /\ pc' \in Label /\ keyCur' = FALSE
          /\ UNCHANGED <<bs, mapVars, attempt, mapped, bimap>>
      BY <2>3 DEF ElfLoad, Label, Terminal
    <3>2. ASSUME NEW tags \in SUBSET Tag, LoadSections(tags) PROVE TypeOK'
      <4>1. PICK S \in Grants("sections") :
                /\ ftype' = Retype(S, "LoaderData")
                /\ live' = live \cup tags
                /\ held' = [held EXCEPT !["sections"] = @ \cup S]
                /\ UNCHANGED badFree
        BY <3>2 DEF LoadSections
      <4>2. S \in SUBSET Frame
        BY <2>l, <2>t
      <4>3. held' \in [Tag -> SUBSET Frame] /\ ftype' \in [Frame -> EfiType]
        BY <4>1, <4>2, <2>l, RetypeMap
      <4> QED BY <3>1, <4>1, <4>3 DEF mapVars
    <3>3. CASE UNCHANGED fwVars
      BY <3>1, <3>3 DEF fwVars, mapVars
    <3> QED
      BY <2>3, <2>t, <3>2, <3>3 DEF ElfLoad
  <2>4. CASE GetMapSize
    BY <2>4, <2>n, BoundsAssumption DEF GetMapSize, Label, fwVars
  <2>5. CASE AllocMap
    <3>1. pc' \in Label /\ UNCHANGED <<bs, mapVars, attempt, mapped, bimap>>
      BY <2>5 DEF AllocMap, MapFailLabel, Label, Terminal, CleanTag
    <3>2. CASE \E S \in Grants("memmap") : Allocate("memmap", S, "LoaderData")
      BY <3>1, <3>2, <2>l, <2>t, AllocateType DEF mapVars
    <3>3. CASE UNCHANGED <<fwVars, keyCur>>
      BY <3>1, <3>3 DEF fwVars, mapVars
    <3> QED BY <2>5, <3>2, <3>3 DEF AllocMap
  <2>6. CASE FillMap
    <3>1. /\ pc' \in Label /\ size' = NumDescs(ftype)
          /\ UNCHANGED <<bs, bufSize, attempt, mapped, bimap>>
      BY <2>6 DEF FillMap, MapFailLabel, Label, Terminal, CleanTag
    <3>2. CASE NumDescs(ftype) <= size
      BY <2>6, <3>1, <3>2, <2>n DEF FillMap, fwVars
    <3>3. CASE ~(NumDescs(ftype) <= size)
      BY <2>6, <3>1, <3>3, <2>n, <2>t, ReleaseType DEF FillMap
    <3> QED BY <3>2, <3>3
  <2>7. CASE AllocPml4
    <3>1. pc' \in Label /\ UNCHANGED <<bs, mapVars, attempt, mapped, bimap>>
      BY <2>7 DEF AllocPml4, Label, CleanTag
    <3>2. CASE pc' = "map_memory"
      <4>1. PICK S \in Grants("pml4") :
                /\ ftype' = Retype(S, "LoaderData")
                /\ held' = [held EXCEPT !["pml4"] = @ \cup S]
        BY <2>7, <3>2 DEF AllocPml4
      <4>2. live' = live \cup {"pml4", "tables"} /\ keyCur' = FALSE /\ UNCHANGED badFree
        BY <2>7, <3>2 DEF AllocPml4
      <4> QED BY <3>1, <4>1, <4>2, <2>l, <2>t, RetypeMap DEF mapVars
    <3>3. CASE pc' # "map_memory"
      BY <2>7, <3>1, <3>3 DEF AllocPml4, fwVars, mapVars
    <3> QED BY <3>2, <3>3
  <2>8. CASE MapMemory
    <3>1. pc' \in Label /\ UNCHANGED <<bs, mapVars, attempt, bimap>>
      BY <2>8 DEF MapMemory, Label, CleanTag
    <3>2. mapped' \subseteq Window \X Frame
      BY <2>8, <2>t DEF MapMemory, MapWalk, Window
    <3>3. CASE \E S \in Grants("tables") : Allocate("tables", S, "LoaderData")
      BY <3>1, <3>2, <3>3, <2>l, <2>t, AllocateType DEF mapVars
    <3>4. CASE UNCHANGED <<fwVars, keyCur>>
      BY <3>1, <3>2, <3>4 DEF fwVars, mapVars
    <3> QED BY <2>8, <3>3, <3>4 DEF MapMemory
  <2>9. CASE BuildBootinfo
    <3>1. pc' \in Label /\ UNCHANGED <<bs, mapVars, attempt, mapped, bimap>>
      BY <2>9 DEF BuildBootinfo, Label, CleanTag
    <3>2. CASE \E S \in Grants("bootinfo") : Allocate("bootinfo", S, "LoaderCode")
      BY <3>1, <3>2, <2>l, <2>t, AllocateType DEF mapVars
    <3>3. CASE keyCur' \in {keyCur, FALSE} /\ UNCHANGED fwVars
      BY <3>1, <3>3 DEF fwVars, mapVars
    <3> QED BY <2>9, <3>2, <3>3 DEF BuildBootinfo
  <2>10. CASE RefreshMap
    BY <2>10, <1>1, <2>n DEF RefreshMap, NextAttempt, Label, fwVars
  <2>11. CASE ExitBootServices
    BY <2>11, <1>1 DEF ExitBootServices, NextAttempt, Label, Terminal, fwVars, mapVars
  <2>12. CASE ReallocFree
    BY <2>12, <2>t, ReleaseType DEF ReallocFree, Label
  <2>13. CASE UpdateMemMap
    BY <2>13, MemTypeKnown DEF UpdateMemMap, Label, Terminal, fwVars, mapVars
  <2>14. CASE Cleanup
    <3>1. CleanTag[pc] \in Tag /\ CleanNext[pc] \in Label
      BY <2>14 DEF Cleanup, CleanTag, CleanNext, Label, Terminal, Tag
    <3> QED BY <2>14, <3>1, ReleaseType DEF Cleanup
  <2>15. CASE FwAlloc
    BY <2>15, FwAssumption DEF FwAlloc, Free, mapVars
  <2>16. CASE FwFree
    <3>1. ftype' \in [Frame -> EfiType]
      BY <2>16, <2>l DEF FwFree
    <3> QED BY <2>16, <3>1 DEF FwFree, mapVars
  <2>17. CASE Terminated \/ UNCHANGED vars
    BY <2>17 DEF Terminated, vars
  <2> QED
    BY <2>1, <2>2, <2>3, <2>4, <2>5, <2>6, <2>7, <2>8, <2>9, <2>10, <2>11,
       <2>12, <2>13, <2>14, <2>15, <2>16, <2>17 DEF Next, Loader
<1> QED
  BY <1>2

(* Every variable of the loader stays in its type (TypeOK), whatever the   *)
(* firmware does between the steps of efi_main.                            *)
THEOREM TypeCorrect == Spec => []TypeOK
<1>1. Spec => [](TypeOK /\ AttemptOK)
  BY TypeInit, TypeStep, PTL DEF Spec
<1> QED
  BY <1>1, PTL

-----------------------------------------------------------------------------
(* Control: what is allocated is decided by where efi_main is.             *)

(* Control facts hold at entry of efi_main.                                *)
LEMMA ControlInit == Init => ControlInv
BY BoundsAssumption DEF Init, ControlInv, AttemptOK, LiveOK, ServicesOK, CleanTag

(* Every step of efi_main allocates and frees just what its label says.    *)
LEMMA LiveStep ==
    ASSUME TypeOK, ControlInv, [Next]_vars
    PROVE  LiveOK' /\ badFree' = FALSE
<1> USE DEF ControlInv, LiveOK, Tag, Loaded
<1>a. ASSUME NEW t, NEW S, NEW ty, Allocate(t, S, ty)
      PROVE  live' = live \cup {t} /\ badFree' = FALSE
  BY <1>a DEF Allocate
<1>r. ASSUME NEW t, Release(t), t \in live
      PROVE  live' = live \ {t} /\ badFree' = FALSE
  BY <1>r DEF Release
<1>1. CASE ParseConfig
  <2>1. (live' = live \cup {"binPath"} \/ live' = live) /\ badFree' = FALSE
    <3>1. CASE \E S \in Grants("binPath") : Allocate("binPath", S, "LoaderData")
      BY <3>1 DEF Allocate
    <3>2. CASE UNCHANGED <<fwVars, keyCur>>
      BY <3>2 DEF fwVars
    <3> QED BY <1>1, <3>1, <3>2 DEF ParseConfig
  <2> QED BY <1>1, <2>1 DEF ParseConfig
<1>2. CASE OpenBinary
  BY <1>2 DEF OpenBinary, fwVars
<1>3. CASE ElfLoad
  <2>1. ASSUME NEW tags, LoadSections(tags)
        PROVE  live' = live \cup tags /\ badFree' = FALSE
    BY <2>1 DEF LoadSections
  <2>2. CASE pc' = "mm_size"
    <3>1. pc = "elf" /\ LoadSections({"phdrs", "secinfo", "sections"})
      BY <1>3, <2>2 DEF ElfLoad
    <3>3. live' = live \cup {"phdrs", "secinfo", "sections"} /\ badFree' = FALSE
      BY <2>1, <3>1
    <3>2. attempt' = 0
      BY <1>3 DEF ElfLoad, AttemptOK
    <3> QED BY <2>2, <3>1, <3>2, <3>3, BoundsAssumption DEF Again
  <2>3. CASE pc' = "failed"
    <3>1. LoadSections({"sections"}) \/ UNCHANGED fwVars
      BY <1>3, <2>3 DEF ElfLoad
    <3>2. badFree' = FALSE
      <4>1. CASE LoadSections({"sections"})
        BY <2>1, <4>1
      <4>2. CASE UNCHANGED fwVars
        BY <4>2 DEF fwVars
      <4> QED BY <3>1, <4>1, <4>2
    <3> QED BY <2>3, <3>2
  <2> QED BY <1>3, <2>2, <2>3 DEF ElfLoad
<1>4. CASE GetMapSize
  BY <1>4 DEF GetMapSize, fwVars, Again
<1>5. CASE AllocMap
  <2>1. CASE pc' = "mm_fill"
    BY <1>5, <2>1, <1>a DEF AllocMap, Again, MapFailLabel, fwVars
  <2>2. CASE pc' # "mm_fill"
    BY <1>5, <2>2 DEF AllocMap, Again, MapFailLabel, fwVars
  <2> QED BY <2>1, <2>2
<1>6. CASE FillMap
  <2>1. CASE NumDescs(ftype) <= size
    BY <1>6, <2>1 DEF FillMap, fwVars, Again
  <2>2. CASE ~(NumDescs(ftype) <= size)
    <3>1. live' = live \ {"memmap"} /\ badFree' = FALSE
      BY <1>6, <2>2, <1>r DEF FillMap
    <3> QED BY <1>6, <2>2, <3>1 DEF FillMap, MapFailLabel, Again
  <2> QED BY <2>1, <2>2
<1>7. CASE AllocPml4
  BY <1>7 DEF AllocPml4, fwVars
<1>8. CASE MapMemory
  <2>1. live' = live /\ badFree' = FALSE
    <3>1. CASE \E S \in Grants("tables") : Allocate("tables", S, "LoaderData")
      BY <1>8, <1>a, <3>1 DEF MapMemory
    <3>2. CASE UNCHANGED <<fwVars, keyCur>>
      BY <3>2 DEF fwVars
    <3> QED BY <1>8, <3>1, <3>2 DEF MapMemory
  <2> QED BY <1>8, <2>1 DEF MapMemory
<1>9. CASE BuildBootinfo
  <2>1. CASE pc' = "refresh"
    <3>1. live' = live \cup {"bootinfo"} /\ badFree' = FALSE
      BY <1>9, <2>1, <1>a DEF BuildBootinfo
    <3> QED BY <1>9, <2>1, <3>1 DEF BuildBootinfo
  <2>2. CASE pc' # "refresh"
    <3>1. pc = "bootinfo" /\ pc' = "free_tables" /\ UNCHANGED fwVars
      BY <1>9, <2>2 DEF BuildBootinfo
    <3> QED BY <3>1 DEF fwVars
  <2> QED BY <2>1, <2>2
<1>10. CASE RefreshMap \/ ExitBootServices
  <2>1. live' = live /\ badFree' = FALSE /\ live = Tag
    BY <1>10 DEF RefreshMap, ExitBootServices, fwVars
  <2>2. pc' \in {"refresh", "exit", "realloc_free", "update", "halt"}
    BY <1>10 DEF RefreshMap, ExitBootServices, NextAttempt
  <2> QED BY <2>1, <2>2
<1>11. CASE ReallocFree
  <2>1. live' = live \ {"memmap"} /\ badFree' = FALSE /\ live = Tag
    BY <1>11, <1>r DEF ReallocFree
  <2>2. Again'
    BY <1>11 DEF ReallocFree, AttemptOK, Again
  <2> QED BY <1>11, <2>1, <2>2 DEF ReallocFree
<1>12. CASE UpdateMemMap
  BY <1>12 DEF UpdateMemMap, fwVars
<1>13. CASE Cleanup
  <2>1. pc \in {"free_tables", "free_pml4", "free_map", "free_sections",
                "free_loadinfo", "free_config"}
    BY <1>13 DEF Cleanup, CleanTag
  <2>2. CleanTag[pc] \in live
    BY <2>1 DEF CleanTag
  <2>3. live' = live \ {CleanTag[pc]} /\ badFree' = FALSE /\ pc' = CleanNext[pc]
    BY <1>13, <2>2, <1>r DEF Cleanup
  <2> QED BY <2>1, <2>3 DEF CleanTag, CleanNext
<1>14. CASE FwAlloc \/ FwFree \/ Terminated \/ UNCHANGED vars
  BY <1>14 DEF FwAlloc, FwFree, Terminated, vars, Again
<1> QED
  BY <1>1, <1>2, <1>3, <1>4, <1>5, <1>6, <1>7, <1>8, <1>9, <1>10, <1>11,
     <1>12, <1>13, <1>14 DEF Next, Loader

(* Only an accepted ExitBootServices leads to the labels that run without  *)
(* boot services.                                                          *)
LEMMA ServicesStep ==
    ASSUME TypeOK, ControlInv, [Next]_vars
    PROVE  ServicesOK'
<1> USE DEF ControlInv, ServicesOK
<1>1. CASE ParseConfig \/ OpenBinary \/ ElfLoad
  BY <1>1 DEF ParseConfig, OpenBinary, ElfLoad
<1>2. CASE GetMapSize \/ AllocMap \/ FillMap
  BY <1>2 DEF GetMapSize, AllocMap, FillMap, MapFailLabel
<1>3. CASE AllocPml4 \/ MapMemory \/ BuildBootinfo
  <2>1. /\ pc \in {"pml4", "map_memory", "bootinfo"} /\ UNCHANGED bs
        /\ pc' \in {"map_memory", "bootinfo", "refresh", "free_map", "free_tables"}
    BY <1>3 DEF AllocPml4, MapMemory, BuildBootinfo
  <2> QED BY <2>1
<1>4. CASE RefreshMap \/ ReallocFree \/ UpdateMemMap
  BY <1>4 DEF RefreshMap, ReallocFree, UpdateMemMap, NextAttempt
<1>5. CASE ExitBootServices
  BY <1>5 DEF ExitBootServices, NextAttempt
<1>6. CASE Cleanup
  <2>1. /\ pc \in {"free_tables", "free_pml4", "free_map", "free_sections",
                   "free_loadinfo", "free_config"}
        /\ pc' = CleanNext[pc] /\ UNCHANGED bs
    BY <1>6 DEF Cleanup, CleanTag
  <2> QED BY <2>1 DEF CleanNext
<1>7. CASE FwAlloc \/ FwFree \/ Terminated \/ UNCHANGED vars
  BY <1>7 DEF FwAlloc, FwFree, Terminated, vars
<1> QED
  BY <1>1, <1>2, <1>3, <1>4, <1>5, <1>6, <1>7 DEF Next, Loader

(* The control facts are kept by every step.                               *)
LEMMA ControlStep == TypeOK /\ ControlInv /\ [Next]_vars => ControlInv'
BY AttemptStep, LiveStep, ServicesStep DEF ControlInv

(* Label, allocations and boot services go together in every run.          *)
THEOREM ControlCorrect == Spec => [](TypeOK /\ ControlInv)
<1>1. TypeOK /\ ControlInv /\ [Next]_vars => TypeOK' /\ ControlInv'
  BY TypeStep, ControlStep DEF ControlInv
<1> QED
  BY TypeInit, ControlInit, <1>1, PTL DEF Spec

(* No error path of the loader frees what is not allocated (NoBadFree).    *)
THEOREM NeverBadFree == Spec => []NoBadFree
<1>1. TypeOK /\ ControlInv => NoBadFree
  BY DEF ControlInv, NoBadFree
<1> QED
  BY ControlCorrect, <1>1, PTL

(* Once ExitBootServices succeeded, no step touches the memory services    *)
(* again (ServicesFrozen).                                                 *)
THEOREM NothingAfterExit == Spec => ServicesFrozen
<1>1. TypeOK /\ ControlInv /\ [Next]_vars =>
        [~bs => UNCHANGED <<bs, ftype, live, held, badFree>>]_vars
  <2> SUFFICES ASSUME ControlInv, Next, ~bs
               PROVE  UNCHANGED <<bs, ftype, live, held, badFree>>
    OBVIOUS
  <2>1. pc \in {"update", "handoff", "halt"}
    BY DEF ControlInv, ServicesOK
  <2>2. UpdateMemMap \/ Terminated
    <3>1. ~FwAlloc /\ ~FwFree
      BY DEF FwAlloc, FwFree
    <3>2. ~Cleanup
      BY <2>1 DEF Cleanup, CleanTag
    <3> QED
      BY <2>1, <3>1, <3>2 DEF Next, Loader, ParseConfig, OpenBinary, ElfLoad, GetMapSize,
         AllocMap, FillMap, AllocPml4, MapMemory, BuildBootinfo, RefreshMap,
         ExitBootServices, ReallocFree
  <2> QED BY <2>2 DEF UpdateMemMap, Terminated, vars, fwVars
<1> QED
  BY ControlCorrect, <1>1, PTL DEF Spec, ServicesFrozen

-----------------------------------------------------------------------------
(* Memory: what any step can do to the frames.                             *)

Grab(t, S, ty) ==
    /\ S \subseteq Free
    /\ ftype' = Retype(S, ty)
    /\ held' = [held EXCEPT ![t] = @ \cup S]
    /\ live \cup {t} \subseteq live'

Drop(t) ==
    /\ ftype' = Retype(held[t], "Conventional")
    /\ held' = [held EXCEPT ![t] = {}]
    /\ live' = live \ {t}

MemoryStep ==
    \/ UNCHANGED <<ftype, held, live>>
    \/ \E t \in Tag, S \in SUBSET Free, ty \in LoaderTypes : Grab(t, S, ty)
    \/ \E t \in Tag : Drop(t)
    \/ FwAlloc
    \/ FwFree

(* Every step of the loader and of the firmware is one of these.           *)
LEMMA StepShape == ASSUME TypeOK, [Next]_vars PROVE MemoryStep
<1> USE DEF MemoryStep
<1>a. ASSUME NEW t \in Tag, NEW ty \in LoaderTypes,
             \E S \in Grants(t) : Allocate(t, S, ty)
      PROVE  MemoryStep
  <2>1. PICK S \in Grants(t) : Allocate(t, S, ty)
    BY <1>a
  <2>2. S \in SUBSET Free /\ Grab(t, S, ty)
    BY <2>1 DEF Grants, Allocate, Grab
  <2> QED BY <2>2
<1>r. ASSUME NEW t \in Tag, Release(t) PROVE MemoryStep
  BY <1>r DEF Release, Drop
<1>l. /\ "LoaderData" \in LoaderTypes /\ "LoaderCode" \in LoaderTypes
      /\ {"binPath", "sections", "memmap", "pml4", "tables", "bootinfo"} \subseteq Tag
  BY DEF LoaderTypes, Tag
<1>n. UNCHANGED fwVars => MemoryStep
  BY DEF fwVars
<1>1. CASE ParseConfig
  BY <1>1, <1>a, <1>n, <1>l DEF ParseConfig
<1>2. CASE OpenBinary \/ GetMapSize \/ RefreshMap \/ ExitBootServices \/ UpdateMemMap
  BY <1>2, <1>n DEF OpenBinary, GetMapSize, RefreshMap, ExitBootServices, UpdateMemMap
<1>3. CASE ElfLoad
  <2>1. ASSUME NEW tags, LoadSections(tags), "sections" \in tags PROVE MemoryStep
    <3>1. PICK S \in Grants("sections") :
              /\ ftype' = Retype(S, "LoaderData")
              /\ live' = live \cup tags
              /\ held' = [held EXCEPT !["sections"] = @ \cup S]
      BY <2>1 DEF LoadSections
    <3>2. S \in SUBSET Free /\ Grab("sections", S, "LoaderData")
      BY <2>1, <3>1 DEF Grants, Grab
    <3> QED BY <3>2, <1>l
  <2> QED BY <1>3, <2>1, <1>n DEF ElfLoad
<1>5. CASE AllocMap
  BY <1>5, <1>a, <1>n, <1>l DEF AllocMap
<1>6. CASE FillMap
  BY <1>6, <1>r, <1>n, <1>l DEF FillMap
<1>7. CASE AllocPml4
  <2>1. CASE pc' = "map_memory"
    <3>1. PICK S \in Grants("pml4") :
              /\ ftype' = Retype(S, "LoaderData")
              /\ held' = [held EXCEPT !["pml4"] = @ \cup S]
      BY <1>7, <2>1 DEF AllocPml4
    <3>2. live' = live \cup {"pml4", "tables"}
      BY <1>7, <2>1 DEF AllocPml4
    <3>3. S \in SUBSET Free /\ Grab("pml4", S, "LoaderData")
      BY <3>1, <3>2 DEF Grants, Grab
    <3> QED BY <3>3, <1>l
  <2>2. CASE pc' # "map_memory"
    BY <1>7, <2>2, <1>n DEF AllocPml4
  <2> QED BY <2>1, <2>2
<1>8. CASE MapMemory
  BY <1>8, <1>a, <1>n, <1>l DEF MapMemory
<1>9. CASE BuildBootinfo
  BY <1>9, <1>a, <1>n, <1>l DEF BuildBootinfo
<1>10. CASE ReallocFree
  BY <1>10, <1>r, <1>l DEF ReallocFree
<1>11. CASE Cleanup
  <2>1. CleanTag[pc] \in Tag
    BY <1>11 DEF Cleanup, CleanTag, Tag
  <2> QED BY <1>11, <2>1, <1>r DEF Cleanup
<1>12. CASE FwAlloc \/ FwFree
  BY <1>12
<1>13. CASE Terminated \/ UNCHANGED vars
  BY <1>13 DEF Terminated, vars
<1> QED
  BY <1>1, <1>2, <1>3, <1>5, <1>6, <1>7, <1>8, <1>9, <1>10, <1>11, <1>12,
     <1>13 DEF Next, Loader

(* At entry the loader holds nothing.                                      *)
LEMMA MemoryInit == Init => MemoryInv
BY BootAssumption DEF Init, MemoryInv

(* Every frame keeps exactly one owner.                                    *)
LEMMA MemoryKept ==
    ASSUME TypeOK, MemoryInv, MemoryStep
    PROVE  MemoryInv'
<1> USE DEF MemoryInv, TypeOK
<1>l. "Conventional" \notin LoaderTypes /\ LoaderTypes \cap (SkipTypes \cup {"Conventional"}) = {}
  BY DEF LoaderTypes, SkipTypes
<1>1. CASE UNCHANGED <<ftype, held, live>>
  BY <1>1
<1>2. ASSUME NEW t \in Tag, NEW S \in SUBSET Free, NEW ty \in LoaderTypes,
             Grab(t, S, ty)
      PROVE  MemoryInv'
  <2>1. \A u \in Tag : held'[u] = IF u = t THEN held[u] \cup S ELSE held[u]
    BY <1>2 DEF Grab
  <2>2. \A f \in Frame : ftype'[f] = IF f \in S THEN ty ELSE ftype[f]
    BY <1>2 DEF Grab, Retype
  <2>3. live \cup {t} \subseteq live'
    BY <1>2 DEF Grab
  <2>4. \A f \in S : f \in Frame /\ ftype[f] = "Conventional" /\ f \notin Pinned
                     /\ \A u \in Tag : f \notin held[u]
    BY <1>l DEF Free
  <2>5. \A u \in Tag : held'[u] # {} => u \in live'
    BY <2>1, <2>3
  <2>6. \A u, w \in Tag : u # w => held'[u] \cap held'[w] = {}
    BY <2>1, <2>4
  <2>7. ASSUME NEW u \in Tag, NEW f \in held'[u]
        PROVE  ftype'[f] \in LoaderTypes /\ f \notin Pinned
    <3>1. CASE f \in S
      BY <3>1, <2>2, <2>4
    <3>2. CASE f \notin S
      <4>1. f \in held[u]
        BY <2>1, <2>7, <3>2
      <4> QED BY <4>1, <3>2, <2>2
    <3> QED BY <3>1, <3>2
  <2>8. \A f \in Pinned : ftype'[f] \notin SkipTypes \cup {"Conventional"}
    BY <2>2, <2>4, BootAssumption
  <2>9. \A f \in Frame \ Pinned : ftype'[f] \in LoaderTypes =>
           \E u \in Tag : f \in held'[u]
    BY <2>1, <2>2
  <2> QED BY <2>5, <2>6, <2>7, <2>8, <2>9
<1>3. ASSUME NEW t \in Tag, Drop(t) PROVE MemoryInv'
  <2>1. \A u \in Tag : held'[u] = IF u = t THEN {} ELSE held[u]
    BY <1>3 DEF Drop
  <2>2. \A f \in Frame : ftype'[f] = IF f \in held[t] THEN "Conventional" ELSE ftype[f]
    BY <1>3 DEF Drop, Retype
  <2>3. live' = live \ {t}
    BY <1>3 DEF Drop
  <2>5. \A u \in Tag : held'[u] # {} => u \in live'
    BY <2>1, <2>3
  <2>6. \A u, w \in Tag : u # w => held'[u] \cap held'[w] = {}
    BY <2>1
  <2>7. \A u \in Tag : \A f \in held'[u] : ftype'[f] \in LoaderTypes /\ f \notin Pinned
    BY <2>1, <2>2
  <2>8. \A f \in Pinned : ftype'[f] \notin SkipTypes \cup {"Conventional"}
    BY <2>2, BootAssumption
  <2>9. ASSUME NEW f \in Frame \ Pinned, ftype'[f] \in LoaderTypes
        PROVE  \E u \in Tag : f \in held'[u]
    <3>1. f \notin held[t] /\ ftype[f] \in LoaderTypes
      BY <2>2, <2>9, <1>l
    <3>2. PICK u \in Tag : f \in held[u]
      BY <3>1
    <3> QED BY <2>1, <3>1, <3>2
  <2> QED BY <2>5, <2>6, <2>7, <2>8, <2>9
<1>4. CASE FwAlloc
  <2>1. PICK g \in Free, t \in FwTypes : ftype' = [ftype EXCEPT ![g] = t]
    BY <1>4 DEF FwAlloc
  <2>2. UNCHANGED <<held, live>>
    BY <1>4 DEF FwAlloc
  <2>3. t \notin LoaderTypes /\ t \notin SkipTypes \cup {"Conventional"}
    BY FwAssumption
  <2>4. g \notin Pinned /\ \A u \in Tag : g \notin held[u]
    BY <1>l DEF Free
  <2> QED BY <2>1, <2>2, <2>3, <2>4, BootAssumption DEF Free
<1>5. CASE FwFree
  <2>1. PICK g \in Frame \ Pinned : /\ ftype[g] \in FwTypes
                                    /\ ftype' = [ftype EXCEPT ![g] = "Conventional"]
    BY <1>5 DEF FwFree
  <2>2. UNCHANGED <<held, live>>
    BY <1>5 DEF FwFree
  <2>4. \A u \in Tag : g \notin held[u]
    BY <2>1, FwAssumption
  <2> QED BY <2>1, <2>2, <2>4, <1>l, BootAssumption
<1> QED
  BY <1>1, <1>2, <1>3, <1>4, <1>5 DEF MemoryStep

(* No step takes a frame out of the memory map_memory passes over.         *)
LEMMA SkipKept ==
    ASSUME TypeOK, MemoryInv, MemoryStep
    PROVE  \A f \in Frame : ftype'[f] \notin SkipTypes => ftype[f] \notin SkipTypes
<1> USE DEF MemoryInv, TypeOK
<1>l. LoaderTypes \cap SkipTypes = {} /\ "Conventional" \notin SkipTypes
  BY DEF LoaderTypes, SkipTypes
<1>1. CASE UNCHANGED <<ftype, held, live>>
  BY <1>1
<1>2. CASE \E t \in Tag, S \in SUBSET Free, ty \in LoaderTypes : Grab(t, S, ty)
  BY <1>2, <1>l DEF Grab, Retype, Free
<1>3. CASE \E t \in Tag : Drop(t)
  BY <1>3, <1>l DEF Drop, Retype
<1>4. CASE FwAlloc
  BY <1>4, <1>l DEF FwAlloc, Free
<1>5. CASE FwFree
  BY <1>5, FwAssumption DEF FwFree
<1> QED
  BY <1>1, <1>2, <1>3, <1>4, <1>5 DEF MemoryStep

-----------------------------------------------------------------------------
(* The page tables cover the memory of a later map.                        *)

(* At entry there is neither a capture nor a page table.                   *)
LEMMA CaptureInit == Init => CaptureInv
BY BoundsAssumption DEF Init, CaptureInv, BeforeMap, AfterMap, TablesBuilt, Again

(* Between the capture and the jump, memory that map_memory passed over    *)
(* stays so, and what is mapped stays mapped.                              *)
LEMMA CaptureStep ==
    ASSUME TypeOK, ControlInv, MemoryInv, CaptureInv, [Next]_vars
    PROVE  CaptureInv'
<1>s. \A f \in Frame : ftype'[f] \notin SkipTypes => ftype[f] \notin SkipTypes
  BY StepShape, SkipKept
<1>c. pc \in {"config", "open", "elf", "pml4", "map_memory", "bootinfo"} => ~Again
  BY BoundsAssumption DEF ControlInv, AttemptOK, Again
<1> USE DEF CaptureInv, BeforeMap, AfterMap, TablesBuilt
(* Steps that keep the labels of the first part, the view and the tables.  *)
<1>k. ASSUME UNCHANGED <<view, mapped>>, held'["sections"] \subseteq held["sections"],
             pc' \in BeforeMap => pc \in BeforeMap, TablesBuilt' => TablesBuilt
      PROVE  CaptureInv'
  BY <1>k, <1>s
<1>1. CASE ParseConfig \/ OpenBinary \/ ElfLoad
  <2>1. ~TablesBuilt' /\ pc' \notin BeforeMap
    BY <1>1, <1>c DEF ParseConfig, OpenBinary, ElfLoad, Again
  <2> QED BY <2>1
<1>2. CASE GetMapSize
  BY <1>2, <1>k DEF GetMapSize, fwVars, Again
<1>3. CASE AllocMap
  <2>1. held'["sections"] = held["sections"]
    BY <1>3 DEF AllocMap, Allocate, fwVars, TypeOK, Tag
  <2>2. /\ UNCHANGED <<view, mapped, attempt>> /\ pc = "mm_alloc"
        /\ pc' \in {"mm_fill", "halt", "free_sections"}
    BY <1>3 DEF AllocMap, MapFailLabel, mapVars
  <2> QED BY <2>1, <2>2, <1>k DEF Again
<1>4. CASE FillMap
  <2>1. CASE pc' = "pml4"
    <3>1. view' = ftype /\ ftype' = ftype /\ ~Again /\ UNCHANGED attempt
      BY <1>4, <2>1 DEF FillMap, fwVars, MapFailLabel
    <3> QED BY <2>1, <3>1 DEF Again
  <2>2. CASE pc' = "exit"
    <3>1. /\ UNCHANGED <<mapped, attempt, held, ftype>> /\ Again /\ pc = "mm_fill"
      BY <1>4, <2>2 DEF FillMap, fwVars, MapFailLabel
    <3> QED BY <2>2, <3>1
  <2>3. CASE pc' \notin {"pml4", "exit"}
    BY <1>4, <2>3 DEF FillMap, MapFailLabel
  <2> QED BY <2>1, <2>2, <2>3
<1>5. CASE AllocPml4
  <2>1. UNCHANGED <<view, attempt>> /\ pc = "pml4" /\ pc' \in {"map_memory", "free_map"}
    BY <1>5 DEF AllocPml4, mapVars
  <2> QED BY <2>1, <1>s
<1>6. CASE MapMemory
  <2>1. CASE pc' = "bootinfo"
    <3>1. mapped' = MapWalk /\ pc = "map_memory"
      BY <1>6, <2>1 DEF MapMemory
    <3>2. held'["sections"] = held["sections"]
      BY <1>6 DEF MapMemory, Allocate, fwVars, TypeOK, Tag
    <3>3. \A f \in Frame : ftype'[f] \notin SkipTypes => view[f] \notin SkipTypes
      BY <3>1, <1>s
    <3> QED BY <2>1, <3>1, <3>2, <3>3 DEF MapWalk
  <2>2. CASE pc' # "bootinfo"
    <3>1. pc' = "free_tables"
      BY <1>6, <2>2 DEF MapMemory
    <3> QED BY <3>1
  <2> QED BY <2>1, <2>2
<1>7. CASE BuildBootinfo
  <2>1. held'["sections"] = held["sections"]
    BY <1>7 DEF BuildBootinfo, Allocate, fwVars, TypeOK, Tag
  <2>2. /\ UNCHANGED <<view, mapped, attempt>> /\ pc = "bootinfo"
        /\ pc' \in {"refresh", "free_tables"}
    BY <1>7 DEF BuildBootinfo, mapVars
  <2> QED BY <2>1, <2>2, <1>k
<1>8. CASE RefreshMap \/ ExitBootServices
  <2>1. /\ UNCHANGED <<mapped, held, ftype>> /\ pc \in {"refresh", "exit"}
        /\ pc' \notin BeforeMap
    BY <1>8 DEF RefreshMap, ExitBootServices, NextAttempt, fwVars
  <2> QED BY <2>1
<1>9. CASE ReallocFree
  <2>1. held'["sections"] = held["sections"]
    BY <1>9 DEF ReallocFree, Release, TypeOK, Tag
  <2> QED BY <1>9, <2>1, <1>k DEF ReallocFree
<1>10. CASE UpdateMemMap
  BY <1>10, <1>k DEF UpdateMemMap, fwVars, mapVars
<1>11. CASE Cleanup
  <2>1. pc' \notin BeforeMap \cup AfterMap \cup {"mm_size", "mm_alloc", "mm_fill"}
    BY <1>11 DEF Cleanup, CleanTag, CleanNext
  <2> QED BY <2>1
<1>12. CASE FwAlloc \/ FwFree
  BY <1>12, <1>k DEF FwAlloc, FwFree, mapVars, Again
<1>13. CASE Terminated \/ UNCHANGED vars
  BY <1>13, <1>k DEF Terminated, vars, Again
<1> QED
  BY <1>1, <1>2, <1>3, <1>4, <1>5, <1>6, <1>7, <1>8, <1>9, <1>10, <1>11,
     <1>12, <1>13 DEF Next, Loader

-----------------------------------------------------------------------------
(* The map handed to the kernel is the one in force.                       *)

(* At entry no map has been handed over.                                   *)
LEMMA FreshInit == Init => FreshInv
BY DEF Init, FreshInv

(* The key the firmware accepts certifies the view, on every path of the   *)
(* exit loop.                                                              *)
LEMMA FreshStep ==
    ASSUME TypeOK, ControlInv, FreshInv, [Next]_vars
    PROVE  FreshInv'
<1> USE DEF FreshInv
<1>1. CASE ParseConfig \/ OpenBinary \/ ElfLoad \/ GetMapSize \/ AllocMap
  <2>1. pc' \notin {"exit", "update", "handoff"}
    BY <1>1 DEF ParseConfig, OpenBinary, ElfLoad, GetMapSize, AllocMap, MapFailLabel
  <2> QED BY <2>1
<1>2. CASE FillMap
  BY <1>2 DEF FillMap, MapFailLabel, fwVars
<1>3. CASE AllocPml4 \/ MapMemory \/ BuildBootinfo
  <2>1. pc' \notin {"exit", "update", "handoff"}
    BY <1>3 DEF AllocPml4, MapMemory, BuildBootinfo
  <2> QED BY <2>1
<1>4. CASE RefreshMap
  BY <1>4 DEF RefreshMap, NextAttempt, fwVars
<1>5. CASE ExitBootServices
  BY <1>5 DEF ExitBootServices, NextAttempt, fwVars, mapVars
<1>6. CASE ReallocFree
  BY <1>6 DEF ReallocFree
<1>7. CASE UpdateMemMap
  BY <1>7 DEF UpdateMemMap, fwVars, mapVars
<1>8. CASE Cleanup
  <2>1. pc' \notin {"exit", "update", "handoff"}
    BY <1>8 DEF Cleanup, CleanTag, CleanNext
  <2> QED BY <2>1
<1>9. CASE FwAlloc \/ FwFree
  <2>1. bs /\ keyCur' = FALSE /\ pc' = pc
    BY <1>9 DEF FwAlloc, FwFree
  <2> QED BY <2>1 DEF ControlInv, ServicesOK
<1>10. CASE Terminated \/ UNCHANGED vars
  BY <1>10 DEF Terminated, vars
<1> QED
  BY <1>1, <1>2, <1>3, <1>4, <1>5, <1>6, <1>7, <1>8, <1>9, <1>10 DEF Next, Loader

-----------------------------------------------------------------------------
(* The inductive invariant, and what follows from it.                      *)
THEOREM Invariance == Spec => []IInv
<1>1. Init => IInv
  BY TypeInit, ControlInit, MemoryInit, CaptureInit, FreshInit DEF IInv
<1>2. IInv /\ [Next]_vars => IInv'
  BY TypeStep, ControlStep, StepShape, MemoryKept, CaptureStep, FreshStep
     DEF IInv, ControlInv
<1> QED
  BY <1>1, <1>2, PTL DEF Spec

(* The kernel is handed the memory map that is in force at the jump        *)
(* (HandoffMapFresh): no firmware event between GetMemoryMap and           *)
(* ExitBootServices goes unnoticed, on any path through the exit loop.     *)
THEOREM MapFresh == Spec => []HandoffMapFresh
<1>1. IInv => HandoffMapFresh
  BY DEF IInv, FreshInv, HandoffMapFresh
<1> QED
  BY Invariance, <1>1, PTL

(* Page tables built from the early capture reach all memory of the final  *)
(* map (HandoffMapped).                                                    *)
THEOREM AllMapped == Spec => []HandoffMapped
<1>1. IInv => HandoffMapped
  BY DEF IInv, CaptureInv, TablesBuilt, AfterMap, HandoffMapped
<1> QED
  BY Invariance, <1>1, PTL

(* Nothing the kernel needs at the jump is reported as free, and no two    *)
(* loader structures share a frame (HandoffIntact).                        *)
THEOREM Intact == Spec => []HandoffIntact
<1>1. IInv => HandoffIntact
  <2> SUFFICES ASSUME IInv, pc = "handoff" PROVE HandoffIntact
    BY DEF HandoffIntact
  <2>1. {"sections", "pml4", "tables", "bootinfo"} \subseteq live
    BY DEF IInv, ControlInv, LiveOK, Tag
  <2>2. ASSUME NEW f \in Pinned \cup UNION {held[t] : t \in Tag}
        PROVE  bimap[f] # "USABLE"
    <3>1. f \in Frame /\ ftype[f] # "Conventional"
      BY <2>2, BootAssumption DEF IInv, MemoryInv, TypeOK, LoaderTypes
    <3>2. bimap[f] = memtype_efi_to_bi(ftype[f])
      BY <3>1 DEF IInv, FreshInv
    <3> QED BY <3>1, <3>2 DEF memtype_efi_to_bi
  <2>3. \A t, u \in Tag : t # u => held[t] \cap held[u] = {}
    BY DEF IInv, MemoryInv
  <2> QED BY <2>1, <2>2, <2>3 DEF HandoffIntact
<1> QED
  BY Invariance, <1>1, PTL

(* The abnormal exit path returns to the firmware with every frame given   *)
(* back but the program headers' (ReturnReleases).                         *)
THEOREM CleanReturn == Spec => []ReturnReleases
<1>1. IInv => ReturnReleases
  <2> SUFFICES ASSUME IInv, pc = "returned" PROVE ReturnReleases
    BY DEF ReturnReleases
  <2>1. live = {"phdrs"}
    BY DEF IInv, ControlInv, LiveOK
  <2>2. \A f \in Frame \ Pinned : ftype[f] \in LoaderTypes => f \in held["phdrs"]
    BY <2>1 DEF IInv, MemoryInv
  <2> QED BY <2>1, <2>2 DEF ReturnReleases
<1> QED
  BY Invariance, <1>1, PTL

=============================================================================
