--------------------------- MODULE BootInfoProofs ---------------------------
(***************************************************************************)
(* Proofs about BootInfo, for any pool and any list of sections: the boot  *)
(* information is built whole, or nothing of it is left.                   *)
(***************************************************************************)
EXTENDS BootInfo, SequenceTheorems, TLAPS

(* The descriptors of the memory map.                                      *)
memmapDescs == ptr[memmap]["pDescriptors"]

Header == info \in Addr

HasMemmap == Header /\ memmap \in Addr /\ memmap # info

HasMemmapDescs ==
    HasMemmap /\ memmapDescs \in Addr /\ memmapDescs \notin {info, memmap}

HasKernelmap ==
    /\ HasMemmapDescs
    /\ kernelMap \in Addr /\ kernelMap \notin {info, memmap, memmapDescs}
    /\ count[kernelMap] = Len(sections)

(* Where bi_build_bootinfo is, which blocks are allocated and which        *)
(* pointers lead to them go together.                                      *)
Progress ==
    /\ pc \in {"bootinfo", "failed"} => info = NULL /\ used = {}
    /\ pc \in {"memmap", "fail_bootinfo"} => Header /\ used = {info}
    /\ pc = "memmap_descs" => HasMemmap /\ used = {info, memmap}
    /\ pc \in {"kernelmap", "fail_memmap"} =>
          HasMemmapDescs /\ used = {info, memmap, memmapDescs}
    /\ pc = "kernelmap_descs" =>
          HasKernelmap /\ used = {info, memmap, memmapDescs, kernelMap}

BInv == TypeOK /\ Progress /\ BuiltWhole /\ PoolSafe

-----------------------------------------------------------------------------
(* The invariant holds before the first allocation.                        *)
LEMMA BInit == Init => BInv
<1> SUFFICES ASSUME Init PROVE BInv
  OBVIOUS
<1>1. sections \in Seq(Section)
  BY SectionAssumption DEF Init
<1>2. count \in [Addr -> Nat] /\ descs \in [Addr -> Seq(Section)]
  <2>1. <<>> \in Seq(Section)
    OBVIOUS
  <2> QED BY <2>1 DEF Init
<1>3. ptr \in [Addr -> [Field -> Ptr]]
  BY DEF Init
<1>4. TypeOK
  BY <1>1, <1>2, <1>3 DEF Init, TypeOK, Ptr, Terminal
<1> QED BY <1>4 DEF Init, BInv, Progress, BuiltWhole, PoolSafe

(* The boot information's own block.                                       *)
LEMMA BootinfoStep == ASSUME BInv, AllocBootinfo PROVE BInv'
<1> USE DEF BInv
<1>1. CASE pc' = "failed" /\ UNCHANGED <<used, info, ptr, sections, count, descs, bad>>
  BY <1>1 DEF AllocBootinfo, TypeOK, Progress, BuiltWhole, PoolSafe, Terminal
<1>2. ASSUME NEW a \in Fresh,
             used' = used \cup {a}, info' = a,
             ptr' = [ptr EXCEPT ![a] = Zeroed],
             pc' = "memmap",
             UNCHANGED <<sections, count, descs, bad>>
      PROVE  BInv'
  <2>1. a \in Addr
    BY DEF Fresh
  <2>2. ptr' \in [Addr -> [Field -> Ptr]]
    BY <1>2, <2>1 DEF TypeOK, Zeroed, Ptr
  <2>3. TypeOK'
    BY <1>2, <2>1, <2>2 DEF TypeOK, Ptr, Terminal
  <2>4. used = {}
    BY DEF AllocBootinfo, Progress
  <2> QED BY <1>2, <2>1, <2>3, <2>4 DEF Progress, Header, BuiltWhole, PoolSafe
<1> QED BY <1>1, <1>2 DEF AllocBootinfo

(* A pointer stored in one block, and another block zeroed.                *)
LEMMA StoreType ==
  ASSUME NEW p \in [Addr -> [Field -> Ptr]], NEW b \in Addr, NEW f \in Field, NEW q \in Ptr
  PROVE  [p EXCEPT ![b] = [@ EXCEPT ![f] = q]] \in [Addr -> [Field -> Ptr]]
<1>1. [p[b] EXCEPT ![f] = q] \in [Field -> Ptr]
  OBVIOUS
<1> QED BY <1>1

LEMMA ZeroType ==
  ASSUME NEW p \in [Addr -> [Field -> Ptr]], NEW b \in Addr
  PROVE  [p EXCEPT ![b] = Zeroed] \in [Addr -> [Field -> Ptr]]
BY DEF Zeroed, Ptr

LEMMA FieldNames == {"pMemMap", "pKernelMap", "pDescriptors"} \subseteq Field
BY DEF Field

(* The memory map's header, or the failure of its allocation.              *)
LEMMA MemmapStep == ASSUME BInv, AllocMemmap PROVE BInv'
<1> USE DEF BInv
<1>0. Header /\ used = {info}
  BY DEF AllocMemmap, Progress
<1>1. CASE /\ pc' = "fail_bootinfo"
           /\ UNCHANGED <<used, ptr, count, sections, info, descs>>
           /\ bad' = (bad \/ info \notin used)
  BY <1>0, <1>1 DEF TypeOK, Progress, Header, BuiltWhole, PoolSafe, Terminal
<1>2. ASSUME NEW a \in Fresh,
             used' = used \cup {a},
             ptr' = [ptr EXCEPT ![info] = [@ EXCEPT !["pMemMap"] = a], ![a] = Zeroed],
             count' = [count EXCEPT ![a] = 256],
             pc' = "memmap_descs",
             bad' = (bad \/ info \notin used),
             UNCHANGED <<sections, info, descs>>
      PROVE  BInv'
  <2>1. a \in Addr /\ a # info
    BY <1>0, <1>2 DEF Fresh
  <2>2. TypeOK'
    <3>1. a \in Ptr /\ ptr \in [Addr -> [Field -> Ptr]]
      BY <2>1 DEF Ptr, TypeOK
    <3>2. [ptr EXCEPT ![info] = [@ EXCEPT !["pMemMap"] = a]] \in [Addr -> [Field -> Ptr]]
      BY <1>0, <3>1, StoreType, FieldNames DEF Header
    <3>3. ptr' \in [Addr -> [Field -> Ptr]]
      BY <1>2, <2>1, <3>2, ZeroType
    <3>4. count' \in [Addr -> Nat]
      BY <1>2, <2>1 DEF TypeOK
    <3>5. bad' \in BOOLEAN
      BY <1>2
    <3> QED BY <1>2, <2>1, <3>3, <3>4, <3>5 DEF TypeOK, Terminal
  <2>3. memmap' = a
    BY <1>0, <1>2, <2>1 DEF TypeOK, memmap, Field, Header
  <2>4. Progress'
    BY <1>0, <1>2, <2>1, <2>3 DEF Progress, HasMemmap, Header
  <2> QED BY <1>0, <1>2, <2>2, <2>4 DEF BuiltWhole, PoolSafe
<1> QED BY <1>1, <1>2 DEF AllocMemmap

(* The memory map's descriptors, or the header given back.                 *)
LEMMA MemmapDescsStep == ASSUME BInv, AllocMemmapDescs PROVE BInv'
<1> USE DEF BInv
<1>0. HasMemmap /\ used = {info, memmap}
  BY DEF AllocMemmapDescs, Progress
<1>1. CASE /\ Free({memmap})
           /\ ptr' = [ptr EXCEPT ![info] = [@ EXCEPT !["pMemMap"] = NULL]]
           /\ pc' = "fail_bootinfo"
           /\ UNCHANGED <<sections, info, count, descs>>
  <2>1. TypeOK'
    <3>1. NULL \in Ptr /\ ptr \in [Addr -> [Field -> Ptr]]
      BY DEF Ptr, TypeOK
    <3>2. ptr' \in [Addr -> [Field -> Ptr]]
      BY <1>0, <1>1, <3>1, StoreType, FieldNames DEF HasMemmap, Header
    <3> QED BY <1>1, <3>2 DEF TypeOK, Free, Terminal
  <2>2. used' = {info} /\ ~bad'
    BY <1>0, <1>1 DEF Free, HasMemmap, PoolSafe
  <2> QED BY <1>0, <1>1, <2>1, <2>2 DEF Progress, HasMemmap, Header, BuiltWhole, PoolSafe
<1>2. ASSUME NEW a \in Fresh,
             used' = used \cup {a},
             ptr' = [ptr EXCEPT ![memmap] = [@ EXCEPT !["pDescriptors"] = a]],
             pc' = "kernelmap",
             UNCHANGED <<sections, info, count, descs, bad>>
      PROVE  BInv'
  <2>1. a \in Addr /\ a \notin {info, memmap}
    BY <1>0, <1>2 DEF Fresh
  <2>2. TypeOK'
    <3>1. a \in Ptr /\ ptr \in [Addr -> [Field -> Ptr]]
      BY <2>1 DEF Ptr, TypeOK
    <3>2. ptr' \in [Addr -> [Field -> Ptr]]
      BY <1>0, <1>2, <3>1, StoreType, FieldNames DEF HasMemmap
    <3> QED BY <1>2, <2>1, <3>2 DEF TypeOK, Terminal
  <2>3. memmap' = memmap
    BY <1>0, <1>2 DEF TypeOK, memmap, HasMemmap, Header, Field
  <2>4. memmapDescs' = a
    BY <1>0, <1>2, <2>3 DEF TypeOK, memmapDescs, HasMemmap, Field
  <2>5. Progress'
    BY <1>0, <1>2, <2>1, <2>3, <2>4 DEF Progress, HasMemmapDescs, HasMemmap, Header
  <2> QED BY <1>2, <2>2, <2>5 DEF BuiltWhole, PoolSafe
<1> QED BY <1>1, <1>2 DEF AllocMemmapDescs

(* The kernel map's header.                                                *)
LEMMA KernelmapStep == ASSUME BInv, AllocKernelmap PROVE BInv'
<1> USE DEF BInv
<1>0. HasMemmapDescs /\ used = {info, memmap, memmapDescs}
  BY DEF AllocKernelmap, Progress
<1>1. CASE /\ pc' = "fail_memmap"
           /\ UNCHANGED <<used, ptr, count, sections, info, descs>>
           /\ bad' = (bad \/ info \notin used)
  <2>1. memmap' = memmap /\ memmapDescs' = memmapDescs
    BY <1>1 DEF memmap, memmapDescs
  <2>2. TypeOK'
    BY <1>1 DEF TypeOK, Terminal
  <2> QED BY <1>0, <1>1, <2>1, <2>2
          DEF Progress, HasMemmapDescs, HasMemmap, Header, BuiltWhole, PoolSafe
<1>2. ASSUME NEW a \in Fresh,
             used' = used \cup {a},
             ptr' = [ptr EXCEPT ![info] = [@ EXCEPT !["pKernelMap"] = a], ![a] = Zeroed],
             count' = [count EXCEPT ![a] = SectionCount],
             pc' = "kernelmap_descs",
             bad' = (bad \/ info \notin used),
             UNCHANGED <<sections, info, descs>>
      PROVE  BInv'
  <2>1. a \in Addr /\ a \notin {info, memmap, memmapDescs}
    BY <1>0, <1>2 DEF Fresh
  <2>2. SectionCount \in Nat
    BY DEF TypeOK, SectionCount
  <2>3. TypeOK'
    <3>1. a \in Ptr /\ ptr \in [Addr -> [Field -> Ptr]]
      BY <2>1 DEF Ptr, TypeOK
    <3>2. [ptr EXCEPT ![info] = [@ EXCEPT !["pKernelMap"] = a]] \in [Addr -> [Field -> Ptr]]
      BY <1>0, <3>1, StoreType, FieldNames DEF HasMemmapDescs, HasMemmap, Header
    <3>3. ptr' \in [Addr -> [Field -> Ptr]]
      BY <1>2, <2>1, <3>2, ZeroType
    <3>4. count' \in [Addr -> Nat]
      BY <1>2, <2>1, <2>2 DEF TypeOK
    <3>5. bad' \in BOOLEAN
      BY <1>2
    <3> QED BY <1>2, <2>1, <3>3, <3>4, <3>5 DEF TypeOK, Terminal
  <2>4. memmap' = memmap /\ kernelMap' = a
    BY <1>0, <1>2, <2>1
       DEF TypeOK, memmap, kernelMap, Field, HasMemmapDescs, HasMemmap, Header
  <2>5. memmapDescs' = memmapDescs
    BY <1>0, <1>2, <2>1, <2>4
       DEF TypeOK, memmapDescs, Field, HasMemmapDescs, HasMemmap, Header
  <2>6. count'[a] = Len(sections)
    BY <1>2, <2>1 DEF TypeOK, SectionCount
  <2>7. Progress'
    BY <1>0, <1>2, <2>1, <2>4, <2>5, <2>6
       DEF Progress, HasKernelmap, HasMemmapDescs, HasMemmap, Header
  <2> QED BY <1>0, <1>2, <2>3, <2>7 DEF BuiltWhole, PoolSafe
<1> QED BY <1>1, <1>2 DEF AllocKernelmap

(* All of a sequence.                                                      *)
LEMMA SubSeqAll == ASSUME NEW S, NEW s \in Seq(S) PROVE SubSeq(s, 1, Len(s)) = s
<1>1. Len(s) \in Nat
  OBVIOUS
<1>2. SubSeq(s, 1, Len(s)) \in Seq(S) /\ Len(SubSeq(s, 1, Len(s))) = Len(s)
  BY <1>1
<1>3. \A i \in 1 .. Len(s) : SubSeq(s, 1, Len(s))[i] = s[i]
  BY <1>1
<1> QED BY <1>1, <1>2, <1>3, SeqEqual

(* The kernel map's descriptors, or its header given back.                 *)
LEMMA KernelmapDescsStep == ASSUME BInv, AllocKernelmapDescs PROVE BInv'
<1> USE DEF BInv
<1>0. HasKernelmap /\ used = {info, memmap, memmapDescs, kernelMap}
  BY DEF AllocKernelmapDescs, Progress
<1>1. CASE /\ Free({kernelMap})
           /\ ptr' = [ptr EXCEPT ![info] = [@ EXCEPT !["pKernelMap"] = NULL]]
           /\ pc' = "fail_memmap"
           /\ UNCHANGED <<sections, info, count, descs>>
  <2>1. TypeOK'
    <3>1. NULL \in Ptr /\ ptr \in [Addr -> [Field -> Ptr]]
      BY DEF Ptr, TypeOK
    <3>2. ptr' \in [Addr -> [Field -> Ptr]]
      BY <1>0, <1>1, <3>1, StoreType, FieldNames
         DEF HasKernelmap, HasMemmapDescs, HasMemmap, Header
    <3> QED BY <1>1, <3>2 DEF TypeOK, Free, Terminal
  <2>2. used' = {info, memmap, memmapDescs} /\ ~bad'
    BY <1>0, <1>1 DEF Free, HasKernelmap, PoolSafe
  <2>3. memmap' = memmap
    BY <1>0, <1>1
       DEF TypeOK, memmap, Field, HasKernelmap, HasMemmapDescs, HasMemmap, Header
  <2>4. memmapDescs' = memmapDescs
    BY <1>0, <1>1, <2>3
       DEF TypeOK, memmapDescs, Field, HasKernelmap, HasMemmapDescs, HasMemmap, Header
  <2> QED BY <1>0, <1>1, <2>1, <2>2, <2>3, <2>4
          DEF Progress, HasKernelmap, HasMemmapDescs, HasMemmap, Header, BuiltWhole, PoolSafe
<1>2. ASSUME NEW a \in Fresh,
             used' = used \cup {a},
             descs' = [descs EXCEPT ![a] = SubSeq(sections, 1, count[kernelMap])],
             ptr' = [ptr EXCEPT ![kernelMap] = [@ EXCEPT !["pDescriptors"] = a]],
             pc' = "built",
             UNCHANGED <<sections, info, count, bad>>
      PROVE  BInv'
  <2>1. a \in Addr /\ a \notin {info, memmap, memmapDescs, kernelMap}
    BY <1>0, <1>2 DEF Fresh
  <2>2. SubSeq(sections, 1, count[kernelMap]) = sections
    BY <1>0, SubSeqAll DEF HasKernelmap, TypeOK
  <2>3. descs' \in [Addr -> Seq(Section)] /\ descs'[a] = sections
    BY <1>2, <2>1, <2>2 DEF TypeOK
  <2>4. TypeOK'
    <3>1. a \in Ptr /\ ptr \in [Addr -> [Field -> Ptr]]
      BY <2>1 DEF Ptr, TypeOK
    <3>2. ptr' \in [Addr -> [Field -> Ptr]]
      BY <1>0, <1>2, <3>1, StoreType, FieldNames DEF HasKernelmap
    <3> QED BY <1>2, <2>1, <2>3, <3>2 DEF TypeOK, Terminal
  <2>5. memmap' = memmap /\ kernelMap' = kernelMap
    BY <1>0, <1>2
       DEF TypeOK, memmap, kernelMap, Field, HasKernelmap, HasMemmapDescs, HasMemmap, Header
  <2>6. ptr'[memmap]["pDescriptors"] = memmapDescs /\ ptr'[kernelMap]["pDescriptors"] = a
    BY <1>0, <1>2
       DEF TypeOK, memmapDescs, Field, HasKernelmap, HasMemmapDescs, HasMemmap, Header
  <2>7. BuiltWhole'
    <3> DEFINE blocks == <<info, memmap, memmapDescs, kernelMap, a>>
    <3>1. used' = {blocks[j] : j \in 1 .. 5}
      BY <1>0, <1>2
    <3>2. \A j, k \in 1 .. 5 : j # k => blocks[j] # blocks[k]
      BY <1>0, <2>1 DEF HasKernelmap, HasMemmapDescs, HasMemmap
    <3>3. count'[kernelMap] = Len(sections)
      BY <1>0, <1>2 DEF HasKernelmap
    <3> QED BY <1>2, <2>3, <2>5, <2>6, <3>1, <3>2, <3>3 DEF BuiltWhole
  <2> QED BY <1>2, <2>4, <2>7 DEF Progress, PoolSafe
<1> QED BY <1>1, <1>2 DEF AllocKernelmapDescs

(* The unwinding of the memory map frees its two blocks.                   *)
LEMMA FailMemmapStep == ASSUME BInv, fail_memmap PROVE BInv'
<1> USE DEF BInv
<1>0. HasMemmapDescs /\ used = {info, memmap, memmapDescs}
  BY DEF fail_memmap, Progress
<1>1. MemmapBlocks = {memmap, memmapDescs}
  BY <1>0, PoolAssumption DEF MemmapBlocks, memmapDescs, HasMemmapDescs, HasMemmap
<1>2. used' = {info} /\ ~bad'
  BY <1>0, <1>1 DEF fail_memmap, Free, HasMemmapDescs, HasMemmap, PoolSafe
<1>3. bad' \in BOOLEAN
  BY DEF fail_memmap, Free
<1>4. TypeOK'
  BY <1>0, <1>2, <1>3
     DEF fail_memmap, heap, TypeOK, Terminal, HasMemmapDescs, HasMemmap, Header
<1> QED BY <1>0, <1>2, <1>4
        DEF fail_memmap, heap, Progress, HasMemmapDescs, HasMemmap, Header, BuiltWhole, PoolSafe

(* The last block is given back and the caller's pointer reset.            *)
LEMMA FailBootinfoStep == ASSUME BInv, fail_bootinfo PROVE BInv'
<1> USE DEF BInv
<1>0. Header /\ used = {info}
  BY DEF fail_bootinfo, Progress
<1>1. used' = {} /\ ~bad' /\ info' = NULL
  BY <1>0 DEF fail_bootinfo, Free, PoolSafe
<1>2. bad' \in BOOLEAN
  BY DEF fail_bootinfo, Free
<1>3. TypeOK'
  BY <1>1, <1>2 DEF fail_bootinfo, heap, TypeOK, Terminal, Ptr
<1> QED BY <1>1, <1>3 DEF fail_bootinfo, heap, Progress, BuiltWhole, PoolSafe

(* Every step of bi_build_bootinfo keeps the invariant.                    *)
LEMMA BStep == BInv /\ [Next]_vars => BInv'
<1> SUFFICES ASSUME BInv, [Next]_vars PROVE BInv'
  OBVIOUS
<1>1. CASE UNCHANGED vars
  BY <1>1 DEF vars, heap, BInv, TypeOK, Progress, HasKernelmap, HasMemmapDescs, HasMemmap,
              Header, memmap, kernelMap, memmapDescs, BuiltWhole, PoolSafe
<1> QED
  BY <1>1, BootinfoStep, MemmapStep, MemmapDescsStep, KernelmapStep, KernelmapDescsStep,
     FailMemmapStep, FailBootinfoStep DEF Next, bi_build_bootinfo, Terminated

(* The strengthened invariant of BootInfo.                                 *)
THEOREM BuildInvariance == Spec => []BInv
BY BInit, BStep, PTL DEF Spec

(* bi_build_bootinfo that succeeds leaves the five blocks the kernel needs *)
(* (BuiltWhole), for any pool and any list of sections.                    *)
THEOREM BuildsWhole == Spec => []BuiltWhole
<1>1. BInv => BuiltWhole
  BY DEF BInv
<1> QED BY <1>1, BuildInvariance, PTL

(* bi_build_bootinfo that fails leaves nothing (FailedReleases), whichever *)
(* of its allocations failed.                                              *)
THEOREM FailsClean == Spec => []FailedReleases
<1>1. BInv => FailedReleases
  BY DEF BInv, Progress, FailedReleases
<1> QED BY <1>1, BuildInvariance, PTL

(* Its unwinding frees and accesses only allocated blocks (PoolSafe).      *)
THEOREM NeverBadBlock == Spec => []PoolSafe
<1>1. BInv => PoolSafe
  BY DEF BInv
<1> QED BY <1>1, BuildInvariance, PTL

=============================================================================
