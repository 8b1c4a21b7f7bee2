---------------------------- MODULE ElfLoadProofs ----------------------------
(***************************************************************************)
(* Proofs about the ELF loader, for every set of binaries, any number and  *)
(* size of segments, any page size and any amount of memory.               *)
(***************************************************************************)
EXTENDS ElfLoad, FiniteSetTheorems, WellFoundedInduction, TLAPS

Section == [phys : Nat, pageCount : Nat]

Labels == {"ehdr", "phdrbuf", "phdrs", "secinfo", "loadbuf", "section", "loaded",
           "sections_freed"} \cup Terminal

ElfType ==
    /\ file \in Files /\ loadType \in LoadType
    /\ mode \in {"cont", "discont"} /\ pc \in Labels
    /\ i \in Nat \ {0}
    /\ secs \in Seq(Section)
    /\ buf \in Nat /\ paddr \in Nat
    /\ used \subseteq Frame

(* The pool buffers at each label.  The pointer to the records is set when *)
(* they are allocated, and not only then.                                  *)
PoolInv ==
    /\ pc \in {"loadbuf", "section", "loaded", "sections_freed"} => sections
    /\ pc \in {"ehdr", "phdrbuf", "failed"} => pool = {}
    /\ pc \in {"phdrs", "secinfo", "freed"} => pool = {"phdrs"}
    /\ pc \in {"loadbuf", "section", "loaded", "sections_freed"} => pool = {"phdrs", "secinfo"}

(* The pages: elf_load_file_cont has its one buffer, elf_load_file_discont *)
(* the pages of the sections it has recorded.  The fallback starts with    *)
(* none.                                                                   *)
PagesInv ==
    /\ loadType = "CONTIG" => mode = "cont"
    /\ pc = "loadbuf" => mode = "cont"
    /\ pc \in {"ehdr", "phdrbuf", "phdrs", "secinfo", "loadbuf"} => used = {}
    /\ pc \in {"section", "loaded"} =>
          used = IF mode = "cont" THEN Run(buf, SectionSize) ELSE SectionPages
    /\ pc = "failed" /\ mode = "cont" => used = {}
    /\ pc \in {"sections_freed", "freed"} /\ mode = "discont" => used = {}

BaseInv == ElfType /\ PoolInv /\ PagesInv

(* No segment is so large that what elf_get_section_size adds for it wraps *)
(* around: 2^52 bytes on the machine.                                      *)
SegmentsFit ==
    \A f \in Files : \A k \in DOMAIN f.phdrs :
        f.phdrs[k].load => f.phdrs[k].memsz + PageSize - 1 < Word \div PageSize

(* A record for each loadable header gone past, in their order.            *)
CountInv ==
    /\ pc = "loadbuf" => secs = <<>> /\ i = 1
    /\ pc \in {"section", "loaded"} =>
          /\ i <= Len(file.phdrs) + 1
          /\ Len(secs) = Cardinality({k \in Loadable : k < i})
          /\ \A k \in Loadable : k < i =>
                secs[Record(k)].pageCount = Pages(file.phdrs[k].memsz)
    /\ pc = "loaded" => i = Len(file.phdrs) + 1

(* Sections share no page.  Those of elf_load_file_cont are behind each    *)
(* other in the buffer, which what elf_get_section_size counts for the     *)
(* headers still to come does not let end early.                           *)
PlaceInv ==
    pc \in {"section", "loaded"} =>
        /\ \A j, k \in DOMAIN secs : j # k =>
              Run(secs[j].phys, secs[j].pageCount)
                \cap Run(secs[k].phys, secs[k].pageCount) = {}
        /\ \A j \in DOMAIN secs : secs[j].phys + secs[j].pageCount <= NFrames
        /\ mode = "cont" =>
              /\ buf + SectionSize <= NFrames
              /\ buf <= paddr /\ paddr <= buf + SizeTo(file)[i - 1]
              /\ \A j \in DOMAIN secs :
                    buf <= secs[j].phys /\ secs[j].phys + secs[j].pageCount <= paddr

(* The memory m holds segment h of a file of e cells from page b on.       *)
Content(m, b, h, e) ==
    \A d \in 0 .. Pages(h.memsz) * PageSize - 1 :
        m[b * PageSize + d] = IF d < h.filesz /\ h.offset + d < e THEN h.offset + d ELSE Zero

(* When no segment overruns its pages, the sections read hold their        *)
(* segments, and the rest of the contiguous buffer is zero.                *)
ContentInv ==
    pc \in {"section", "loaded"} /\ Contained =>
        /\ \A k \in Loadable :
              k < i => Content(mem, secs[Record(k)].phys, file.phdrs[k], file.eof)
        /\ mode = "cont" =>
              \A d \in paddr * PageSize .. (buf + SectionSize) * PageSize - 1 : mem[d] = Zero

FaithInv == BaseInv /\ CountInv /\ PlaceInv /\ ContentInv

-----------------------------------------------------------------------------
(* Induction on the natural numbers, for a set of them.                    *)
LEMMA NatSetInduction ==
    ASSUME NEW P, 0 \in P, \A n \in Nat : n \in P => n + 1 \in P
    PROVE  Nat \subseteq P
<1> DEFINE T == Nat \ P
           Less == {ss \in Nat \X Nat : ss[1] < ss[2]}
<1> SUFFICES ASSUME T # {}
             PROVE  FALSE
  OBVIOUS
<1>1. OpToRel(<, Nat) = Less
  BY Zenon DEF OpToRel
<1>2. \E x \in T : \A y \in T : ~ (<<y, x>> \in Less)
  BY <1>1, WFMin, NatLessThanWellFounded, Zenon
<1>3. PICK x \in T : \A y \in T : ~ (<<y, x>> \in Less)
  BY <1>2, Zenon
<1>4. x \in Nat /\ x # 0 /\ x - 1 \in Nat /\ x - 1 < x
  OBVIOUS
<1>5. <<x - 1, x>> \in Less
  BY <1>4
<1>6. x - 1 \notin T
  BY <1>3, <1>5, Zenon
<1> QED
  BY <1>4, <1>6

(* Multiples of the page size grow with the number of pages.               *)
LEMMA PagesGrow ==
    ASSUME NEW a \in Nat, NEW b \in Nat, a <= b
    PROVE  a * PageSize \in Nat /\ a * PageSize <= b * PageSize
BY MemoryAssumption

(* The pages of a segment hold it, and are no more than ALIGN_UP's mask    *)
(* lets through.                                                           *)
LEMMA PagesHold ==
    ASSUME NEW n \in Nat
    PROVE  Pages(n) \in Nat /\ n <= Pages(n) * PageSize /\ Pages(n) <= n + PageSize - 1
<1>1. PageSize \in Nat \ {0}
  BY MemoryAssumption
<1>2. ASSUME NEW a \in Nat
      PROVE  a \div PageSize \in Nat /\ a < (a \div PageSize) * PageSize + PageSize
  BY <1>1
<1>3. ASSUME NEW a \in Nat
      PROVE  a \div PageSize <= a
  BY <1>1
<1> QED
  BY <1>1, <1>2, <1>3 DEF Pages

(* What the assumption on the files says of one of them.                   *)
LEMMA FileFacts ==
    ASSUME NEW f \in Files
    PROVE  /\ f.phdrs \in Seq(Phdr) /\ Len(f.phdrs) \in Nat
           /\ DOMAIN f.phdrs = 1 .. Len(f.phdrs)
           /\ \A k \in DOMAIN f.phdrs :
                 /\ f.phdrs[k].memsz \in Nat /\ f.phdrs[k].filesz \in Nat
                 /\ f.phdrs[k].offset \in Nat /\ f.phdrs[k].load \in BOOLEAN
           /\ f.eof \in Nat
<1>1. f.phdrs \in Seq(Phdr) /\ f.eof \in Nat
  BY FileAssumption DEF File
<1>2. \A h \in Phdr : h.memsz \in Nat /\ h.filesz \in Nat /\ h.offset \in Nat
  BY DEF Phdr
<1>3. \A h \in Phdr : h.load \in BOOLEAN
  BY DEF Phdr
<1>4. \A k \in DOMAIN f.phdrs : f.phdrs[k] \in Phdr
  BY <1>1
<1>5. Len(f.phdrs) \in Nat /\ DOMAIN f.phdrs = 1 .. Len(f.phdrs)
  BY <1>1
<1> QED
  BY <1>1, <1>2, <1>3, <1>4, <1>5, FileAssumption

(* What elf_get_section_size adds for one header.                          *)
Term(f, k) ==
    IF f.phdrs[k].load THEN (f.phdrs[k].memsz + PageSize - 1) % (Word \div PageSize) ELSE 0

(* The recursion of SizeTo has a solution: it is defined.                  *)
LEMMA SizeToDefined ==
    ASSUME NEW f \in Files
    PROVE  SizeTo(f) = [k \in 0 .. Len(f.phdrs) |->
                           IF k = 0 THEN 0 ELSE SizeTo(f)[k - 1] + Term(f, k)]
<1> DEFINE R(g, m) == g = [k \in 0 .. m |-> IF k = 0 THEN 0 ELSE g[k - 1] + Term(f, k)]
           P == {m \in Nat : m <= Len(f.phdrs) => \E g : R(g, m)}
<1>1. 0 \in P
  <2>1. R([k \in 0 .. 0 |-> 0], 0)
    OBVIOUS
  <2> QED
    BY <2>1
<1>2. ASSUME NEW m \in Nat, m \in P
      PROVE  m + 1 \in P
  <2> SUFFICES ASSUME m + 1 <= Len(f.phdrs)
               PROVE  \E g : R(g, m + 1)
    OBVIOUS
  <2>1. PICK g : R(g, m)
    BY <1>2, FileFacts
  <2>2. R([k \in 0 .. m + 1 |-> IF k = m + 1 THEN g[m] + Term(f, m + 1) ELSE g[k]], m + 1)
    BY <2>1
  <2> QED
    BY <2>2
<1>3. Len(f.phdrs) \in P
  <2> HIDE DEF P
  <2> QED
    BY <1>1, <1>2, NatSetInduction, FileFacts
<1>4. \E g : R(g, Len(f.phdrs))
  BY <1>3, FileFacts
<1> QED
  BY <1>4 DEF SizeTo, Term


(* What is added for a header is a number, and no less than its pages.     *)
LEMMA TermFacts ==
    ASSUME NEW f \in Files, NEW k \in DOMAIN f.phdrs
    PROVE  /\ Term(f, k) \in Nat
           /\ SegmentsFit /\ f.phdrs[k].load => Pages(f.phdrs[k].memsz) <= Term(f, k)
<1>1. PageSize \in Nat \ {0} /\ Word \in Nat \ {0} /\ Word % PageSize = 0
  BY MemoryAssumption
<1>2. Word \div PageSize \in Nat \ {0}
  BY <1>1
<1>3. ASSUME NEW a \in Nat, NEW b \in Nat \ {0}
      PROVE  a % b \in Nat /\ (a < b => a % b = a)
  OBVIOUS
<1>4. f.phdrs[k].memsz \in Nat /\ f.phdrs[k].memsz + PageSize - 1 \in Nat
  BY <1>1, FileFacts
<1>5. SegmentsFit /\ f.phdrs[k].load =>
         f.phdrs[k].memsz + PageSize - 1 < Word \div PageSize
  BY DEF SegmentsFit
<1> QED
  BY <1>2, <1>3, <1>4, <1>5, PagesHold DEF Term

(* The sums, one header at a time, up to the whole.                        *)
LEMMA SizeToFacts ==
    ASSUME NEW f \in Files
    PROVE  /\ SizeTo(f)[0] = 0
           /\ \A k \in 0 .. Len(f.phdrs) : SizeTo(f)[k] \in Nat
           /\ \A k \in 1 .. Len(f.phdrs) : SizeTo(f)[k] = SizeTo(f)[k - 1] + Term(f, k)
           /\ \A k \in 0 .. Len(f.phdrs) : SizeTo(f)[k] <= SizeTo(f)[Len(f.phdrs)]
<1> DEFINE N == Len(f.phdrs)
           S == SizeTo(f)
<1>1. N \in Nat /\ DOMAIN f.phdrs = 1 .. N
  BY FileFacts
<1>2. S[0] = 0 /\ \A k \in 1 .. N : S[k] = S[k - 1] + Term(f, k)
  BY <1>1, SizeToDefined
<1>3. \A k \in 1 .. N : Term(f, k) \in Nat
  BY <1>1, TermFacts
<1> HIDE DEF N, S
<1> DEFINE P == {m \in Nat : m <= N => S[m] \in Nat}
           Q == {m \in Nat : m <= N => S[N - m] <= S[N]}
<1>4. \A k \in 0 .. N : S[k] \in Nat
  <2>1. 0 \in P
    BY <1>2
  <2>2. ASSUME NEW m \in Nat, m \in P
        PROVE  m + 1 \in P
    <3> SUFFICES ASSUME m + 1 <= N
                 PROVE  S[m + 1] \in Nat
      OBVIOUS
    <3>1. m + 1 \in 1 .. N /\ (m + 1) - 1 = m
      BY <1>1
    <3> QED
      BY <1>1, <1>2, <1>3, <2>2, <3>1
  <2>3. Nat \subseteq P
    <3> HIDE DEF P
    <3> QED
      BY <2>1, <2>2, NatSetInduction
  <2> QED
    BY <1>1, <2>3
<1>5. \A k \in 0 .. N : S[k] <= S[N]
  <2>1. 0 \in Q
    BY <1>1, <1>4
  <2>2. ASSUME NEW m \in Nat, m \in Q
        PROVE  m + 1 \in Q
    <3> SUFFICES ASSUME m + 1 <= N
                 PROVE  S[N - (m + 1)] <= S[N]
      OBVIOUS
    <3>1. N - m \in 1 .. N /\ (N - m) - 1 = N - (m + 1) /\ N - (m + 1) \in 0 .. N
      BY <1>1
    <3>2. S[N - m] = S[N - (m + 1)] + Term(f, N - m) /\ Term(f, N - m) \in Nat
      BY <1>2, <1>3, <3>1
    <3>3. S[N - m] <= S[N]
      BY <1>1, <2>2
    <3>4. S[N - (m + 1)] \in Nat /\ S[N] \in Nat
      BY <1>1, <1>4, <3>1
    <3> QED
      BY <3>2, <3>3, <3>4
  <2>3. Nat \subseteq Q
    <3> HIDE DEF Q
    <3> QED
      BY <2>1, <2>2, NatSetInduction
  <2>4. ASSUME NEW k \in 0 .. N
        PROVE  S[k] <= S[N]
    <3>1. N - k \in Nat /\ N - k <= N /\ N - (N - k) = k
      BY <1>1
    <3>2. N - k \in Q
      BY <2>3, <3>1
    <3> QED
      BY <3>1, <3>2
  <2> QED
    BY <2>4
<1> QED
  BY <1>2, <1>4, <1>5 DEF N, S


-----------------------------------------------------------------------------
(* The fields of the records.                                              *)
LEMMA SectionFields ==
    ASSUME secs \in Seq(Section)
    PROVE  \A j \in DOMAIN secs : secs[j].phys \in Nat /\ secs[j].pageCount \in Nat
<1>1. \A r \in Section : r.phys \in Nat /\ r.pageCount \in Nat
  BY DEF Section
<1>2. \A j \in DOMAIN secs : secs[j] \in Section
  OBVIOUS
<1> QED
  BY <1>1, <1>2

(* A section recorded: the pages of all are those before and its own.      *)
LEMMA Recorded ==
    ASSUME secs \in Seq(Section), NEW b \in Nat, NEW n \in Nat,
           secs' = Append(secs, [phys |-> b, pageCount |-> n])
    PROVE  /\ secs' \in Seq(Section) /\ Len(secs') = Len(secs) + 1
           /\ DOMAIN secs = 1 .. Len(secs) /\ DOMAIN secs' = 1 .. Len(secs) + 1
           /\ \A k \in DOMAIN secs : secs'[k] = secs[k]
           /\ secs'[Len(secs) + 1].phys = b /\ secs'[Len(secs) + 1].pageCount = n
           /\ SectionPages' = SectionPages \cup Run(b, n)
<1> DEFINE r == [phys |-> b, pageCount |-> n]
<1>1. r \in Section /\ r.phys = b /\ r.pageCount = n
  BY DEF Section
<1> HIDE DEF r
<1>2. /\ secs' \in Seq(Section) /\ Len(secs') = Len(secs) + 1 /\ Len(secs) \in Nat
      /\ DOMAIN secs = 1 .. Len(secs) /\ DOMAIN secs' = 1 .. Len(secs) + 1
      /\ \A k \in DOMAIN secs : secs'[k] = secs[k]
      /\ secs'[Len(secs) + 1] = r
  BY <1>1 DEF r
<1>3. SectionPages' = SectionPages \cup Run(b, n)
  BY <1>1, <1>2 DEF SectionPages
<1> QED
  BY <1>1, <1>2, <1>3

(* Where AllocatePages puts pages, and what the header being loaded is.    *)
LEMMA BaseFacts ==
    ASSUME NEW n \in Nat, NEW b \in Bases(n)
    PROVE  /\ b \in Nat /\ n > 0 /\ b + n <= NFrames
           /\ Run(b, n) \subseteq Frame /\ Run(b, n) \cap used = {}
<1>1. b \in 0 .. NFrames - 1 /\ n > 0 /\ Run(b, n) \subseteq Frame \ used /\ NFrames \in Nat
  BY MemoryAssumption DEF Bases, Frame
<1>2. b + n - 1 \in Frame
  BY <1>1 DEF Run
<1> QED
  BY <1>1, <1>2 DEF Frame

(* The size of the contiguous buffer.                                      *)
LEMMA SectionSizeNat ==
    ASSUME file \in Files
    PROVE  SectionSize \in Nat
BY SizeToFacts, FileFacts DEF SectionSize

(* A strategy that fails with nothing allocated keeps BaseInv.             *)
LEMMA FailsStep ==
    ASSUME BaseInv, NEW err, Fails(err), UNCHANGED fixed, i' \in Nat \ {0},
           secs' \in Seq(Section), UNCHANGED <<buf, paddr, sections>>,
           pool' = {}, used' \subseteq Frame, mode = "cont" => used' = {}
    PROVE  BaseInv'
<1>1. ElfType'
  BY DEF BaseInv, ElfType, Fails, fixed, Labels, Terminal
<1>2. PoolInv'
  BY DEF BaseInv, ElfType, Fails, PoolInv
<1>3. PagesInv'
  BY DEF BaseInv, ElfType, Fails, PagesInv, fixed
<1> QED
  BY <1>1, <1>2, <1>3 DEF BaseInv

(* Every step keeps BaseInv.                                               *)
LEMMA BaseStep ==
    ASSUME BaseInv, [Next]_vars
    PROVE  BaseInv'
<1> USE DEF Labels, Terminal
<1>0. /\ file \in Files /\ mode \in {"cont", "discont"} /\ i \in Nat \ {0}
      /\ secs \in Seq(Section) /\ used \subseteq Frame
  BY DEF BaseInv, ElfType
<1>1. CASE ReadEhdr
  <2>1. CASE \E err : Fails(err)
    BY <1>0, <1>1, <2>1, FailsStep DEF ReadEhdr, BaseInv, PoolInv, PagesInv
  <2>2. CASE Goes("phdrbuf")
    BY <1>1, <2>2 DEF ReadEhdr, BaseInv, ElfType, PoolInv, PagesInv, Goes, fixed
  <2> QED
    BY <1>1, <2>1, <2>2 DEF ReadEhdr
<1>2. CASE AllocPhdrs
  <2>1. CASE Fails(TRUE) /\ UNCHANGED pool
    BY <1>0, <1>2, <2>1, FailsStep DEF AllocPhdrs, BaseInv, PoolInv, PagesInv
  <2>2. CASE Goes("phdrs") /\ pool' = pool \cup {"phdrs"}
    BY <1>2, <2>2 DEF AllocPhdrs, BaseInv, ElfType, PoolInv, PagesInv, Goes, fixed
  <2> QED
    BY <1>2, <2>1, <2>2 DEF AllocPhdrs
<1>3. CASE ReadPhdrs
  <2>1. CASE Fails(TRUE) /\ Free({}, {"phdrs"})
    BY <1>0, <1>3, <2>1, FailsStep DEF ReadPhdrs, Free, BaseInv, PoolInv, PagesInv
  <2>2. CASE Goes("secinfo") /\ UNCHANGED <<pool, used, badFree>>
    BY <1>3, <2>2 DEF ReadPhdrs, BaseInv, ElfType, PoolInv, PagesInv, Goes, fixed
  <2> QED
    BY <1>3, <2>1, <2>2 DEF ReadPhdrs
<1>4. CASE AllocSecinfo
  <2>1. CASE Fails(TRUE) /\ Free({}, {"phdrs"}) /\ UNCHANGED <<i, secs, sections>>
    BY <1>0, <1>4, <2>1, FailsStep DEF AllocSecinfo, Free, BaseInv, PoolInv, PagesInv
  <2>2. CASE /\ Goes(IF mode = "cont" THEN "loadbuf" ELSE "section")
             /\ pool' = pool \cup {"secinfo"} /\ sections' = TRUE /\ i' = 1 /\ secs' = <<>>
             /\ UNCHANGED <<used, badFree>>
    <3>1. secs' \in Seq(Section) /\ SectionPages' = {}
      BY <2>2 DEF SectionPages
    <3> QED
      BY <1>4, <2>2, <3>1 DEF AllocSecinfo, BaseInv, ElfType, PoolInv, PagesInv, Goes, fixed
  <2> QED
    BY <1>4, <2>1, <2>2 DEF AllocSecinfo
<1>5. CASE AllocLoadBuffer
  <2>1. CASE Fails(TRUE) /\ Free({}, LoadInfo \cup {"phdrs"}) /\ UNCHANGED <<mem, buf, paddr>>
    BY <1>0, <1>5, <2>1, FailsStep DEF AllocLoadBuffer, Free, LoadInfo, BaseInv, PoolInv, PagesInv
  <2>2. CASE /\ Goes("section") /\ UNCHANGED <<pool, badFree>>
             /\ \E b \in Bases(SectionSize) : /\ used' = used \cup Run(b, SectionSize)
                                              /\ buf' = b /\ paddr' = b
    <3>1. PICK b \in Bases(SectionSize) : /\ used' = used \cup Run(b, SectionSize)
                                           /\ buf' = b /\ paddr' = b
      BY <2>2
    <3>2. b \in Nat /\ Run(b, SectionSize) \subseteq Frame
      BY <1>0, SectionSizeNat, BaseFacts
    <3>3. SectionSize' = SectionSize /\ used = {} /\ mode = "cont"
      BY <1>5 DEF AllocLoadBuffer, fixed, SectionSize, BaseInv, PagesInv
    <3> QED
      BY <1>5, <2>2, <3>1, <3>2, <3>3
         DEF AllocLoadBuffer, BaseInv, ElfType, PoolInv, PagesInv, Goes, fixed
  <2> QED
    BY <1>5, <2>1, <2>2 DEF AllocLoadBuffer
<1>6. CASE SkipPhdr
  <2>1. SectionSize' = SectionSize /\ SectionPages' = SectionPages
    BY <1>6 DEF SkipPhdr, fixed, SectionSize, SectionPages
  <2> QED
    BY <1>6, <2>1 DEF SkipPhdr, BaseInv, ElfType, PoolInv, PagesInv, fixed
<1>7. CASE SectionCont
  <2>1. SectionSize' = SectionSize /\ i \in DOMAIN file.phdrs /\ Pages(phdr.memsz) \in Nat
    <3>1. i \in DOMAIN file.phdrs
      BY <1>0, <1>7, FileFacts DEF SectionCont
    <3> QED
      BY <1>0, <1>7, <3>1, FileFacts, PagesHold DEF SectionCont, fixed, SectionSize, phdr
  <2>2. CASE /\ Fails(TRUE) /\ Free(Run(buf, SectionSize), LoadInfo \cup {"phdrs"})
             /\ UNCHANGED <<mem, secs, i, paddr>>
    <3>1. used' = {} /\ pool' = {}
      BY <1>7, <2>2 DEF SectionCont, Free, LoadInfo, BaseInv, PoolInv, PagesInv
    <3> QED
      BY <1>0, <1>7, <2>2, <3>1, FailsStep DEF SectionCont
  <2>3. CASE /\ Goes("section") /\ Load(mem, paddr) /\ paddr' = paddr + Pages(phdr.memsz)
             /\ UNCHANGED <<pool, used, badFree>>
    <3>1. secs' \in Seq(Section)
      BY <1>0, <2>1, <2>3, Recorded DEF Load, BaseInv, ElfType
    <3> QED
      BY <1>7, <2>1, <2>3, <3>1
         DEF SectionCont, Load, BaseInv, ElfType, PoolInv, PagesInv, Goes, fixed
  <2> QED
    BY <1>7, <2>2, <2>3 DEF SectionCont
<1>8. CASE SectionDiscont
  <2> DEFINE n == Pages(phdr.memsz)
  <2>1. n \in Nat
    <3>1. i \in DOMAIN file.phdrs
      BY <1>0, <1>8, FileFacts DEF SectionDiscont
    <3> QED
      BY <1>0, <3>1, FileFacts, PagesHold DEF phdr
  <2> HIDE DEF n
  <2>2. CASE /\ Goes("section") /\ UNCHANGED <<pool, badFree>>
             /\ \E b \in Bases(n) : used' = used \cup Run(b, n) /\ Load(ZeroPages(mem, b, n), b)
    <3>1. PICK b \in Bases(n) : used' = used \cup Run(b, n) /\ Load(ZeroPages(mem, b, n), b)
      BY <2>2
    <3>2. b \in Nat /\ Run(b, n) \subseteq Frame
      BY <2>1, BaseFacts
    <3>3. secs' \in Seq(Section) /\ SectionPages' = SectionPages \cup Run(b, n)
      BY <1>0, <2>1, <3>1, <3>2, Recorded DEF Load, n
    <3> QED
      BY <1>8, <2>2, <3>1, <3>2, <3>3
         DEF SectionDiscont, Load, BaseInv, ElfType, PoolInv, PagesInv, Goes, fixed
  <2>3. CASE NoSection(n)
    <3>1. used' = used \/ \E b \in Bases(n) : used' = used \cup Run(b, n)
      BY <2>3 DEF NoSection, Free
    <3>2. used' \subseteq Frame
      BY <1>0, <2>1, <3>1, BaseFacts
    <3>3. pool' = {} /\ mode = "discont"
      BY <1>8, <2>3 DEF SectionDiscont, NoSection, Free, LoadInfo, BaseInv, PoolInv
    <3> QED
      BY <1>0, <1>8, <2>3, <3>2, <3>3, FailsStep DEF SectionDiscont, NoSection
  <2> QED
    BY <1>8, <2>2, <2>3 DEF SectionDiscont, n
<1>9. CASE Loaded
  <2>1. SectionSize' = SectionSize /\ SectionPages' = SectionPages
    BY <1>9 DEF Loaded, fixed, SectionSize, SectionPages
  <2> QED
    BY <1>9, <2>1 DEF Loaded, BaseInv, ElfType, PoolInv, PagesInv, Goes, fixed
<1>10. CASE elf_free_sections
  BY <1>10 DEF elf_free_sections, Free, BaseInv, ElfType, PoolInv, PagesInv, fixed
<1>11. CASE elf_free_loadinfo
  BY <1>11 DEF elf_free_loadinfo, Free, LoadInfo, BaseInv, ElfType, PoolInv, PagesInv, fixed
<1>12. CASE UNCHANGED vars
  <2>1. SectionSize' = SectionSize /\ SectionPages' = SectionPages
    BY <1>12 DEF vars, fixed, SectionSize, SectionPages
  <2> QED
    BY <1>12, <2>1 DEF vars, BaseInv, ElfType, PoolInv, PagesInv, fixed
<1> QED
  BY <1>1, <1>2, <1>3, <1>4, <1>5, <1>6, <1>7, <1>8, <1>9, <1>10, <1>11, <1>12
     DEF Next, elf_load_file, Terminated

(* BaseInv is an invariant of the loader.                                  *)
LEMMA BaseInvariant == Spec => []BaseInv
<1>1. Init => BaseInv
  <2> SUFFICES ASSUME Init
               PROVE  BaseInv
    OBVIOUS
  <2>1. ElfType
    BY DEF Init, ElfType, Labels
  <2>2. PoolInv /\ PagesInv
    BY DEF Init, PoolInv, PagesInv
  <2> QED
    BY <2>1, <2>2 DEF BaseInv
<1> QED
  BY <1>1, BaseStep, PTL DEF Spec

(* A load that fails has freed its pool memory, and with ELF_LOAD_CONTIG   *)
(* its pages (the error labels of elf_load_file_cont and _discont).        *)
THEOREM FailureReleasesThm == Spec => []FailureReleases
<1>1. BaseInv => FailureReleases
  BY DEF BaseInv, PoolInv, PagesInv, FailureReleases
<1> QED
  BY <1>1, BaseInvariant, PTL

(* elf_free_sections and elf_free_loadinfo give back all pages of a binary *)
(* loaded by elf_load_file_discont, after a fallback too.                  *)
THEOREM DiscontigReleasedThm == Spec => []DiscontigReleased
<1>1. BaseInv => DiscontigReleased
  BY DEF BaseInv, PoolInv, PagesInv, DiscontigReleased
<1> QED
  BY <1>1, BaseInvariant, PTL


-----------------------------------------------------------------------------
(* The records of the headers gone past, and of the next one.              *)
LEMMA RecordFacts ==
    ASSUME file \in Files, NEW n \in Nat
    PROVE  /\ IsFiniteSet({k \in Loadable : k < n})
           /\ Cardinality({k \in Loadable : k < n}) \in Nat
           /\ \A k \in Loadable : k < n => Record(k) \in 1 .. Cardinality({j \in Loadable : j < n})
           /\ n \in Loadable =>
                 /\ Record(n) = Cardinality({k \in Loadable : k < n}) + 1
                 /\ Cardinality({k \in Loadable : k < n + 1}) = Record(n)
           /\ n \notin Loadable => {k \in Loadable : k < n + 1} = {k \in Loadable : k < n}
<1> DEFINE B(m) == {k \in Loadable : k < m}
<1>1. Loadable \subseteq 1 .. Len(file.phdrs) /\ Len(file.phdrs) \in Nat
  BY FileFacts DEF Loadable
<1>1a. \A k \in Loadable : k \in Nat
  BY <1>1
<1>2. IsFiniteSet(1 .. Len(file.phdrs))
  BY <1>1, FS_Interval
<1>3. IsFiniteSet(B(n)) /\ Cardinality(B(n)) \in Nat
  BY <1>1, <1>2, FS_Subset, FS_CardinalityType
<1>4. ASSUME NEW k \in Loadable, k < n
      PROVE  Record(k) \in 1 .. Cardinality(B(n))
  <2> DEFINE C == {j \in Loadable : j <= k}
  <2>1. C \subseteq B(n) /\ k \in C
    BY <1>1a, <1>4
  <2>2. IsFiniteSet(C) /\ Cardinality(C) \in Nat /\ Cardinality(C) <= Cardinality(B(n))
    BY <1>3, <2>1, FS_Subset, FS_CardinalityType
  <2>3. Cardinality(C) # 0
    BY <2>1, <2>2, FS_EmptySet
  <2> QED
    BY <1>3, <2>2, <2>3 DEF Record
<1>5. ASSUME n \in Loadable
      PROVE  Record(n) = Cardinality(B(n)) + 1 /\ Cardinality(B(n + 1)) = Record(n)
  <2>1. {k \in Loadable : k <= n} = B(n) \cup {n} /\ n \notin B(n) /\ B(n + 1) = B(n) \cup {n}
    <3>1. \A k \in Nat : (k <= n <=> (k < n \/ k = n)) /\ (k < n + 1 <=> (k < n \/ k = n))
      OBVIOUS
    <3>2. \A k : k \in {l \in Loadable : l <= n} <=> k \in B(n) \cup {n}
      BY <1>1a, <1>5, <3>1
    <3>3. \A k : k \in B(n + 1) <=> k \in B(n) \cup {n}
      BY <1>1a, <1>5, <3>1
    <3>4. n \notin B(n)
      OBVIOUS
    <3> QED
      BY <3>2, <3>3, <3>4
  <2>2. Cardinality(B(n) \cup {n}) = Cardinality(B(n)) + 1
    BY <1>3, <2>1, FS_AddElement
  <2> QED
    BY <2>1, <2>2 DEF Record
<1>6. n \notin Loadable => B(n + 1) = B(n)
  BY <1>1a
<1> QED
  BY <1>3, <1>4, <1>5, <1>6

(* A segment read into pages of zeroes.                                    *)
LEMMA ContentRead ==
    ASSUME file \in Files, NEW k \in DOMAIN file.phdrs, NEW b \in Nat, NEW m,
           b + Pages(file.phdrs[k].memsz) <= NFrames,
           \A d \in Cells(b, Pages(file.phdrs[k].memsz)) : m[d] = Zero
    PROVE  Content(ReadTo(m, file.phdrs[k].offset, file.phdrs[k].filesz, b * PageSize),
                   b, file.phdrs[k], file.eof)
<1> DEFINE n == Pages(file.phdrs[k].memsz)
           q == file.phdrs[k].offset
           z == file.phdrs[k].filesz
           c == b * PageSize
           e == file.eof
<1>1. n \in Nat /\ q \in Nat /\ z \in Nat /\ c \in Nat /\ NFrames \in Nat /\ PageSize \in Nat
      /\ e \in Nat
  <2>1. file.phdrs[k].memsz \in Nat /\ q \in Nat /\ z \in Nat /\ e \in Nat
    BY FileFacts
  <2>2. n \in Nat
    BY <2>1, PagesHold
  <2> QED
    BY <2>1, <2>2, MemoryAssumption
<1>2. (b + n) * PageSize = c + n * PageSize /\ n * PageSize \in Nat
  BY <1>1
<1>3. (b + n) * PageSize <= NFrames * PageSize
  BY <1>1, PagesGrow
<1> HIDE DEF n, q, z, c, e
<1>4. ASSUME NEW d \in 0 .. n * PageSize - 1
      PROVE  ReadTo(m, q, z, c)[c + d] = IF d < z /\ q + d < e THEN q + d ELSE Zero
  <2>1. c + d \in Cell /\ c + d \in Cells(b, n) /\ m[c + d] = Zero
    BY <1>1, <1>2, <1>3 DEF Cell, Cells, n, c
  <2>2. c + d \in c .. c + z - 1 <=> d < z
    BY <1>1
  <2>3. q + (c + d) - c = q + d
    BY <1>1
  <2> QED
    BY <2>1, <2>2, <2>3 DEF ReadTo, e
<1> QED
  BY <1>4 DEF Content, n, q, z, c, e

(* A segment is still there in a memory that differs elsewhere.            *)
LEMMA ContentKept ==
    ASSUME NEW f \in Files, NEW k \in DOMAIN f.phdrs, NEW b \in Nat, NEW m, NEW m1, NEW e,
           Content(m, b, f.phdrs[k], e),
           \A d \in Cells(b, Pages(f.phdrs[k].memsz)) : m1[d] = m[d]
    PROVE  Content(m1, b, f.phdrs[k], e)
<1> DEFINE n == Pages(f.phdrs[k].memsz)
           c == b * PageSize
<1>1. n \in Nat /\ c \in Nat /\ PageSize \in Nat
  <2>1. f.phdrs[k].memsz \in Nat
    BY FileFacts
  <2>2. n \in Nat
    BY <2>1, PagesHold
  <2> QED
    BY <2>2, MemoryAssumption
<1>2. (b + n) * PageSize = c + n * PageSize /\ n * PageSize \in Nat
  BY <1>1
<1> HIDE DEF n, c
<1>3. \A d \in 0 .. n * PageSize - 1 : c + d \in Cells(b, n)
  BY <1>1, <1>2 DEF Cells, c
<1> QED
  BY <1>3 DEF Content, n, c

(* Pages apart are cells apart.                                            *)
LEMMA CellsApart ==
    ASSUME NEW a \in Nat, NEW n \in Nat, NEW b \in Nat, NEW m \in Nat,
           Run(a, n) \cap Run(b, m) = {}
    PROVE  Cells(a, n) \cap Cells(b, m) = {}
<1>1. n = 0 \/ m = 0 \/ a + n <= b \/ b + m <= a
  <2> SUFFICES ASSUME n # 0, m # 0, ~(a + n <= b), ~(b + m <= a)
               PROVE  FALSE
    OBVIOUS
  <2>1. CASE a <= b
    BY <2>1, b \in Run(a, n) \cap Run(b, m) DEF Run
  <2>2. CASE b <= a
    BY <2>2, a \in Run(a, n) \cap Run(b, m) DEF Run
  <2> QED
    BY <2>1, <2>2
<1>2. a + n \in Nat /\ b + m \in Nat
  OBVIOUS
<1>3. CASE n = 0 \/ m = 0
  BY <1>2, <1>3, PagesGrow DEF Cells
<1>4. CASE a + n <= b
  BY <1>2, <1>4, PagesGrow DEF Cells
<1>5. CASE b + m <= a
  BY <1>2, <1>5, PagesGrow DEF Cells
<1> QED
  BY <1>1, <1>3, <1>4, <1>5


-----------------------------------------------------------------------------
(* A section was recorded for header i, in pages that are free of the      *)
(* others: what CountInv and the first parts of PlaceInv say of the        *)
(* records.                                                                *)
LEMMA CountStep ==
    ASSUME FaithInv, pc = "section", pc' = "section", i \in Loadable, UNCHANGED fixed,
           i' = i + 1, NEW b \in Nat,
           secs' = Append(secs, [phys |-> b, pageCount |-> Pages(file.phdrs[i].memsz)])
    PROVE  /\ CountInv' /\ Loadable' = Loadable
           /\ \A k \in Loadable : /\ Record(k)' = Record(k)
                                  /\ k < i => /\ Record(k) \in DOMAIN secs
                                             /\ secs'[Record(k)] = secs[Record(k)]
                                  /\ k = i => Record(k) = Len(secs) + 1
<1>1. file \in Files /\ file' = file /\ i \in Nat \ {0} /\ secs \in Seq(Section)
      /\ i \in DOMAIN file.phdrs /\ i <= Len(file.phdrs) /\ Len(file.phdrs) \in Nat
  BY FileFacts DEF FaithInv, BaseInv, ElfType, fixed, Loadable
<1>2. Pages(file.phdrs[i].memsz) \in Nat
  BY <1>1, FileFacts, PagesHold
<1>3. /\ Len(secs') = Len(secs) + 1 /\ DOMAIN secs = 1 .. Len(secs) /\ Len(secs) \in Nat
      /\ \A k \in DOMAIN secs : secs'[k] = secs[k]
      /\ secs'[Len(secs) + 1].pageCount = Pages(file.phdrs[i].memsz)
  BY <1>1, <1>2, Recorded
<1>4. /\ Loadable' = Loadable /\ \A k : Record(k)' = Record(k)
  BY <1>1 DEF Loadable, Record
<1>5. Len(secs) = Cardinality({k \in Loadable : k < i}) /\ Len(secs) \in Nat
  BY <1>1 DEF FaithInv, CountInv
<1>6. /\ \A k \in Loadable : k < i => Record(k) \in DOMAIN secs
      /\ Record(i) = Len(secs) + 1 /\ Cardinality({k \in Loadable : k < i + 1}) = Len(secs) + 1
  BY <1>1, <1>3, <1>5, RecordFacts
<1>7. ASSUME NEW k \in Loadable, k < i + 1
      PROVE  secs'[Record(k)].pageCount = Pages(file.phdrs[k].memsz)
  <2>1. k < i \/ k = i
    <3>1. k \in Nat
      BY <1>1, FileFacts DEF Loadable
    <3> QED
      BY <1>1, <1>7, <3>1
  <2>2. CASE k < i
    BY <1>3, <1>6, <2>2 DEF FaithInv, CountInv
  <2>3. CASE k = i
    BY <1>3, <1>6, <2>3
  <2> QED
    BY <2>1, <2>2, <2>3
<1>8. CountInv'
  BY <1>1, <1>3, <1>4, <1>6, <1>7 DEF CountInv
<1> QED
  BY <1>3, <1>4, <1>6, <1>8

(* The next section of elf_load_file_cont keeps FaithInv: it goes behind   *)
(* the others, into the zeroes that are left.                              *)
LEMMA ContStep ==
    ASSUME SegmentsFit, FaithInv, SectionCont, Goes("section"), Load(mem, paddr),
           paddr' = paddr + Pages(phdr.memsz)
    PROVE  CountInv' /\ PlaceInv' /\ ContentInv'
<1> DEFINE n == Pages(phdr.memsz)
           c == paddr * PageSize
<1>1. /\ file \in Files /\ file' = file /\ i \in Nat \ {0} /\ secs \in Seq(Section)
      /\ buf \in Nat /\ paddr \in Nat /\ buf' = buf /\ mode = "cont" /\ mode' = "cont"
      /\ pc = "section" /\ pc' = "section"
  BY DEF FaithInv, BaseInv, ElfType, SectionCont, Goes, fixed
<1>2. i \in DOMAIN file.phdrs /\ i \in Loadable /\ i \in 1 .. Len(file.phdrs)
  BY <1>1, FileFacts DEF SectionCont, Loadable, phdr
<1>3. n \in Nat /\ NFrames \in Nat /\ PageSize \in Nat \ {0}
      /\ phdr.filesz \in Nat /\ phdr.offset \in Nat
  <2>1. phdr.memsz \in Nat /\ phdr.filesz \in Nat /\ phdr.offset \in Nat
    BY <1>1, <1>2, FileFacts DEF phdr
  <2>2. n \in Nat
    BY <2>1, PagesHold
  <2>3. NFrames \in Nat /\ PageSize \in Nat \ {0}
    BY MemoryAssumption
  <2> QED
    BY <2>1, <2>2, <2>3
<1>4. /\ SizeTo(file)[i] = SizeTo(file)[i - 1] + Term(file, i)
      /\ SizeTo(file)[i - 1] \in Nat /\ SizeTo(file)[i] \in Nat
      /\ SizeTo(file)[i] <= SectionSize /\ SectionSize \in Nat /\ n <= Term(file, i)
      /\ Term(file, i) \in Nat
  <2>1. i - 1 \in 0 .. Len(file.phdrs) /\ i \in 0 .. Len(file.phdrs)
    BY <1>1, <1>2, FileFacts
  <2>2. n <= Term(file, i) /\ Term(file, i) \in Nat
    BY <1>1, <1>2, TermFacts DEF Loadable, phdr
  <2> QED
    BY <1>1, <1>2, <2>1, <2>2, SizeToFacts, SectionSizeNat DEF SectionSize
<1>5. /\ buf + SectionSize <= NFrames /\ buf <= paddr /\ paddr <= buf + SizeTo(file)[i - 1]
      /\ \A j \in DOMAIN secs : buf <= secs[j].phys /\ secs[j].phys + secs[j].pageCount <= paddr
  BY <1>1 DEF FaithInv, PlaceInv
<1>6. /\ secs' = Append(secs, [phys |-> paddr, pageCount |-> n]) /\ i' = i + 1
      /\ mem' = ReadTo(mem, phdr.offset, phdr.filesz, c)
  BY DEF Load
<1>7. /\ CountInv' /\ Loadable' = Loadable
      /\ \A k \in Loadable : /\ Record(k)' = Record(k)
                             /\ k < i => /\ Record(k) \in DOMAIN secs
                                        /\ secs'[Record(k)] = secs[Record(k)]
                             /\ k = i => Record(k) = Len(secs) + 1
  <2>1. UNCHANGED fixed
    BY DEF SectionCont
  <2> QED
    BY <1>1, <1>2, <1>6, <2>1, CountStep DEF phdr
<1>8. paddr + n <= buf + SizeTo(file)[i] /\ paddr + n <= buf + SectionSize /\ paddr + n <= NFrames
      /\ paddr + n \in Nat /\ paddr' = paddr + n
  <2>1. paddr' = paddr + n
    OBVIOUS
  <2>2. n \in Nat /\ NFrames \in Nat /\ buf \in Nat /\ paddr \in Nat
    BY <1>1, <1>3
  <2>3. buf + SectionSize <= NFrames /\ paddr <= buf + SizeTo(file)[i - 1]
    BY <1>5
  <2> HIDE DEF n
  <2> QED
    BY <1>4, <2>1, <2>2, <2>3
<1>9. /\ DOMAIN secs = 1 .. Len(secs) /\ DOMAIN secs' = 1 .. Len(secs) + 1 /\ Len(secs) \in Nat
      /\ \A j \in DOMAIN secs : secs'[j] = secs[j]
      /\ secs'[Len(secs) + 1].phys = paddr /\ secs'[Len(secs) + 1].pageCount = n
  BY <1>1, <1>3, <1>6, Recorded
<1>10. \A j \in DOMAIN secs : secs[j].phys \in Nat /\ secs[j].pageCount \in Nat
  BY <1>1, SectionFields
<1>11. SectionSize' = SectionSize /\ SizeTo(file')[i' - 1] = SizeTo(file)[i]
  BY <1>1, <1>6 DEF SectionSize
<1> HIDE DEF n, c
<1>12. PlaceInv'
  <2>1. ASSUME NEW j \in DOMAIN secs
        PROVE  Run(secs[j].phys, secs[j].pageCount) \cap Run(paddr, n) = {}
    <3>1. /\ secs[j].phys \in Nat /\ secs[j].pageCount \in Nat /\ paddr \in Nat /\ n \in Nat
          /\ secs[j].phys + secs[j].pageCount <= paddr
      BY <1>1, <1>3, <1>5, <1>10
    <3> QED
      BY <3>1 DEF Run
  <2>2. \A j, k \in DOMAIN secs' : j # k =>
          Run(secs'[j].phys, secs'[j].pageCount) \cap Run(secs'[k].phys, secs'[k].pageCount) = {}
    <3>1. ASSUME NEW j \in DOMAIN secs', NEW k \in DOMAIN secs', j # k
          PROVE  Run(secs'[j].phys, secs'[j].pageCount)
                   \cap Run(secs'[k].phys, secs'[k].pageCount) = {}
      <4>1. CASE j \in DOMAIN secs /\ k \in DOMAIN secs
        BY <1>1, <1>9, <3>1, <4>1 DEF FaithInv, PlaceInv
      <4>2. CASE j = Len(secs) + 1 /\ k \in DOMAIN secs
        BY <1>9, <2>1, <4>2
      <4>3. CASE k = Len(secs) + 1 /\ j \in DOMAIN secs
        BY <1>9, <2>1, <4>3
      <4> QED
        BY <1>9, <3>1, <4>1, <4>2, <4>3
    <3> QED
      BY <3>1
  <2>3. \A j \in DOMAIN secs' : /\ buf <= secs'[j].phys
                                /\ secs'[j].phys + secs'[j].pageCount <= paddr + n
                                /\ secs'[j].phys + secs'[j].pageCount <= NFrames
    <3>1. n \in Nat /\ NFrames \in Nat /\ buf \in Nat /\ paddr \in Nat
      BY <1>1, <1>3
    <3>2. ASSUME NEW j \in DOMAIN secs
          PROVE  buf <= secs'[j].phys /\ secs'[j].phys + secs'[j].pageCount <= paddr
                 /\ secs'[j].phys + secs'[j].pageCount \in Nat
      BY <1>5, <1>9, <1>10
    <3> QED
      BY <1>5, <1>8, <1>9, <3>1, <3>2
  <2>4. buf + SectionSize <= NFrames /\ buf <= paddr + n
    BY <1>1, <1>3, <1>5
  <2> QED
    BY <1>1, <1>8, <1>11, <2>2, <2>3, <2>4 DEF PlaceInv
<1>13. ContentInv'
  <2> SUFFICES ASSUME Contained
               PROVE  ContentInv'
    BY <1>1 DEF ContentInv, Contained, Loadable
  <2>0. phdr.filesz <= n * PageSize
    BY <1>2 DEF Contained, phdr, n
  <2>1. /\ c \in Nat /\ (paddr + n) * PageSize = c + n * PageSize /\ n * PageSize \in Nat
        /\ (buf + SectionSize) * PageSize \in Nat
        /\ c + n * PageSize <= (buf + SectionSize) * PageSize
        /\ (buf + SectionSize) * PageSize <= NFrames * PageSize
        /\ NFrames * PageSize \in Nat
    <3>1. c \in Nat /\ (paddr + n) * PageSize = c + n * PageSize /\ n * PageSize \in Nat
      BY <1>1, <1>3 DEF c
    <3>2. buf + SectionSize \in Nat
      BY <1>1, <1>4
    <3> QED
      BY <1>3, <1>5, <1>8, <3>1, <3>2, PagesGrow
  <2>2. \A d \in c .. (buf + SectionSize) * PageSize - 1 : mem[d] = Zero
    BY <1>1 DEF FaithInv, ContentInv, c
  <2>3. \A d \in Cell : d \notin c .. c + phdr.filesz - 1 => mem'[d] = mem[d]
    BY <1>6 DEF ReadTo
  <2>4. Content(mem', paddr, file.phdrs[i], file.eof)
    <3>1. Cells(paddr, n) \subseteq c .. (buf + SectionSize) * PageSize - 1
      BY <2>1 DEF Cells, c
    <3> QED
      BY <1>1, <1>2, <1>6, <1>8, <2>2, <3>1, ContentRead DEF phdr, n, c
  <2>5. ASSUME NEW k \in Loadable, k < i
        PROVE  Content(mem', secs[Record(k)].phys, file.phdrs[k], file.eof)
    <3> DEFINE p == secs[Record(k)].phys
               m == Pages(file.phdrs[k].memsz)
    <3>1. k \in DOMAIN file.phdrs /\ Content(mem, p, file.phdrs[k], file.eof)
          /\ secs[Record(k)].pageCount = m
      BY <1>1, <2>5 DEF FaithInv, CountInv, ContentInv, Loadable
    <3>2. p \in Nat /\ m \in Nat /\ p + m <= paddr
      BY <1>5, <1>7, <1>10, <2>5, <3>1
    <3> HIDE DEF p, m
    <3>3. (p + m) * PageSize <= c /\ p * PageSize \in Nat /\ (p + m) * PageSize \in Nat
      <4>1. p + m \in Nat
        BY <3>2
      <4>2. paddr \in Nat /\ c = paddr * PageSize
        BY <1>1 DEF c
      <4>3. (p + m) * PageSize \in Nat /\ (p + m) * PageSize <= paddr * PageSize
        BY <3>2, <4>1, <4>2, PagesGrow
      <4>4. p * PageSize \in Nat
        BY <3>2, PagesGrow
      <4> QED
        BY <4>2, <4>3, <4>4
    <3>4. \A d \in Cells(p, m) : d \in Cell /\ d \notin c .. c + phdr.filesz - 1
      BY <2>1, <3>3 DEF Cells, Cell
    <3>5. \A d \in Cells(p, m) : mem'[d] = mem[d]
      BY <2>3, <3>4
    <3> QED
      BY <1>1, <3>1, <3>2, <3>5, ContentKept DEF p, m
  <2>6. ASSUME NEW k \in Loadable, k < i + 1
        PROVE  Content(mem', (secs[Record(k)].phys)', file.phdrs[k], file.eof)
    <3>1. k < i \/ k = i
      <4>1. k \in Nat
        BY <1>1, FileFacts DEF Loadable
      <4> QED
        BY <1>1, <2>6, <4>1
    <3>2. CASE k < i
      BY <1>7, <2>5, <3>2
    <3>3. CASE k = i
      BY <1>7, <1>9, <2>4, <3>3
    <3> QED
      BY <3>1, <3>2, <3>3
  <2>7. \A d \in (paddr + n) * PageSize .. (buf + SectionSize) * PageSize - 1 : mem'[d] = Zero
    <3>1. ASSUME NEW d \in (paddr + n) * PageSize .. (buf + SectionSize) * PageSize - 1
          PROVE  mem'[d] = Zero
      <4>1. d \in Cell /\ d \notin c .. c + phdr.filesz - 1
            /\ d \in c .. (buf + SectionSize) * PageSize - 1
        BY <1>3, <2>0, <2>1 DEF Cell
      <4> QED
        BY <2>2, <2>3, <4>1
    <3> QED
      BY <3>1
  <2> QED
    BY <1>1, <1>6, <1>7, <1>8, <1>11, <2>6, <2>7 DEF ContentInv
<1> QED
  BY <1>7, <1>12, <1>13


(* The next section of elf_load_file_discont keeps FaithInv: its pages are *)
(* none of the others' and were zeroed.                                    *)
LEMMA DiscontStep ==
    ASSUME FaithInv, SectionDiscont, Goes("section"), NEW b \in Bases(Pages(phdr.memsz)),
           Load(ZeroPages(mem, b, Pages(phdr.memsz)), b)
    PROVE  CountInv' /\ PlaceInv' /\ ContentInv'
<1> DEFINE n == Pages(phdr.memsz)
           c == b * PageSize
           z == ZeroPages(mem, b, n)
<1>1. /\ file \in Files /\ file' = file /\ i \in Nat \ {0} /\ secs \in Seq(Section)
      /\ mode = "discont" /\ mode' = "discont"
      /\ pc = "section" /\ pc' = "section"
  BY DEF FaithInv, BaseInv, ElfType, SectionDiscont, Goes, fixed
<1>2. i \in DOMAIN file.phdrs /\ i \in Loadable
  BY <1>1, FileFacts DEF SectionDiscont, Loadable, phdr
<1>3. n \in Nat /\ phdr.filesz \in Nat /\ n * PageSize \in Nat
  <2>1. phdr.memsz \in Nat /\ phdr.filesz \in Nat
    BY <1>1, <1>2, FileFacts DEF phdr
  <2>2. n \in Nat
    BY <2>1, PagesHold
  <2>3. n * PageSize \in Nat
    BY <2>2, MemoryAssumption
  <2> QED
    BY <2>1, <2>2, <2>3
<1>4. b \in Nat /\ b + n <= NFrames /\ Run(b, n) \cap used = {}
  BY <1>3, BaseFacts
<1>5. /\ secs' = Append(secs, [phys |-> b, pageCount |-> n]) /\ i' = i + 1
      /\ mem' = ReadTo(z, phdr.offset, phdr.filesz, c)
  BY DEF Load
<1>6. /\ CountInv' /\ Loadable' = Loadable
      /\ \A k \in Loadable : /\ Record(k)' = Record(k)
                             /\ k < i => /\ Record(k) \in DOMAIN secs
                                        /\ secs'[Record(k)] = secs[Record(k)]
                             /\ k = i => Record(k) = Len(secs) + 1
  <2>1. UNCHANGED fixed
    BY DEF SectionDiscont
  <2> QED
    BY <1>1, <1>2, <1>4, <1>5, <2>1, CountStep DEF phdr
<1>7. /\ DOMAIN secs = 1 .. Len(secs) /\ DOMAIN secs' = 1 .. Len(secs) + 1 /\ Len(secs) \in Nat
      /\ \A j \in DOMAIN secs : secs'[j] = secs[j]
      /\ secs'[Len(secs) + 1].phys = b /\ secs'[Len(secs) + 1].pageCount = n
  BY <1>1, <1>3, <1>4, <1>5, Recorded
<1>8. \A j \in DOMAIN secs : secs[j].phys \in Nat /\ secs[j].pageCount \in Nat
  BY <1>1, SectionFields
<1>9. \A j \in DOMAIN secs : Run(secs[j].phys, secs[j].pageCount) \cap Run(b, n) = {}
  <2>1. used = SectionPages
    BY <1>1 DEF FaithInv, BaseInv, PagesInv
  <2> QED
    BY <1>4, <2>1 DEF SectionPages
<1> HIDE DEF n, c, z
<1>10. PlaceInv'
  <2>1. ASSUME NEW j \in DOMAIN secs', NEW k \in DOMAIN secs', j # k
        PROVE  Run(secs'[j].phys, secs'[j].pageCount)
                 \cap Run(secs'[k].phys, secs'[k].pageCount) = {}
    <3>1. CASE j \in DOMAIN secs /\ k \in DOMAIN secs
      BY <1>1, <1>7, <2>1, <3>1 DEF FaithInv, PlaceInv
    <3>2. CASE j = Len(secs) + 1 /\ k \in DOMAIN secs
      BY <1>7, <1>9, <3>2
    <3>3. CASE k = Len(secs) + 1 /\ j \in DOMAIN secs
      BY <1>7, <1>9, <3>3
    <3> QED
      BY <1>7, <2>1, <3>1, <3>2, <3>3
  <2>2. ASSUME NEW j \in DOMAIN secs'
        PROVE  secs'[j].phys + secs'[j].pageCount <= NFrames
    <3>1. CASE j \in DOMAIN secs
      BY <1>1, <1>7, <3>1 DEF FaithInv, PlaceInv
    <3>2. CASE j = Len(secs) + 1
      BY <1>4, <1>7, <3>2
    <3> QED
      BY <1>7, <2>2, <3>1, <3>2
  <2> QED
    BY <1>1, <2>1, <2>2 DEF PlaceInv
<1>11. ContentInv'
  <2> SUFFICES ASSUME Contained
               PROVE  ContentInv'
    BY <1>1 DEF ContentInv, Contained, Loadable
  <2>0. phdr.filesz <= n * PageSize
    BY <1>2 DEF Contained, phdr, n
  <2>1. c \in Nat /\ (b + n) * PageSize = c + n * PageSize
    BY <1>3, <1>4, MemoryAssumption DEF c
  <2>2. \A d \in Cell : d \notin Cells(b, n) => mem'[d] = mem[d]
    <3>1. c .. c + phdr.filesz - 1 \subseteq Cells(b, n)
      BY <1>3, <2>0, <2>1 DEF Cells, c
    <3> QED
      BY <1>5, <3>1 DEF ReadTo, ZeroPages, z
  <2>3. ASSUME NEW a \in Nat, NEW m \in Nat, a + m <= NFrames
        PROVE  Cells(a, m) \subseteq Cell
    <3>1. (a + m) * PageSize <= NFrames * PageSize /\ a * PageSize \in Nat
          /\ (a + m) * PageSize \in Nat /\ NFrames * PageSize \in Nat
      BY <2>3, PagesGrow, MemoryAssumption
    <3> QED
      BY <3>1 DEF Cells, Cell
  <2>4. Content(mem', b, file.phdrs[i], file.eof)
    <3>1. \A d \in Cells(b, n) : z[d] = Zero
      BY <1>3, <1>4, <2>3 DEF ZeroPages, z
    <3> QED
      BY <1>1, <1>2, <1>4, <1>5, <3>1, ContentRead DEF phdr, n, c
  <2>5. ASSUME NEW k \in Loadable, k < i
        PROVE  Content(mem', secs[Record(k)].phys, file.phdrs[k], file.eof)
    <3> DEFINE p == secs[Record(k)].phys
               m == Pages(file.phdrs[k].memsz)
    <3>1. k \in DOMAIN file.phdrs /\ Content(mem, p, file.phdrs[k], file.eof)
          /\ secs[Record(k)].pageCount = m
      BY <1>1, <2>5 DEF FaithInv, CountInv, ContentInv, Loadable
    <3>2. p \in Nat /\ m \in Nat /\ p + m <= NFrames /\ Run(p, m) \cap Run(b, n) = {}
      BY <1>1, <1>6, <1>8, <1>9, <2>5, <3>1 DEF FaithInv, PlaceInv
    <3> HIDE DEF p, m
    <3>3. Cells(p, m) \cap Cells(b, n) = {} /\ Cells(p, m) \subseteq Cell
      BY <1>3, <1>4, <2>3, <3>2, CellsApart
    <3>4. \A d \in Cells(p, m) : mem'[d] = mem[d]
      BY <2>2, <3>3
    <3> QED
      BY <1>1, <3>1, <3>2, <3>4, ContentKept DEF p, m
  <2>6. ASSUME NEW k \in Loadable, k < i + 1
        PROVE  Content(mem', (secs[Record(k)].phys)', file.phdrs[k], file.eof)
    <3>1. k < i \/ k = i
      <4>1. k \in Nat
        BY <1>1, FileFacts DEF Loadable
      <4> QED
        BY <1>1, <2>6, <4>1
    <3>2. CASE k < i
      BY <1>6, <2>5, <3>2
    <3>3. CASE k = i
      BY <1>6, <1>7, <2>4, <3>3
    <3> QED
      BY <3>1, <3>2, <3>3
  <2> QED
    BY <1>1, <1>5, <1>6, <2>6 DEF ContentInv
<1> QED
  BY <1>6, <1>10, <1>11

(* The loops start: no header gone past, and a contiguous buffer of zeroes. *)
LEMMA LoopStarts ==
    ASSUME BaseInv', i' = 1, secs' = <<>>, pc' = "section",
           mode' = "cont" => /\ buf' + SectionSize' <= NFrames /\ paddr' = buf'
                             /\ \A d \in buf' * PageSize .. (buf' + SectionSize') * PageSize - 1 :
                                   mem'[d] = Zero
    PROVE  CountInv' /\ PlaceInv' /\ ContentInv'
<1>1. file' \in Files /\ buf' \in Nat
  BY DEF BaseInv, ElfType
<1>2. /\ Loadable' \subseteq Nat \ {0} /\ Len(file'.phdrs) \in Nat
  BY <1>1, FileFacts DEF Loadable
<1>3. Len(secs') = 0 /\ DOMAIN secs' = {}
  OBVIOUS
<1>4. \A k \in Loadable' : ~(k < 1)
  BY <1>2
<1>5. CountInv'
  <2>1. {k \in Loadable' : k < i'} = {}
    BY <1>4
  <2>2. Cardinality({k \in Loadable' : k < i'}) = 0
    BY <2>1, FS_EmptySet
  <2> QED
    BY <1>2, <1>3, <1>4, <2>2 DEF CountInv
<1>6. PlaceInv'
  <2>1. SizeTo(file')[i' - 1] = 0
    BY <1>1, SizeToFacts
  <2> QED
    BY <1>1, <1>3, <2>1 DEF PlaceInv
<1>7. ContentInv'
  BY <1>4 DEF ContentInv
<1> QED
  BY <1>5, <1>6, <1>7

(* Every step keeps FaithInv.                                              *)
LEMMA FaithStep ==
    ASSUME SegmentsFit, FaithInv, [Next]_vars
    PROVE  FaithInv'
<1>0. BaseInv /\ BaseInv' /\ file \in Files /\ i \in Nat \ {0} /\ mode \in {"cont", "discont"}
  BY BaseStep DEF FaithInv, BaseInv, ElfType
<1> SUFFICES CountInv' /\ PlaceInv' /\ ContentInv'
  BY <1>0 DEF FaithInv
<1>1. pc' \notin {"loadbuf", "section", "loaded"} => CountInv' /\ PlaceInv' /\ ContentInv'
  BY DEF CountInv, PlaceInv, ContentInv
<1>2. (\E err : Fails(err)) => pc' \notin {"loadbuf", "section", "loaded"}
  BY DEF Fails
<1>3. CASE ReadEhdr \/ AllocPhdrs \/ ReadPhdrs \/ elf_free_sections \/ elf_free_loadinfo
  BY <1>1, <1>2, <1>3
     DEF ReadEhdr, AllocPhdrs, ReadPhdrs, elf_free_sections, elf_free_loadinfo, Goes
<1>4. CASE AllocSecinfo
  <2>1. CASE pc' = "section" /\ mode' = "discont" /\ i' = 1 /\ secs' = <<>>
    BY <1>0, <2>1, LoopStarts
  <2>2. CASE pc' = "loadbuf" /\ i' = 1 /\ secs' = <<>>
    BY <2>2 DEF CountInv, PlaceInv, ContentInv
  <2> QED
    BY <1>0, <1>1, <1>2, <1>4, <2>1, <2>2 DEF AllocSecinfo, Goes
<1>5. CASE AllocLoadBuffer
  <2>1. CASE pc' = "section"
    <3>1. PICK b \in Bases(SectionSize) : mem' = ZeroPages(mem, b, SectionSize) /\ buf' = b /\ paddr' = b
      BY <1>2, <1>5, <2>1 DEF AllocLoadBuffer
    <3>2. /\ secs' = <<>> /\ i' = 1 /\ SectionSize' = SectionSize
      BY <1>5 DEF AllocLoadBuffer, FaithInv, CountInv, fixed, SectionSize
    <3>3. b \in Nat /\ b + SectionSize <= NFrames /\ SectionSize \in Nat /\ NFrames \in Nat
      BY <1>0, SectionSizeNat, BaseFacts, MemoryAssumption
    <3>4. \A d \in b * PageSize .. (b + SectionSize) * PageSize - 1 : mem'[d] = Zero
      <4>1. /\ b * PageSize \in Nat /\ (b + SectionSize) * PageSize \in Nat
            /\ NFrames * PageSize \in Nat
            /\ (b + SectionSize) * PageSize <= NFrames * PageSize
        BY <3>3, PagesGrow, MemoryAssumption
      <4>2. b * PageSize .. (b + SectionSize) * PageSize - 1 \subseteq Cell
        BY <4>1 DEF Cell
      <4> QED
        BY <3>1, <4>2 DEF ZeroPages, Cells
    <3> QED
      BY <1>0, <2>1, <3>1, <3>2, <3>3, <3>4, LoopStarts
  <2>2. CASE pc' # "section"
    BY <1>1, <1>2, <1>5, <2>2 DEF AllocLoadBuffer, Goes
  <2> QED
    BY <2>1, <2>2
<1>6. CASE SkipPhdr
  <2>1. /\ pc = "section" /\ pc' = "section" /\ i' = i + 1 /\ i \notin Loadable
        /\ i <= Len(file.phdrs) /\ file' = file /\ UNCHANGED <<mode, mem, buf, paddr, secs>>
    BY <1>6 DEF SkipPhdr, fixed, Loadable, phdr
  <2>2. /\ Loadable' = Loadable /\ \A k : Record(k)' = Record(k)
        /\ SectionSize' = SectionSize /\ Len(file.phdrs) \in Nat
        /\ Contained' = Contained
    BY <1>0, <2>1, FileFacts DEF Loadable, Record, SectionSize, Contained
  <2>3. \A k \in Loadable : k < i + 1 <=> k < i
    <3>1. \A k \in Loadable : k \in Nat /\ k # i
      BY <1>0, <2>1, FileFacts DEF Loadable
    <3> QED
      BY <1>0, <3>1
  <2>4. Cardinality({k \in Loadable' : k < i'}) = Cardinality({k \in Loadable : k < i})
    <3>1. {k \in Loadable' : k < i'} = {k \in Loadable : k < i}
      BY <2>1, <2>2, <2>3
    <3> QED
      BY <3>1
  <2>5. CountInv'
    BY <1>0, <2>1, <2>2, <2>3, <2>4 DEF FaithInv, CountInv
  <2>6. PlaceInv'
    <3>1. /\ SizeTo(file)[i] = SizeTo(file)[i - 1] + Term(file, i)
          /\ SizeTo(file)[i - 1] \in Nat /\ Term(file, i) \in Nat
      <4>1. i \in 1 .. Len(file.phdrs) /\ i - 1 \in 0 .. Len(file.phdrs) /\ i \in DOMAIN file.phdrs
        BY <1>0, <2>1, <2>2, FileFacts
      <4> QED
        BY <1>0, <4>1, SizeToFacts, TermFacts
    <3>2. i' - 1 = i /\ buf \in Nat /\ paddr \in Nat
      BY <1>0, <2>1 DEF BaseInv, ElfType
    <3>3. paddr <= buf + SizeTo(file)[i - 1] => paddr <= buf + SizeTo(file)[i]
      BY <3>1, <3>2
    <3> QED
      BY <2>1, <2>2, <3>2, <3>3 DEF FaithInv, PlaceInv
  <2>7. ContentInv'
    BY <2>1, <2>2, <2>3 DEF FaithInv, ContentInv
  <2> QED
    BY <2>5, <2>6, <2>7
<1>7. CASE SectionCont
  BY <1>1, <1>2, <1>7, ContStep DEF SectionCont
<1>8. CASE SectionDiscont
  <2>1. CASE /\ Goes("section")
             /\ \E b \in Bases(Pages(phdr.memsz)) : Load(ZeroPages(mem, b, Pages(phdr.memsz)), b)
    BY <1>8, <2>1, DiscontStep
  <2>2. CASE NoSection(Pages(phdr.memsz))
    BY <1>1, <1>2, <2>2 DEF NoSection
  <2> QED
    BY <1>8, <2>1, <2>2 DEF SectionDiscont
<1>9. CASE Loaded \/ UNCHANGED vars
  <2>1. /\ file' = file /\ UNCHANGED <<i, mode, mem, buf, paddr, secs>>
        /\ pc' = pc \/ (pc = "section" /\ pc' = "loaded" /\ i > Len(file.phdrs))
    BY <1>9 DEF Loaded, Goes, fixed, vars
  <2>2. /\ Loadable' = Loadable /\ \A k : Record(k)' = Record(k)
        /\ SectionSize' = SectionSize /\ Len(file.phdrs) \in Nat
        /\ Contained' = Contained
    BY <1>0, <2>1, FileFacts DEF Loadable, Record, SectionSize, Contained
  <2>3. CountInv'
    BY <1>0, <2>1, <2>2 DEF FaithInv, CountInv
  <2>4. PlaceInv'
    BY <2>1, <2>2 DEF FaithInv, PlaceInv
  <2>5. ContentInv'
    BY <2>1, <2>2 DEF FaithInv, ContentInv
  <2> QED
    BY <2>3, <2>4, <2>5
<1> QED
  BY <1>3, <1>4, <1>5, <1>6, <1>7, <1>8, <1>9 DEF Next, elf_load_file, Terminated


(* With segments that fit, FaithInv is an invariant of the loader.         *)
LEMMA FaithInvariant ==
    ASSUME SegmentsFit
    PROVE  Spec => []FaithInv
<1>1. Init => FaithInv
  <2> SUFFICES ASSUME Init
               PROVE  FaithInv
    OBVIOUS
  <2>1. BaseInv
    BY DEF Init, BaseInv, ElfType, Labels, PoolInv, PagesInv
  <2>2. CountInv /\ PlaceInv /\ ContentInv
    BY DEF Init, CountInv, PlaceInv, ContentInv
  <2> QED
    BY <2>1, <2>2 DEF FaithInv
<1>2. FaithInv /\ [Next]_vars => FaithInv'
  BY FaithStep
<1> QED
  BY <1>1, <1>2, PTL DEF Spec

(* A page of a recorded section is allocated.                              *)
LEMMA SectionsUsed ==
    ASSUME FaithInv, pc \in {"section", "loaded"}
    PROVE  SectionPages \subseteq used
<1>1. CASE mode = "discont"
  BY <1>1 DEF FaithInv, BaseInv, PagesInv
<1>2. CASE mode = "cont"
  <2>1. /\ used = Run(buf, SectionSize) /\ buf \in Nat /\ paddr \in Nat /\ SectionSize \in Nat
        /\ secs \in Seq(Section) /\ file \in Files /\ i \in Nat \ {0}
    BY <1>2, SectionSizeNat DEF FaithInv, BaseInv, ElfType, PagesInv
  <2>2. paddr <= buf + SectionSize
    <3>1. i - 1 \in 0 .. Len(file.phdrs) /\ Len(file.phdrs) \in 0 .. Len(file.phdrs)
      BY <2>1, FileFacts DEF FaithInv, CountInv
    <3>2. SizeTo(file)[i - 1] <= SectionSize /\ SizeTo(file)[i - 1] \in Nat
      BY <2>1, <3>1, SizeToFacts DEF SectionSize
    <3> QED
      BY <1>2, <2>1, <3>2 DEF FaithInv, PlaceInv
  <2>3. ASSUME NEW j \in DOMAIN secs
        PROVE  Run(secs[j].phys, secs[j].pageCount) \subseteq used
    <3>1. secs[j].phys \in Nat /\ secs[j].pageCount \in Nat
      BY <2>1, SectionFields
    <3>2. buf <= secs[j].phys /\ secs[j].phys + secs[j].pageCount <= paddr
      BY <1>2 DEF FaithInv, PlaceInv
    <3> QED
      BY <2>1, <2>2, <3>1, <3>2 DEF Run
  <2> QED
    BY <2>3 DEF SectionPages
<1> QED
  BY <1>1, <1>2 DEF FaithInv, BaseInv, ElfType

(* Whichever strategy loaded it, the binary is in memory as its program    *)
(* headers say (elf_load_file): its records and pages when no segment is   *)
(* so large that elf_get_section_size wraps around, its contents when also *)
(* none overruns its pages.                                                *)
THEOREM LoadedFaithfulThm ==
    ASSUME SegmentsFit
    PROVE  Spec => []LoadedFaithful
<1>1. FaithInv => LoadedFaithful
  <2> SUFFICES ASSUME FaithInv, pc = "loaded"
               PROVE  LoadedFaithful
    BY DEF LoadedFaithful
  <2>1. file \in Files /\ i = Len(file.phdrs) + 1 /\ Len(file.phdrs) \in Nat
    BY FileFacts DEF FaithInv, BaseInv, ElfType, CountInv
  <2>2. \A k \in Loadable : k < i
    BY <2>1, FileFacts DEF Loadable
  <2>3. {k \in Loadable : k < i} = Loadable
    BY <2>2
  <2>4. Len(secs) = Cardinality(Loadable)
    BY <2>3 DEF FaithInv, CountInv
  <2>5. ASSUME NEW k \in Loadable
        PROVE  /\ secs[Record(k)].pageCount = Pages(file.phdrs[k].memsz)
               /\ Run(secs[Record(k)].phys, secs[Record(k)].pageCount) \subseteq used
               /\ Contained => Content(mem, secs[Record(k)].phys, file.phdrs[k], file.eof)
    <3>1. Record(k) \in DOMAIN secs
      <4>1. Record(k) \in 1 .. Len(secs)
        <5>1. i \in Nat /\ k < i /\ Len(secs) = Cardinality({j \in Loadable : j < i})
          BY <2>2 DEF FaithInv, BaseInv, ElfType, CountInv
        <5> QED
          BY <2>1, <5>1, RecordFacts
      <4> QED
        BY <4>1 DEF FaithInv, BaseInv, ElfType
    <3> QED
      BY <2>2, <3>1, SectionsUsed DEF SectionPages, FaithInv, CountInv, ContentInv
  <2> QED
    BY <2>4, <2>5 DEF LoadedFaithful, Content, FaithInv, PlaceInv
<1> QED
  BY <1>1, FaithInvariant, PTL

(* No page and no pool buffer is freed that is not allocated: not by the   *)
(* error paths of the two strategies, not by elf_free_sections, not by     *)
(* elf_free_loadinfo through a pointer that was freed before.              *)
THEOREM NoBadFreeThm ==
    ASSUME SegmentsFit
    PROVE  Spec => []NoBadFree
<1>1. Init => NoBadFree
  BY DEF Init, NoBadFree
<1>2. FaithInv /\ NoBadFree /\ [Next]_vars => NoBadFree'
  <2> SUFFICES ASSUME FaithInv, NoBadFree, [Next]_vars
               PROVE  NoBadFree'
    OBVIOUS
  <2>1. ASSUME NEW S, NEW B, S \subseteq used, B \subseteq pool, Checked(S, B)
        PROVE  NoBadFree'
    BY <2>1 DEF Checked, NoBadFree
  <2>2. /\ pc \in {"phdrs", "secinfo"} => {"phdrs"} \subseteq pool
        /\ pc \in {"loadbuf", "section"} => LoadInfo \cup {"phdrs"} \subseteq pool
        /\ pc = "sections_freed" => LoadInfo \subseteq pool
        /\ {} \subseteq pool /\ {} \subseteq used
    BY DEF FaithInv, BaseInv, PoolInv, LoadInfo
  <2>11. ASSUME NEW B, B \subseteq pool, Checked({}, B)
         PROVE  NoBadFree'
    <3>1. {} \subseteq used
      OBVIOUS
    <3> QED
      BY <2>1, <2>11, <3>1, Zenon
  <2>3. badFree' = badFree => NoBadFree'
    BY DEF NoBadFree
  <2>4. CASE ReadPhdrs \/ AllocSecinfo
    <3>1. badFree' = badFree \/ Checked({}, {"phdrs"})
      BY <2>4 DEF ReadPhdrs, AllocSecinfo, Free
    <3>2. {"phdrs"} \subseteq pool
      BY <2>2, <2>4 DEF ReadPhdrs, AllocSecinfo
    <3> QED
      BY <2>3, <2>11, <3>1, <3>2, Zenon
  <2>5. CASE AllocLoadBuffer
    <3>1. badFree' = badFree \/ Checked({}, LoadInfo \cup {"phdrs"})
      BY <2>5 DEF AllocLoadBuffer, Free
    <3>2. LoadInfo \cup {"phdrs"} \subseteq pool
      BY <2>2, <2>5 DEF AllocLoadBuffer
    <3> QED
      BY <2>3, <2>11, <3>1, <3>2, Zenon
  <2>6. CASE SectionCont
    <3>1. Run(buf, SectionSize) \subseteq used
      BY <2>6 DEF SectionCont, FaithInv, BaseInv, PagesInv
    <3>2. badFree' = badFree \/ Checked(Run(buf, SectionSize), LoadInfo \cup {"phdrs"})
      BY <2>6 DEF SectionCont, Free
    <3>3. LoadInfo \cup {"phdrs"} \subseteq pool
      BY <2>2, <2>6 DEF SectionCont
    <3> QED
      BY <2>1, <2>3, <3>1, <3>2, <3>3, Zenon
  <2>7. CASE SectionDiscont
    <3>1. badFree' = badFree \/ Checked({}, LoadInfo \cup {"phdrs"})
      BY <2>7 DEF SectionDiscont, NoSection, Free
    <3>2. LoadInfo \cup {"phdrs"} \subseteq pool
      BY <2>2, <2>7 DEF SectionDiscont
    <3> QED
      BY <2>3, <2>11, <3>1, <3>2, Zenon
  <2>8. CASE elf_free_sections
    <3>1. SectionPages \subseteq used
      BY <2>8, SectionsUsed DEF elf_free_sections
    <3>2. {} \subseteq pool
      OBVIOUS
    <3> QED
      BY <2>1, <2>8, <3>1, <3>2 DEF elf_free_sections, Free
  <2>9. CASE elf_free_loadinfo
    BY <2>1, <2>2, <2>9 DEF elf_free_loadinfo, Free
  <2>10. CASE ReadEhdr \/ AllocPhdrs \/ SkipPhdr \/ Loaded \/ Terminated \/ UNCHANGED vars
    BY <2>3, <2>10 DEF ReadEhdr, AllocPhdrs, SkipPhdr, Loaded, Terminated, vars
  <2> QED
    BY <2>4, <2>5, <2>6, <2>7, <2>8, <2>9, <2>10 DEF Next, elf_load_file
<1> QED
  BY <1>1, <1>2, FaithInvariant, PTL DEF Spec

=============================================================================
