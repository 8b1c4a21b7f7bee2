------------------------------ MODULE ElfLoad ------------------------------
(***************************************************************************)
(* The ELF loader (elf.c): elf_load_file in its three modes, with the two  *)
(* strategies elf_load_file_cont and elf_load_file_discont over a file     *)
(* that has a position, a pool and physical pages, every firmware call of  *)
(* which may fail; and elf_free_sections and elf_free_loadinfo, with which *)
(* efi_main gives a loaded binary up.                                      *)
(*                                                                         *)
(* Memory and files are cells.  A memory cell holds Junk, Zero, or the     *)
(* file cell that was read into it.                                        *)
(***************************************************************************)
EXTENDS Integers, Sequences, FiniteSets, FiniteSetsExt

CONSTANTS
    PageSize,   \* cells of a page: 0x1000 bytes on the machine
    Word,       \* values of a UINTN: 2^64 on the machine
    NFrames,    \* number of physical pages
    Files       \* the binaries that may be loaded

Frame == 0 .. NFrames - 1
Cell  == 0 .. NFrames * PageSize - 1
Junk  == -2
Zero  == -1

LoadType == {"AUTO", "CONTIG", "DISCONTIG"}

Phdr == [load : BOOLEAN, offset : Nat, filesz : Nat, memsz : Nat]

(* A binary: whether elf_verify_ehdr accepts the header at its start, the  *)
(* cells of that header, the program headers and where they are, and the   *)
(* length of the file.                                                     *)
File == [valid : BOOLEAN, ehsize : Nat, phoff : Nat, phdrs : Seq(Phdr), eof : Nat]

ASSUME MemoryAssumption ==
    /\ PageSize \in Nat \ {0} /\ NFrames \in Nat \ {0}
    /\ Word \in Nat \ {0} /\ Word % PageSize = 0
(* The ELF header and the program headers are whole: what a shorter read   *)
(* leaves in their buffers is not looked at by elf.c.  Nothing is assumed  *)
(* of the segments.                                                        *)
ASSUME FileAssumption ==
    \A f \in Files :
        /\ f \in File
        /\ f.ehsize > 0 /\ f.ehsize <= f.eof
        /\ f.phoff + Len(f.phdrs) <= f.eof

VARIABLES
    file,     \* the binary being loaded
    loadType, \* the mode elf_load_file was called with
    mode,     \* the strategy running: "cont" or "discont"
    pc,       \* where it is
    pos,      \* the position of the EFI_FILE
    i,        \* phdrIndex, counted from 1
    pool,     \* pool buffers allocated: "phdrs" and "secinfo"
    used,     \* pages allocated
    mem,      \* memory
    buf,      \* loadBuffer of elf_load_file_cont, as a page
    paddr,    \* where it puts the next section, as a page
    secs,     \* the records info->sections and info->sectionCount give
    sections, \* is the pointer info->sections set
    fwErr,    \* TRUE if a firmware call of the running strategy failed
    badFree   \* TRUE once something not allocated was freed

fixed == <<file, loadType>>
vars == <<fixed, mode, pc, pos, i, pool, used, mem, buf, paddr, secs, sections, fwErr, badFree>>

Terminal == {"failed", "freed"}

Init ==
    /\ file \in Files /\ loadType \in LoadType
    /\ mode = IF loadType = "DISCONTIG" THEN "discont" ELSE "cont"
    /\ pc = "ehdr" /\ pos = 0 /\ i = 1
    /\ pool = {} /\ used = {} /\ mem = [c \in Cell |-> Junk]
    /\ buf = 0 /\ paddr = 0 /\ secs = <<>> /\ sections = FALSE
    /\ fwErr = FALSE /\ badFree = FALSE

-----------------------------------------------------------------------------
Pages(n) == (n + PageSize - 1) \div PageSize

Run(b, n) == b .. b + n - 1
Cells(b, n) == b * PageSize .. (b + n) * PageSize - 1

(* Where AllocatePages may put n pages; there is no place for none.        *)
Bases(n) == {b \in Frame : n > 0 /\ Run(b, n) \subseteq Frame \ used}

(* The program headers elf_count_loadable counts.                          *)
Loadable == {k \in DOMAIN file.phdrs : file.phdrs[k].load}

(* elf_get_section_size, summed over the first k program headers of f.     *)
(* ALIGN_UP has no parentheses around its body, so the division that       *)
(* follows it applies to the mask alone, and what is added is masked       *)
(* instead of rounded.                                                     *)
SizeTo(f) ==
    LET sum[k \in 0 .. Len(f.phdrs)] ==
          IF k = 0 THEN 0
          ELSE sum[k - 1] + (IF f.phdrs[k].load
                             THEN (f.phdrs[k].memsz + PageSize - 1) % (Word \div PageSize)
                             ELSE 0)
    IN  sum

SectionSize == SizeTo(file)[Len(file.phdrs)]

(* Read of n cells at position q to memory cell c: as many as the file has *)
(* left, whatever the memory from c on belongs to.                         *)
ReadTo(m, q, n, c) ==
    [d \in Cell |-> IF d \in c .. c + n - 1 /\ q + d - c < file.eof THEN q + d - c ELSE m[d]]

ZeroPages(m, b, n) == [d \in Cell |-> IF d \in Cells(b, n) THEN Zero ELSE m[d]]

(* FreePages of the pages S and FreePool of the buffers B.                 *)
Checked(S, B) == badFree' = (badFree \/ ~(S \subseteq used) \/ ~(B \subseteq pool))
Free(S, B) == used' = used \ S /\ pool' = pool \ B /\ Checked(S, B)

(* What elf_free_loadinfo frees.  The pointer is not cleared: the second   *)
(* strategy of the AUTO mode starts with the one the first has freed.      *)
LoadInfo == IF sections THEN {"secinfo"} ELSE {}

(* A strategy returns an error: in the AUTO mode the discontiguous one is  *)
(* called, with the file as the contiguous one left it.                    *)
Fails(err) ==
    IF loadType = "AUTO" /\ mode = "cont"
    THEN mode' = "discont" /\ pc' = "ehdr" /\ fwErr' = FALSE
    ELSE mode' = mode /\ pc' = "failed" /\ fwErr' = err

Goes(label) == pc' = label /\ UNCHANGED <<mode, fwErr>>

-----------------------------------------------------------------------------
(* elf_get_file_info: read and verify the header.  Only the cells at the   *)
(* start of the file are one; at its end nothing is read, and the header   *)
(* on the stack may be the one the first strategy has left there.          *)
ReadEhdr ==
    /\ pc = "ehdr"
    /\ \/ Fails(TRUE) /\ UNCHANGED pos
       \/ /\ pos <= file.eof
          /\ pos' = Min({pos + file.ehsize, file.eof})
          /\ \/ pos \in {0, file.eof} /\ file.valid /\ Goes("phdrbuf")
             \/ ~(pos = 0 /\ file.valid) /\ Fails(FALSE)
    /\ UNCHANGED <<fixed, i, pool, used, mem, buf, paddr, secs, sections, badFree>>

AllocPhdrs ==
    /\ pc = "phdrbuf"
    /\ \/ Goes("phdrs") /\ pool' = pool \cup {"phdrs"}
       \/ Fails(TRUE) /\ UNCHANGED pool
    /\ UNCHANGED <<fixed, pos, i, used, mem, buf, paddr, secs, sections, badFree>>

(* Mutant: the program headers are not freed when they cannot be read.     *)
MutKeepPhdrs ==
    /\ pc = "phdrs"
    /\ \/ Goes("secinfo") /\ pos' = file.phoff + Len(file.phdrs)
       \/ Fails(TRUE) /\ pos' \in {pos, file.phoff}
    /\ UNCHANGED <<fixed, i, pool, used, mem, buf, paddr, secs, sections, badFree>>

(* SetPosition or Read may fail: the program headers are freed.            *)
ReadPhdrs ==
    /\ pc = "phdrs"
    /\ \/ /\ Goes("secinfo")
          /\ pos' = file.phoff + Len(file.phdrs)
          /\ UNCHANGED <<pool, used, badFree>>
       \/ Fails(TRUE) /\ pos' \in {pos, file.phoff} /\ Free({}, {"phdrs"})
    /\ UNCHANGED <<fixed, i, mem, buf, paddr, secs, sections>>

(* Mutant: without memory for the records, err_free_loadInfo is gone to.   *)
MutFreeInfo ==
    /\ pc = "secinfo"
    /\ \/ /\ Goes(IF mode = "cont" THEN "loadbuf" ELSE "section")
          /\ pool' = pool \cup {"secinfo"} /\ sections' = TRUE
          /\ i' = 1 /\ secs' = <<>>
          /\ UNCHANGED <<used, badFree>>
       \/ /\ Fails(TRUE) /\ Free({}, LoadInfo \cup {"phdrs"})
          /\ UNCHANGED <<i, secs, sections>>
    /\ UNCHANGED <<fixed, pos, mem, buf, paddr>>

(* Room for the section records; the loop over the headers starts.         *)
AllocSecinfo ==
    /\ pc = "secinfo"
    /\ \/ /\ Goes(IF mode = "cont" THEN "loadbuf" ELSE "section")
          /\ pool' = pool \cup {"secinfo"} /\ sections' = TRUE
          /\ i' = 1 /\ secs' = <<>>
          /\ UNCHANGED <<used, badFree>>
       \/ /\ Fails(TRUE) /\ Free({}, {"phdrs"})
          /\ UNCHANGED <<i, secs, sections>>
    /\ UNCHANGED <<fixed, pos, mem, buf, paddr>>

(* elf_load_file_cont: one buffer for all sections, zeroed.                *)
AllocLoadBuffer ==
    /\ pc = "loadbuf"
    /\ \/ /\ Goes("section")
          /\ \E b \in Bases(SectionSize) :
               /\ used' = used \cup Run(b, SectionSize)
               /\ mem' = ZeroPages(mem, b, SectionSize)
               /\ buf' = b /\ paddr' = b
          /\ UNCHANGED <<pool, badFree>>
       \/ /\ Fails(TRUE) /\ Free({}, LoadInfo \cup {"phdrs"})
          /\ UNCHANGED <<mem, buf, paddr>>
    /\ UNCHANGED <<fixed, pos, i, secs, sections>>

phdr == file.phdrs[i]

SkipPhdr ==
    /\ pc = "section" /\ i <= Len(file.phdrs) /\ ~phdr.load
    /\ i' = i + 1
    /\ UNCHANGED <<fixed, mode, pc, pos, pool, used, mem, buf, paddr, secs, sections, fwErr, badFree>>

(* A section is read at page b and recorded.  Behind the end of the file   *)
(* Read fails.                                                             *)
Load(m, b) ==
    /\ phdr.offset <= file.eof
    /\ mem' = ReadTo(m, phdr.offset, phdr.filesz, b * PageSize)
    /\ pos' = Min({phdr.offset + phdr.filesz, file.eof})
    /\ secs' = Append(secs, [phys |-> b, pageCount |-> Pages(phdr.memsz)])
    /\ i' = i + 1

(* The next section of elf_load_file_cont; on an error the buffer and the  *)
(* pool memory are freed.                                                  *)
SectionCont ==
    /\ pc = "section" /\ mode = "cont" /\ i <= Len(file.phdrs) /\ phdr.load
    /\ \/ /\ Goes("section")
          /\ Load(mem, paddr)
          /\ paddr' = paddr + Pages(phdr.memsz)
          /\ UNCHANGED <<pool, used, badFree>>
       \/ /\ Fails(TRUE)
          /\ pos' \in {pos, phdr.offset}
          /\ Free(Run(buf, SectionSize), LoadInfo \cup {"phdrs"})
          /\ UNCHANGED <<mem, secs, i, paddr>>
    /\ UNCHANGED <<fixed, buf, sections>>

(* Mutant: the pages of a section are not zeroed.                          *)
MutNoZero ==
    /\ pc = "section" /\ mode = "discont" /\ i <= Len(file.phdrs) /\ phdr.load
    /\ \/ /\ Goes("section")
          /\ \E b \in Bases(Pages(phdr.memsz)) :
               /\ used' = used \cup Run(b, Pages(phdr.memsz))
               /\ Load(mem, b)
          /\ UNCHANGED <<pool, badFree>>
       \/ /\ Fails(TRUE) /\ Free({}, LoadInfo \cup {"phdrs"})
          /\ UNCHANGED <<mem, pos, secs, i>>
    /\ UNCHANGED <<fixed, buf, paddr, sections>>

(* No pages for a section, or its contents cannot be read: the pool memory *)
(* is freed, the pages of this section and of those before it are not.     *)
NoSection(n) ==
    /\ Fails(TRUE)
    /\ \/ Free({}, LoadInfo \cup {"phdrs"}) /\ UNCHANGED <<mem, pos>>
       \/ \E b \in Bases(n) :
            /\ used' = used \cup Run(b, n)
            /\ pool' = pool \ (LoadInfo \cup {"phdrs"})
            /\ Checked({}, LoadInfo \cup {"phdrs"})
            /\ mem' = ZeroPages(mem, b, n)
            /\ pos' \in {pos, phdr.offset}
    /\ UNCHANGED <<secs, i>>

(* The next section of elf_load_file_discont: pages of its own, zeroed.    *)
SectionDiscont ==
    /\ pc = "section" /\ mode = "discont" /\ i <= Len(file.phdrs) /\ phdr.load
    /\ LET n == Pages(phdr.memsz) IN
       \/ /\ Goes("section")
          /\ \E b \in Bases(n) :
               /\ used' = used \cup Run(b, n)
               /\ Load(ZeroPages(mem, b, n), b)
          /\ UNCHANGED <<pool, badFree>>
       \/ NoSection(n)
    /\ UNCHANGED <<fixed, buf, paddr, sections>>

(* The loop ends: the strategy succeeds, and keeps the program headers.    *)
Loaded ==
    /\ pc = "section" /\ i > Len(file.phdrs)
    /\ Goes("loaded")
    /\ UNCHANGED <<fixed, pos, i, pool, used, mem, buf, paddr, secs, sections, badFree>>

-----------------------------------------------------------------------------
(* Mutant: one section too few.                                            *)
MutAllButLast == UNION {Run(secs[k].phys, secs[k].pageCount) : k \in 1 .. Len(secs) - 1}

(* The pages elf_free_sections frees.                                      *)
SectionPages == UNION {Run(secs[k].phys, secs[k].pageCount) : k \in DOMAIN secs}

elf_free_sections ==
    /\ pc = "loaded"
    /\ Free(SectionPages, {})
    /\ pc' = "sections_freed"
    /\ UNCHANGED <<fixed, mode, pos, i, mem, buf, paddr, secs, sections, fwErr>>

elf_free_loadinfo ==
    /\ pc = "sections_freed"
    /\ Free({}, LoadInfo)
    /\ secs' = <<>>
    /\ pc' = "freed"
    /\ UNCHANGED <<fixed, mode, pos, i, mem, buf, paddr, sections, fwErr>>

Terminated == pc \in Terminal /\ UNCHANGED vars

elf_load_file ==
    \/ ReadEhdr \/ AllocPhdrs \/ ReadPhdrs \/ AllocSecinfo \/ AllocLoadBuffer
    \/ SkipPhdr \/ SectionCont \/ SectionDiscont \/ Loaded

Next == elf_load_file \/ elf_free_sections \/ elf_free_loadinfo \/ Terminated

(* A load that was started runs on; a loaded binary may be kept for ever.  *)
Spec == Init /\ [][Next]_vars /\ WF_vars(elf_load_file)

-----------------------------------------------------------------------------
(* The record of program header k: they are in the order of the headers.   *)
Record(k) == Cardinality({j \in Loadable : j <= k})

(* No segment has more cells in the file than its pages have in memory,    *)
(* which elf.c does not check.                                             *)
Contained == \A k \in Loadable : file.phdrs[k].filesz <= Pages(file.phdrs[k].memsz) * PageSize

(* What the kernel finds at its sections, whichever strategy loaded them:  *)
(* every loadable segment has a record with as many pages as it needs, in  *)
(* pages that are allocated and shared with no other.  Unless one overruns *)
(* its pages, they hold its part of the file, as far as the file goes,     *)
(* followed by zeroes.                                                     *)
LoadedFaithful ==
    pc = "loaded" =>
        /\ Len(secs) = Cardinality(Loadable)
        /\ \A k \in Loadable :
             LET s == secs[Record(k)]
                 h == file.phdrs[k]
             IN  /\ s.pageCount = Pages(h.memsz)
                 /\ Run(s.phys, s.pageCount) \subseteq used
                 /\ Contained => \A d \in 0 .. s.pageCount * PageSize - 1 :
                      mem[s.phys * PageSize + d]
                        = IF d < h.filesz /\ h.offset + d < file.eof THEN h.offset + d ELSE Zero
        /\ \A j, k \in DOMAIN secs : j # k =>
             Run(secs[j].phys, secs[j].pageCount)
               \cap Run(secs[k].phys, secs[k].pageCount) = {}

(* No error path, no call of elf_free_sections or elf_free_loadinfo frees  *)
(* a page or a pool buffer that is not allocated: not twice, and not       *)
(* through the pointer to the records that the first strategy of the AUTO  *)
(* mode leaves behind after freeing them.                                  *)
NoBadFree == ~badFree

(* A load that fails has freed its pool memory, and one that only tried a  *)
(* contiguous buffer has freed that too.                                   *)
FailureReleases ==
    pc = "failed" => pool = {} /\ (loadType = "CONTIG" => used = {})

(* A binary loaded page by page is given back completely by the two calls  *)
(* efi_main makes, but for the program headers, which nobody frees.        *)
DiscontigReleased ==
    pc = "freed" /\ mode = "discont" => used = {} /\ pool = {"phdrs"}

(* elf.h:43, of ELF_LOAD_AUTO: "Attempts to load sections in a contigous   *)
(* fashion first. If failed, falls back to discontigous".  A valid binary  *)
(* is then loaded unless a firmware call of the fallback fails as well.    *)
AutoFallsBack == pc = "failed" /\ loadType = "AUTO" /\ file.valid => fwErr

=============================================================================
