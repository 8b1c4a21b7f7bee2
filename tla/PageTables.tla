----------------------------- MODULE PageTables -----------------------------
(***************************************************************************)
(* The four-level page tables of the loader (memory.c): mem_map_pages      *)
(* walks from the PML4 to the page table of each page, allocating and      *)
(* zeroing the tables that are missing, and mem_free_tables gives them     *)
(* back.  Tables live in physical frames whose contents are arbitrary      *)
(* until they are zeroed, and stay as they are when the frame is freed.    *)
(***************************************************************************)
EXTENDS Paging

CONSTANTS
    Requests,  \* calls of mem_map_pages the loader may make
    Frame,     \* the frames AllocatePages may return, a set of page numbers
    Root,      \* the frame of the PML4
    Junk,      \* entries a frame may be full of when it is allocated
    MaxCalls   \* bound: calls of mem_map_pages

Entry == Nat \cup {Unmapped}

ASSUME TableAssumption ==
    /\ Entries \in Nat \ {0}
    /\ Frame \subseteq Nat /\ Root \in Frame
    /\ Junk \subseteq Entry
    /\ MaxCalls \in Nat
    /\ Requests \subseteq [v : VAddr, p : Nat, n : Nat, aligned : BOOLEAN]

VARIABLES
    mem,     \* the entries in every frame: a page number, or not present
    lvl,     \* the level of the table a frame is allocated for, 0 if none
    pc,      \* "idle", "walk", "failed", "free" or "freed"
    v,       \* vaddr of mem_map_page
    p,       \* paddr of mem_map_page
    n,       \* pages left of mem_map_pages
    l,       \* the level the walk is at
    cur,     \* the table the walk is at
    calls,   \* calls of mem_map_pages so far
    fl,      \* level of the loop mem_free_tables is in
    ft,      \* its tables: ft[4] = pml4, ft[3] = pdpt, ft[2] = pd
    fi,      \* its loop counters i_pml4, i_pdpt and i_pd
    badFree, \* TRUE once a frame that is not allocated was freed
    badRead  \* TRUE once a frame that is not a table was read as one

walkVars == <<v, p, n, l, cur, calls>>
freeVars == <<fl, ft, fi>>
vars == <<mem, lvl, pc, walkVars, freeVars, badFree, badRead>>

ZeroTable == [i \in Idx |-> Unmapped]
Zero == [k \in Level |-> 0]

(* efi_main has allocated the PML4 and zeroed it.                          *)
Init ==
    /\ \E j \in Junk :
         mem = [f \in Frame |-> IF f = Root THEN ZeroTable ELSE [i \in Idx |-> j]]
    /\ lvl = [f \in Frame |-> IF f = Root THEN 4 ELSE 0]
    /\ pc = "idle"
    /\ v = Zero /\ p = 0 /\ n = 0 /\ l = 4 /\ cur = Root /\ calls = 0
    /\ fl = 4 /\ ft = [k \in 2 .. 4 |-> Root] /\ fi = [k \in 2 .. 4 |-> 0]
    /\ badFree = FALSE /\ badRead = FALSE

-----------------------------------------------------------------------------
(* mem_map_pages: unaligned addresses are rejected, no pages are success.  *)
MapPages ==
    /\ pc = "idle" /\ calls < MaxCalls
    /\ calls' = calls + 1
    /\ \E r \in Requests :
         \/ /\ ~r.aligned
            /\ pc' = "failed"
            /\ UNCHANGED <<v, p, n, l, cur>>
         \/ /\ r.aligned /\ r.n = 0
            /\ UNCHANGED <<pc, v, p, n, l, cur>>
         \/ /\ r.aligned /\ r.n > 0
            /\ pc' = "walk"
            /\ v' = r.v /\ p' = r.p /\ n' = r.n
            /\ l' = 4 /\ cur' = Root
    /\ UNCHANGED <<mem, lvl, freeVars, badFree, badRead>>

(* The table under cur is present: follow the entry.                       *)
Descend ==
    /\ pc = "walk" /\ l > 1
    /\ mem[cur][v[l]] # Unmapped
    /\ cur' = mem[cur][v[l]]
    /\ l' = l - 1
    /\ badRead' = (badRead \/ lvl[cur] # l)
    /\ UNCHANGED <<mem, lvl, pc, v, p, n, calls, freeVars, badFree>>

(* Mutant: the new table is not zeroed.                                    *)
MutNoZero ==
    /\ pc = "walk" /\ l > 1
    /\ mem[cur][v[l]] = Unmapped
    /\ \E f \in Frame :
         /\ lvl[f] = 0
         /\ mem' = [mem EXCEPT ![cur] = [@ EXCEPT ![v[l]] = f]]
         /\ lvl' = [lvl EXCEPT ![f] = l - 1]
         /\ cur' = f
    /\ l' = l - 1
    /\ badRead' = (badRead \/ lvl[cur] # l)
    /\ UNCHANGED <<pc, v, p, n, calls, freeVars, badFree>>

(* The table is missing: allocate a frame, enter it and zero it.           *)
NewTable ==
    /\ pc = "walk" /\ l > 1
    /\ mem[cur][v[l]] = Unmapped
    /\ \E f \in Frame :
         /\ lvl[f] = 0
         /\ mem' = [mem EXCEPT ![cur] = [@ EXCEPT ![v[l]] = f], ![f] = ZeroTable]
         /\ lvl' = [lvl EXCEPT ![f] = l - 1]
         /\ cur' = f
    /\ l' = l - 1
    /\ badRead' = (badRead \/ lvl[cur] # l)
    /\ UNCHANGED <<pc, v, p, n, calls, freeVars, badFree>>

(* AllocatePages fails: mem_map_pages returns what is done so far.         *)
NoMemory ==
    /\ pc = "walk" /\ l > 1
    /\ mem[cur][v[l]] = Unmapped
    /\ pc' = "failed"
    /\ UNCHANGED <<mem, lvl, walkVars, freeVars, badFree, badRead>>

(* Mutant: PD_ENTRY in place of PT_ENTRY.                                  *)
MutPdEntry ==
    /\ pc = "walk" /\ l = 1
    /\ mem' = [mem EXCEPT ![cur] = [@ EXCEPT ![v[2]] = p]]
    /\ badRead' = (badRead \/ lvl[cur] # 1)
    /\ n' = n - 1
    /\ v' = NextPage(v) /\ p' = p + 1
    /\ l' = 4 /\ cur' = Root
    /\ pc' = IF n = 1 THEN "idle" ELSE "walk"
    /\ UNCHANGED <<lvl, calls, freeVars, badFree>>

(* The entry of the page table, then on to the next page.                  *)
SetPage ==
    /\ pc = "walk" /\ l = 1
    /\ mem' = [mem EXCEPT ![cur] = [@ EXCEPT ![v[1]] = p]]
    /\ badRead' = (badRead \/ lvl[cur] # 1)
    /\ n' = n - 1
    /\ v' = NextPage(v) /\ p' = p + 1
    /\ l' = 4 /\ cur' = Root
    /\ pc' = IF n = 1 THEN "idle" ELSE "walk"
    /\ UNCHANGED <<lvl, calls, freeVars, badFree>>

-----------------------------------------------------------------------------
(* FreePages of one frame.                                                 *)
FreePage(f) ==
    /\ badFree' = (badFree \/ f \notin Frame \/ lvl[f] = 0)
    /\ lvl' = [g \in Frame |-> IF g = f THEN 0 ELSE lvl[g]]

(* efi_main gives the tables up, after an error or a failed boot info.     *)
FreeTables ==
    /\ pc \in {"idle", "failed"}
    /\ pc' = "free"
    /\ fl' = 4
    /\ ft' = [ft EXCEPT ![4] = Root]
    /\ fi' = [fi EXCEPT ![4] = 0]
    /\ UNCHANGED <<mem, lvl, walkVars, badFree, badRead>>

(* The entry the loop of level fl is at.                                   *)
FreeEntry == mem[ft[fl]][fi[fl]]

(* Mutant: "continue" in a loop that counts at its end.                    *)
MutSkipStays ==
    /\ pc = "free" /\ fi[fl] < Entries /\ FreeEntry = Unmapped
    /\ badRead' = (badRead \/ lvl[ft[fl]] # fl)
    /\ UNCHANGED <<mem, lvl, pc, walkVars, fl, ft, fi, badFree>>

FreeSkip ==
    /\ pc = "free" /\ fi[fl] < Entries /\ FreeEntry = Unmapped
    /\ fi' = [fi EXCEPT ![fl] = @ + 1]
    /\ badRead' = (badRead \/ lvl[ft[fl]] # fl)
    /\ UNCHANGED <<mem, lvl, pc, walkVars, fl, ft, badFree>>

(* Mutant: a table is freed before the loop over its entries.              *)
MutFreeFirst ==
    /\ pc = "free" /\ fi[fl] < Entries /\ FreeEntry # Unmapped /\ fl > 2
    /\ FreePage(FreeEntry)
    /\ fl' = fl - 1
    /\ ft' = [ft EXCEPT ![fl - 1] = FreeEntry]
    /\ fi' = [fi EXCEPT ![fl - 1] = 0]
    /\ badRead' = (badRead \/ lvl[ft[fl]] # fl)
    /\ UNCHANGED <<mem, pc, walkVars>>

FreeDescend ==
    /\ pc = "free" /\ fi[fl] < Entries /\ FreeEntry # Unmapped /\ fl > 2
    /\ fl' = fl - 1
    /\ ft' = [ft EXCEPT ![fl - 1] = FreeEntry]
    /\ fi' = [fi EXCEPT ![fl - 1] = 0]
    /\ badRead' = (badRead \/ lvl[ft[fl]] # fl)
    /\ UNCHANGED <<mem, lvl, pc, walkVars, badFree>>

FreePt ==
    /\ pc = "free" /\ fi[fl] < Entries /\ FreeEntry # Unmapped /\ fl = 2
    /\ FreePage(FreeEntry)
    /\ fi' = [fi EXCEPT ![2] = @ + 1]
    /\ badRead' = (badRead \/ lvl[ft[fl]] # fl)
    /\ UNCHANGED <<mem, pc, walkVars, fl, ft>>

(* Mutant: only the page tables and the PML4 are freed.                    *)
MutKeepUpper ==
    /\ pc = "free" /\ fi[fl] = Entries
    /\ IF fl = 4
       THEN pc' = "freed" /\ FreePage(Root) /\ UNCHANGED <<fl, fi>>
       ELSE /\ fl' = fl + 1
            /\ fi' = [fi EXCEPT ![fl + 1] = @ + 1]
            /\ UNCHANGED <<pc, lvl, badFree>>
    /\ UNCHANGED <<mem, walkVars, ft, badRead>>

(* A loop ends: its table is freed, the pml4 by efi_main.                  *)
FreeTable ==
    /\ pc = "free" /\ fi[fl] = Entries
    /\ FreePage(ft[fl])
    /\ IF fl = 4
       THEN pc' = "freed" /\ UNCHANGED <<fl, fi>>
       ELSE /\ fl' = fl + 1
            /\ fi' = [fi EXCEPT ![fl + 1] = @ + 1]
            /\ UNCHANGED pc
    /\ UNCHANGED <<mem, walkVars, ft, badRead>>

Terminated == pc = "freed" /\ UNCHANGED vars

Walk     == Descend \/ NewTable \/ NoMemory \/ SetPage
Teardown == FreeSkip \/ FreeDescend \/ FreePt \/ FreeTable

Next == MapPages \/ Walk \/ FreeTables \/ Teardown \/ Terminated

(* A call that was made runs on; nobody is bound to make one.              *)
Spec == Init /\ [][Next]_vars /\ WF_vars(Walk) /\ WF_vars(Teardown)

-----------------------------------------------------------------------------
(* How the processor would translate an address with these tables.         *)
Follow(t, i) == IF t = Unmapped THEN Unmapped ELSE mem[t][i]

Translate(va) ==
    Follow(Follow(Follow(Follow(Root, va[4]), va[3]), va[2]), va[1])

Building == pc \in {"idle", "walk", "failed"}

Abs == INSTANCE AddressSpace WITH
         space <- [va \in VAddr |-> IF Building THEN Translate(va) ELSE Unmapped],
         todo  <- IF pc = "walk" THEN [v |-> v, p |-> p, n |-> n] ELSE [n |-> 0]

-----------------------------------------------------------------------------
(* Every variable of the walk and of the teardown stays in its type; in    *)
(* particular both only ever follow entries that lead to frames.           *)
TypeOK ==
    /\ mem \in [Frame -> [Idx -> Entry]]
    /\ lvl \in [Frame -> 0 .. 4]
    /\ pc \in {"idle", "walk", "failed", "free", "freed"}
    /\ v \in VAddr /\ p \in Nat /\ n \in Nat /\ l \in Level /\ cur \in Frame
    /\ calls \in 0 .. MaxCalls
    /\ fl \in 2 .. 4 /\ ft \in [2 .. 4 -> Frame] /\ fi \in [2 .. 4 -> 0 .. Entries]
    /\ badFree \in BOOLEAN /\ badRead \in BOOLEAN

(* The frames that hold tables with entries for tables.                    *)
Upper == {f \in Frame : lvl[f] \in 2 .. 4}

RootOnly == \A f \in Frame : lvl[f] = 4 <=> f = Root

DownOne == \A f \in Upper, i \in Idx : mem[f][i] # Unmapped =>
              mem[f][i] \in Frame /\ lvl[mem[f][i]] = lvl[f] - 1

EnteredOnce == \A f, g \in Upper, i, j \in Idx :
                  mem[f][i] # Unmapped /\ mem[f][i] = mem[g][j] => f = g /\ i = j

Entered == \A f \in Frame : lvl[f] \in 1 .. 3 =>
              \E g \in Upper, i \in Idx : mem[g][i] = f

(* While the tables are built they form a tree under the PML4: an entry    *)
(* leads one level down, no table is entered twice, and every table that   *)
(* was allocated is entered somewhere (so mem_free_tables will find it),   *)
(* whatever calls were made and wherever one ran out of memory.            *)
TreeOK == Building => RootOnly /\ DownOne /\ EnteredOnce /\ Entered

(* The walk of mem_map_page and the loops of mem_free_tables read only     *)
(* frames that are tables of the level they take them for, and free only   *)
(* frames that are allocated: no table is read after it was freed, no data *)
(* page is freed for a table.                                              *)
NoBadAccess == ~badRead /\ ~badFree

(* After mem_free_tables and the FreePages of the PML4 every table ever    *)
(* allocated has been given back.                                          *)
FreedAll == pc = "freed" => \A f \in Frame : lvl[f] = 0

(* Every call of mem_map_pages and mem_free_tables returns.                *)
CallsReturn ==
    /\ (pc = "walk") ~> (pc \in {"idle", "failed"})
    /\ (pc = "free") ~> (pc = "freed")

(* The walk implements the promise of AddressSpace: making room for a page *)
(* changes no translation, and entering it changes its own alone, with     *)
(* later calls taking precedence over earlier ones.                        *)
ImplementsAddressSpace == Abs!ASpec

=============================================================================
