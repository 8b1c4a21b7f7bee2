-------------------------- MODULE PageTablesProofs --------------------------
(***************************************************************************)
(* Proofs about PageTables, for tables of any size, any set of frames with *)
(* any contents, and any calls.                                            *)
(***************************************************************************)
EXTENDS PageTables, TLAPS

(* The tables on the way of an address.                                    *)
Pdpt(va) == Follow(Root, va[4])
Pd(va)   == Follow(Pdpt(va), va[3])
Pt(va)   == Follow(Pd(va), va[2])

(* The walk is at the table its address leads to.                          *)
WalkOK ==
    pc = "walk" =>
        /\ n > 0 /\ lvl[cur] = l
        /\ l = 4 => cur = Root
        /\ l = 3 => cur = Pdpt(v)
        /\ l = 2 => cur = Pd(v)
        /\ l = 1 => cur = Pt(v)

(* Entries the loops of mem_free_tables are past.                          *)
Past(f, i) == lvl[f] >= fl /\ f = ft[lvl[f]] /\ i < fi[lvl[f]]

(* The loops stand on a path of allocated tables.                          *)
LoopPath ==
    /\ \A k \in fl .. 4 : lvl[ft[k]] = k
    /\ \A k \in fl .. 3 : fi[k + 1] < Entries /\ mem[ft[k + 1]][fi[k + 1]] = ft[k]

(* What they are past is freed, all else is still in place.                *)
DownRest ==
    \A f \in Upper, i \in Idx : mem[f][i] # Unmapped =>
        /\ mem[f][i] \in Frame
        /\ Past(f, i) => lvl[mem[f][i]] = 0
        /\ ~Past(f, i) => lvl[mem[f][i]] = lvl[f] - 1

FreeOK == pc = "free" => RootOnly /\ LoopPath /\ DownRest /\ EnteredOnce /\ Entered

PInv == TypeOK /\ TreeOK /\ WalkOK /\ FreeOK /\ NoBadAccess /\ FreedAll

-----------------------------------------------------------------------------
(* Addresses stay addresses when the walk goes on to the next page.        *)
LEMMA NextPageType == ASSUME NEW va \in VAddr PROVE NextPage(va) \in VAddr
BY TableAssumption DEF NextPage, VAddr, Level, Idx

(* The zeroed PML4 satisfies the invariant.                                *)
LEMMA PInit == Init => PInv
<1> SUFFICES ASSUME Init PROVE PInv
  OBVIOUS
<1> USE TableAssumption DEF Init
<1>1. TypeOK
  <2>1. mem \in [Frame -> [Idx -> Entry]]
    BY DEF ZeroTable, Entry, Unmapped
  <2>2. v \in VAddr
    BY DEF Zero, VAddr, Level, Idx
  <2>3. lvl \in [Frame -> 0 .. 4] /\ l \in Level /\ calls \in 0 .. MaxCalls
    BY DEF Level
  <2>4. fl \in 2 .. 4 /\ ft \in [2 .. 4 -> Frame] /\ fi \in [2 .. 4 -> 0 .. Entries]
    OBVIOUS
  <2>5. p \in Nat /\ n \in Nat /\ cur \in Frame
    OBVIOUS
  <2> QED BY <2>1, <2>2, <2>3, <2>4, <2>5, Zenon DEF TypeOK
<1>2. TreeOK
  <2>1. Upper = {Root}
    BY DEF Upper
  <2> QED BY <2>1 DEF TreeOK, RootOnly, DownOne, EnteredOnce, Entered, ZeroTable
<1> QED
  BY <1>1, <1>2 DEF PInv, WalkOK, FreeOK, NoBadAccess, FreedAll

-----------------------------------------------------------------------------
(* The steps of mem_map_pages.                                             *)

(* A new call starts at the PML4.                                          *)
LEMMA MapPagesStep == ASSUME PInv, MapPages PROVE PInv'
<1> USE TableAssumption DEF PInv, MapPages, freeVars
<1>1. TypeOK'
  BY DEF TypeOK, Level
<1>2. UNCHANGED <<mem, lvl, fl, ft, fi>> /\ pc = "idle" /\ pc' \in {"idle", "walk", "failed"}
  OBVIOUS
<1>3. TreeOK' /\ FreeOK' /\ FreedAll'
  BY <1>2 DEF TreeOK, Building, RootOnly, DownOne, EnteredOnce, Entered, Upper, FreeOK, FreedAll
<1>4. WalkOK'
  BY <1>2 DEF WalkOK, TypeOK, TreeOK, Building, RootOnly
<1>5. NoBadAccess'
  BY DEF NoBadAccess
<1> QED BY <1>1, <1>3, <1>4, <1>5

(* What the walk may rely on at the table it is at.                        *)
LEMMA AtTable ==
    ASSUME PInv, pc = "walk"
    PROVE  /\ cur \in Frame /\ lvl[cur] = l /\ v[l] \in Idx /\ l \in 1 .. 4
           /\ RootOnly /\ DownOne /\ EnteredOnce /\ Entered
           /\ l > 1 => cur \in Upper
BY DEF PInv, TypeOK, WalkOK, TreeOK, Building, VAddr, Level, Upper

(* Following an entry leads to the next table of the address.              *)
LEMMA DescendStep == ASSUME PInv, Descend PROVE PInv'
<1> USE DEF Descend
<1>0. pc = "walk" /\ pc' = "walk" /\ l > 1 /\ UNCHANGED <<mem, lvl, v>>
  OBVIOUS
<1>1. /\ cur \in Frame /\ lvl[cur] = l /\ v[l] \in Idx /\ l \in 2 .. 4 /\ cur \in Upper
      /\ RootOnly /\ DownOne /\ EnteredOnce /\ Entered
  BY <1>0, AtTable
<1>2. cur' \in Frame /\ lvl[cur'] = l - 1
  BY <1>1 DEF DownOne
<1>3. TypeOK'
  BY <1>1, <1>2 DEF PInv, TypeOK, freeVars, Level
<1>4. TreeOK' /\ FreeOK' /\ FreedAll'
  BY <1>0 DEF PInv, TreeOK, Building, RootOnly, DownOne, EnteredOnce, Entered, Upper,
              FreeOK, FreedAll
<1>5. WalkOK'
  <2>1. n' > 0 /\ lvl'[cur'] = l'
    BY <1>0, <1>2 DEF PInv, WalkOK
  <2>2. Root # Unmapped
    BY TableAssumption DEF Unmapped
  <2>3. cur # Unmapped
    BY <1>1, TableAssumption DEF Unmapped
  <2>4. \A va : Pdpt(va)' = Pdpt(va) /\ Pd(va)' = Pd(va) /\ Pt(va)' = Pt(va)
    BY <1>0 DEF Pdpt, Pd, Pt, Follow
  <2>5. CASE l = 4
    BY <1>0, <2>1, <2>2, <2>4, <2>5 DEF PInv, WalkOK, Pdpt, Follow
  <2>6. CASE l = 3
    <3>1. cur' = Pd(v)
      BY <1>0, <2>3, <2>6 DEF PInv, WalkOK, Pd, Follow
    <3> QED BY <1>0, <2>1, <2>4, <2>6, <3>1 DEF WalkOK
  <2>7. CASE l = 2
    <3>1. cur' = Pt(v)
      BY <1>0, <2>3, <2>7 DEF PInv, WalkOK, Pt, Follow
    <3> QED BY <1>0, <2>1, <2>4, <2>7, <3>1 DEF WalkOK
  <2> QED BY <1>1, <2>5, <2>6, <2>7
<1>6. NoBadAccess'
  BY <1>1 DEF PInv, NoBadAccess
<1> QED BY <1>3, <1>4, <1>5, <1>6 DEF PInv

(* Running out of memory leaves a tree.                                    *)
LEMMA NoMemoryStep == ASSUME PInv, NoMemory PROVE PInv'
<1> USE DEF NoMemory
<1>1. pc = "walk" /\ pc' = "failed" /\ UNCHANGED <<mem, lvl, walkVars, freeVars, badFree, badRead>>
  OBVIOUS
<1>2. TypeOK'
  BY <1>1 DEF PInv, TypeOK, walkVars, freeVars
<1> QED
  BY <1>1, <1>2 DEF PInv, TreeOK, Building, RootOnly, DownOne, EnteredOnce, Entered, Upper,
              FreeOK, FreedAll, WalkOK, NoBadAccess

(* What entering a new, zeroed table f does to the frames.                 *)
LEMMA NewTableFrames ==
    ASSUME PInv, pc = "walk", l > 1, mem[cur][v[l]] = Unmapped,
           NEW f \in Frame, lvl[f] = 0,
           mem' = [mem EXCEPT ![cur] = [@ EXCEPT ![v[l]] = f], ![f] = ZeroTable],
           lvl' = [lvl EXCEPT ![f] = l - 1]
    PROVE  /\ f # cur /\ f # Root
           /\ \A i \in Idx : mem'[f][i] = Unmapped
           /\ mem'[cur][v[l]] = f
           /\ \A i \in Idx : i # v[l] => mem'[cur][i] = mem[cur][i]
           /\ \A g \in Frame : g # f /\ g # cur => mem'[g] = mem[g]
           /\ lvl'[f] = l - 1
           /\ \A g \in Frame : g # f => lvl'[g] = lvl[g]
           /\ mem' \in [Frame -> [Idx -> Entry]]
           /\ lvl' \in [Frame -> 0 .. 4]
<1>1. /\ cur \in Frame /\ lvl[cur] = l /\ v[l] \in Idx /\ l \in 2 .. 4
      /\ RootOnly
  BY AtTable
<1>2. f # cur /\ f # Root
  BY <1>1, TableAssumption DEF RootOnly
<1>3. mem \in [Frame -> [Idx -> Entry]] /\ lvl \in [Frame -> 0 .. 4] /\ f \in Entry
  BY TableAssumption DEF PInv, TypeOK, Entry
<1>4. ZeroTable \in [Idx -> Entry] /\ \A i \in Idx : ZeroTable[i] = Unmapped
  BY DEF ZeroTable, Entry
<1>5. [mem[cur] EXCEPT ![v[l]] = f] \in [Idx -> Entry]
  BY <1>1, <1>3
<1>6. /\ mem'[cur] = [mem[cur] EXCEPT ![v[l]] = f]
      /\ mem'[f] = ZeroTable
      /\ \A g \in Frame : g # f /\ g # cur => mem'[g] = mem[g]
      /\ mem' \in [Frame -> [Idx -> Entry]]
  BY <1>1, <1>2, <1>3, <1>4, <1>5
<1>7. /\ lvl'[f] = l - 1 /\ lvl' \in [Frame -> 0 .. 4]
      /\ \A g \in Frame : g # f => lvl'[g] = lvl[g]
  BY <1>1, <1>3
<1>8. /\ mem'[cur][v[l]] = f
      /\ \A i \in Idx : i # v[l] => mem'[cur][i] = mem[cur][i]
  BY <1>1, <1>3, <1>6
<1> QED BY <1>2, <1>4, <1>6, <1>7, <1>8

(* A new table keeps the tree a tree, and is where the walk goes on.       *)
LEMMA NewTableStep == ASSUME PInv, NewTable PROVE PInv'
<1>0. /\ pc = "walk" /\ pc' = "walk" /\ l > 1 /\ mem[cur][v[l]] = Unmapped
      /\ l' = l - 1 /\ badRead' = (badRead \/ lvl[cur] # l)
      /\ UNCHANGED <<v, p, n, calls, fl, ft, fi, badFree>>
  BY DEF NewTable, freeVars
<1>1. PICK f \in Frame :
         /\ lvl[f] = 0
         /\ mem' = [mem EXCEPT ![cur] = [@ EXCEPT ![v[l]] = f], ![f] = ZeroTable]
         /\ lvl' = [lvl EXCEPT ![f] = l - 1]
         /\ cur' = f
  BY DEF NewTable
<1>2. /\ cur \in Frame /\ lvl[cur] = l /\ v[l] \in Idx /\ l \in 2 .. 4 /\ cur \in Upper
      /\ RootOnly /\ DownOne /\ EnteredOnce /\ Entered
  BY <1>0, AtTable
<1>3. /\ f # cur /\ f # Root
      /\ \A i \in Idx : mem'[f][i] = Unmapped
      /\ mem'[cur][v[l]] = f
      /\ \A i \in Idx : i # v[l] => mem'[cur][i] = mem[cur][i]
      /\ \A g \in Frame : g # f /\ g # cur => mem'[g] = mem[g]
      /\ lvl'[f] = l - 1
      /\ \A g \in Frame : g # f => lvl'[g] = lvl[g]
      /\ mem' \in [Frame -> [Idx -> Entry]]
      /\ lvl' \in [Frame -> 0 .. 4]
  BY <1>0, <1>1, NewTableFrames
<1>t. f # Unmapped /\ Root # Unmapped /\ cur # Unmapped
  BY <1>2, TableAssumption DEF Unmapped
<1>4. TypeOK'
  <2>1. l' \in Level /\ cur' \in Frame
    BY <1>0, <1>1, <1>2 DEF Level
  <2>2. badRead' \in BOOLEAN
    BY <1>0
  <2> QED BY <1>0, <1>3, <2>1, <2>2 DEF PInv, TypeOK
(* The entries of the tables of two levels and more, after the step.       *)
<1>5. \A g \in Upper : g # f /\ lvl'[g] = lvl[g] /\ g \in Upper'
  BY <1>1, <1>3 DEF Upper
<1>6. \A g \in Upper' : g = f \/ g \in Upper
  BY <1>3 DEF Upper
<1>7. \A g \in Upper, i \in Idx : (g # cur \/ i # v[l]) => mem'[g][i] = mem[g][i]
  BY <1>3, <1>5 DEF Upper
(* No entry led to the frame before it was allocated.                      *)
<1>8. \A g \in Upper, i \in Idx : mem[g][i] # f
  BY <1>1, <1>2, <1>t DEF DownOne, Upper
<1>9. RootOnly'
  BY <1>2, <1>3, TableAssumption DEF RootOnly
<1>10. DownOne'
  <2> SUFFICES ASSUME NEW g \in Upper', NEW i \in Idx, mem'[g][i] # Unmapped
               PROVE  mem'[g][i] \in Frame /\ lvl'[mem'[g][i]] = lvl'[g] - 1
    BY DEF DownOne
  <2>1. g \in Upper /\ lvl'[g] = lvl[g]
    BY <1>3, <1>5, <1>6
  <2>2. CASE g = cur /\ i = v[l]
    BY <1>2, <1>3, <2>1, <2>2
  <2>3. CASE g # cur \/ i # v[l]
    <3>1. mem'[g][i] = mem[g][i] /\ mem[g][i] \in Frame /\ lvl[mem[g][i]] = lvl[g] - 1
      BY <1>2, <1>7, <2>1, <2>3 DEF DownOne
    <3>2. mem[g][i] # f
      BY <1>8, <2>1
    <3> QED BY <3>1, <3>2, <2>1, <1>3
  <2> QED BY <2>2, <2>3
<1>11. EnteredOnce'
  <2> SUFFICES ASSUME NEW g \in Upper', NEW h \in Upper', NEW i \in Idx, NEW j \in Idx,
                      mem'[g][i] # Unmapped, mem'[g][i] = mem'[h][j]
               PROVE  g = h /\ i = j
    BY DEF EnteredOnce
  <2>1. g \in Upper /\ h \in Upper
    BY <1>3, <1>6
  <2>2. CASE (g = cur /\ i = v[l]) /\ (h = cur /\ j = v[l])
    BY <2>2
  <2>3. CASE (g = cur /\ i = v[l]) /\ ~(h = cur /\ j = v[l])
    BY <1>3, <1>7, <1>8, <2>1, <2>3
  <2>4. CASE ~(g = cur /\ i = v[l]) /\ (h = cur /\ j = v[l])
    BY <1>3, <1>7, <1>8, <2>1, <2>4
  <2>5. CASE ~(g = cur /\ i = v[l]) /\ ~(h = cur /\ j = v[l])
    BY <1>2, <1>7, <2>1, <2>5 DEF EnteredOnce
  <2> QED BY <2>2, <2>3, <2>4, <2>5
<1>12. Entered'
  <2> SUFFICES ASSUME NEW g \in Frame, lvl'[g] \in 1 .. 3
               PROVE  \E h \in Upper', i \in Idx : mem'[h][i] = g
    BY DEF Entered
  <2>1. CASE g = f
    BY <1>2, <1>3, <1>5, <2>1
  <2>2. CASE g # f
    <3>1. PICK h \in Upper, i \in Idx : mem[h][i] = g
      BY <1>2, <1>3, <2>2 DEF Entered
    <3>2. h # cur \/ i # v[l]
      BY <1>0, <3>1, TableAssumption DEF Unmapped
    <3> QED BY <1>5, <1>7, <3>1, <3>2
  <2> QED BY <2>1, <2>2
<1>13. WalkOK'
  <2>1. n' > 0 /\ lvl'[cur'] = l' /\ cur' = mem'[cur][v[l]]
    BY <1>0, <1>1, <1>3 DEF PInv, WalkOK
  <2>2. CASE l = 4
    BY <1>0, <1>t, <2>1, <2>2 DEF PInv, WalkOK, Pdpt, Follow
  <2>3. CASE l = 3
    <3>1. mem'[Root] = mem[Root] /\ cur = Pdpt(v)
      BY <1>0, <1>2, <1>3, <2>3, TableAssumption DEF PInv, WalkOK, RootOnly
    <3>2. Pdpt(v)' = cur
      BY <1>0, <3>1 DEF Pdpt, Follow
    <3> QED BY <1>0, <1>t, <2>1, <2>3, <3>2 DEF WalkOK, Pd, Follow
  <2>4. CASE l = 2
    <3>1. cur = Pd(v) /\ v \in VAddr
      BY <1>0, <2>4 DEF PInv, WalkOK, TypeOK
    <3>2. Root \in Upper /\ v[4] \in Idx /\ v[3] \in Idx
      BY <1>2, <3>1, TableAssumption DEF RootOnly, Upper, VAddr, Level
    <3>3. Pdpt(v) # Unmapped /\ Pdpt(v) = mem[Root][v[4]]
      BY <3>1, <1>t DEF Pd, Pdpt, Follow
    <3>4. Pdpt(v) \in Frame /\ lvl[Pdpt(v)] = 3
      <4>1. mem[Root][v[4]] # Unmapped /\ lvl[Root] = 4
        BY <1>2, <3>3, TableAssumption DEF RootOnly
      <4>2. mem[Root][v[4]] \in Frame /\ lvl[mem[Root][v[4]]] = 4 - 1
        BY <1>2, <3>2, <4>1 DEF DownOne
      <4> QED BY <3>3, <4>2
    <3>5. mem'[Root] = mem[Root] /\ mem'[Pdpt(v)] = mem[Pdpt(v)]
      BY <1>1, <1>2, <1>3, <2>4, <3>4, TableAssumption DEF RootOnly
    <3>6. Pdpt(v)' = Pdpt(v)
      BY <1>0, <3>5 DEF Pdpt, Follow
    <3>7. Pd(v)' = cur
      BY <1>0, <3>1, <3>5, <3>6 DEF Pd, Follow
    <3> QED BY <1>0, <1>t, <2>1, <2>4, <3>7 DEF WalkOK, Pt, Follow
  <2> QED BY <1>2, <2>2, <2>3, <2>4
<1>14. NoBadAccess'
  BY <1>0, <1>2 DEF PInv, NoBadAccess
<1>15. TreeOK' /\ FreeOK' /\ FreedAll'
  BY <1>0, <1>9, <1>10, <1>11, <1>12 DEF TreeOK, FreeOK, FreedAll
<1> QED BY <1>4, <1>13, <1>14, <1>15 DEF PInv

(* Entering a page touches a page table only, and the tree not at all.     *)
LEMMA SetPageStep == ASSUME PInv, SetPage PROVE PInv'
<1>0. /\ pc = "walk" /\ pc' \in {"idle", "walk"} /\ l = 1
      /\ mem' = [mem EXCEPT ![cur] = [@ EXCEPT ![v[1]] = p]]
      /\ l' = 4 /\ cur' = Root /\ v' = NextPage(v) /\ p' = p + 1
      /\ n' = n - 1 /\ (pc' = "walk" => n # 1)
      /\ badRead' = (badRead \/ lvl[cur] # 1)
      /\ UNCHANGED <<lvl, calls, fl, ft, fi, badFree>>
  BY DEF SetPage, freeVars
<1>1. /\ cur \in Frame /\ lvl[cur] = 1 /\ v[1] \in Idx
      /\ RootOnly /\ DownOne /\ EnteredOnce /\ Entered
  BY <1>0, AtTable
<1>2. n \in Nat /\ n > 0 /\ p \in Nat /\ v \in VAddr /\ mem \in [Frame -> [Idx -> Entry]]
  BY <1>0 DEF PInv, TypeOK, WalkOK
<1>3. mem' \in [Frame -> [Idx -> Entry]]
  <2>1. [mem[cur] EXCEPT ![v[1]] = p] \in [Idx -> Entry]
    BY <1>1, <1>2 DEF Entry
  <2> QED BY <1>0, <1>1, <1>2, <2>1
<1>4. NextPage(v) \in VAddr
  BY <1>2, NextPageType
<1>5. TypeOK'
  BY <1>0, <1>2, <1>3, <1>4, TableAssumption DEF PInv, TypeOK, Level
<1>6. \A f \in Upper : mem'[f] = mem[f]
  BY <1>0, <1>1, <1>2 DEF Upper
<1>7. Upper' = Upper
  BY <1>0 DEF Upper
<1>8. RootOnly' /\ DownOne' /\ EnteredOnce' /\ Entered'
  BY <1>0, <1>1, <1>6, <1>7 DEF RootOnly, DownOne, EnteredOnce, Entered
<1>9. WalkOK'
  BY <1>0, <1>1, <1>2, TableAssumption DEF WalkOK, RootOnly
<1>10. NoBadAccess'
  BY <1>0, <1>1 DEF PInv, NoBadAccess
<1> QED
  BY <1>0, <1>5, <1>8, <1>9, <1>10 DEF PInv, TreeOK, FreeOK, FreedAll

-----------------------------------------------------------------------------
(* The steps of mem_free_tables.                                           *)

(* The loops start at the PML4 with nothing behind them.                   *)
LEMMA FreeTablesStep == ASSUME PInv, FreeTables PROVE PInv'
<1>0. /\ pc \in {"idle", "failed"} /\ pc' = "free" /\ fl' = 4
      /\ ft' = [ft EXCEPT ![4] = Root] /\ fi' = [fi EXCEPT ![4] = 0]
      /\ UNCHANGED <<mem, lvl, v, p, n, l, cur, calls, badFree, badRead>>
  BY DEF FreeTables, walkVars
<1>1. ft \in [2 .. 4 -> Frame] /\ fi \in [2 .. 4 -> 0 .. Entries] /\ lvl \in [Frame -> 0 .. 4]
  BY DEF PInv, TypeOK
<1>2. /\ ft' \in [2 .. 4 -> Frame] /\ ft'[4] = Root
      /\ fi' \in [2 .. 4 -> 0 .. Entries] /\ fi'[4] = 0
  BY <1>0, <1>1, TableAssumption
<1>3. TypeOK'
  BY <1>0, <1>2 DEF PInv, TypeOK
<1>4. RootOnly /\ DownOne /\ EnteredOnce /\ Entered
  BY <1>0 DEF PInv, TreeOK, Building
<1>5. RootOnly' /\ EnteredOnce' /\ Entered' /\ Upper' = Upper
  BY <1>0, <1>4 DEF RootOnly, EnteredOnce, Entered, Upper
<1>6. LoopPath'
  BY <1>0, <1>2, <1>4, TableAssumption DEF LoopPath, RootOnly
<1>7. \A f \in Upper, i \in Idx : ~Past(f, i)'
  BY <1>0, <1>1, <1>2, TableAssumption DEF Past, Upper, Idx
<1>8. DownRest'
  BY <1>0, <1>4, <1>5, <1>7 DEF DownRest, DownOne
<1> QED
  BY <1>0, <1>3, <1>5, <1>6, <1>8 DEF PInv, TreeOK, Building, WalkOK, FreeOK, NoBadAccess, FreedAll

(* What the loops may rely on.                                             *)
LEMMA AtLoop ==
    ASSUME PInv, pc = "free"
    PROVE  /\ fl \in 2 .. 4 /\ ft \in [2 .. 4 -> Frame] /\ fi \in [2 .. 4 -> 0 .. Entries]
           /\ lvl \in [Frame -> 0 .. 4] /\ mem \in [Frame -> [Idx -> Entry]]
           /\ ft[fl] \in Upper /\ lvl[ft[fl]] = fl
           /\ RootOnly /\ LoopPath /\ DownRest /\ EnteredOnce /\ Entered
           /\ ~badRead /\ ~badFree
BY DEF PInv, TypeOK, FreeOK, LoopPath, Upper, NoBadAccess

(* The entry at the loop counter, when it is present.                      *)
LEMMA AtEntry ==
    ASSUME PInv, pc = "free", fi[fl] < Entries, FreeEntry # Unmapped
    PROVE  /\ fi[fl] \in Idx /\ FreeEntry \in Frame /\ lvl[FreeEntry] = fl - 1
<1>1. fi[fl] \in Idx
  BY AtLoop, TableAssumption DEF Idx
<1>2. ~Past(ft[fl], fi[fl])
  BY AtLoop DEF Past
<1> QED BY <1>1, <1>2, AtLoop DEF DownRest, FreeEntry

(* An entry that is not present is passed over.                            *)
LEMMA FreeSkipStep == ASSUME PInv, FreeSkip PROVE PInv'
<1>0. /\ pc = "free" /\ pc' = "free" /\ fi[fl] < Entries /\ FreeEntry = Unmapped
      /\ fi' = [fi EXCEPT ![fl] = @ + 1] /\ badRead' = (badRead \/ lvl[ft[fl]] # fl)
      /\ UNCHANGED <<mem, lvl, v, p, n, l, cur, calls, fl, ft, badFree>>
  BY DEF FreeSkip, walkVars
<1>1. /\ fl \in 2 .. 4 /\ ft \in [2 .. 4 -> Frame] /\ fi \in [2 .. 4 -> 0 .. Entries]
      /\ lvl \in [Frame -> 0 .. 4] /\ ft[fl] \in Upper /\ lvl[ft[fl]] = fl
      /\ RootOnly /\ LoopPath /\ DownRest /\ EnteredOnce /\ Entered /\ ~badRead /\ ~badFree
  BY <1>0, AtLoop
<1>2. /\ fi' \in [2 .. 4 -> 0 .. Entries] /\ fi'[fl] = fi[fl] + 1
      /\ \A k \in 2 .. 4 : k # fl => fi'[k] = fi[k]
  BY <1>0, <1>1, TableAssumption
<1>3. TypeOK'
  BY <1>0, <1>1, <1>2 DEF PInv, TypeOK
<1>4. RootOnly' /\ EnteredOnce' /\ Entered' /\ Upper' = Upper
  BY <1>0, <1>1 DEF RootOnly, EnteredOnce, Entered, Upper
<1>5. LoopPath'
  BY <1>0, <1>1, <1>2 DEF LoopPath
<1>6. \A f \in Upper, i \in Idx : mem[f][i] # Unmapped => (Past(f, i)' <=> Past(f, i))
  BY <1>0, <1>1, <1>2, TableAssumption DEF Past, Upper, Idx, FreeEntry
<1>7. DownRest'
  BY <1>0, <1>1, <1>4, <1>6 DEF DownRest
<1>8. NoBadAccess'
  BY <1>0, <1>1 DEF NoBadAccess
<1> QED
  BY <1>0, <1>3, <1>4, <1>5, <1>7, <1>8 DEF PInv, TreeOK, Building, WalkOK, FreeOK, FreedAll

(* The loop of the next level starts at the table of the entry.            *)
LEMMA FreeDescendStep == ASSUME PInv, FreeDescend PROVE PInv'
<1>0. /\ pc = "free" /\ pc' = "free" /\ fi[fl] < Entries /\ FreeEntry # Unmapped /\ fl > 2
      /\ fl' = fl - 1 /\ ft' = [ft EXCEPT ![fl - 1] = FreeEntry]
      /\ fi' = [fi EXCEPT ![fl - 1] = 0] /\ badRead' = (badRead \/ lvl[ft[fl]] # fl)
      /\ UNCHANGED <<mem, lvl, v, p, n, l, cur, calls, badFree>>
  BY DEF FreeDescend, walkVars
<1>1. /\ fl \in 3 .. 4 /\ ft \in [2 .. 4 -> Frame] /\ fi \in [2 .. 4 -> 0 .. Entries]
      /\ lvl \in [Frame -> 0 .. 4] /\ ft[fl] \in Upper /\ lvl[ft[fl]] = fl
      /\ RootOnly /\ LoopPath /\ DownRest /\ EnteredOnce /\ Entered /\ ~badRead /\ ~badFree
  BY <1>0, AtLoop
<1>e. FreeEntry \in Frame /\ lvl[FreeEntry] = fl - 1 /\ FreeEntry = mem[ft[fl]][fi[fl]]
  BY <1>0, AtEntry DEF FreeEntry
<1>2. /\ fi' \in [2 .. 4 -> 0 .. Entries] /\ fi'[fl - 1] = 0
      /\ \A k \in fl .. 4 : fi'[k] = fi[k]
      /\ ft' \in [2 .. 4 -> Frame] /\ ft'[fl - 1] = FreeEntry
      /\ \A k \in fl .. 4 : ft'[k] = ft[k]
  BY <1>0, <1>1, <1>e, TableAssumption
<1>3. TypeOK'
  BY <1>0, <1>1, <1>2 DEF PInv, TypeOK
<1>4. RootOnly' /\ EnteredOnce' /\ Entered' /\ Upper' = Upper
  BY <1>0, <1>1 DEF RootOnly, EnteredOnce, Entered, Upper
<1>5. LoopPath'
  <2>1. \A k \in fl - 1 .. 4 : lvl'[ft'[k]] = k
    BY <1>0, <1>1, <1>2, <1>e DEF LoopPath
  <2>2. \A k \in fl - 1 .. 3 : fi'[k + 1] < Entries /\ mem'[ft'[k + 1]][fi'[k + 1]] = ft'[k]
    BY <1>0, <1>1, <1>2, <1>e DEF LoopPath
  <2> QED BY <1>0, <2>1, <2>2 DEF LoopPath
<1>6. \A f \in Upper, i \in Idx : Past(f, i)' <=> Past(f, i)
  BY <1>0, <1>1, <1>2, TableAssumption DEF Past, Upper, Idx
<1>7. DownRest'
  BY <1>0, <1>1, <1>4, <1>6 DEF DownRest
<1>8. NoBadAccess'
  BY <1>0, <1>1 DEF NoBadAccess
<1> QED
  BY <1>0, <1>3, <1>4, <1>5, <1>7, <1>8 DEF PInv, TreeOK, Building, WalkOK, FreeOK, FreedAll

(* A page table is freed; what it maps is not.                             *)
LEMMA FreePtStep == ASSUME PInv, FreePt PROVE PInv'
<1> DEFINE e == FreeEntry
<1>0. /\ pc = "free" /\ pc' = "free" /\ fi[fl] < Entries /\ e # Unmapped /\ fl = 2
      /\ badFree' = (badFree \/ e \notin Frame \/ lvl[e] = 0)
      /\ lvl' = [g \in Frame |-> IF g = e THEN 0 ELSE lvl[g]]
      /\ fi' = [fi EXCEPT ![2] = @ + 1] /\ badRead' = (badRead \/ lvl[ft[fl]] # fl)
      /\ UNCHANGED <<mem, v, p, n, l, cur, calls, fl, ft>>
  BY DEF FreePt, FreePage, walkVars
<1>1. /\ ft \in [2 .. 4 -> Frame] /\ fi \in [2 .. 4 -> 0 .. Entries]
      /\ lvl \in [Frame -> 0 .. 4] /\ ft[fl] \in Upper /\ lvl[ft[fl]] = fl
      /\ RootOnly /\ LoopPath /\ DownRest /\ EnteredOnce /\ Entered /\ ~badRead /\ ~badFree
  BY <1>0, AtLoop
<1>e. e \in Frame /\ lvl[e] = 1 /\ e = mem[ft[fl]][fi[fl]] /\ fi[fl] \in Idx
  BY <1>0, AtEntry DEF FreeEntry
<1> HIDE DEF e
<1>2. /\ fi' \in [2 .. 4 -> 0 .. Entries] /\ fi'[2] = fi[2] + 1
      /\ \A k \in 3 .. 4 : fi'[k] = fi[k]
  BY <1>0, <1>1, TableAssumption
<1>3. lvl' \in [Frame -> 0 .. 4] /\ lvl'[e] = 0 /\ \A g \in Frame : g # e => lvl'[g] = lvl[g]
  BY <1>0, <1>1, <1>e
<1>4. TypeOK'
  BY <1>0, <1>1, <1>2, <1>3 DEF PInv, TypeOK
<1>5. Upper' = Upper /\ e \notin Upper /\ \A g \in Upper : lvl'[g] = lvl[g]
  BY <1>1, <1>3, <1>e DEF Upper
<1>6. RootOnly'
  BY <1>1, <1>3, <1>e DEF RootOnly
<1>7. EnteredOnce'
  BY <1>0, <1>1, <1>5 DEF EnteredOnce
<1>8. Entered'
  BY <1>0, <1>1, <1>3, <1>5 DEF Entered
<1>9. LoopPath'
  <2>1. \A k \in 2 .. 4 : ft[k] # e
    BY <1>0, <1>1, <1>e DEF LoopPath
  <2>2. \A k \in 2 .. 4 : lvl'[ft'[k]] = k
    BY <1>0, <1>1, <1>3, <2>1 DEF LoopPath
  <2>3. \A k \in 2 .. 3 : fi'[k + 1] < Entries /\ mem'[ft'[k + 1]][fi'[k + 1]] = ft'[k]
    BY <1>0, <1>1, <1>2 DEF LoopPath
  <2> QED BY <1>0, <2>2, <2>3 DEF LoopPath
<1>10. DownRest'
  <2> SUFFICES ASSUME NEW f \in Upper, NEW i \in Idx, mem[f][i] # Unmapped
               PROVE  /\ mem[f][i] \in Frame
                      /\ Past(f, i)' => lvl'[mem[f][i]] = 0
                      /\ ~Past(f, i)' => lvl'[mem[f][i]] = lvl'[f] - 1
    BY <1>0, <1>5 DEF DownRest
  <2>0. mem[f][i] \in Frame /\ f \in Frame /\ lvl'[f] = lvl[f]
    BY <1>1, <1>5 DEF DownRest, Upper
  <2>1. CASE f = ft[fl] /\ i = fi[fl]
    <3>1. Past(f, i)'
      BY <1>0, <1>1, <1>2, <2>0, <2>1, <1>e, TableAssumption DEF Past, Idx
    <3> QED BY <2>0, <2>1, <3>1, <1>e, <1>3
  <2>2. CASE ~(f = ft[fl] /\ i = fi[fl])
    <3>1. Past(f, i)' <=> Past(f, i)
      BY <1>0, <1>1, <1>2, <2>0, <2>2, TableAssumption DEF Past, Upper, Idx
    <3>2. mem[f][i] # e
      BY <1>0, <1>1, <1>e, <2>2 DEF EnteredOnce
    <3> QED BY <1>1, <1>3, <2>0, <3>1, <3>2 DEF DownRest
  <2> QED BY <2>1, <2>2
<1>11. NoBadAccess'
  <2>1. e \in Frame /\ lvl[e] # 0
    BY <1>e
  <2> QED BY <1>0, <1>1, <2>1, Zenon DEF NoBadAccess
<1> QED
  BY <1>0, <1>4, <1>6, <1>7, <1>8, <1>9, <1>10, <1>11
     DEF PInv, TreeOK, Building, WalkOK, FreeOK, FreedAll

(* A loop that is through frees its table: nothing allocated hangs below   *)
(* it any more.                                                            *)
LEMMA FreeTableStep == ASSUME PInv, FreeTable PROVE PInv'
<1> DEFINE x == ft[fl]
<1>0. /\ pc = "free" /\ fi[fl] = Entries
      /\ badFree' = (badFree \/ x \notin Frame \/ lvl[x] = 0)
      /\ lvl' = [g \in Frame |-> IF g = x THEN 0 ELSE lvl[g]]
      /\ UNCHANGED <<mem, v, p, n, l, cur, calls, ft, badRead>>
  BY DEF FreeTable, FreePage, walkVars
<1>1. /\ fl \in 2 .. 4 /\ ft \in [2 .. 4 -> Frame] /\ fi \in [2 .. 4 -> 0 .. Entries]
      /\ lvl \in [Frame -> 0 .. 4] /\ x \in Upper /\ lvl[x] = fl /\ x \in Frame
      /\ RootOnly /\ LoopPath /\ DownRest /\ EnteredOnce /\ Entered /\ ~badRead /\ ~badFree
  BY <1>0, AtLoop
<1>2. lvl' \in [Frame -> 0 .. 4] /\ lvl'[x] = 0 /\ \A g \in Frame : g # x => lvl'[g] = lvl[g]
  BY <1>0, <1>1
<1>3. NoBadAccess'
  <2>1. x \in Frame /\ lvl[x] # 0
    BY <1>1
  <2> QED BY <1>0, <1>1, <2>1, Zenon DEF NoBadAccess
(* All entries of the table are behind the loop.                           *)
<1>4. \A i \in Idx : mem[x][i] # Unmapped => mem[x][i] \in Frame /\ lvl[mem[x][i]] = 0
  <2>1. \A i \in Idx : Past(x, i)
    BY <1>0, <1>1, TableAssumption DEF Past, Idx
  <2> QED BY <1>1, <2>1 DEF DownRest
<1>5. CASE fl = 4
  <2>0. pc' = "freed" /\ fl' = fl /\ fi' = fi
    BY <1>5 DEF FreeTable
  <2>1. x = Root
    BY <1>1, <1>5 DEF RootOnly
  <2>2. ASSUME NEW g \in Frame, lvl[g] \in 1 .. 3
        PROVE  \E h \in Upper : lvl[h] = lvl[g] + 1 /\ h # Root
    <3>1. PICK h \in Upper, i \in Idx : mem[h][i] = g
      BY <1>1, <2>2 DEF Entered
    <3>2. mem[h][i] # Unmapped
      BY <3>1, TableAssumption DEF Unmapped
    <3>3. lvl[h] = lvl[g] + 1
      BY <1>1, <2>2, <3>1, <3>2 DEF DownRest, Upper
    <3>4. h # Root
      BY <1>4, <2>1, <2>2, <3>1, <3>2
    <3> QED BY <3>3, <3>4
  <2>3. \A g \in Frame : lvl[g] # 3
    BY <1>1, <2>2 DEF RootOnly, Upper
  <2>4. \A g \in Frame : lvl[g] # 2
    BY <2>2, <2>3 DEF Upper
  <2>5. \A g \in Frame : lvl[g] # 1
    BY <2>2, <2>4 DEF Upper
  <2>6. \A g \in Frame : lvl'[g] = 0
    BY <1>1, <1>2, <2>1, <2>3, <2>4, <2>5 DEF RootOnly
  <2>7. TypeOK'
    BY <1>0, <1>1, <1>2, <2>0 DEF PInv, TypeOK
  <2> QED
    BY <1>3, <2>0, <2>6, <2>7 DEF PInv, TreeOK, Building, WalkOK, FreeOK, FreedAll
<1>6. CASE fl # 4
  <2>0. pc' = "free" /\ fl' = fl + 1 /\ fi' = [fi EXCEPT ![fl + 1] = @ + 1] /\ fl \in 2 .. 3
    BY <1>0, <1>1, <1>6 DEF FreeTable
  <2>1. fi[fl + 1] < Entries /\ mem[ft[fl + 1]][fi[fl + 1]] = x /\ lvl[ft[fl + 1]] = fl + 1
    BY <1>1, <2>0 DEF LoopPath
  <2>2. /\ fi' \in [2 .. 4 -> 0 .. Entries] /\ fi'[fl + 1] = fi[fl + 1] + 1
        /\ \A k \in 2 .. 4 : k # fl + 1 => fi'[k] = fi[k]
        /\ fi[fl + 1] \in Idx
    BY <1>1, <2>0, <2>1, TableAssumption DEF Idx
  <2>3. TypeOK'
    BY <1>0, <1>1, <1>2, <2>0, <2>2 DEF PInv, TypeOK
  <2>4. x # Root /\ RootOnly'
    BY <1>1, <1>2, <2>0, TableAssumption DEF RootOnly
  <2>5. /\ \A f \in Upper' : f \in Upper /\ f # x /\ f \in Frame /\ lvl'[f] = lvl[f]
        /\ \A f \in Upper : f # x => f \in Upper'
    BY <1>2 DEF Upper
  <2>6. EnteredOnce'
    BY <1>0, <1>1, <2>5 DEF EnteredOnce
  <2>7. Entered'
    <3> SUFFICES ASSUME NEW g \in Frame, lvl'[g] \in 1 .. 3
                 PROVE  \E h \in Upper', i \in Idx : mem[h][i] = g
      BY <1>0 DEF Entered
    <3>1. g # x /\ lvl[g] \in 1 .. 3
      BY <1>2
    <3>2. PICK h \in Upper, i \in Idx : mem[h][i] = g
      BY <1>1, <3>1 DEF Entered
    <3>3. h # x
      BY <1>4, <3>1, <3>2, TableAssumption DEF Unmapped
    <3> QED BY <2>5, <3>2, <3>3
  <2>8. LoopPath'
    <3>1. \A k \in fl + 1 .. 4 : ft[k] # x /\ lvl[ft[k]] = k
      BY <1>1 DEF LoopPath
    <3>2. \A k \in fl + 1 .. 4 : lvl'[ft'[k]] = k
      BY <1>0, <1>1, <1>2, <3>1
    <3>3. \A k \in fl + 1 .. 3 : fi'[k + 1] < Entries /\ mem'[ft'[k + 1]][fi'[k + 1]] = ft'[k]
      BY <1>0, <1>1, <2>0, <2>2 DEF LoopPath
    <3> QED BY <2>0, <3>2, <3>3 DEF LoopPath
  <2>9. DownRest'
    <3> SUFFICES ASSUME NEW f \in Upper', NEW i \in Idx, mem[f][i] # Unmapped
                 PROVE  /\ mem[f][i] \in Frame
                        /\ Past(f, i)' => lvl'[mem[f][i]] = 0
                        /\ ~Past(f, i)' => lvl'[mem[f][i]] = lvl'[f] - 1
      BY <1>0 DEF DownRest
    <3>0. mem[f][i] \in Frame /\ f \in Upper /\ f # x /\ f \in Frame /\ lvl'[f] = lvl[f]
      BY <1>1, <2>5 DEF DownRest
    <3>1. CASE f = ft[fl + 1] /\ i = fi[fl + 1]
      <4>1. Past(f, i)'
        BY <1>0, <2>0, <2>1, <2>2, <3>0, <3>1, TableAssumption DEF Past, Idx
      <4> QED BY <1>2, <2>1, <3>0, <3>1, <4>1
    <3>2. CASE ~(f = ft[fl + 1] /\ i = fi[fl + 1])
      <4>1. Past(f, i)' <=> Past(f, i)
        BY <1>0, <1>1, <2>0, <2>2, <3>0, <3>2, TableAssumption DEF Past, Upper, Idx
      <4>2. ft[fl + 1] \in Upper
        BY <1>1, <2>0, <2>1 DEF Upper
      <4>3. mem[f][i] # x
        BY <1>1, <2>1, <2>2, <3>0, <3>2, <4>2 DEF EnteredOnce
      <4> QED BY <1>1, <1>2, <3>0, <4>1, <4>3 DEF DownRest
    <3> QED BY <3>1, <3>2
  <2> QED
    BY <1>3, <2>0, <2>3, <2>4, <2>6, <2>7, <2>8, <2>9
       DEF PInv, TreeOK, Building, WalkOK, FreeOK, FreedAll
<1> QED BY <1>5, <1>6

-----------------------------------------------------------------------------
(* The inductive invariant of both halves.                                 *)
LEMMA PStep == PInv /\ [Next]_vars => PInv'
<1> SUFFICES ASSUME PInv, [Next]_vars PROVE PInv'
  OBVIOUS
<1>1. CASE Terminated \/ UNCHANGED vars
  <2>1. UNCHANGED <<mem, lvl, pc, v, p, n, l, cur, calls, fl, ft, fi, badFree, badRead>>
    BY <1>1 DEF Terminated, vars, walkVars, freeVars
  <2> QED
    BY <2>1 DEF PInv, TypeOK, TreeOK, Building, RootOnly, DownOne, EnteredOnce, Entered, Upper,
                WalkOK, Pdpt, Pd, Pt, Follow, FreeOK, LoopPath, DownRest, Past,
                NoBadAccess, FreedAll
<1> QED
  BY <1>1, MapPagesStep, DescendStep, NewTableStep, NoMemoryStep, SetPageStep,
     FreeTablesStep, FreeSkipStep, FreeDescendStep, FreePtStep, FreeTableStep
     DEF Next, Walk, Teardown

(* The strengthened invariant of PageTables.                               *)
THEOREM PagingInvariance == Spec => []PInv
BY PInit, PStep, PTL DEF Spec

(* Walk and teardown stay in their types (TypeOK): every entry they follow *)
(* is a frame.                                                             *)
THEOREM PagingTypes == Spec => []TypeOK
<1>1. PInv => TypeOK
  BY DEF PInv
<1> QED BY <1>1, PagingInvariance, PTL

(* While they are built the page tables are a tree under the PML4          *)
(* (TreeOK), after any calls, completed or cut short.                      *)
THEOREM TablesFormTree == Spec => []TreeOK
<1>1. PInv => TreeOK
  BY DEF PInv
<1> QED BY <1>1, PagingInvariance, PTL

(* No frame is read as a table it is not, and none is freed that is not    *)
(* allocated (NoBadAccess), in particular no table after it was freed.     *)
THEOREM AccessSafe == Spec => []NoBadAccess
<1>1. PInv => NoBadAccess
  BY DEF PInv
<1> QED BY <1>1, PagingInvariance, PTL

(* mem_free_tables and the FreePages after it give every table back        *)
(* (FreedAll).                                                             *)
THEOREM NothingLeft == Spec => []FreedAll
<1>1. PInv => FreedAll
  BY DEF PInv
<1> QED BY <1>1, PagingInvariance, PTL

-----------------------------------------------------------------------------
(* The walk implements AddressSpace.                                       *)

(* The tables on the way of an address are tables of their levels.         *)
LEMMA PathTables ==
    ASSUME PInv, Building, NEW va \in VAddr
    PROVE  /\ Root \in Upper /\ lvl[Root] = 4 /\ Root # Unmapped
           /\ va[4] \in Idx /\ va[3] \in Idx /\ va[2] \in Idx /\ va[1] \in Idx
           /\ Pdpt(va) = mem[Root][va[4]]
           /\ Pdpt(va) # Unmapped => Pdpt(va) \in Upper /\ lvl[Pdpt(va)] = 3
           /\ Pd(va) # Unmapped =>
                /\ Pdpt(va) # Unmapped /\ Pd(va) = mem[Pdpt(va)][va[3]]
                /\ Pd(va) \in Upper /\ lvl[Pd(va)] = 2
           /\ Pt(va) # Unmapped =>
                /\ Pd(va) # Unmapped /\ Pt(va) = mem[Pd(va)][va[2]]
                /\ Pt(va) \in Frame /\ lvl[Pt(va)] = 1
<1>1. Root \in Upper /\ lvl[Root] = 4 /\ Root # Unmapped /\ DownOne
  BY TableAssumption DEF PInv, TreeOK, RootOnly, Upper, Unmapped
<1>2. va[4] \in Idx /\ va[3] \in Idx /\ va[2] \in Idx /\ va[1] \in Idx
  BY DEF VAddr, Level
<1>3. Pdpt(va) = mem[Root][va[4]]
  BY <1>1 DEF Pdpt, Follow
<1>4. Pdpt(va) # Unmapped => Pdpt(va) \in Upper /\ lvl[Pdpt(va)] = 3
  BY <1>1, <1>2, <1>3 DEF DownOne, Upper
<1>5. Pd(va) # Unmapped =>
        /\ Pdpt(va) # Unmapped /\ Pd(va) = mem[Pdpt(va)][va[3]]
        /\ Pd(va) \in Upper /\ lvl[Pd(va)] = 2
  <2>1. Pd(va) # Unmapped => Pdpt(va) # Unmapped /\ Pd(va) = mem[Pdpt(va)][va[3]]
    BY DEF Pd, Follow
  <2> QED BY <1>1, <1>2, <1>4, <2>1 DEF DownOne, Upper
<1>6. Pt(va) # Unmapped =>
        /\ Pd(va) # Unmapped /\ Pt(va) = mem[Pd(va)][va[2]]
        /\ Pt(va) \in Frame /\ lvl[Pt(va)] = 1
  <2>1. Pt(va) # Unmapped => Pd(va) # Unmapped /\ Pt(va) = mem[Pd(va)][va[2]]
    BY DEF Pt, Follow
  <2> QED BY <1>1, <1>2, <1>5, <2>1 DEF DownOne, Upper
<1> QED BY <1>1, <1>2, <1>3, <1>4, <1>5, <1>6

(* Only addresses that differ in no index but the last share a page table. *)
LEMMA PathUnique ==
    ASSUME PInv, Building, NEW va \in VAddr, NEW vb \in VAddr,
           Pt(va) # Unmapped, Pt(va) = Pt(vb), va[1] = vb[1]
    PROVE  va = vb
<1>0. EnteredOnce
  BY DEF PInv, TreeOK
<1>1. Pd(va) = Pd(vb) /\ va[2] = vb[2]
  BY <1>0, PathTables DEF EnteredOnce
<1>2. Pdpt(va) = Pdpt(vb) /\ va[3] = vb[3]
  BY <1>0, <1>1, PathTables DEF EnteredOnce
<1>3. va[4] = vb[4]
  BY <1>0, <1>1, <1>2, PathTables DEF EnteredOnce
<1>4. \A k \in Level : va[k] = vb[k]
  BY <1>1, <1>2, <1>3 DEF Level
<1> QED BY <1>4 DEF VAddr

(* Entering a page changes the translation of that page only.              *)
LEMMA SetPageTranslates ==
    ASSUME PInv, SetPage, NEW va \in VAddr
    PROVE  Translate(va)' = IF va = v THEN p ELSE Translate(va)
<1>0. /\ pc = "walk" /\ l = 1 /\ Building /\ v \in VAddr
      /\ mem' = [mem EXCEPT ![cur] = [@ EXCEPT ![v[1]] = p]]
      /\ mem \in [Frame -> [Idx -> Entry]]
  BY DEF SetPage, Building, PInv, TypeOK
<1>1. cur \in Frame /\ lvl[cur] = 1 /\ v[1] \in Idx /\ cur = Pt(v) /\ cur # Unmapped
  BY <1>0, AtTable, TableAssumption DEF PInv, WalkOK, Unmapped
<1>2. \A f \in Upper : mem'[f] = mem[f]
  BY <1>0, <1>1 DEF Upper
<1>3. Pdpt(va)' = Pdpt(va)
  BY <1>0, <1>2, PathTables DEF Pdpt, Follow
<1>4. Pd(va)' = Pd(va)
  BY <1>0, <1>2, <1>3, PathTables DEF Pd, Follow
<1>5. Pt(va)' = Pt(va)
  BY <1>0, <1>2, <1>4, PathTables DEF Pt, Follow
<1>6. /\ Translate(va) = Follow(Pt(va), va[1])
      /\ Translate(va)' = IF Pt(va) = Unmapped THEN Unmapped ELSE mem'[Pt(va)][va[1]]
  BY <1>5 DEF Translate, Pt, Pd, Pdpt, Follow
<1>7. CASE Pt(va) = cur
  <2>1. va = v <=> va[1] = v[1]
    BY <1>0, <1>1, <1>7, PathUnique
  <2>2. mem'[cur][va[1]] = IF va[1] = v[1] THEN p ELSE mem[cur][va[1]]
    BY <1>0, <1>1, PathTables
  <2> QED BY <1>1, <1>6, <1>7, <2>1, <2>2 DEF Follow
<1>8. CASE Pt(va) # cur
  <2>1. va # v
    BY <1>1, <1>8
  <2>2. Pt(va) # Unmapped => mem'[Pt(va)] = mem[Pt(va)]
    BY <1>0, <1>1, <1>8, PathTables
  <2> QED BY <1>6, <2>1, <2>2 DEF Follow
<1> QED BY <1>7, <1>8

(* A new table changes no translation: it is empty, and where it is        *)
(* entered nothing was.                                                    *)
LEMMA NewTableTranslates ==
    ASSUME PInv, NewTable, NEW va \in VAddr
    PROVE  Translate(va)' = Translate(va)
<1>0. /\ pc = "walk" /\ l > 1 /\ mem[cur][v[l]] = Unmapped /\ Building
  BY DEF NewTable, Building
<1>1. PICK f \in Frame :
         /\ lvl[f] = 0
         /\ mem' = [mem EXCEPT ![cur] = [@ EXCEPT ![v[l]] = f], ![f] = ZeroTable]
         /\ lvl' = [lvl EXCEPT ![f] = l - 1]
  BY DEF NewTable
<1>2. cur \in Frame /\ cur \in Upper /\ lvl[cur] = l /\ v[l] \in Idx
  BY <1>0, AtTable
<1>3. /\ f # cur /\ f # Root /\ f # Unmapped
      /\ \A i \in Idx : mem'[f][i] = Unmapped
      /\ mem'[cur][v[l]] = f
      /\ \A i \in Idx : i # v[l] => mem'[cur][i] = mem[cur][i]
      /\ \A g \in Frame : g # f /\ g # cur => mem'[g] = mem[g]
  <2>1. f # Unmapped
    BY TableAssumption DEF Unmapped
  <2> QED BY <1>0, <1>1, <2>1, NewTableFrames
(* An entry of a table reads as before, or was empty and leads to f now.   *)
<1>4. ASSUME NEW t \in Frame, lvl[t] # 0, NEW i \in Idx
      PROVE  mem'[t][i] = mem[t][i] \/ (mem[t][i] = Unmapped /\ mem'[t][i] = f)
  <2>1. t # f
    BY <1>1, <1>4
  <2>2. CASE t # cur
    BY <1>3, <2>1, <2>2
  <2>3. CASE t = cur
    BY <1>0, <1>3, <2>3
  <2> QED BY <2>2, <2>3
<1>i. va[4] \in Idx /\ va[3] \in Idx /\ va[2] \in Idx /\ va[1] \in Idx
  BY <1>0, PathTables
<1>r. Root \in Frame /\ lvl[Root] = 4 /\ Root # Unmapped
  BY <1>0, PathTables, TableAssumption
<1>5. Pdpt(va)' = Pdpt(va) \/ (Pdpt(va) = Unmapped /\ Pdpt(va)' = f)
  BY <1>4, <1>i, <1>r DEF Pdpt, Follow
<1>6. Pd(va)' = Pd(va) \/ (Pd(va) = Unmapped /\ Pd(va)' = f)
  <2>1. CASE Pdpt(va) = Unmapped
    BY <1>3, <1>5, <1>i, <2>1 DEF Pd, Follow
  <2>2. CASE Pdpt(va) # Unmapped
    <3>1. Pdpt(va) \in Frame /\ lvl[Pdpt(va)] = 3
      BY <1>0, <2>2, PathTables DEF Upper
    <3> QED BY <1>4, <1>5, <1>i, <2>2, <3>1 DEF Pd, Follow
  <2> QED BY <2>1, <2>2
<1>7. Pt(va)' = Pt(va) \/ (Pt(va) = Unmapped /\ Pt(va)' = f)
  <2>1. CASE Pd(va) = Unmapped
    BY <1>3, <1>6, <1>i, <2>1 DEF Pt, Follow
  <2>2. CASE Pd(va) # Unmapped
    <3>1. Pd(va) \in Frame /\ lvl[Pd(va)] = 2
      BY <1>0, <2>2, PathTables DEF Upper
    <3> QED BY <1>4, <1>6, <1>i, <2>2, <3>1 DEF Pt, Follow
  <2> QED BY <2>1, <2>2
<1>8. /\ Translate(va) = Follow(Pt(va), va[1])
      /\ Translate(va)' = IF Pt(va)' = Unmapped THEN Unmapped ELSE mem'[Pt(va)'][va[1]]
  BY DEF Translate, Pt, Pd, Pdpt, Follow
<1>9. CASE Pt(va) = Unmapped
  BY <1>3, <1>7, <1>8, <1>9, <1>i DEF Follow
<1>10. CASE Pt(va) # Unmapped
  <2>1. Pt(va) \in Frame /\ lvl[Pt(va)] = 1
    BY <1>0, <1>10, PathTables
  <2>2. Pt(va) # f /\ Pt(va) # cur
    BY <1>0, <1>1, <1>2, <2>1
  <2>3. mem'[Pt(va)] = mem[Pt(va)]
    BY <1>3, <2>1, <2>2
  <2> QED BY <1>7, <1>8, <1>10, <2>3 DEF Follow
<1> QED BY <1>9, <1>10

(* The zeroed PML4 is the empty address space.                             *)
LEMMA RefinesInit == Init => Abs!AInit
<1> SUFFICES ASSUME Init PROVE Abs!AInit
  OBVIOUS
<1>0. PInv /\ Building
  BY PInit DEF Init, Building
<1>1. \A va \in VAddr : Translate(va) = Unmapped
  <2> TAKE va \in VAddr
  <2>1. mem[Root][va[4]] = Unmapped
    BY <1>0, PathTables, TableAssumption DEF Init, ZeroTable
  <2>2. Pdpt(va) = Unmapped
    BY <1>0, <2>1, PathTables
  <2> QED BY <2>2 DEF Translate, Pdpt, Follow
<1>2. pc # "walk"
  BY DEF Init
<1> QED BY <1>0, <1>1, <1>2 DEF Abs!AInit, Abs!NoCall, Abs!Unmapped, Abs!VAddr, Abs!Level, Abs!Idx,
            VAddr, Level, Idx, Unmapped

(* Descending changes neither the tables nor what is left of the call, nor *)
(* does a step of mem_free_tables: the address space is already given up.  *)
LEMMA RefinesStutter ==
    ASSUME \/ pc = "walk" /\ pc' = "walk" /\ UNCHANGED <<mem, v, p, n>>
           \/ pc \in {"free", "freed"} /\ pc' \in {"free", "freed"}
           \/ pc \in {"idle", "failed"} /\ pc' \in {"idle", "failed"} /\ UNCHANGED mem
    PROVE  UNCHANGED Abs!AVars
<1>1. CASE pc = "walk" /\ pc' = "walk" /\ UNCHANGED <<mem, v, p, n>>
  BY <1>1 DEF Abs!AVars, Building, Translate, Follow
<1>2. CASE pc \in {"free", "freed"} /\ pc' \in {"free", "freed"}
  BY <1>2 DEF Abs!AVars, Building
<1>3. CASE pc \in {"idle", "failed"} /\ pc' \in {"idle", "failed"} /\ UNCHANGED mem
  BY <1>3 DEF Abs!AVars, Building, Translate, Follow
<1> QED BY <1>1, <1>2, <1>3

(* A call of mem_map_pages is the caller's request, or nothing at all.     *)
LEMMA RefinesMapPages ==
    ASSUME PInv, MapPages PROVE [Abs!ANext]_(Abs!AVars)
<1>1. pc = "idle" /\ UNCHANGED mem
  BY DEF MapPages
<1>2. PICK r \in Requests :
         \/ pc' = "failed"
         \/ pc' = pc
         \/ r.n > 0 /\ pc' = "walk" /\ v' = r.v /\ p' = r.p /\ n' = r.n
  BY DEF MapPages
<1>3. CASE pc' \in {"idle", "failed"}
  BY <1>1, <1>3, RefinesStutter
<1>4. CASE r.n > 0 /\ pc' = "walk" /\ v' = r.v /\ p' = r.p /\ n' = r.n
  <2>1. Abs!ACall
    BY <1>1, <1>4 DEF Abs!ACall, Abs!NoCall, Building, Translate, Follow
  <2> QED BY <2>1 DEF Abs!ANext
<1> QED BY <1>1, <1>2, <1>3, <1>4

(* Running out of memory gives the call up and leaves the address space.   *)
LEMMA RefinesNoMemory ==
    ASSUME PInv, NoMemory PROVE Abs!AGiveUp
<1>1. pc = "walk" /\ pc' = "failed" /\ UNCHANGED mem /\ n > 0
  BY DEF NoMemory, PInv, WalkOK
<1>2. [v |-> v, p |-> p, n |-> n] # [n |-> 0]
  BY <1>1
<1> QED BY <1>1, <1>2 DEF Abs!AGiveUp, Abs!NoCall, Building, Translate, Follow

(* Entering a page maps it in the address space and nothing else.          *)
LEMMA RefinesSetPage ==
    ASSUME PInv, SetPage PROVE Abs!AMapPage
<1>1. /\ pc = "walk" /\ n' = n - 1 /\ v' = NextPage(v) /\ p' = p + 1
      /\ pc' = IF n = 1 THEN "idle" ELSE "walk"
      /\ n > 0 /\ v \in VAddr
  BY DEF SetPage, PInv, WalkOK, TypeOK
<1>2. [v |-> v, p |-> p, n |-> n] # [n |-> 0]
  BY <1>1
<1>3. Building /\ Building'
  BY <1>1 DEF Building
<1>4. \A va \in VAddr : Translate(va)' = IF va = v THEN p ELSE Translate(va)
  BY SetPageTranslates
<1>5. [va \in VAddr |-> Translate(va)'] = [[va \in VAddr |-> Translate(va)] EXCEPT ![v] = p]
  BY <1>1, <1>4
<1>6. NextPage(v) = Abs!NextPage(v)
  BY DEF NextPage, Abs!NextPage, Level, Abs!Level
<1>7. ([va \in VAddr |-> IF Building THEN Translate(va) ELSE Unmapped])'
        = [[va \in VAddr |-> IF Building THEN Translate(va) ELSE Unmapped] EXCEPT ![v] = p]
  BY <1>3, <1>5
<1> QED BY <1>1, <1>2, <1>6, <1>7 DEF Abs!AMapPage, Abs!NoCall

(* Giving the tables up leaves an empty address space.                     *)
LEMMA RefinesFreeTables ==
    ASSUME FreeTables PROVE Abs!ATearDown
<1>1. pc # "walk" /\ pc' = "free"
  BY DEF FreeTables
<1> QED BY <1>1 DEF Abs!ATearDown, Abs!NoCall, Building, Abs!Unmapped, Unmapped,
            Abs!VAddr, VAddr, Abs!Level, Level, Abs!Idx, Idx

(* Every step of the tables is a step of the address space or none.        *)
LEMMA RefinesStep == PInv /\ [Next]_vars => [Abs!ANext]_(Abs!AVars)
<1> SUFFICES ASSUME PInv, [Next]_vars PROVE [Abs!ANext]_(Abs!AVars)
  OBVIOUS
<1>1. CASE MapPages
  BY <1>1, RefinesMapPages
<1>2. CASE Descend
  BY <1>2, RefinesStutter DEF Descend
<1>3. CASE NewTable
  <2>1. pc = "walk" /\ UNCHANGED <<pc, v, p, n>>
    BY <1>3 DEF NewTable
  <2>2. \A va \in VAddr : Translate(va)' = Translate(va)
    BY <1>3, NewTableTranslates
  <2> QED BY <2>1, <2>2 DEF Abs!AVars, Building
<1>4. CASE NoMemory
  BY <1>4, RefinesNoMemory DEF Abs!ANext
<1>5. CASE SetPage
  BY <1>5, RefinesSetPage DEF Abs!ANext
<1>6. CASE FreeTables
  BY <1>6, RefinesFreeTables DEF Abs!ANext
<1>7. CASE FreeSkip \/ FreeDescend \/ FreePt \/ FreeTable
  <2>1. pc = "free" /\ pc' \in {"free", "freed"}
    BY <1>7 DEF FreeSkip, FreeDescend, FreePt, FreeTable
  <2> QED BY <2>1, RefinesStutter
<1>8. CASE Terminated \/ UNCHANGED vars
  <2>1. UNCHANGED <<mem, pc, v, p, n>>
    BY <1>8 DEF Terminated, vars, walkVars
  <2> QED BY <2>1 DEF Abs!AVars, Building, Translate, Follow
<1> QED
  BY <1>1, <1>2, <1>3, <1>4, <1>5, <1>6, <1>7, <1>8 DEF Next, Walk, Teardown

(* The walk and the tables of memory.c implement the address space: for    *)
(* every size of table and every sequence of calls, a page maps to what    *)
(* the last call that reached it asked for.                                *)
THEOREM MapsWhatIsAsked == Spec => ImplementsAddressSpace
<1>1. Init => Abs!AInit
  BY RefinesInit
<1>2. PInv /\ [Next]_vars => [Abs!ANext]_(Abs!AVars)
  BY RefinesStep
<1> QED BY <1>1, <1>2, PagingInvariance, PTL DEF Spec, ImplementsAddressSpace, Abs!ASpec

=============================================================================
