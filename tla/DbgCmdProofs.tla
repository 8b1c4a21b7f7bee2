---------------------------- MODULE DbgCmdProofs ----------------------------
(***************************************************************************)
(* Proofs about the debugger's command line: the screen shows the line     *)
(* that is edited, the arguments are its words, parsing stays inside the   *)
(* buffer, what commands read ends inside it and numbers are read exactly, *)
(* for buffers, lines, tables and words of any size.                       *)
(***************************************************************************)
EXTENDS DbgCmd, FiniteSetTheorems, SequenceTheorems, WellFoundedInduction, TLAPS

Visible == Graph \cup {SP}

(* The buffer and the memory behind it, up to a 0 that stays.              *)
MemInv ==
    \E n \in Nat : n >= BufSize /\ i <= n /\ mem \in [0 .. n -> Char] /\ mem[n] = NUL

CmdType ==
    /\ mode \in {"edit", "parse", "exec"} /\ i \in Nat /\ argc \in 0 .. MaxArgs
    /\ argv \in [0 .. MaxArgs - 1 -> Int]
    /\ MemInv
    /\ keys \in Seq(Key) /\ screen \in Seq(Visible) /\ col \in 0 .. Len(screen)

(* While a line is edited: it fits, and has no return.                     *)
EditInv ==
    mode = "edit" =>
        /\ i < BufSize /\ outside = {}
        /\ \A k \in DOMAIN keys : keys[k] # CR
        /\ ScreenShowsLine

(* The k-th argument is a word of L: it starts where a word does, is the   *)
(* k-th that does, and is cut where the word ends.                         *)
IsWord(L, k) ==
    /\ argv[k] \in 0 .. Len(L) - 1 /\ argv[k] + 1 \in Starts(L)
    /\ Cardinality({j \in Starts(L) : j <= argv[k]}) = k
    /\ \E e \in argv[k] + 1 .. Len(L) :
         /\ mem[e] = NUL /\ (e < i \/ i = Len(L))
         /\ \A j \in argv[k] .. e - 1 : mem[j] = L[j + 1] /\ L[j + 1] # SP
         /\ e = Len(L) \/ L[e + 1] = SP

(* The parser's place in the line L: what lies before it is cut into words *)
(* in argv, what lies behind it is as it was typed.                        *)
CutInv(L) ==
    /\ L \in Seq(Visible) /\ Len(L) < BufSize
    /\ i \in 0 .. Len(L) /\ mem[Len(L)] = NUL
    /\ \A j \in i .. Len(L) - 1 : mem[j] = L[j + 1]
    /\ i = 0 \/ i = Len(L) \/ L[i] = SP
    /\ argc = Cardinality({w \in Starts(L) : w <= i})
    /\ \A k \in 0 .. argc - 1 : IsWord(L, k)
    /\ mode = "exec" => argc = MaxArgs \/ \A w \in Starts(L) : w <= i

ParseInv ==
    mode # "edit" =>
        /\ keys # <<>>
        /\ Last(keys) # CR => Len(Edited) = BufSize
        /\ Last(keys) = CR => outside = {} /\ CutInv(Line)

CmdInv == CmdType /\ EditInv /\ ParseInv

-----------------------------------------------------------------------------
(* Induction on the natural numbers, for a set of them.                    *)
LEMMA NatSetInduction ==
    ASSUME NEW P, 0 \in P, \A n \in Nat : n \in P => n + 1 \in P
    PROVE  Nat \subseteq P
<1> DEFINE T == Nat \ P
           Less == {ss \in Nat \X Nat : ss[1] < ss[2]}
<1> SUFFICES ASSUME T # {}
             PROVE  FALSE
  OBVIOUS
<1>1. OpToRel(<, Nat) = Less
  BY Zenon DEF OpToRel
<1>2. \E x \in T : \A y \in T : ~ (<<y, x>> \in Less)
  BY <1>1, WFMin, NatLessThanWellFounded, Zenon
<1>3. PICK x \in T : \A y \in T : ~ (<<y, x>> \in Less)
  BY <1>2, Zenon
<1>4. x \in Nat /\ x # 0 /\ x - 1 \in Nat /\ x - 1 < x
  OBVIOUS
<1>5. <<x - 1, x>> \in Less
  BY <1>4
<1>6. x - 1 \notin T
  BY <1>3, <1>5, Zenon
<1> QED
  BY <1>4, <1>6

(* A set of natural numbers has a least one.                               *)
LEMMA Least ==
    ASSUME NEW T \in SUBSET Nat, T # {}
    PROVE  \E x \in T : \A y \in T : x <= y
<1> SUFFICES ASSUME ~ \E x \in T : \A y \in T : x <= y
             PROVE  FALSE
  OBVIOUS
<1> DEFINE P == {n \in Nat : \A y \in T : n <= y}
<1>1. 0 \in P
  OBVIOUS
<1>2. ASSUME NEW n \in Nat, n \in P
      PROVE  n + 1 \in P
  <2>1. n \notin T
    BY <1>2
  <2>2. \A y \in T : y # n /\ n <= y
    BY <1>2, <2>1
  <2> QED
    BY <2>2
<1>3. Nat \subseteq P
  <2> HIDE DEF P
  <2> QED
    BY <1>1, <1>2, NatSetInduction
<1>4. PICK t \in T : t \in Nat
  OBVIOUS
<1>5. t + 1 \in P
  BY <1>3, <1>4
<1> QED
  BY <1>4, <1>5

(* The least and the greatest of a set of numbers.                         *)
LEMMA MinFacts ==
    ASSUME NEW T \in SUBSET Nat, T # {}
    PROVE  Min(T) \in T /\ \A y \in T : Min(T) <= y
<1>1. \E x \in T : \A y \in T : x <= y
  BY Least
<1> QED
  BY <1>1, Zenon DEF Min

-----------------------------------------------------------------------------
(* The recursion of EditOf has a solution: it is defined.                  *)
LEMMA EditDefined ==
    ASSUME NEW S, NEW ks \in Seq(S)
    PROVE  EditOf(ks) = [n \in 0 .. Len(ks) |->
                            IF n = 0 THEN <<>> ELSE EditKey(EditOf(ks)[n - 1], ks[n])]
<1> DEFINE R(g, m) == g = [n \in 0 .. m |-> IF n = 0 THEN <<>> ELSE EditKey(g[n - 1], ks[n])]
           D(m) == \E g : R(g, m)
           P == {m \in Nat : D(m)}
<1>1. 0 \in P
  <2>1. R([n \in 0 .. 0 |-> <<>>], 0)
    OBVIOUS
  <2>2. D(0)
    BY <2>1, Zenon
  <2> HIDE DEF D
  <2> QED
    BY <2>2
<1>2. ASSUME NEW m \in Nat, m \in P
      PROVE  m + 1 \in P
  <2>1. D(m)
    BY <1>2, Zenon
  <2>2. PICK g : R(g, m)
    BY <2>1, Zenon
  <2>3. R([n \in 0 .. m + 1 |-> IF n = m + 1 THEN EditKey(g[m], ks[m + 1]) ELSE g[n]], m + 1)
    BY <2>2
  <2>4. D(m + 1)
    BY <2>3, Zenon
  <2> HIDE DEF D
  <2> QED
    BY <2>4
<1>3. D(Len(ks))
  <2>1. Nat \subseteq P
    <3> HIDE DEF P
    <3> QED
      BY <1>1, <1>2, NatSetInduction
  <2>2. Len(ks) \in P
    BY <2>1
  <2> HIDE DEF D
  <2> QED
    BY <2>2
<1> QED
  BY <1>3, Zenon DEF EditOf

(* A key more edits the line once more.                                    *)
LEMMA EditAppend ==
    ASSUME NEW S, NEW ks \in Seq(S), NEW c \in S
    PROVE  EditOf(Append(ks, c))[Len(Append(ks, c))] = EditKey(EditOf(ks)[Len(ks)], c)
<1> DEFINE N == Len(ks)
           r == Append(ks, c)
           F == EditOf(ks)
           G == EditOf(r)
           P == {m \in Nat : m <= N => G[m] = F[m]}
<1>1. /\ N \in Nat /\ r \in Seq(S) /\ Len(r) = N + 1 /\ r[N + 1] = c
      /\ \A j \in 1 .. N : r[j] = ks[j]
  OBVIOUS
<1>2. F = [n \in 0 .. N |-> IF n = 0 THEN <<>> ELSE EditKey(F[n - 1], ks[n])]
  BY EditDefined, Zenon
<1>3. G = [n \in 0 .. Len(r) |-> IF n = 0 THEN <<>> ELSE EditKey(G[n - 1], r[n])]
  BY <1>1, EditDefined, Zenon
<1> HIDE DEF F, G, N, r
<1>4. F[0] = <<>> /\ \A n \in 1 .. N : F[n] = EditKey(F[n - 1], ks[n])
  BY <1>1, <1>2
<1>5. G[0] = <<>> /\ \A n \in 1 .. N + 1 : G[n] = EditKey(G[n - 1], r[n])
  BY <1>1, <1>3
<1>6. 0 \in P
  BY <1>4, <1>5
<1>7. ASSUME NEW m \in Nat, m \in P
      PROVE  m + 1 \in P
  <2> SUFFICES ASSUME m + 1 <= N
               PROVE  G[m + 1] = F[m + 1]
    OBVIOUS
  <2>1. m + 1 \in 1 .. N /\ m + 1 \in 1 .. N + 1 /\ (m + 1) - 1 = m /\ m <= N
    BY <1>1
  <2>2. G[m] = F[m]
    BY <1>7, <2>1
  <2> QED
    BY <1>1, <1>4, <1>5, <2>1, <2>2
<1>8. N \in P
  <2> HIDE DEF P
  <2> QED
    BY <1>1, <1>6, <1>7, NatSetInduction
<1>9. G[N] = F[N]
  BY <1>1, <1>8
<1>10. N + 1 \in 1 .. N + 1 /\ (N + 1) - 1 = N
  BY <1>1
<1> QED
  BY <1>1, <1>5, <1>9, <1>10 DEF F, G, N, r

(* The line before any key.                                                *)
LEMMA EditEmpty == EditOf(<<>>)[Len(<<>>)] = <<>>
<1>1. <<>> \in Seq(Key) /\ Len(<<>>) = 0
  OBVIOUS
<1>2. ASSUME NEW ks \in Seq(Key), Len(ks) = 0
      PROVE  EditOf(ks)[Len(ks)] = <<>>
  <2>1. EditOf(ks) = [n \in 0 .. Len(ks) |->
                          IF n = 0 THEN <<>> ELSE EditKey(EditOf(ks)[n - 1], ks[n])]
    BY EditDefined, Zenon
  <2> QED
    BY <1>2, <2>1
<1> QED
  BY <1>1, <1>2, Zenon

(* The line after one more key.                                            *)
LEMMA EditedStep ==
    ASSUME keys \in Seq(Key), NEW c \in Key, keys' = Append(keys, c)
    PROVE  Edited' = EditKey(Edited, c)
<1>1. Edited' = EditOf(keys')[Len(keys')]
  BY Zenon DEF Edited, EditOf
<1>2. EditOf(Append(keys, c))[Len(Append(keys, c))] = EditKey(EditOf(keys)[Len(keys)], c)
  BY EditAppend
<1> QED
  BY <1>1, <1>2, Zenon DEF Edited

-----------------------------------------------------------------------------
(* A character on the terminal overwrites one or extends the line.         *)
LEMMA ShowChar ==
    ASSUME NEW ln \in Seq(Visible), NEW p \in 0 .. Len(ln), NEW c \in Visible
    PROVE  LET t == Show([line |-> ln, col |-> p], c) IN
           /\ t.line \in Seq(Visible) /\ t.col = p + 1
           /\ Len(t.line) = (IF p = Len(ln) THEN p + 1 ELSE Len(ln))
           /\ \A k \in 1 .. Len(t.line) : t.line[k] = IF k = p + 1 THEN c ELSE ln[k]
<1> DEFINE a == SubSeq(ln, 1, p)
           b == SubSeq(ln, p + 2, Len(ln))
           ac == a \o <<c>>
           r == ac \o b
<1>0. c \notin {BS, NUL}
  BY CmdAssumption DEF Visible, SP, BS, NUL, CR
<1>1. Show([line |-> ln, col |-> p], c) = [line |-> r, col |-> p + 1]
  BY <1>0 DEF Show
<1>2. Len(ln) \in Nat /\ p \in Nat /\ p <= Len(ln)
  OBVIOUS
<1>3. a \in Seq(Visible) /\ Len(a) = p /\ \A k \in 1 .. p : a[k] = ln[k]
  BY <1>2
<1>4. /\ b \in Seq(Visible) /\ Len(b) = (IF p = Len(ln) THEN 0 ELSE Len(ln) - p - 1)
      /\ \A k \in 1 .. Len(b) : b[k] = ln[p + 1 + k]
  <2>1. CASE p + 2 <= Len(ln)
    BY <1>2, <2>1
  <2>2. CASE ~(p + 2 <= Len(ln))
    BY <1>2, <2>2
  <2> QED
    BY <2>1, <2>2
<1> HIDE DEF a, b
<1>5. /\ ac \in Seq(Visible) /\ Len(ac) = p + 1
      /\ \A k \in 1 .. p + 1 : ac[k] = IF k = p + 1 THEN c ELSE ln[k]
  <2>1. <<c>> \in Seq(Visible) /\ Len(<<c>>) = 1 /\ <<c>>[1] = c
    OBVIOUS
  <2>2. /\ ac \in Seq(Visible) /\ Len(ac) = Len(a) + Len(<<c>>)
        /\ \A k \in 1 .. Len(a) + Len(<<c>>) : ac[k] = IF k <= Len(a) THEN a[k] ELSE <<c>>[k - Len(a)]
    BY <1>3, <2>1, ConcatProperties
  <2>3. Len(a) + Len(<<c>>) = p + 1
    BY <1>3, <2>1
  <2>4. ASSUME NEW k \in 1 .. p + 1
        PROVE  ac[k] = IF k = p + 1 THEN c ELSE ln[k]
    <3>1. CASE k = p + 1
      <4>1. ~(k <= Len(a)) /\ k - Len(a) = 1
        BY <1>2, <1>3, <3>1
      <4> QED
        BY <2>1, <2>2, <2>3, <3>1, <4>1
    <3>2. CASE k # p + 1
      <4>1. k <= Len(a) /\ k \in 1 .. p
        BY <1>2, <1>3, <3>2
      <4> QED
        BY <1>3, <2>2, <2>3, <3>2, <4>1
    <3> QED
      BY <3>1, <3>2
  <2> QED
    BY <2>2, <2>3, <2>4
<1> HIDE DEF ac
<1>6. /\ r \in Seq(Visible) /\ Len(r) = Len(ac) + Len(b)
      /\ \A k \in 1 .. Len(ac) + Len(b) : r[k] = IF k <= Len(ac) THEN ac[k] ELSE b[k - Len(ac)]
  BY <1>4, <1>5, ConcatProperties
<1> HIDE DEF r
<1> DEFINE lb == Len(b)
           la == Len(ac)
           n == Len(ln)
<1>a. /\ la = p + 1 /\ lb = (IF p = n THEN 0 ELSE n - p - 1) /\ Len(r) = la + lb
      /\ n \in Nat /\ p \in Nat /\ p <= n
  BY <1>2, <1>4, <1>5, <1>6
<1> HIDE DEF la, lb, n
<1>b. Len(r) = IF p = n THEN p + 1 ELSE n
  BY <1>a
<1>7. Len(r) = IF p = Len(ln) THEN p + 1 ELSE Len(ln)
  BY <1>b DEF n
<1>8. ASSUME NEW k \in 1 .. Len(r)
      PROVE  r[k] = IF k = p + 1 THEN c ELSE ln[k]
  <2>1. CASE k <= p + 1
    <3>1. k \in 1 .. p + 1 /\ k <= Len(ac) /\ k \in 1 .. Len(ac) + Len(b)
      BY <1>2, <1>5, <1>6, <2>1
    <3> QED
      BY <1>5, <1>6, <3>1
  <2>2. CASE ~(k <= p + 1)
    <3>1. ~(k <= Len(ac)) /\ k \in 1 .. Len(ac) + Len(b) /\ k # p + 1
      BY <1>2, <1>5, <1>6, <2>2
    <3>a. k \in Nat /\ k <= la + lb /\ ~(k <= la) /\ la \in Nat /\ lb \in Nat
      BY <1>a, <2>2
    <3>b. k - la \in 1 .. lb /\ p + 1 + (k - la) = k
      BY <1>a, <3>a
    <3>2. k - Len(ac) \in 1 .. Len(b) /\ p + 1 + (k - Len(ac)) = k
      BY <3>b DEF la, lb
    <3>3. r[k] = b[k - Len(ac)] /\ b[k - Len(ac)] = ln[k]
      BY <1>4, <1>6, <3>1, <3>2
    <3> QED
      BY <3>1, <3>3
  <2> QED
    BY <1>2, <2>1, <2>2
<1> QED
  BY <1>1, <1>6, <1>7, <1>8

(* A backspace moves the cursor.                                           *)
LEMMA ShowBack ==
    ASSUME NEW ln, NEW p \in Nat
    PROVE  Show([line |-> ln, col |-> p], BS) =
             [line |-> ln, col |-> IF p = 0 THEN 0 ELSE p - 1]
<1> DEFINE T == {0, p - 1}
           q == IF p = 0 THEN 0 ELSE p - 1
<1>1. q \in T /\ \A y \in T : q >= y
  OBVIOUS
<1>2. \A x \in T : (\A y \in T : x >= y) => x = q
  OBVIOUS
<1>3. Max(T) = q
  BY <1>1, <1>2, Zenon DEF Max
<1>4. Show([line |-> ln, col |-> p], BS) = [line |-> ln, col |-> Max({0, p - 1})]
  <2> DEFINE t == [line |-> ln, col |-> p]
  <2>0. BS # NUL
    BY DEF BS, NUL
  <2> HIDE DEF t
  <2>1. Show(t, BS) = [t EXCEPT !.col = Max({0, t.col - 1})]
    BY <2>0 DEF Show
  <2> USE DEF t
  <2>2. t.col = p
    OBVIOUS
  <2> DEFINE m == Max({0, t.col - 1})
  <2>3. m = Max({0, p - 1})
    BY <2>2
  <2> HIDE DEF m
  <2>4. [t EXCEPT !.col = m] = [line |-> ln, col |-> m]
    OBVIOUS
  <2> QED
    BY <2>1, <2>3, <2>4 DEF m
<1> QED
  BY <1>3, <1>4

-----------------------------------------------------------------------------
(* Equal element by element.                                               *)
LEMMA MemIsSeq ==
    ASSUME NEW S, NEW q \in Seq(S), NEW m, \A k \in 1 .. Len(q) : m[k - 1] = q[k]
    PROVE  [k \in 1 .. Len(q) |-> m[k - 1]] = q
  OBVIOUS

LEMMA PrefixIs ==
    ASSUME NEW S, NEW q \in Seq(S), NEW s \in Seq(S), NEW p \in 0 .. Len(s), Len(q) = p,
           \A k \in 1 .. p : s[k] = q[k]
    PROVE  SubSeq(s, 1, p) = q
<1> DEFINE r == SubSeq(s, 1, p)
<1>1. r \in Seq(S) /\ Len(r) = p /\ \A k \in 1 .. p : r[k] = s[k]
  OBVIOUS
<1> HIDE DEF r
<1>2. r = q
  BY <1>1, SeqEqual
<1> QED
  BY <1>2 DEF r

(* Kinds of characters.                                                    *)
LEMMA Characters ==
    /\ BS \notin Char /\ CR \notin Char /\ BS # CR /\ NUL \notin Visible /\ SP # NUL
    /\ Char = Visible \cup {NUL} /\ Key = Char \cup {BS, CR} /\ SP \in Visible
  BY CmdAssumption DEF Char, Key, Visible, SP, BS, CR, NUL

(* The line as it is edited, element by element.                           *)
LEMMA EditFacts ==
    ASSUME CmdInv, mode = "edit"
    PROVE  /\ Edited \in Seq(Char) /\ Len(Edited) = i
           /\ \A k \in 1 .. i : mem[k - 1] = Edited[k]
           /\ (\A k \in DOMAIN keys : keys[k] # NUL) =>
                 /\ col = i
                 /\ \A k \in 1 .. i : screen[k] = Edited[k]
                 /\ \A k \in i + 1 .. Len(screen) : screen[k] = SP
<1>1. PICK n \in Nat : n >= BufSize /\ i <= n /\ mem \in [0 .. n -> Char]
  BY DEF CmdInv, CmdType, MemInv
<1>2. i \in Nat /\ [k \in 1 .. i |-> mem[k - 1]] = Edited
  BY DEF CmdInv, CmdType, EditInv, ScreenShowsLine
<1> DEFINE E == Edited
           f == [k \in 1 .. i |-> mem[k - 1]]
<1>3. \A k \in 1 .. i : k - 1 \in 0 .. n
  BY <1>1, <1>2
<1>4. f \in [1 .. i -> Char] /\ \A k \in 1 .. i : f[k] = mem[k - 1]
  BY <1>1, <1>3
<1>5. f = E
  BY <1>2
<1> HIDE DEF f, E
<1>6. f \in Seq(Char) /\ Len(f) = i
  BY <1>2, <1>4
<1>7. E \in Seq(Char) /\ Len(E) = i /\ \A k \in 1 .. i : mem[k - 1] = E[k]
  BY <1>4, <1>5, <1>6
<1>8. ASSUME \A k \in DOMAIN keys : keys[k] # NUL
      PROVE  /\ col = i /\ \A k \in 1 .. i : screen[k] = E[k]
             /\ \A k \in i + 1 .. Len(screen) : screen[k] = SP
  <2>1. /\ SubSeq(screen, 1, col) = E /\ \A k \in col + 1 .. Len(screen) : screen[k] = SP
    BY <1>8 DEF CmdInv, EditInv, ScreenShowsLine, E
  <2>2. screen \in Seq(Visible) /\ col \in 0 .. Len(screen)
    BY DEF CmdInv, CmdType
  <2>3. /\ Len(SubSeq(screen, 1, col)) = col
        /\ \A k \in 1 .. col : SubSeq(screen, 1, col)[k] = screen[k]
    BY <2>2
  <2> QED
    BY <1>7, <2>1, <2>3
<1> QED
  BY <1>7, <1>8 DEF E

(* Taking a key: the parts that every key has.                             *)
LEMMA KeyFacts ==
    ASSUME CmdInv, NEW c \in Key, dbg_getcmd(c)
    PROVE  /\ mode = "edit" /\ keys' \in Seq(Key) /\ keys' # <<>> /\ Last(keys)' = c
           /\ Edited' = EditKey(Edited, c)
           /\ \A k \in DOMAIN keys : k \in DOMAIN keys' /\ keys'[k] = keys[k]
           /\ \A k \in DOMAIN keys' : k \in DOMAIN keys \/ keys'[k] = c
           /\ \E k \in DOMAIN keys' : keys'[k] = c
           /\ argv' \in [0 .. MaxArgs - 1 -> Int] /\ argc' \in 0 .. MaxArgs
           /\ outside' = {}
<1>1. mode = "edit" /\ keys' = Append(keys, c) /\ keys \in Seq(Key)
  BY DEF dbg_getcmd, CmdInv, CmdType
<1>2. /\ keys' \in Seq(Key) /\ keys' # <<>> /\ Len(keys') = Len(keys) + 1
      /\ \A k \in 1 .. Len(keys) : keys'[k] = keys[k]
      /\ keys'[Len(keys) + 1] = c
  BY <1>1
<1>3. DOMAIN keys = 1 .. Len(keys) /\ DOMAIN keys' = 1 .. Len(keys) + 1 /\ Len(keys) \in Nat
  BY <1>1, <1>2
<1>4. Last(keys)' = c
  BY <1>2 DEF Last
<1>5. Edited' = EditKey(Edited, c)
  BY <1>1, EditedStep
<1>6. argv' \in [0 .. MaxArgs - 1 -> Int] /\ argc' \in 0 .. MaxArgs /\ outside' = {}
  BY <1>1, CmdAssumption DEF dbg_getcmd, CmdInv, CmdType, EditInv
<1> QED
  BY <1>1, <1>2, <1>3, <1>4, <1>5, <1>6

(* A backspace.                                                            *)
LEMMA BackStep ==
    ASSUME CmdInv, dbg_getcmd(BS)
    PROVE  CmdInv'
<1> DEFINE E == Edited
<1>0. BS \in Key /\ BS # NUL /\ BS # CR
  BY Characters DEF BS, NUL
<1>1. /\ mode = "edit" /\ keys' \in Seq(Key) /\ E' = EditKey(E, BS)
      /\ argv' \in [0 .. MaxArgs - 1 -> Int] /\ argc' \in 0 .. MaxArgs /\ outside' = {}
      /\ \A k \in DOMAIN keys : k \in DOMAIN keys' /\ keys'[k] = keys[k]
      /\ \A k \in DOMAIN keys' : k \in DOMAIN keys \/ keys'[k] = BS
  BY <1>0, KeyFacts
<1>2. /\ Backspace /\ UNCHANGED <<mode, mem>>
  BY <1>0 DEF dbg_getcmd
<1>3. E \in Seq(Char) /\ Len(E) = i /\ \A k \in 1 .. i : mem[k - 1] = E[k]
  BY <1>1, EditFacts
<1>4. /\ i \in Nat /\ i < BufSize /\ MemInv /\ screen \in Seq(Visible) /\ col \in 0 .. Len(screen)
      /\ \A k \in DOMAIN keys : keys[k] # CR
  BY <1>1 DEF CmdInv, CmdType, EditInv
<1>5. \A k \in DOMAIN keys' : keys'[k] # CR
  BY <1>0, <1>1, <1>4
<1>6. (\A k \in DOMAIN keys' : keys'[k] # NUL) => \A k \in DOMAIN keys : keys[k] # NUL
  BY <1>1
<1>7. (\A k \in DOMAIN keys' : keys'[k] # NUL) =>
         /\ col = i /\ \A k \in 1 .. i : screen[k] = E[k]
         /\ \A k \in i + 1 .. Len(screen) : screen[k] = SP
  BY <1>1, <1>6, EditFacts
<1> HIDE DEF E
<1>8. ASSUME /\ i' \in Nat /\ i' <= i /\ E' \in Seq(Char) /\ Len(E') = i'
             /\ \A k \in 1 .. i' : E'[k] = E[k]
             /\ screen' \in Seq(Visible) /\ col' \in 0 .. Len(screen')
             /\ (\A k \in DOMAIN keys' : keys'[k] # NUL) =>
                   /\ col' = i' /\ \A k \in 1 .. i' : screen'[k] = E[k]
                   /\ \A k \in i' + 1 .. Len(screen') : screen'[k] = SP
      PROVE  CmdInv'
  <2>1. [k \in 1 .. Len(E') |-> mem'[k - 1]] = E'
    <3>1. \A k \in 1 .. Len(E') : mem'[k - 1] = E'[k]
      BY <1>2, <1>3, <1>4, <1>8
    <3> QED
      BY <1>8, <3>1, MemIsSeq
  <2>2. (\A k \in DOMAIN keys' : keys'[k] # NUL) => SubSeq(screen', 1, col') = E'
    <3>1. screen' \in Seq(Char)
      BY <1>8, Characters
    <3>2. ASSUME \A k \in DOMAIN keys' : keys'[k] # NUL
          PROVE  SubSeq(screen', 1, col') = E'
      <4>1. Len(E') = col' /\ \A k \in 1 .. col' : screen'[k] = E'[k]
        BY <1>8, <3>2
      <4>2. E' \in Seq(Char) /\ col' \in 0 .. Len(screen')
        BY <1>8
      <4> QED
        BY <3>1, <4>1, <4>2, PrefixIs
    <3> QED
      BY <3>2
  <2>3. [k \in 1 .. i' |-> mem'[k - 1]] = E'
    BY <1>8, <2>1
  <2>4. ScreenShowsLine'
    BY <1>8, <2>2, <2>3 DEF ScreenShowsLine, E
  <2>5. MemInv'
    BY <1>2, <1>4, <1>8 DEF MemInv
  <2>6. i' < BufSize
    BY <1>4, <1>8, CmdAssumption
  <2> QED
    BY <1>1, <1>2, <1>5, <1>8, <2>4, <2>5, <2>6 DEF CmdInv, CmdType, EditInv, ParseInv
<1>9. CASE i > 0
  <2>1. i' = i - 1 /\ Echo(Show(Show(Show(Tty, BS), SP), BS))
    BY <1>2, <1>9 DEF Backspace
  <2>2. E' = Front(E)
    <3>1. E # <<>>
      BY <1>3, <1>9
    <3> QED
      BY <1>0, <1>1, <3>1 DEF EditKey
  <2>3. E' \in Seq(Char) /\ Len(E') = i - 1 /\ \A k \in 1 .. i - 1 : E'[k] = E[k]
    BY <1>3, <1>4, <1>9, <2>2 DEF Front
  <2> DEFINE q == IF col = 0 THEN 0 ELSE col - 1
             t == Show([line |-> screen, col |-> q], SP)
  <2>4. q \in Nat /\ q \in 0 .. Len(screen) /\ Len(screen) \in Nat
    BY <1>4
  <2>5. Show(Tty, BS) = [line |-> screen, col |-> q]
    BY <1>4, ShowBack DEF Tty
  <2> HIDE DEF q
  <2>6. /\ t.line \in Seq(Visible) /\ t.col = q + 1
        /\ Len(t.line) = (IF q = Len(screen) THEN q + 1 ELSE Len(screen))
        /\ \A k \in 1 .. Len(t.line) : t.line[k] = IF k = q + 1 THEN SP ELSE screen[k]
    BY <1>4, <2>4, ShowChar, Characters
  <2>7. t = [line |-> t.line, col |-> q + 1]
    BY <1>0, <2>6, Characters DEF Show
  <2> HIDE DEF t
  <2>8. Show(t, BS) = [line |-> t.line, col |-> q]
    <3>1. q + 1 \in Nat /\ q + 1 # 0 /\ (q + 1) - 1 = q
      BY <2>4
    <3>2. Show([line |-> t.line, col |-> q + 1], BS) = [line |-> t.line, col |-> q]
      BY <3>1, ShowBack
    <3> QED
      BY <2>7, <3>2
  <2>9. screen' = t.line /\ col' = q
    BY <2>1, <2>5, <2>8 DEF Echo, t
  <2>10. col' \in 0 .. Len(screen')
    BY <2>4, <2>6, <2>9
  <2>11. ASSUME \A k \in DOMAIN keys' : keys'[k] # NUL
         PROVE  /\ col' = i' /\ \A k \in 1 .. i' : screen'[k] = E[k]
                /\ \A k \in i' + 1 .. Len(screen') : screen'[k] = SP
    <3>1. /\ col = i /\ \A k \in 1 .. i : screen[k] = E[k]
          /\ \A k \in i + 1 .. Len(screen) : screen[k] = SP
      BY <1>7, <2>11
    <3>2. q = i - 1 /\ i <= Len(screen)
      BY <1>4, <1>9, <3>1 DEF q
    <3>3. Len(screen') = Len(screen)
      BY <1>4, <2>4, <2>6, <2>9, <3>2
    <3>4. \A k \in 1 .. Len(screen') : screen'[k] = IF k = i THEN SP ELSE screen[k]
      BY <1>4, <2>6, <2>9, <3>2
    <3>5. \A k \in 1 .. i' : screen'[k] = E[k]
      BY <1>4, <2>1, <2>4, <3>1, <3>2, <3>3, <3>4
    <3>6. \A k \in i' + 1 .. Len(screen') : screen'[k] = SP
      BY <1>4, <1>9, <2>1, <2>4, <3>1, <3>2, <3>3, <3>4
    <3> QED
      BY <2>1, <2>9, <3>2, <3>5, <3>6
  <2>12. i' \in Nat /\ i' <= i
    BY <1>4, <1>9, <2>1
  <2> QED
    BY <1>8, <2>1, <2>3, <2>6, <2>9, <2>10, <2>11, <2>12
<1>10. CASE ~(i > 0)
  <2>1. UNCHANGED <<i, screen, col>> /\ i = 0
    BY <1>2, <1>4, <1>10 DEF Backspace, tty
  <2>2. E = <<>>
    BY <1>3, <2>1
  <2>3. E' = E
    BY <1>0, <1>1, <2>2 DEF EditKey
  <2> QED
    BY <1>3, <1>4, <1>7, <1>8, <2>1, <2>3
<1> QED
  BY <1>9, <1>10

(* A character, which may fill the buffer.                                 *)
LEMMA CharStep ==
    ASSUME CmdInv, NEW c \in Char, dbg_getcmd(c)
    PROVE  CmdInv'
<1> DEFINE E == Edited
<1>0. c \in Key /\ c # BS /\ c # CR
  BY Characters
<1>1. /\ mode = "edit" /\ keys' \in Seq(Key) /\ keys' # <<>> /\ Last(keys)' = c /\ E' = EditKey(E, c)
      /\ argv' \in [0 .. MaxArgs - 1 -> Int] /\ argc' \in 0 .. MaxArgs /\ outside' = {}
      /\ \A k \in DOMAIN keys : k \in DOMAIN keys' /\ keys'[k] = keys[k]
      /\ \A k \in DOMAIN keys' : k \in DOMAIN keys \/ keys'[k] = c
      /\ \E k \in DOMAIN keys' : keys'[k] = c
  BY <1>0, KeyFacts
<1>2. /\ mem' = [mem EXCEPT ![i] = c] /\ Echo(Show(Tty, c))
      /\ IF Full THEN mode' = "parse" /\ i' = 0 ELSE i' = i + 1 /\ UNCHANGED mode
  BY <1>0 DEF dbg_getcmd
<1>3. E \in Seq(Char) /\ Len(E) = i /\ \A k \in 1 .. i : mem[k - 1] = E[k]
  BY <1>1, EditFacts
<1>4. /\ i \in Nat /\ i < BufSize /\ MemInv /\ screen \in Seq(Visible) /\ col \in 0 .. Len(screen)
      /\ \A k \in DOMAIN keys : keys[k] # CR
  BY <1>1 DEF CmdInv, CmdType, EditInv
<1>5. \A k \in DOMAIN keys' : keys'[k] # CR
  BY <1>0, <1>1, <1>4
<1>6. (\A k \in DOMAIN keys' : keys'[k] # NUL) => c # NUL /\ \A k \in DOMAIN keys : keys[k] # NUL
  BY <1>1
<1>7. (\A k \in DOMAIN keys : keys[k] # NUL) =>
         /\ col = i /\ \A k \in 1 .. i : screen[k] = E[k]
         /\ \A k \in i + 1 .. Len(screen) : screen[k] = SP
  BY <1>1, EditFacts
<1> HIDE DEF E
<1>8. E' = Append(E, c)
  BY <1>0, <1>1 DEF EditKey
<1>9. /\ E' \in Seq(Char) /\ Len(E') = i + 1 /\ E'[i + 1] = c
      /\ \A k \in 1 .. i : E'[k] = E[k]
  BY <1>3, <1>4, <1>8
<1>10. PICK n \in Nat : n >= BufSize /\ i <= n /\ mem \in [0 .. n -> Char] /\ mem[n] = NUL
  BY <1>4 DEF MemInv
<1>11. /\ mem' \in [0 .. n -> Char] /\ mem'[n] = NUL /\ mem'[i] = c
       /\ \A k \in 0 .. i - 1 : mem'[k] = mem[k]
  BY <1>2, <1>4, <1>10, CmdAssumption
<1>12. /\ screen' \in Seq(Visible) /\ col' \in 0 .. Len(screen')
       /\ (\A k \in DOMAIN keys' : keys'[k] # NUL) =>
             /\ col' = i + 1 /\ \A k \in 1 .. i + 1 : screen'[k] = E'[k]
             /\ \A k \in i + 2 .. Len(screen') : screen'[k] = SP
  <2>1. CASE c = NUL
    <3>1. Show(Tty, c) = Tty
      BY <1>0, <2>1 DEF Show
    <3>2. screen' = screen /\ col' = col
      BY <1>2, <3>1 DEF Echo, Tty
    <3> QED
      BY <1>4, <1>6, <2>1, <3>2
  <2>2. CASE c # NUL
    <3>0. c \in Visible
      BY <2>2, Characters
    <3> DEFINE t == Show([line |-> screen, col |-> col], c)
    <3>1. /\ t.line \in Seq(Visible) /\ t.col = col + 1
          /\ Len(t.line) = (IF col = Len(screen) THEN col + 1 ELSE Len(screen))
          /\ \A k \in 1 .. Len(t.line) : t.line[k] = IF k = col + 1 THEN c ELSE screen[k]
      BY <1>4, <3>0, ShowChar
    <3> HIDE DEF t
    <3>2. screen' = t.line /\ col' = t.col
      BY <1>2 DEF Echo, Tty, t
    <3>3. col \in Nat /\ Len(screen) \in Nat /\ col <= Len(screen)
      BY <1>4
    <3>4. col' \in 0 .. Len(screen')
      BY <3>1, <3>2, <3>3
    <3>5. ASSUME \A k \in DOMAIN keys' : keys'[k] # NUL
          PROVE  /\ col' = i + 1 /\ \A k \in 1 .. i + 1 : screen'[k] = E'[k]
                 /\ \A k \in i + 2 .. Len(screen') : screen'[k] = SP
      <4>1. /\ col = i /\ \A k \in 1 .. i : screen[k] = E[k]
            /\ \A k \in i + 1 .. Len(screen) : screen[k] = SP
        BY <1>6, <1>7, <3>5
      <4>2. \A k \in 1 .. Len(screen') : screen'[k] = IF k = i + 1 THEN c ELSE screen[k]
        BY <3>1, <3>2, <4>1
      <4>3. i + 1 <= Len(screen') /\ Len(screen') \in Nat
        BY <1>4, <3>1, <3>2, <3>3, <4>1
      <4>4. ASSUME NEW k \in 1 .. i + 1
            PROVE  screen'[k] = E'[k]
        <5>1. k \in 1 .. Len(screen')
          BY <1>4, <4>3
        <5>2. CASE k = i + 1
          <6>1. screen'[k] = c
            BY <4>2, <5>1, <5>2
          <6> QED
            BY <1>9, <5>2, <6>1
        <5>3. CASE k # i + 1
          <6>1. k \in 1 .. i
            BY <1>4, <5>3
          <6> QED
            BY <1>9, <4>1, <4>2, <5>1, <5>3, <6>1
        <5> QED
          BY <5>2, <5>3
      <4>5. ASSUME NEW k \in i + 2 .. Len(screen')
            PROVE  screen'[k] = SP
        <5>1. k \in 1 .. Len(screen') /\ k # i + 1 /\ k \in i + 1 .. Len(screen)
          BY <1>4, <3>1, <3>2, <3>3, <4>1
        <5> QED
          BY <4>1, <4>2, <5>1
      <4> QED
        BY <3>1, <3>2, <4>1, <4>4, <4>5
    <3> QED
      BY <3>1, <3>2, <3>4, <3>5
  <2> QED
    BY <2>1, <2>2
<1>13. CASE Full
  <2>1. mode' = "parse" /\ i' = 0 /\ i + 1 = BufSize
    BY <1>2, <1>13 DEF Full
  <2>2. MemInv'
    BY <1>10, <1>11, <2>1 DEF MemInv
  <2>3. Len(Edited') = BufSize
    BY <1>9, <2>1 DEF E
  <2>4. Last(keys)' # CR
    BY <1>0, <1>1
  <2> QED
    BY <1>1, <1>12, <2>1, <2>2, <2>3, <2>4 DEF CmdInv, CmdType, EditInv, ParseInv
<1>14. CASE ~Full
  <2>1. i' = i + 1 /\ mode' = "edit" /\ i + 1 # BufSize
    BY <1>1, <1>2, <1>14 DEF Full
  <2>2. i' \in Nat /\ i' < BufSize
    BY <1>4, <2>1, CmdAssumption
  <2>3. i' <= n
    BY <1>10, <2>2, CmdAssumption
  <2>4. MemInv'
    BY <1>10, <1>11, <2>3 DEF MemInv
  <2>5. [k \in 1 .. i' |-> mem'[k - 1]] = E'
    <3>1. ASSUME NEW k \in 1 .. i + 1
          PROVE  mem'[k - 1] = E'[k]
      <4>1. CASE k = i + 1
        <5>1. k - 1 = i
          BY <1>4, <4>1
        <5> QED
          BY <1>9, <1>11, <4>1, <5>1
      <4>2. CASE k # i + 1
        <5>1. k \in 1 .. i /\ k - 1 \in 0 .. i - 1
          BY <1>4, <4>2
        <5> QED
          BY <1>3, <1>9, <1>11, <5>1
      <4> QED
        BY <4>1, <4>2
    <3>2. [k \in 1 .. Len(E') |-> mem'[k - 1]] = E'
      BY <1>9, <3>1, MemIsSeq
    <3> QED
      BY <1>9, <2>1, <3>2
  <2>6. (\A k \in DOMAIN keys' : keys'[k] # NUL) =>
           /\ SubSeq(screen', 1, col') = E' /\ \A k \in col' + 1 .. Len(screen') : screen'[k] = SP
    <3>1. ASSUME \A k \in DOMAIN keys' : keys'[k] # NUL
          PROVE  SubSeq(screen', 1, col') = E' /\ \A k \in col' + 1 .. Len(screen') : screen'[k] = SP
      <4>1. /\ col' = i + 1 /\ \A k \in 1 .. i + 1 : screen'[k] = E'[k]
            /\ \A k \in i + 2 .. Len(screen') : screen'[k] = SP
        BY <1>12, <3>1
      <4>2. screen' \in Seq(Char) /\ col' \in 0 .. Len(screen')
        BY <1>12, Characters
      <4>3. SubSeq(screen', 1, col') = E'
        BY <1>9, <4>1, <4>2, PrefixIs
      <4>4. col' + 1 = i + 2
        BY <1>4, <4>1
      <4> QED
        BY <4>1, <4>3, <4>4
    <3> QED
      BY <3>1
  <2>7. ScreenShowsLine'
    BY <2>5, <2>6 DEF ScreenShowsLine, E
  <2> QED
    BY <1>1, <1>5, <1>12, <2>1, <2>2, <2>4, <2>7 DEF CmdInv, CmdType, EditInv, ParseInv
<1> QED
  BY <1>13, <1>14

(* A new prompt.                                                           *)
LEMMA ExecStep ==
    ASSUME CmdInv, dbg_exec
    PROVE  CmdInv'
<1>1. /\ mode' = "edit" /\ i' = 0 /\ screen' = <<>> /\ col' = 0 /\ keys' = <<>> /\ outside' = {}
      /\ UNCHANGED <<mem, argc, argv>>
  BY DEF dbg_exec, Prompt
<1>2. Edited' = <<>>
  <2>1. Edited' = EditOf(keys')[Len(keys')]
    BY Zenon DEF Edited, EditOf
  <2> QED
    BY <1>1, <2>1, EditEmpty, Zenon
<1>3. CmdType'
  BY <1>1 DEF CmdInv, CmdType, MemInv
<1>4. [k \in 1 .. i' |-> mem'[k - 1]] = <<>>
  BY <1>1
<1>5. SubSeq(screen', 1, col') = <<>>
  BY <1>1
<1>6. ScreenShowsLine'
  BY <1>1, <1>2, <1>4, <1>5 DEF ScreenShowsLine
<1>7. 0 < BufSize
  BY CmdAssumption
<1> QED
  BY <1>1, <1>3, <1>6, <1>7 DEF CmdInv, EditInv, ParseInv

(* The line up to its first 0.                                             *)
LineOf(E) == SubSeq(E, 1, Min({k \in 1 .. Len(E) + 1 : k = Len(E) + 1 \/ E[k] = NUL}) - 1)

LEMMA LineFacts ==
    ASSUME NEW E \in Seq(Char)
    PROVE  /\ LineOf(E) \in Seq(Visible) /\ Len(LineOf(E)) <= Len(E)
           /\ \A k \in 1 .. Len(LineOf(E)) : LineOf(E)[k] = E[k]
           /\ Len(LineOf(E)) = Len(E) \/ E[Len(LineOf(E)) + 1] = NUL
<1> DEFINE n == Len(E)
           T == {k \in 1 .. n + 1 : k = n + 1 \/ E[k] = NUL}
           m == Min(T)
           L == LineOf(E)
<1>1. n \in Nat /\ \A k \in 1 .. n : E[k] \in Char
  OBVIOUS
<1>2. T \in SUBSET Nat /\ n + 1 \in T
  BY <1>1
<1>3. m \in T /\ \A y \in T : m <= y
  <2> HIDE DEF T
  <2> QED
    BY <1>2, MinFacts
<1>4. L = SubSeq(E, 1, m - 1)
  BY DEF LineOf
<1> HIDE DEF m, L
<1>5. m \in 1 .. n + 1 /\ (m = n + 1 \/ E[m] = NUL)
  BY <1>3
<1>6. \A k \in 1 .. m - 1 : E[k] # NUL
  <2>1. ASSUME NEW k \in 1 .. m - 1, E[k] = NUL
        PROVE  FALSE
    <3>1. k \in T /\ ~(m <= k)
      BY <1>1, <1>5, <2>1
    <3> QED
      BY <1>3, <3>1
  <2> QED
    BY <2>1
<1>7. L \in Seq(Char) /\ Len(L) = m - 1 /\ \A k \in 1 .. m - 1 : L[k] = E[k]
  BY <1>1, <1>4, <1>5
<1>8. L \in Seq(Visible)
  <2>1. \A k \in 1 .. m - 1 : L[k] \in Visible
    BY <1>1, <1>5, <1>6, <1>7, Characters
  <2>2. L \in [1 .. m - 1 -> Visible] /\ m - 1 \in Nat
    <3>1. L = [k \in 1 .. m - 1 |-> L[k]] /\ m - 1 \in Nat
      BY <1>5, <1>7
    <3> QED
      BY <2>1, <3>1
  <2> QED
    BY <2>2
<1>9. Len(L) <= n /\ (Len(L) = n \/ E[Len(L) + 1] = NUL)
  BY <1>1, <1>5, <1>7
<1> QED
  BY <1>7, <1>8, <1>9 DEF L

(* Where words start, as a finite set.                                     *)
LEMMA StartsFacts ==
    ASSUME NEW L \in Seq(Visible)
    PROVE  /\ Starts(L) \subseteq 1 .. Len(L) /\ IsFiniteSet(Starts(L))
           /\ \A T \in SUBSET Starts(L) : IsFiniteSet(T) /\ Cardinality(T) \in Nat
<1>1. Starts(L) \subseteq 1 .. Len(L) /\ Len(L) \in Nat
  BY DEF Starts
<1>2. IsFiniteSet(Starts(L))
  <2>1. IsFiniteSet(1 .. Len(L))
    BY <1>1, FS_Interval
  <2> QED
    BY <1>1, <2>1, FS_Subset
<1>3. \A T \in SUBSET Starts(L) : IsFiniteSet(T) /\ Cardinality(T) \in Nat
  BY <1>2, FS_Subset, FS_CardinalityType
<1> QED
  BY <1>1, <1>2, <1>3

(* A return ends the line.                                                 *)
LEMMA ReturnStep ==
    ASSUME CmdInv, dbg_getcmd(CR)
    PROVE  CmdInv'
<1> DEFINE E == Edited
           L == LineOf(E)
           N == Len(L)
<1>0. CR \in Key /\ CR # BS
  BY Characters
<1>1. /\ mode = "edit" /\ keys' \in Seq(Key) /\ keys' # <<>> /\ Last(keys)' = CR
      /\ E' = EditKey(E, CR)
      /\ argv' \in [0 .. MaxArgs - 1 -> Int] /\ argc' \in 0 .. MaxArgs /\ outside' = {}
  BY <1>0, KeyFacts
<1>2. /\ mem' = [mem EXCEPT ![i] = NUL] /\ mode' = "parse" /\ i' = 0 /\ UNCHANGED <<screen, col>>
  BY <1>0 DEF dbg_getcmd, tty
<1>3. argc' = 0
  BY <1>2 DEF dbg_getcmd
<1>4. E \in Seq(Char) /\ Len(E) = i /\ \A k \in 1 .. i : mem[k - 1] = E[k]
  BY <1>1, EditFacts
<1>5. /\ i \in Nat /\ i < BufSize /\ MemInv
      /\ screen \in Seq(Visible) /\ col \in 0 .. Len(screen)
  BY <1>1 DEF CmdInv, CmdType, EditInv
<1>6. E' = E
  BY <1>0, <1>1 DEF EditKey
<1>7. Line' = L
  <2>1. Line' = LineOf(E')
    BY Zenon DEF Line, LineOf, E
  <2> QED
    BY <1>6, <2>1
<1> HIDE DEF E
<1>8. /\ L \in Seq(Visible) /\ N <= i /\ \A k \in 1 .. N : L[k] = E[k]
      /\ N = i \/ E[N + 1] = NUL
  BY <1>4, LineFacts
<1>9. N \in Nat
  BY <1>8
<1> HIDE DEF L, N
<1>10. PICK n \in Nat : n >= BufSize /\ i <= n /\ mem \in [0 .. n -> Char] /\ mem[n] = NUL
  BY <1>5 DEF MemInv
<1>11. /\ mem' \in [0 .. n -> Char] /\ mem'[n] = NUL /\ mem'[i] = NUL
       /\ \A k \in 0 .. i - 1 : mem'[k] = mem[k]
  BY <1>2, <1>5, <1>10, CmdAssumption, Characters
<1>12. mem'[N] = NUL
  <2>1. CASE N = i
    BY <1>11, <2>1
  <2>2. CASE N # i
    <3>1. N + 1 \in 1 .. i /\ N \in 0 .. i - 1 /\ (N + 1) - 1 = N
      BY <1>5, <1>8, <1>9, <2>2
    <3> QED
      BY <1>4, <1>8, <1>11, <2>2, <3>1
  <2> QED
    BY <2>1, <2>2
<1>13. ASSUME NEW j \in 0 .. N - 1
       PROVE  mem'[j] = L[j + 1]
  <2>1. j \in 0 .. i - 1 /\ j + 1 \in 1 .. i /\ (j + 1) - 1 = j /\ j + 1 \in 1 .. N
    BY <1>5, <1>8, <1>9
  <2> QED
    BY <1>4, <1>8, <1>11, <2>1
<1>14. 0 = Cardinality({w \in Starts(L) : w <= 0})
  <2>1. Starts(L) \subseteq 1 .. Len(L)
    BY <1>8, StartsFacts
  <2>2. {w \in Starts(L) : w <= 0} = {}
    BY <2>1
  <2> QED
    BY <2>2, FS_EmptySet
<1>15. Len(L) < BufSize
  BY <1>5, <1>8, <1>9, CmdAssumption DEF N
<1>16. CutInv(L)'
  <2>1. i' \in 0 .. Len(L) /\ mem'[Len(L)] = NUL
    BY <1>2, <1>9, <1>12 DEF N
  <2>2. \A j \in i' .. Len(L) - 1 : mem'[j] = L[j + 1]
    BY <1>2, <1>13 DEF N
  <2>3. argc' = Cardinality({w \in Starts(L) : w <= i'})
    BY <1>2, <1>3, <1>14
  <2>4. 0 .. argc' - 1 = {}
    BY <1>3
  <2>5. L' = L
    BY <1>6 DEF L
  <2>6. Starts(L)' = Starts(L)
    BY <2>5 DEF Starts
  <2> QED
    BY <1>2, <1>8, <1>15, <2>1, <2>2, <2>3, <2>4, <2>5, <2>6 DEF CutInv
<1>17. CutInv(Line)'
  BY <1>6, <1>7, <1>16 DEF L
<1>18. MemInv'
  BY <1>2, <1>10, <1>11 DEF MemInv
<1> QED
  BY <1>1, <1>2, <1>5, <1>17, <1>18 DEF CmdInv, CmdType, EditInv, ParseInv

-----------------------------------------------------------------------------
(* The two scans of dbg_parsecmd end, at the latest at the 0 that stays.   *)
LEMMA SkipFacts ==
    ASSUME NEW n \in Nat, mem \in [0 .. n -> Char], mem[n] = NUL, NEW a \in 0 .. n
    PROVE  /\ SkipSpace(a) \in a .. n /\ mem[SkipSpace(a)] # SP
           /\ \A j \in a .. SkipSpace(a) - 1 : mem[j] = SP
<1> DEFINE T == {j \in DOMAIN mem : j >= a /\ mem[j] # SP}
           m == Min(T)
<1>1. DOMAIN mem = 0 .. n /\ NUL # SP
  BY Characters
<1>2. T \in SUBSET Nat /\ n \in T
  BY <1>1
<1>3. m \in T /\ \A y \in T : m <= y
  <2> HIDE DEF T
  <2> QED
    BY <1>2, MinFacts
<1>4. SkipSpace(a) = m
  BY DEF SkipSpace
<1> HIDE DEF m
<1>5. m \in a .. n /\ mem[m] # SP
  BY <1>1, <1>3
<1>6. ASSUME NEW j \in a .. m - 1, mem[j] # SP
      PROVE  FALSE
  <2>1. j \in T /\ ~(m <= j)
    BY <1>1, <1>5, <1>6
  <2> QED
    BY <1>3, <2>1
<1> QED
  BY <1>4, <1>5, <1>6

LEMMA WordFacts ==
    ASSUME NEW n \in Nat, mem \in [0 .. n -> Char], mem[n] = NUL, NEW a \in 0 .. n
    PROVE  /\ WordEnd(a) \in a .. n /\ mem[WordEnd(a)] \in {SP, NUL}
           /\ \A j \in a .. WordEnd(a) - 1 : mem[j] \notin {SP, NUL}
<1> DEFINE T == {j \in DOMAIN mem : j >= a /\ mem[j] \in {SP, NUL}}
           m == Min(T)
<1>1. DOMAIN mem = 0 .. n
  OBVIOUS
<1>2. T \in SUBSET Nat /\ n \in T
  BY <1>1
<1>3. m \in T /\ \A y \in T : m <= y
  <2> HIDE DEF T
  <2> QED
    BY <1>2, MinFacts
<1>4. WordEnd(a) = m
  BY DEF WordEnd
<1> HIDE DEF m
<1>5. m \in a .. n /\ mem[m] \in {SP, NUL}
  BY <1>1, <1>3
<1>6. ASSUME NEW j \in a .. m - 1, mem[j] \in {SP, NUL}
      PROVE  FALSE
  <2>1. j \in T /\ ~(m <= j)
    BY <1>1, <1>5, <1>6
  <2> QED
    BY <1>3, <2>1
<1> QED
  BY <1>4, <1>5, <1>6

(* The ends of the scans in a line that a return ended: inside it.         *)
LEMMA ScanInside ==
    ASSUME MemInv, NEW L, CutInv(L)
    PROVE  /\ SkipSpace(i) \in i .. Len(L)
           /\ \A j \in i .. SkipSpace(i) - 1 : mem[j] = SP /\ L[j + 1] = SP
           /\ mem[SkipSpace(i)] = NUL => SkipSpace(i) = Len(L)
           /\ mem[SkipSpace(i)] # NUL =>
                /\ WordEnd(SkipSpace(i)) \in SkipSpace(i) + 1 .. Len(L)
                /\ \A j \in SkipSpace(i) .. WordEnd(SkipSpace(i)) - 1 :
                      mem[j] = L[j + 1] /\ L[j + 1] # SP
                /\ WordEnd(SkipSpace(i)) = Len(L) \/ L[WordEnd(SkipSpace(i)) + 1] = SP
                /\ mem[WordEnd(SkipSpace(i))] = NUL => WordEnd(SkipSpace(i)) = Len(L)
                /\ mem[WordEnd(SkipSpace(i))] # NUL => WordEnd(SkipSpace(i)) < Len(L)
<1> DEFINE s == SkipSpace(i)
           e == WordEnd(s)
           N == Len(L)
<1>1. PICK n \in Nat : n >= BufSize /\ i <= n /\ mem \in [0 .. n -> Char] /\ mem[n] = NUL
  BY DEF MemInv
<1>2. /\ L \in Seq(Visible) /\ N < BufSize /\ i \in 0 .. N /\ mem[N] = NUL
      /\ \A j \in i .. N - 1 : mem[j] = L[j + 1]
  BY DEF CutInv
<1>3. /\ N \in Nat /\ i \in Nat /\ i \in 0 .. n /\ \A k \in 1 .. N : L[k] \in Visible
  BY <1>1, <1>2
<1> HIDE DEF N
<1>4. s \in i .. n /\ mem[s] # SP /\ \A j \in i .. s - 1 : mem[j] = SP
  BY <1>1, <1>3, SkipFacts
<1> HIDE DEF s
<1>5. s <= N
  <2>1. ASSUME ~(s <= N)
        PROVE  FALSE
    <3>1. N \in i .. s - 1
      BY <1>2, <1>3, <1>4, <2>1
    <3> QED
      BY <1>2, <1>4, <3>1, Characters
  <2> QED
    BY <2>1
<1>6. s \in i .. N
  BY <1>3, <1>4, <1>5
<1>7. \A j \in i .. s - 1 : mem[j] = SP /\ L[j + 1] = SP
  BY <1>2, <1>3, <1>4, <1>6
<1>8. mem[s] = NUL => s = N
  <2>1. ASSUME mem[s] = NUL, s # N
        PROVE  FALSE
    <3>1. s \in i .. N - 1 /\ s + 1 \in 1 .. N
      BY <1>3, <1>6, <2>1
    <3> QED
      BY <1>2, <1>3, <2>1, <3>1, Characters
  <2> QED
    BY <2>1
<1>9. ASSUME mem[s] # NUL
      PROVE  /\ e \in s + 1 .. N
             /\ \A j \in s .. e - 1 : mem[j] = L[j + 1] /\ L[j + 1] # SP
             /\ e = N \/ L[e + 1] = SP
             /\ mem[e] = NUL => e = N
             /\ mem[e] # NUL => e < N
  <2>1. s \in 0 .. n
    BY <1>3, <1>4
  <2>2. e \in s .. n /\ mem[e] \in {SP, NUL} /\ \A j \in s .. e - 1 : mem[j] \notin {SP, NUL}
    BY <1>1, <2>1, WordFacts
  <2> HIDE DEF e
  <2>3. e <= N
    <3>1. ASSUME ~(e <= N)
          PROVE  FALSE
      <4>1. N \in s .. e - 1
        BY <1>3, <1>6, <2>2, <3>1
      <4> QED
        BY <1>2, <2>2, <4>1
    <3> QED
      BY <3>1
  <2>4. e # s
    BY <1>4, <1>9, <2>2
  <2>5. e \in s + 1 .. N
    BY <1>3, <1>6, <2>2, <2>3, <2>4
  <2>6. ASSUME NEW j \in s .. e - 1
        PROVE  mem[j] = L[j + 1] /\ L[j + 1] # SP
    <3>1. j \in i .. N - 1
      BY <1>3, <1>6, <2>5
    <3> QED
      BY <1>2, <2>2, <3>1
  <2>7. CASE e = N
    BY <1>2, <2>5, <2>6, <2>7
  <2>8. CASE e # N
    <3>1. e \in i .. N - 1 /\ e + 1 \in 1 .. N /\ e < N
      BY <1>3, <1>6, <2>5, <2>8
    <3>2. mem[e] = L[e + 1] /\ L[e + 1] # NUL
      BY <1>2, <1>3, <3>1, Characters
    <3> QED
      BY <2>2, <2>5, <2>6, <3>1, <3>2
  <2> QED
    BY <2>7, <2>8
<1> QED
  BY <1>6, <1>7, <1>8, <1>9 DEF s, e, N

(* A round of the parser cuts the next word of the line, or finds it done. *)
LEMMA CutStep ==
    ASSUME CmdType, NEW L, CutInv(L), dbg_parsecmd
    PROVE  outside' = outside /\ CutInv(L)'
<1> DEFINE s == SkipSpace(i)
           e == WordEnd(s)
           N == Len(L)
           W == Starts(L)
           Before == {w \in W : w <= i}
<1>1. /\ L \in Seq(Visible) /\ N < BufSize /\ i \in 0 .. N /\ mem[N] = NUL
      /\ \A j \in i .. N - 1 : mem[j] = L[j + 1]
      /\ i = 0 \/ i = N \/ L[i] = SP
      /\ argc = Cardinality(Before) /\ \A k \in 0 .. argc - 1 : IsWord(L, k)
  BY DEF CutInv
<1>2. /\ MemInv /\ argc \in 0 .. MaxArgs /\ argv \in [0 .. MaxArgs - 1 -> Int]
      /\ N \in Nat /\ i \in Nat /\ i <= N
  BY <1>1 DEF CmdType
<1>3. PICK n \in Nat : n >= BufSize /\ i <= n /\ mem \in [0 .. n -> Char] /\ mem[n] = NUL
  BY <1>2 DEF MemInv
<1>4. /\ W \subseteq 1 .. N
      /\ \A w \in W : L[w] # SP /\ (w = 1 \/ L[w - 1] = SP)
      /\ \A w \in 1 .. N : L[w] # SP /\ (w = 1 \/ L[w - 1] = SP) => w \in W
  BY <1>1 DEF Starts
<1>5. /\ s \in i .. N
      /\ \A j \in i .. s - 1 : mem[j] = SP /\ L[j + 1] = SP
      /\ mem[s] = NUL => s = N
      /\ mem[s] # NUL =>
           /\ e \in s + 1 .. N
           /\ \A j \in s .. e - 1 : mem[j] = L[j + 1] /\ L[j + 1] # SP
           /\ e = N \/ L[e + 1] = SP
           /\ mem[e] = NUL => e = N
           /\ mem[e] # NUL => e < N
  BY <1>2, ScanInside
<1>6. BufSize \in Nat
  BY CmdAssumption
<1>7. ASSUME ParseDone, argc = MaxArgs \/ \A w \in W : w <= i
      PROVE  CutInv(L)'
  <2>1. mode' = "exec" /\ UNCHANGED <<mem, i, argc, argv>>
    BY <1>7 DEF ParseDone
  <2>2. ASSUME NEW k \in 0 .. argc' - 1
        PROVE  IsWord(L, k)'
    <3>1. IsWord(L, k)
      BY <1>1, <2>1
    <3> QED
      BY <2>1, <3>1, Zenon DEF IsWord
  <2> QED
    BY <1>1, <1>7, <2>1, <2>2 DEF CutInv
<1>8. ASSUME NEW T \in SUBSET (i .. N), Touch(T)
      PROVE  outside' = outside
  <2>1. ASSUME NEW k \in T, k >= BufSize
        PROVE  FALSE
    <3>1. k \in i .. N
      BY <1>8
    <3> QED
      BY <1>1, <1>2, <1>6, <2>1, <3>1
  <2>2. {k \in T : k >= BufSize} = {}
    BY <2>1
  <2> QED
    BY <1>8, <2>2 DEF Touch
<1>9. CASE mem[i] = NUL \/ argc = MaxArgs
  <2>1. Touch({i}) /\ ParseDone
    BY <1>9 DEF dbg_parsecmd
  <2>2. argc = MaxArgs \/ \A w \in W : w <= i
    <3>1. CASE mem[i] = NUL
      <4>1. i = N
        <5>1. ASSUME i # N
              PROVE  FALSE
          <6>1. i \in i .. N - 1 /\ i + 1 \in 1 .. N
            BY <1>2, <5>1
          <6> QED
            BY <1>1, <3>1, <6>1, Characters
        <5> QED
          BY <5>1
      <4> QED
        BY <1>4, <4>1
    <3> QED
      BY <1>9, <3>1
  <2>3. {i} \in SUBSET (i .. N)
    BY <1>2
  <2> QED
    BY <1>7, <1>8, <2>1, <2>2, <2>3
<1>10. CASE ~(mem[i] = NUL \/ argc = MaxArgs) /\ mem[s] = NUL
  <2>1. Touch(i .. s) /\ ParseDone
    BY <1>10 DEF dbg_parsecmd
  <2>2. ASSUME NEW w \in W, ~(w <= i)
        PROVE  FALSE
    <3>1. w \in 1 .. N /\ w - 1 \in i .. s - 1 /\ (w - 1) + 1 = w
      BY <1>2, <1>4, <1>5, <1>10, <2>2
    <3> QED
      BY <1>4, <1>5, <3>1
  <2>3. i .. s \in SUBSET (i .. N)
    BY <1>2, <1>5
  <2> QED
    BY <1>7, <1>8, <2>1, <2>2, <2>3
<1>11. CASE ~(mem[i] = NUL \/ argc = MaxArgs) /\ mem[s] # NUL
  <2>1. Touch(i .. e) /\ TakeWord(s, e)
    BY <1>11 DEF dbg_parsecmd
  <2> HIDE DEF s, e
  <2>2. /\ argv' = [argv EXCEPT ![argc] = s] /\ argc' = argc + 1
        /\ mem' = [mem EXCEPT ![e] = NUL] /\ mode' = mode /\ mode = "parse"
        /\ i' = IF mem[e] # NUL THEN e + 1 ELSE e
    BY <2>1 DEF TakeWord, dbg_parsecmd
  <2>3. /\ e \in s + 1 .. N
        /\ \A j \in s .. e - 1 : mem[j] = L[j + 1] /\ L[j + 1] # SP
        /\ e = N \/ L[e + 1] = SP
        /\ (mem[e] = NUL /\ e = N /\ i' = e) \/ (mem[e] # NUL /\ e < N /\ i' = e + 1)
    BY <1>5, <1>11, <2>2
  <2>4. s \in Nat /\ e \in Nat /\ i <= s /\ s < e /\ e <= N
    BY <1>2, <1>5, <2>3
  <2>5. i # N
    BY <1>1, <1>11
  <2>6. /\ i' \in Nat /\ e <= i' /\ i' <= N /\ (i' = N \/ L[i'] = SP) /\ (e < i' \/ i' = N)
    BY <1>2, <2>3, <2>4
  <2>7. /\ mem'[e] = NUL /\ \A j \in 0 .. n : j # e => mem'[j] = mem[j]
    BY <1>1, <1>2, <1>3, <1>6, <2>2, <2>4
  <2>8. N \in 0 .. n
    BY <1>1, <1>2, <1>3, <1>6
  <2>9. mem'[N] = NUL
    BY <1>1, <2>7, <2>8
  <2>10. ASSUME NEW j \in i' .. N - 1
         PROVE  mem'[j] = L[j + 1]
    <3>1. j \in i .. N - 1 /\ j # e /\ j \in 0 .. n
      BY <1>2, <2>3, <2>4, <2>6, <2>8
    <3> QED
      BY <1>1, <2>7, <3>1
  <2>11. s + 1 \in W
    <3>1. L[s + 1] # SP /\ s + 1 \in 1 .. N
      BY <1>2, <2>3, <2>4
    <3>2. s + 1 = 1 \/ L[(s + 1) - 1] = SP
      <4>1. CASE s = i
        BY <1>1, <1>2, <2>4, <2>5, <4>1
      <4>2. CASE s # i
        <5>1. s - 1 \in i .. s - 1 /\ (s - 1) + 1 = (s + 1) - 1
          BY <1>2, <2>4, <4>2
        <5> QED
          BY <1>5, <5>1
      <4> QED
        BY <4>1, <4>2
    <3> QED
      BY <1>4, <3>1, <3>2
  <2>12. ASSUME NEW w \in W
         PROVE  /\ w <= s <=> w <= i
                /\ w <= i' <=> w <= i \/ w = s + 1
    <3>1. w \in 1 .. N /\ w \in Nat
      BY <1>4
    <3>2. CASE w <= i
      BY <1>2, <2>4, <2>6, <3>1, <3>2
    <3>3. CASE i < w /\ w <= s
      <4>1. w - 1 \in i .. s - 1 /\ (w - 1) + 1 = w
        BY <1>2, <2>4, <3>1, <3>3
      <4> QED
        BY <1>4, <1>5, <4>1
    <3>4. CASE w = s + 1
      BY <1>2, <2>4, <2>6, <3>1, <3>4
    <3>5. CASE s + 1 < w /\ w <= e
      <4>1. /\ w - 2 \in s .. e - 1 /\ (w - 2) + 1 = w - 1 /\ w # 1
        BY <1>2, <2>4, <3>1, <3>5
      <4> QED
        BY <1>4, <2>3, <4>1
    <3>6. CASE e < w
      <4>1. ~(w <= i) /\ ~(w <= s) /\ w # s + 1
        BY <1>2, <2>4, <3>1, <3>6
      <4>2. ~(w <= i')
        <5>1. ASSUME w <= i'
              PROVE  FALSE
          <6>1. w = e + 1 /\ i' = e + 1 /\ e < N
            BY <2>3, <2>4, <3>1, <3>6, <5>1
          <6> QED
            BY <1>4, <2>3, <6>1
        <5> QED
          BY <5>1
      <4> QED
        BY <4>1, <4>2
    <3> QED
      BY <1>2, <2>4, <3>1, <3>2, <3>3, <3>4, <3>5, <3>6
  <2>13. {w \in W : w <= s} = Before
    BY <2>12
  <2>14. {w \in W : w <= i'} = Before \cup {s + 1} /\ s + 1 \notin Before
    BY <1>2, <2>4, <2>11, <2>12
  <2>15. argc' = Cardinality({w \in W : w <= i'})
    <3>1. IsFiniteSet(Before)
      BY <1>1, StartsFacts
    <3> HIDE DEF Before
    <3>2. Cardinality(Before \cup {s + 1}) = Cardinality(Before) + 1
      BY <2>14, <3>1, FS_AddElement
    <3> QED
      BY <1>1, <2>2, <2>14, <3>2
  <2>16. argc \in 0 .. MaxArgs - 1 /\ argv'[argc] = s /\ \A k \in 0 .. argc - 1 : argv'[k] = argv[k]
    BY <1>2, <1>11, <2>2, CmdAssumption
  <2> HIDE DEF Before, W
  <2>17. ASSUME NEW k \in 0 .. argc - 1
         PROVE  IsWord(L, k)'
    <3>1. /\ argv[k] \in 0 .. N - 1 /\ argv[k] + 1 \in W
          /\ Cardinality({j \in W : j <= argv[k]}) = k
      BY <1>1 DEF IsWord, W
    <3>2. PICK f \in argv[k] + 1 .. N :
            /\ mem[f] = NUL /\ (f < i \/ i = N)
            /\ \A j \in argv[k] .. f - 1 : mem[j] = L[j + 1] /\ L[j + 1] # SP
            /\ f = N \/ L[f + 1] = SP
      BY <1>1 DEF IsWord
    <3>3. f < i /\ f < i' /\ f \in 0 .. n /\ f # e
      BY <1>2, <2>4, <2>5, <2>6, <2>8, <3>1, <3>2
    <3>4. mem'[f] = NUL
      BY <2>7, <3>2, <3>3
    <3>5. ASSUME NEW j \in argv[k] .. f - 1
          PROVE  mem'[j] = L[j + 1] /\ L[j + 1] # SP
      <4>1. j \in 0 .. n /\ j # e
        BY <1>2, <2>4, <2>8, <3>1, <3>2, <3>3
      <4> QED
        BY <2>7, <3>2, <4>1
    <3>6. argv'[k] = argv[k]
      BY <2>16
    <3> QED
      BY <3>1, <3>2, <3>3, <3>4, <3>5, <3>6 DEF IsWord, W
  <2>18. PICK a : a = argc
    OBVIOUS
  <2>19. IsWord(L, a)'
    <3>1. s \in 0 .. N - 1 /\ e \in s + 1 .. N
      BY <1>2, <2>3, <2>4
    <3>2. ASSUME NEW j \in s .. e - 1
          PROVE  mem'[j] = L[j + 1] /\ L[j + 1] # SP
      <4>1. j \in 0 .. n /\ j # e
        BY <2>4, <2>8
      <4> QED
        BY <2>3, <2>7, <4>1
    <3>3. Cardinality({j \in W : j <= s}) = argc
      BY <1>1, <2>13
    <3>4. argv'[a] = s
      BY <2>16, <2>18
    <3> QED
      BY <2>3, <2>6, <2>7, <2>11, <2>18, <3>1, <3>2, <3>3, <3>4 DEF IsWord, W
  <2>20. ASSUME NEW k \in 0 .. argc' - 1
         PROVE  IsWord(L, k)'
    <3>1. k \in 0 .. argc - 1 \/ k = a
      BY <1>2, <2>2, <2>18
    <3> QED
      BY <2>17, <2>19, <3>1
  <2>21. i' \in 0 .. N /\ i .. e \in SUBSET (i .. N)
    BY <1>2, <2>4, <2>6
  <2>22. CutInv(L)'
    BY <1>1, <2>2, <2>6, <2>9, <2>10, <2>15, <2>20, <2>21 DEF CutInv, W
  <2> QED
    BY <1>8, <2>1, <2>21, <2>22
<1> QED
  BY <1>9, <1>10, <1>11

(* A round of the parser, whatever ended the line.                         *)
LEMMA ParseStep ==
    ASSUME CmdInv, dbg_parsecmd
    PROVE  CmdInv'
<1>1. mode = "parse" /\ UNCHANGED <<screen, col, keys>>
  BY DEF dbg_parsecmd, tty
<1>2. CmdType /\ ParseInv /\ argc \in 0 .. MaxArgs /\ i \in Nat /\ argv \in [0 .. MaxArgs - 1 -> Int]
  BY DEF CmdInv, CmdType
<1>3. PICK n \in Nat : n >= BufSize /\ i <= n /\ mem \in [0 .. n -> Char] /\ mem[n] = NUL
  BY <1>2 DEF CmdType, MemInv
<1>4. /\ mode' \in {"parse", "exec"} /\ i' \in Nat /\ i' <= n /\ argc' \in 0 .. MaxArgs
      /\ argv' \in [0 .. MaxArgs - 1 -> Int] /\ mem' \in [0 .. n -> Char] /\ mem'[n] = NUL
  <2>1. CASE ParseDone
    BY <1>2, <1>3, <2>1 DEF ParseDone
  <2>2. CASE ~ParseDone
    <3> DEFINE s == SkipSpace(i)
               e == WordEnd(s)
    <3>1. argc # MaxArgs /\ TakeWord(s, e)
      BY <2>2 DEF dbg_parsecmd
    <3>2. i \in 0 .. n
      BY <1>2, <1>3
    <3>3. s \in i .. n
      BY <1>3, <3>2, SkipFacts
    <3> HIDE DEF s
    <3>4. s \in 0 .. n
      BY <3>2, <3>3
    <3>5. e \in s .. n
      BY <1>3, <3>4, WordFacts
    <3> HIDE DEF e
    <3>6. e \in 0 .. n /\ (mem[e] # NUL => e # n)
      BY <1>3, <3>4, <3>5
    <3>7. /\ argv' = [argv EXCEPT ![argc] = s] /\ argc' = argc + 1 /\ mode' = mode
          /\ mem' = [mem EXCEPT ![e] = NUL]
          /\ i' = IF mem[e] # NUL THEN e + 1 ELSE e
      BY <3>1 DEF TakeWord
    <3>8. i' \in Nat /\ i' <= n
      BY <3>6, <3>7
    <3>9. argc' \in 0 .. MaxArgs /\ argv' \in [0 .. MaxArgs - 1 -> Int]
      BY <1>2, <3>1, <3>4, <3>7, CmdAssumption
    <3>10. mem' \in [0 .. n -> Char] /\ mem'[n] = NUL
      BY <1>3, <3>6, <3>7, Characters
    <3> QED
      BY <1>1, <3>7, <3>8, <3>9, <3>10
  <2> QED
    BY <2>1, <2>2
<1>5. CmdType'
  BY <1>1, <1>2, <1>3, <1>4 DEF CmdType, MemInv
<1>6. keys' # <<>> /\ Last(keys)' = Last(keys) /\ Edited' = Edited /\ Line' = Line
  <2>1. Edited' = Edited
    BY <1>1, Zenon DEF Edited, EditOf
  <2>2. Line' = Line
    BY <2>1, Zenon DEF Line
  <2> QED
    BY <1>1, <1>2, <2>1, <2>2 DEF ParseInv
<1>7. Last(keys) # CR => Len(Edited) = BufSize
  BY <1>1, <1>2 DEF ParseInv
<1>8. ASSUME Last(keys) = CR
      PROVE  outside' = {} /\ CutInv(Line)'
  <2>1. PICK L : L = Line
    OBVIOUS
  <2>2. outside = {} /\ CutInv(L)
    BY <1>1, <1>2, <1>8, <2>1 DEF ParseInv
  <2>3. outside' = {} /\ CutInv(L)'
    BY <1>2, <2>2, CutStep
  <2>4. Line' = L
    BY <1>6, <2>1
  <2>5. Starts(Line)' = Starts(L)
    BY <2>4 DEF Starts
  <2>6. ASSUME NEW k, IsWord(L, k)'
        PROVE  IsWord(Line, k)'
    BY <2>4, <2>5, <2>6 DEF IsWord
  <2> HIDE DEF Starts
  <2>7. CutInv(Line)'
    BY <2>3, <2>4, <2>5, <2>6 DEF CutInv
  <2> QED
    BY <2>3, <2>7
<1> QED
  BY <1>4, <1>5, <1>6, <1>7, <1>8 DEF CmdInv, EditInv, ParseInv

-----------------------------------------------------------------------------
(* The invariant holds at the first prompt.                                *)
LEMMA CmdInit ==
    ASSUME Init
    PROVE  CmdInv
<1>1. /\ mode = "edit" /\ i = 0 /\ argc = 0 /\ argv = [k \in 0 .. MaxArgs - 1 |-> None]
      /\ screen = <<>> /\ col = 0 /\ keys = <<>> /\ outside = {}
  BY DEF Init
<1>2. PICK a \in After :
        mem = [k \in 0 .. BufSize + Len(a) - 1 |->
                 IF k < BufSize THEN NUL ELSE a[k - BufSize + 1]]
  BY DEF Init
<1>3. a \in Seq(Char) /\ a # <<>> /\ a[Len(a)] = NUL /\ BufSize \in Nat \ {0} /\ MaxArgs \in Nat \ {0}
  BY CmdAssumption DEF Last
<1>4. Len(a) \in Nat \ {0} /\ \A k \in 1 .. Len(a) : a[k] \in Char
  BY <1>3
<1> DEFINE l == Len(a)
           n == BufSize + l - 1
<1>5. l \in Nat \ {0} /\ NUL \in Char
  BY <1>4, Characters
<1> HIDE DEF l
<1>6. n \in Nat /\ n >= BufSize /\ i <= n /\ ~(n < BufSize) /\ n - BufSize + 1 = l /\ n \in 0 .. n
  BY <1>1, <1>3, <1>5
<1>7. mem = [k \in 0 .. n |-> IF k < BufSize THEN NUL ELSE a[k - BufSize + 1]]
  BY <1>2 DEF l
<1>8. \A k \in 0 .. n : ~(k < BufSize) => k - BufSize + 1 \in 1 .. l
  BY <1>3, <1>5
<1> HIDE DEF n
<1>9. mem \in [0 .. n -> Char]
  BY <1>4, <1>5, <1>7, <1>8 DEF l
<1>10. mem[n] = NUL
  BY <1>3, <1>6, <1>7 DEF l
<1>11. MemInv
  BY <1>6, <1>9, <1>10 DEF MemInv
<1>12. CmdType
  BY <1>1, <1>3, <1>11 DEF CmdType, None
<1>13. Edited = <<>>
  BY <1>1, EditEmpty, Zenon DEF Edited
<1>14. [k \in 1 .. i |-> mem[k - 1]] = <<>> /\ SubSeq(screen, 1, col) = <<>>
  BY <1>1
<1>15. ScreenShowsLine
  BY <1>1, <1>13, <1>14 DEF ScreenShowsLine
<1> QED
  BY <1>1, <1>3, <1>12, <1>15 DEF CmdInv, EditInv, ParseInv

(* Every step keeps it.                                                    *)
LEMMA CmdStep ==
    ASSUME CmdInv, [Next]_vars
    PROVE  CmdInv'
<1>1. ASSUME NEW c \in Key, dbg_getcmd(c)
      PROVE  CmdInv'
  <2>1. c = BS \/ c = CR \/ c \in Char
    BY Characters
  <2> QED
    BY <1>1, <2>1, BackStep, CharStep, ReturnStep
<1>2. CASE UNCHANGED vars
  <2>1. UNCHANGED <<mode, mem, i, argc, argv, screen, col, keys, outside>>
    BY <1>2 DEF vars, tty, hist
  <2>2. Edited' = Edited
    BY <2>1, Zenon DEF Edited, EditOf
  <2>3. Line' = Line
    BY <2>2, Zenon DEF Line
  <2>4. CmdType'
    BY <2>1 DEF CmdInv, CmdType, MemInv
  <2>5. EditInv'
    BY <2>1, <2>2 DEF CmdInv, EditInv, ScreenShowsLine
  <2>6. CutInv(Line) => CutInv(Line)'
    <3>1. PICK L : L = Line
      OBVIOUS
    <3>2. Line' = L
      BY <2>3, <3>1
    <3>3. Starts(Line)' = Starts(L)
      BY <3>2 DEF Starts
    <3>4. ASSUME NEW k, IsWord(Line, k)
          PROVE  IsWord(Line, k)'
      BY <2>1, <3>1, <3>2, <3>3, <3>4 DEF IsWord
    <3> QED
      BY <2>1, <3>1, <3>2, <3>3, <3>4 DEF CutInv
  <2> QED
    BY <2>1, <2>2, <2>4, <2>5, <2>6 DEF CmdInv, ParseInv
<1> QED
  BY <1>1, <1>2, ParseStep, ExecStep DEF Next, Idle

(* The invariant of the command line, for buffers of any size.             *)
THEOREM CmdInvariant == Spec => []CmdInv
<1>1. Init => CmdInv
  BY CmdInit
<1>2. CmdInv /\ [Next]_vars => CmdInv'
  BY CmdStep
<1> QED
  BY <1>1, <1>2, PTL DEF Spec

(* While a line is edited the terminal shows it, and cmd_buffer holds it,  *)
(* whatever dbg_getcmd has taken back, for every buffer and every key.     *)
THEOREM ScreenShowsLineThm == Spec => []ScreenShowsLine
<1>1. CmdInv => ScreenShowsLine
  BY DEF CmdInv, EditInv, ScreenShowsLine
<1> QED
  BY <1>1, CmdInvariant, PTL

(* dbg_parsecmd reads and cuts behind cmd_buffer only for a line that      *)
(* filled it.                                                              *)
THEOREM StaysInsideThm == Spec => []StaysInside
<1>1. CmdInv => StaysInside
  BY DEF CmdInv, EditInv, ParseInv, StaysInside
<1> QED
  BY <1>1, CmdInvariant, PTL

-----------------------------------------------------------------------------
(* A word that is cut in the buffer is read back as it was typed, and has  *)
(* no space and no 0 in it.                                                *)
LEMMA WordRead ==
    ASSUME CmdType, NEW L, CutInv(L), NEW k, IsWord(L, k)
    PROVE  /\ StringAt(argv[k]) = WordAt(L, argv[k] + 1)
           /\ StringAt(argv[k]) \in Seq(Graph)
<1> DEFINE p == argv[k]
           N == Len(L)
<1>1. L \in Seq(Visible) /\ N < BufSize /\ N \in Nat
  BY DEF CutInv
<1>2. PICK n \in Nat : n >= BufSize /\ mem \in [0 .. n -> Char]
  BY DEF CmdType, MemInv
<1>3. p \in 0 .. N - 1
  BY DEF IsWord
<1>4. PICK e \in p + 1 .. N :
        /\ mem[e] = NUL /\ \A j \in p .. e - 1 : mem[j] = L[j + 1] /\ L[j + 1] # SP
        /\ e = N \/ L[e + 1] = SP
  BY DEF IsWord
<1> HIDE DEF p, N
<1>5. /\ p \in Nat /\ e \in Nat /\ p < e /\ e <= N /\ DOMAIN mem = 0 .. n /\ e \in 0 .. n
      /\ \A j \in 1 .. N : L[j] # NUL
  BY <1>1, <1>2, <1>3, <1>4, CmdAssumption, Characters DEF N
<1>6. Min({j \in DOMAIN mem : j >= p /\ mem[j] = NUL}) = e
  <2> DEFINE T == {j \in DOMAIN mem : j >= p /\ mem[j] = NUL}
             m == Min(T)
  <2>1. T \in SUBSET Nat /\ e \in T
    BY <1>4, <1>5
  <2>2. m \in T /\ \A y \in T : m <= y
    <3> HIDE DEF T
    <3> QED
      BY <2>1, MinFacts
  <2> HIDE DEF m
  <2>3. m \in Nat /\ p <= m /\ m <= e /\ mem[m] = NUL
    BY <1>5, <2>1, <2>2
  <2>4. ASSUME m # e
        PROVE  FALSE
    <3>1. m \in p .. e - 1 /\ m + 1 \in 1 .. N
      BY <1>1, <1>5, <2>3, <2>4
    <3> QED
      BY <1>4, <1>5, <2>3, <3>1
  <2> QED
    BY <2>4 DEF m
<1>7. Max({j \in p + 1 .. N : \A l \in p + 1 .. j : L[l] # SP}) = e
  <2> DEFINE T == {j \in p + 1 .. N : \A l \in p + 1 .. j : L[l] # SP}
  <2>1. e \in T
    <3>1. ASSUME NEW l \in p + 1 .. e
          PROVE  L[l] # SP
      <4>1. l - 1 \in p .. e - 1 /\ (l - 1) + 1 = l
        BY <1>5
      <4> QED
        BY <1>4, <4>1
    <3> QED
      BY <1>4, <3>1
  <2>2. ASSUME NEW y \in T
        PROVE  y \in Nat /\ e >= y
    <3>1. y \in p + 1 .. N /\ \A l \in p + 1 .. y : L[l] # SP
      OBVIOUS
    <3>2. ASSUME ~(e >= y)
          PROVE  FALSE
      <4>1. e + 1 \in p + 1 .. y /\ e # N
        BY <1>1, <1>5, <3>1, <3>2
      <4> QED
        BY <1>4, <3>1, <4>1
    <3> QED
      BY <1>5, <3>1, <3>2
  <2> HIDE DEF T
  <2>3. ASSUME NEW x \in T, \A y \in T : x >= y
        PROVE  x = e
    BY <1>5, <2>1, <2>2, <2>3
  <2>4. Max(T) = e
    BY <2>1, <2>2, <2>3, Zenon DEF Max
  <2> QED
    BY <2>4 DEF T
<1>8. StringAt(p) = [j \in 1 .. e - p |-> mem[p + j - 1]]
  BY <1>6, Zenon DEF StringAt
<1>9. WordAt(L, p + 1) = SubSeq(L, p + 1, e)
  BY <1>7, Zenon DEF WordAt, N
<1>10. SubSeq(L, p + 1, e) = [j \in 1 .. e - p |-> L[p + j]]
  <2> DEFINE r == SubSeq(L, p + 1, e)
  <2>1. r \in Seq(Visible) /\ Len(r) = e - p /\ \A j \in 1 .. e - p : r[j] = L[p + j]
    BY <1>1, <1>5 DEF N
  <2> HIDE DEF r
  <2>2. r = [j \in 1 .. e - p |-> r[j]]
    BY <1>5, <2>1
  <2>3. r = [j \in 1 .. e - p |-> L[p + j]]
    BY <2>1, <2>2
  <2> QED
    BY <2>3 DEF r
<1>11. ASSUME NEW j \in 1 .. e - p
       PROVE  mem[p + j - 1] = L[p + j]
  <2>1. p + j - 1 \in p .. e - 1 /\ (p + j - 1) + 1 = p + j
    BY <1>5
  <2> QED
    BY <1>4, <2>1
<1>12. StringAt(p) = WordAt(L, p + 1)
  BY <1>8, <1>9, <1>10, <1>11
<1>13. StringAt(p) \in Seq(Graph)
  <2>1. ASSUME NEW j \in 1 .. e - p
        PROVE  mem[p + j - 1] \in Graph
    <3>1. p + j - 1 \in p .. e - 1 /\ p + j \in 1 .. N /\ (p + j - 1) + 1 = p + j
      BY <1>1, <1>5
    <3>2. L[p + j] \in Visible /\ L[p + j] # SP
      BY <1>1, <1>4, <3>1 DEF N
    <3> QED
      BY <1>11, <3>2 DEF Visible
  <2>2. e - p \in Nat
    BY <1>5
  <2> DEFINE l == e - p
             f == [j \in 1 .. l |-> mem[p + j - 1]]
  <2>3. f \in [1 .. l -> Graph] /\ l \in Nat
    BY <2>1, <2>2
  <2>4. StringAt(p) = f
    BY <1>8
  <2> HIDE DEF f, l
  <2>5. f \in Seq(Graph)
    BY <2>3
  <2> QED
    BY <2>4, <2>5
<1> QED
  BY <1>12, <1>13 DEF p

(* argv is the words of a line a return ended, in order, as many as it     *)
(* holds, each at its place and cut where it ends: dbg_parsecmd for any    *)
(* line, buffer and number of arguments.                                   *)
THEOREM ArgsAreWordsThm == Spec => []ArgsAreWords
<1>1. ASSUME CmdInv, Complete
      PROVE  LET w == Starts(Line) IN
             /\ argc = Min({MaxArgs, Cardinality(w)})
             /\ \A k \in 0 .. argc - 1 :
                  /\ argv[k] + 1 \in w /\ Cardinality({j \in w : j <= argv[k]}) = k
                  /\ StringAt(argv[k]) = WordAt(Line, argv[k] + 1)
  <2> DEFINE L == Line
             w == Starts(L)
             Before == {x \in w : x <= i}
  <2>1. mode = "exec" /\ Last(keys) = CR
    BY <1>1 DEF Complete, Last
  <2>2. CmdType /\ CutInv(L)
    BY <1>1, <2>1 DEF CmdInv, ParseInv
  <2> HIDE DEF L
  <2>3. /\ argc = Cardinality(Before) /\ \A k \in 0 .. argc - 1 : IsWord(L, k)
        /\ argc = MaxArgs \/ \A x \in w : x <= i
        /\ L \in Seq(Visible)
    BY <2>1, <2>2 DEF CutInv
  <2>4. argc \in 0 .. MaxArgs /\ MaxArgs \in Nat
    BY <2>2, CmdAssumption DEF CmdType
  <2>5. Before \in SUBSET w /\ IsFiniteSet(w) /\ Cardinality(w) \in Nat
    BY <2>3, StartsFacts
  <2>6. Cardinality(Before) <= Cardinality(w)
    <3> HIDE DEF w, Before
    <3> QED
      BY <2>5, FS_Subset
  <2>7. argc = MaxArgs \/ argc = Cardinality(w)
    <3>1. CASE \A x \in w : x <= i
      <4>1. Before = w
        BY <3>1
      <4> QED
        BY <2>3, <4>1
    <3> QED
      BY <2>3, <3>1
  <2> DEFINE c == Cardinality(w)
  <2>8. argc <= c /\ (argc = MaxArgs \/ argc = c) /\ c \in Nat
    BY <2>3, <2>5, <2>6, <2>7
  <2> HIDE DEF c
  <2>9. argc = Min({MaxArgs, c})
    <3> DEFINE T == {MaxArgs, c}
    <3>1. argc \in T /\ \A y \in T : argc <= y
      BY <2>4, <2>8
    <3>2. \A x \in T : (\A y \in T : x <= y) => x = argc
      BY <2>4, <2>8
    <3>3. Min(T) = argc
      BY <3>1, <3>2, Zenon DEF Min
    <3> QED
      BY <3>3
  <2>10. ASSUME NEW k \in 0 .. argc - 1
         PROVE  /\ argv[k] + 1 \in w /\ Cardinality({j \in w : j <= argv[k]}) = k
                /\ StringAt(argv[k]) = WordAt(L, argv[k] + 1)
    <3>1. IsWord(L, k)
      BY <2>3
    <3>2. argv[k] + 1 \in w /\ Cardinality({j \in w : j <= argv[k]}) = k
      BY <3>1 DEF IsWord
    <3>3. StringAt(argv[k]) = WordAt(L, argv[k] + 1)
      BY <2>2, <3>1, WordRead
    <3> QED
      BY <3>2, <3>3
  <2> QED
    BY <2>9, <2>10 DEF c, L
<1>2. CmdInv => ArgsAreWords
  BY <1>1, Zenon DEF ArgsAreWords
<1> QED
  BY <1>2, CmdInvariant, PTL

-----------------------------------------------------------------------------
(* While no line has filled the buffer: it ends in a 0 that no line moves, *)
(* and every pointer in argv_buffer, whichever line set it, lies in it.    *)
InsideInv ==
    ~filled =>
        /\ i < BufSize /\ mem[BufSize - 1] = NUL
        /\ \A k \in 0 .. MaxArgs - 1 : argv[k] = None \/ argv[k] \in 0 .. BufSize - 1
        /\ mode # "edit" => \A k \in 0 .. argc - 1 : argv[k] \in 0 .. BufSize - 1

LEMMA InsideInit ==
    ASSUME Init
    PROVE  InsideInv
<1>1. mode = "edit" /\ i = 0 /\ argv = [k \in 0 .. MaxArgs - 1 |-> None]
  BY DEF Init
<1>2. PICK a \in After :
        mem = [k \in 0 .. BufSize + Len(a) - 1 |->
                 IF k < BufSize THEN NUL ELSE a[k - BufSize + 1]]
  BY DEF Init
<1>3. BufSize \in Nat \ {0} /\ a \in Seq(Char)
  BY CmdAssumption
<1>4. Len(a) \in Nat
  BY <1>3
<1>5. BufSize - 1 \in 0 .. BufSize + Len(a) - 1 /\ BufSize - 1 < BufSize /\ 0 < BufSize
  BY <1>3, <1>4
<1>6. mem[BufSize - 1] = NUL
  BY <1>2, <1>5
<1> QED
  BY <1>1, <1>5, <1>6 DEF InsideInv

(* A key: the last byte of the buffer is written by a return, or by the    *)
(* character that fills it.                                                *)
LEMMA InsideKey ==
    ASSUME CmdInv, InsideInv, NEW c \in Key, dbg_getcmd(c)
    PROVE  InsideInv'
<1> SUFFICES ASSUME ~filled'
             PROVE  /\ i' < BufSize /\ mem'[BufSize - 1] = NUL
                    /\ \A k \in 0 .. MaxArgs - 1 : argv'[k] = None \/ argv'[k] \in 0 .. BufSize - 1
                    /\ mode' # "edit" => \A k \in 0 .. argc' - 1 : argv'[k] \in 0 .. BufSize - 1
  BY Zenon DEF InsideInv
<1>1. filled' = (filled \/ (c # CR /\ mode' = "parse"))
  BY DEF dbg_getcmd
<1>2. ~filled /\ (c = CR \/ mode' # "parse")
  BY <1>1, Zenon
<1>3. /\ i < BufSize /\ mem[BufSize - 1] = NUL
      /\ \A k \in 0 .. MaxArgs - 1 : argv[k] = None \/ argv[k] \in 0 .. BufSize - 1
  BY <1>2, Zenon DEF InsideInv
<1>4. mode = "edit" /\ argv' = argv /\ i \in Nat /\ BufSize \in Nat \ {0}
  BY CmdAssumption DEF dbg_getcmd, CmdInv, CmdType
<1>5. PICK n \in Nat : n >= BufSize /\ mem \in [0 .. n -> Char]
  BY DEF CmdInv, CmdType, MemInv
<1>6. i \in 0 .. n /\ BufSize - 1 \in 0 .. n
  BY <1>3, <1>4, <1>5
<1>7. argc' = IF mode' = "parse" THEN 0 ELSE argc
  BY DEF dbg_getcmd
<1>8. CASE c = BS
  <2>1. Backspace /\ mode' = mode /\ mem' = mem
    BY <1>8, Characters DEF dbg_getcmd
  <2>2. i' = i \/ (i > 0 /\ i' = i - 1)
    BY <2>1 DEF Backspace
  <2> QED
    BY <1>3, <1>4, <2>1, <2>2
<1>9. CASE c = CR
  <2>1. mem' = [mem EXCEPT ![i] = NUL] /\ mode' = "parse" /\ i' = 0
    BY <1>9, Characters DEF dbg_getcmd
  <2> QED
    BY <1>3, <1>4, <1>5, <1>6, <1>7, <2>1
<1>10. CASE c # BS /\ c # CR
  <2>1. /\ mem' = [mem EXCEPT ![i] = c]
        /\ IF Full THEN mode' = "parse" ELSE i' = i + 1 /\ mode' = mode
    BY <1>10 DEF dbg_getcmd
  <2>2. i + 1 # BufSize /\ i' = i + 1 /\ mode' = mode
    BY <1>2, <1>10, <2>1 DEF Full
  <2>3. i # BufSize - 1 /\ i' < BufSize
    BY <1>3, <1>4, <2>2
  <2> QED
    BY <1>3, <1>4, <1>5, <1>6, <2>1, <2>2, <2>3
<1> QED
  BY <1>8, <1>9, <1>10

(* A round of the parser: both scans end at that 0 at the latest.          *)
LEMMA InsideParse ==
    ASSUME CmdInv, InsideInv, dbg_parsecmd
    PROVE  InsideInv'
<1> SUFFICES ASSUME ~filled'
             PROVE  /\ i' < BufSize /\ mem'[BufSize - 1] = NUL
                    /\ \A k \in 0 .. MaxArgs - 1 : argv'[k] = None \/ argv'[k] \in 0 .. BufSize - 1
                    /\ mode' # "edit" => \A k \in 0 .. argc' - 1 : argv'[k] \in 0 .. BufSize - 1
  BY Zenon DEF InsideInv
<1>1. mode = "parse" /\ filled' = filled
  BY DEF dbg_parsecmd
<1>2. mode # "edit" /\ ~filled
  BY <1>1
<1>3. /\ i < BufSize /\ mem[BufSize - 1] = NUL
      /\ \A k \in 0 .. MaxArgs - 1 : argv[k] = None \/ argv[k] \in 0 .. BufSize - 1
      /\ \A k \in 0 .. argc - 1 : argv[k] \in 0 .. BufSize - 1
  BY <1>2, Zenon DEF InsideInv
<1>4. PICK n \in Nat : n >= BufSize /\ i <= n /\ mem \in [0 .. n -> Char] /\ mem[n] = NUL
  BY DEF CmdInv, CmdType, MemInv
<1>5. /\ i \in Nat /\ argc \in 0 .. MaxArgs /\ argv \in [0 .. MaxArgs - 1 -> Int]
      /\ BufSize \in Nat \ {0} /\ MaxArgs \in Nat
  BY CmdAssumption DEF CmdInv, CmdType
<1>6. CASE ParseDone
  BY <1>3, <1>6 DEF ParseDone
<1>7. CASE ~ParseDone
  <2> DEFINE st == SkipSpace(i)
             e == WordEnd(st)
  <2>1. argc # MaxArgs /\ mem[st] # NUL /\ TakeWord(st, e)
    BY <1>7 DEF dbg_parsecmd
  <2>2. i \in 0 .. n /\ BufSize - 1 \in 0 .. n
    BY <1>3, <1>4, <1>5
  <2>3. st \in i .. n /\ \A j \in i .. st - 1 : mem[j] = SP
    BY <1>4, <2>2, SkipFacts
  <2> HIDE DEF st
  <2>4. st \in 0 .. BufSize - 2 /\ st \in 0 .. n
    <3>1. ~(BufSize - 1 \in i .. st - 1)
      BY <1>3, <2>3, Characters
    <3>2. st # BufSize - 1
      BY <1>3, <2>1
    <3> QED
      BY <1>3, <1>5, <2>2, <2>3, <3>1, <3>2
  <2>5. e \in st .. n /\ \A j \in st .. e - 1 : mem[j] \notin {SP, NUL}
    BY <1>4, <2>4, WordFacts
  <2> HIDE DEF e
  <2>6. e \in 0 .. BufSize - 1 /\ e \in 0 .. n /\ (mem[e] # NUL => e # BufSize - 1)
    <3>1. ~(BufSize - 1 \in st .. e - 1)
      BY <1>3, <2>5
    <3> QED
      BY <1>3, <1>5, <2>4, <2>5, <3>1
  <2>7. /\ argv' = [argv EXCEPT ![argc] = st] /\ argc' = argc + 1
        /\ mem' = [mem EXCEPT ![e] = NUL]
        /\ i' = IF mem[e] # NUL THEN e + 1 ELSE e
    BY <2>1 DEF TakeWord
  <2>8. i' < BufSize
    BY <1>5, <2>6, <2>7
  <2>9. mem'[BufSize - 1] = NUL
    BY <1>3, <1>4, <2>2, <2>6, <2>7
  <2>10. st \in 0 .. BufSize - 1 /\ argc \in 0 .. MaxArgs - 1
    BY <1>5, <2>1, <2>4
  <2>11. \A k \in 0 .. MaxArgs - 1 : argv'[k] = IF k = argc THEN st ELSE argv[k]
    BY <1>5, <2>7
  <2>12. \A k \in 0 .. argc' - 1 : k \in 0 .. MaxArgs - 1 /\ (k = argc \/ k \in 0 .. argc - 1)
    BY <1>5, <2>7, <2>10
  <2> QED
    BY <1>3, <2>8, <2>9, <2>10, <2>11, <2>12
<1> QED
  BY <1>6, <1>7

(* What dbg_exec hands to a command: an entry its line filled, or, for x,  *)
(* one of the first two.                                                   *)
LEMMA ReadsFacts ==
    ASSUME NEW f, NEW n \in Nat, NEW k \in Reads(f, n)
    PROVE  k \in 1 .. 3 /\ (k <= n \/ f = "x")
<1>1. CASE f = "reg"
  BY <1>1 DEF Reads, reg_reads
<1>2. CASE f = "hbp"
  BY <1>2 DEF Reads, hardware_bp_reads
<1>3. CASE f = "disasm"
  BY <1>3 DEF Reads, disassembly_reads
<1>4. CASE f = "x"
  BY <1>4 DEF Reads, dumphex_reads
<1>5. CASE f \notin {"reg", "hbp", "disasm", "x"}
  BY <1>5 DEF Reads
<1> QED
  BY <1>1, <1>2, <1>3, <1>4, <1>5

(* Whatever lines were typed before, a command of dbg_exec reads only      *)
(* strings that end inside cmd_buffer, of its own line unless it is x,     *)
(* for a buffer of any size and any number of arguments.                   *)
THEOREM ParamsReadableThm == Spec => []ParamsReadable
<1>1. Init => InsideInv
  BY InsideInit
<1>2. CmdInv /\ InsideInv /\ [Next]_vars => InsideInv'
  <2> SUFFICES ASSUME CmdInv, InsideInv, [Next]_vars
               PROVE  InsideInv'
    OBVIOUS
  <2>1. CASE dbg_exec
    <3>1. /\ mode' = "edit" /\ i' = 0 /\ mem' = mem /\ argv' = argv /\ filled' = filled
          /\ 0 < BufSize
      BY <2>1, CmdAssumption DEF dbg_exec, Prompt
    <3> QED
      BY <3>1 DEF InsideInv
  <2>2. CASE UNCHANGED vars
    <3>1. UNCHANGED <<mode, mem, i, argc, argv, filled>>
      BY <2>2 DEF vars, hist
    <3> QED
      BY <3>1 DEF InsideInv
  <2> QED
    BY <2>1, <2>2, InsideKey, InsideParse DEF Next, Idle
<1>3. CmdInv /\ InsideInv => ParamsReadable
  <2> SUFFICES ASSUME CmdInv, InsideInv, mode = "exec", ~filled, NEW k \in Reads(Command, argc - 1)
               PROVE  /\ k < argc \/ Command = "x"
                      /\ \/ argv[k] >= 0 /\ \E j \in argv[k] .. BufSize - 1 : mem[j] = NUL
                         \/ k >= argc /\ argv[k] = None
    BY Zenon DEF ParamsReadable
  <2>1. /\ mem[BufSize - 1] = NUL
        /\ \A l \in 0 .. MaxArgs - 1 : argv[l] = None \/ argv[l] \in 0 .. BufSize - 1
        /\ mode # "edit" => \A l \in 0 .. argc - 1 : argv[l] \in 0 .. BufSize - 1
    BY Zenon DEF InsideInv
  <2>2. argc \in 0 .. MaxArgs /\ MaxArgs \in Nat /\ MaxArgs >= 4 /\ BufSize \in Nat \ {0}
    BY CmdAssumption DEF CmdInv, CmdType
  <2>3. argc # 0
    <3> SUFFICES ASSUME argc = 0
                 PROVE  FALSE
      OBVIOUS
    <3>1. <<>> \notin DOMAIN Names
      BY CmdAssumption
    <3>2. Command = "unknown"
      BY <3>1 DEF Command
    <3> QED
      BY <3>2 DEF Reads
  <2> DEFINE f == Command
             m == argc - 1
  <2>4. k \in Reads(f, m)
    OBVIOUS
  <2>5. m \in Nat
    BY <2>2, <2>3
  <2> HIDE DEF f, m
  <2>6. k \in 1 .. 3 /\ (k <= m \/ f = "x")
    BY <2>4, <2>5, ReadsFacts
  <2>7. k < argc \/ Command = "x"
    BY <2>2, <2>6 DEF f, m
  <2>8. k \in 0 .. MaxArgs - 1 /\ (k < argc => k \in 0 .. argc - 1)
    BY <2>2, <2>6
  <2>9. ASSUME argv[k] \in 0 .. BufSize - 1
        PROVE  argv[k] >= 0 /\ \E j \in argv[k] .. BufSize - 1 : mem[j] = NUL
    <3>1. BufSize - 1 \in argv[k] .. BufSize - 1 /\ argv[k] >= 0
      BY <2>2, <2>9
    <3> QED
      BY <2>1, <3>1
  <2>10. argv[k] \in 0 .. BufSize - 1 \/ (k >= argc /\ argv[k] = None)
    <3>1. k \in Int /\ argc \in Int
      BY <2>2, <2>6
    <3> QED
      BY <2>1, <2>8, <3>1
  <2> QED
    BY <2>7, <2>9, <2>10
<1> QED
  BY <1>1, <1>2, <1>3, CmdInvariant, PTL DEF Spec

-----------------------------------------------------------------------------
(* Numbers.  The solutions of a recursion over digits with step st; there  *)
(* is one.                                                                 *)
Solutions(m, z, st) ==
    {g \in [0 .. m -> Int] : g[0] = z /\ \A k \in 1 .. m : g[k] = st[<<g[k - 1], k>>]}

LEMMA RecursionDefined ==
    ASSUME NEW m \in Nat, NEW z \in Int, NEW st \in [Int \X (1 .. m) -> Int]
    PROVE  Solutions(m, z, st) # {}
<1> DEFINE S == Int
           R(g, j) == g[0] = z /\ \A k \in 1 .. j : g[k] = st[<<g[k - 1], k>>]
           D(j) == j <= m => \E g \in [0 .. j -> S] : R(g, j)
           P == {j \in Nat : D(j)}
<1>1. 0 \in P
  <2>1. [k \in 0 .. 0 |-> z] \in [0 .. 0 -> S] /\ R([k \in 0 .. 0 |-> z], 0)
    OBVIOUS
  <2>2. D(0)
    BY <2>1, Zenon
  <2> HIDE DEF D
  <2> QED
    BY <2>2
<1>2. ASSUME NEW j \in Nat, j \in P
      PROVE  j + 1 \in P
  <2>1. D(j)
    BY <1>2, Zenon
  <2>2. ASSUME j + 1 <= m
        PROVE  \E g \in [0 .. j + 1 -> S] : R(g, j + 1)
    <3>1. j <= m
      BY <2>2
    <3>2. PICK g \in [0 .. j -> S] : R(g, j)
      BY <2>1, <3>1, Zenon
    <3> DEFINE x == st[<<g[j], j + 1>>]
               h == [k \in 0 .. j + 1 |-> IF k = j + 1 THEN x ELSE g[k]]
    <3>3. x \in S
      BY <2>2, <3>2
    <3> HIDE DEF x
    <3>4. h \in [0 .. j + 1 -> S]
      BY <3>2, <3>3
    <3>5. h[0] = z
      BY <3>2
    <3>6. ASSUME NEW k \in 1 .. j + 1
          PROVE  h[k] = st[<<h[k - 1], k>>]
      <4>1. CASE k = j + 1
        <5>1. k - 1 = j /\ j \in 0 .. j + 1 /\ j # j + 1 /\ k \in 0 .. j + 1
          BY <4>1
        <5>2. h[k] = x /\ h[k - 1] = g[j]
          BY <4>1, <5>1
        <5> QED
          BY <4>1, <5>2, Zenon DEF x
      <4>2. CASE k # j + 1
        <5>1. k \in 1 .. j /\ k \in 0 .. j + 1 /\ k - 1 \in 0 .. j + 1 /\ k - 1 # j + 1
          BY <4>2
        <5> QED
          BY <3>2, <4>2, <5>1
      <4> QED
        BY <4>1, <4>2
    <3> QED
      BY <3>4, <3>5, <3>6
  <2>3. D(j + 1)
    BY <2>2, Zenon
  <2> HIDE DEF D
  <2> QED
    BY <2>3
<1>3. D(m)
  <2>1. Nat \subseteq P
    <3> HIDE DEF P
    <3> QED
      BY <1>1, <1>2, NatSetInduction
  <2>2. m \in P
    BY <2>1
  <2> HIDE DEF D
  <2> QED
    BY <2>2
<1>4. m <= m
  OBVIOUS
<1>5. PICK g \in [0 .. m -> S] : R(g, m)
  BY <1>3, <1>4, Zenon
<1>6. g \in Solutions(m, z, st)
  BY <1>5, Zenon DEF Solutions
<1> QED
  BY <1>6

(* Powers of two.                                                          *)
LEMMA Pow2Facts ==
    /\ Pow2[Bits - 1] \in Nat \ {0} /\ Pow2[Bits] = 2 * Pow2[Bits - 1]
<1>1. Bits \in Nat \ {0}
  BY CmdAssumption
<1> DEFINE st == [p \in Int \X (1 .. Bits) |-> 2 * p[1]]
           P == {k \in Nat : k <= Bits => Pow2[k] \in Nat \ {0}}
<1>2. PICK g \in [0 .. Bits -> Int] : g[0] = 1 /\ \A k \in 1 .. Bits : g[k] = st[<<g[k - 1], k>>]
  <2>1. st \in [Int \X (1 .. Bits) -> Int]
    OBVIOUS
  <2> HIDE DEF st
  <2>2. Solutions(Bits, 1, st) # {}
    BY <1>1, <2>1, RecursionDefined
  <2> QED
    BY <2>2, Zenon DEF Solutions
<1>3. g = [k \in 0 .. Bits |-> IF k = 0 THEN 1 ELSE 2 * g[k - 1]]
  <2>1. ASSUME NEW k \in 0 .. Bits
        PROVE  g[k] = IF k = 0 THEN 1 ELSE 2 * g[k - 1]
    <3>1. CASE k = 0
      BY <1>2, <3>1
    <3>2. CASE k # 0
      <4>1. k \in 1 .. Bits /\ k - 1 \in 0 .. Bits
        BY <1>1, <3>2
      <4>2. g[k - 1] \in Int
        BY <1>2, <4>1
      <4> QED
        BY <1>2, <3>2, <4>1, <4>2
    <3> QED
      BY <3>1, <3>2
  <2> QED
    BY <1>2, <2>1
<1>4. Pow2 = [k \in 0 .. Bits |-> IF k = 0 THEN 1 ELSE 2 * Pow2[k - 1]]
  BY <1>3, Zenon DEF Pow2
<1>5. Pow2[0] = 1 /\ \A k \in 1 .. Bits : Pow2[k] = 2 * Pow2[k - 1]
  BY <1>1, <1>4
<1>6. 0 \in P
  BY <1>5
<1>7. ASSUME NEW k \in Nat, k \in P
      PROVE  k + 1 \in P
  <2>1. ASSUME k + 1 <= Bits
        PROVE  Pow2[k + 1] \in Nat \ {0}
    <3>1. k + 1 \in 1 .. Bits /\ (k + 1) - 1 = k /\ k <= Bits
      BY <1>1, <2>1
    <3>2. Pow2[k] \in Nat \ {0}
      BY <1>7, <3>1
    <3> QED
      BY <1>5, <3>1, <3>2
  <2> QED
    BY <2>1
<1>8. Nat \subseteq P
  <2> HIDE DEF P
  <2> QED
    BY <1>6, <1>7, NatSetInduction
<1>9. Bits - 1 \in P /\ Bits - 1 <= Bits /\ Bits \in 1 .. Bits
  BY <1>1, <1>8
<1> QED
  BY <1>5, <1>9

(* A number in a long differs from it by whole words.                      *)
LEMMA WrapFacts ==
    ASSUME NEW a \in Int
    PROVE  /\ Wrap(a) \in Int
           /\ \E q \in Int : Wrap(a) = a + q * Pow2[Bits]
           /\ a \in Long => Wrap(a) = a
<1> DEFINE H == Pow2[Bits - 1]
           M == Pow2[Bits]
           u == a % M
           d == a \div M
<1>1. H \in Nat \ {0} /\ M = 2 * H
  BY Pow2Facts
<1>2. Wrap(a) = IF 2 * u >= M THEN u - M ELSE u
  BY DEF Wrap
<1>3. a \in Long <=> -H <= a /\ a <= H - 1
  BY <1>1 DEF Long
<1> HIDE DEF H, M
<1>4. u \in 0 .. M - 1 /\ d \in Int /\ a = d * M + u
  <2>1. M \in Nat \ {0}
    BY <1>1
  <2> QED
    BY <2>1
<1>5. ASSUME 0 <= a, a <= H - 1
      PROVE  u = a
  <2>1. M \in Nat \ {0} /\ a \in 0 .. M - 1
    BY <1>1, <1>5
  <2> QED
    BY <2>1
<1>6. ASSUME -H <= a, a < 0
      PROVE  u = a + M
  <2>1. M \in Nat \ {0} /\ -M <= a /\ a < 0
    BY <1>1, <1>6
  <2> QED
    BY <2>1
<1>7. a \in Long => Wrap(a) = a
  BY <1>1, <1>2, <1>3, <1>4, <1>5, <1>6
<1> HIDE DEF u, d
<1>8. Wrap(a) \in Int
  BY <1>1, <1>2, <1>4
<1>9. \E q \in Int : Wrap(a) = a + q * M
  <2>1. u = a + (-d) * M /\ u - M = a + (-d - 1) * M
    BY <1>1, <1>4
  <2>2. -d \in Int /\ -d - 1 \in Int
    BY <1>4
  <2> QED
    BY <1>2, <2>1, <2>2
<1> QED
  BY <1>7, <1>8, <1>9 DEF M

(* The reference is defined.                                               *)
LEMMA ValuesDefined ==
    ASSUME NEW ds \in Seq(Nat), NEW base \in Nat
    PROVE  LET F == Values(ds, base) IN
           /\ F = [k \in 0 .. Len(ds) |-> IF k = 0 THEN 0 ELSE base * F[k - 1] + ds[k]]
           /\ F[0] = 0 /\ \A k \in 1 .. Len(ds) : F[k] = base * F[k - 1] + ds[k]
<1> DEFINE m == Len(ds)
           st == [p \in Int \X (1 .. m) |-> base * p[1] + ds[p[2]]]
           F == Values(ds, base)
<1>1. m \in Nat /\ \A k \in 1 .. m : ds[k] \in Nat
  OBVIOUS
<1>2. PICK g \in [0 .. m -> Int] : g[0] = 0 /\ \A k \in 1 .. m : g[k] = st[<<g[k - 1], k>>]
  <2>1. ASSUME NEW x \in Int, NEW k \in 1 .. m
        PROVE  base * x + ds[k] \in Int
    BY <1>1
  <2> HIDE DEF m
  <2>2. st \in [Int \X (1 .. m) -> Int]
    BY <2>1
  <2> HIDE DEF st
  <2>3. m \in Nat /\ 0 \in Int
    BY <1>1
  <2>4. Solutions(m, 0, st) # {}
    BY <2>2, <2>3, RecursionDefined
  <2> QED
    BY <2>4, Zenon DEF Solutions
<1> HIDE DEF m
<1>3. g = [k \in 0 .. m |-> IF k = 0 THEN 0 ELSE base * g[k - 1] + ds[k]]
  <2>1. ASSUME NEW k \in 0 .. m
        PROVE  g[k] = IF k = 0 THEN 0 ELSE base * g[k - 1] + ds[k]
    <3>1. CASE k = 0
      BY <1>2, <3>1
    <3>2. CASE k # 0
      <4>1. k \in 1 .. m /\ k - 1 \in 0 .. m
        BY <1>1, <3>2
      <4>2. g[k - 1] \in Int
        BY <1>2, <4>1
      <4>3. st[<<g[k - 1], k>>] = base * g[k - 1] + ds[k]
        BY <4>1, <4>2
      <4> QED
        BY <1>2, <3>2, <4>1, <4>3
    <3> QED
      BY <3>1, <3>2
  <2> QED
    BY <1>2, <2>1
<1>4. F = [k \in 0 .. m |-> IF k = 0 THEN 0 ELSE base * F[k - 1] + ds[k]]
  BY <1>3, Zenon DEF Values, m
<1> HIDE DEF F
<1>5. F[0] = 0 /\ \A k \in 1 .. m : F[k] = base * F[k - 1] + ds[k]
  BY <1>1, <1>4
<1> QED
  BY <1>4, <1>5 DEF m, F

(* So is n of dbg_atol in base 10,                                         *)
LEMMA PartialDefined ==
    ASSUME NEW ds \in Seq(Nat)
    PROVE  LET F == Partial(ds) IN
           /\ F = [k \in 0 .. Len(ds) |-> IF k = 0 THEN 0 ELSE 10 * F[k - 1] - ds[k]]
           /\ F[0] = 0 /\ \A k \in 1 .. Len(ds) : F[k] = 10 * F[k - 1] - ds[k]
<1> DEFINE m == Len(ds)
           st == [p \in Int \X (1 .. m) |-> 10 * p[1] - ds[p[2]]]
           F == Partial(ds)
<1>1. m \in Nat /\ \A k \in 1 .. m : ds[k] \in Nat
  OBVIOUS
<1>2. PICK g \in [0 .. m -> Int] : g[0] = 0 /\ \A k \in 1 .. m : g[k] = st[<<g[k - 1], k>>]
  <2>1. ASSUME NEW x \in Int, NEW k \in 1 .. m
        PROVE  10 * x - ds[k] \in Int
    BY <1>1
  <2> HIDE DEF m
  <2>2. st \in [Int \X (1 .. m) -> Int]
    BY <2>1
  <2> HIDE DEF st
  <2>3. m \in Nat /\ 0 \in Int
    BY <1>1
  <2>4. Solutions(m, 0, st) # {}
    BY <2>2, <2>3, RecursionDefined
  <2> QED
    BY <2>4, Zenon DEF Solutions
<1> HIDE DEF m
<1>3. g = [k \in 0 .. m |-> IF k = 0 THEN 0 ELSE 10 * g[k - 1] - ds[k]]
  <2>1. ASSUME NEW k \in 0 .. m
        PROVE  g[k] = IF k = 0 THEN 0 ELSE 10 * g[k - 1] - ds[k]
    <3>1. CASE k = 0
      BY <1>2, <3>1
    <3>2. CASE k # 0
      <4>1. k \in 1 .. m /\ k - 1 \in 0 .. m
        BY <1>1, <3>2
      <4>2. g[k - 1] \in Int
        BY <1>2, <4>1
      <4>3. st[<<g[k - 1], k>>] = 10 * g[k - 1] - ds[k]
        BY <4>1, <4>2
      <4> QED
        BY <1>2, <3>2, <4>1, <4>3
    <3> QED
      BY <3>1, <3>2
  <2> QED
    BY <1>2, <2>1
<1>4. F = [k \in 0 .. m |-> IF k = 0 THEN 0 ELSE 10 * F[k - 1] - ds[k]]
  BY <1>3, Zenon DEF Partial, m
<1> HIDE DEF F
<1>5. F[0] = 0 /\ \A k \in 1 .. m : F[k] = 10 * F[k - 1] - ds[k]
  BY <1>1, <1>4
<1> QED
  BY <1>4, <1>5 DEF m, F

(* and in base 16.                                                         *)
LEMMA HexDefined ==
    ASSUME NEW ds \in Seq(Nat)
    PROVE  LET F == HexValue(ds) IN
           /\ F = [k \in 0 .. Len(ds) |-> IF k = 0 THEN 0 ELSE Wrap(16 * F[k - 1] + ds[k])]
           /\ F[0] = 0 /\ \A k \in 1 .. Len(ds) : F[k] = Wrap(16 * F[k - 1] + ds[k])
<1> DEFINE m == Len(ds)
           st == [p \in Int \X (1 .. m) |-> Wrap(16 * p[1] + ds[p[2]])]
           F == HexValue(ds)
<1>1. m \in Nat /\ \A k \in 1 .. m : ds[k] \in Nat
  OBVIOUS
<1>2. PICK g \in [0 .. m -> Int] : g[0] = 0 /\ \A k \in 1 .. m : g[k] = st[<<g[k - 1], k>>]
  <2>1. ASSUME NEW x \in Int, NEW k \in 1 .. m
        PROVE  Wrap(16 * x + ds[k]) \in Int
    <3>1. 16 * x + ds[k] \in Int
      BY <1>1
    <3> QED
      BY <3>1, WrapFacts
  <2> HIDE DEF m
  <2>2. st \in [Int \X (1 .. m) -> Int]
    BY <2>1
  <2> HIDE DEF st
  <2>3. m \in Nat /\ 0 \in Int
    BY <1>1
  <2>4. Solutions(m, 0, st) # {}
    BY <2>2, <2>3, RecursionDefined
  <2> QED
    BY <2>4, Zenon DEF Solutions
<1> HIDE DEF m
<1>3. g = [k \in 0 .. m |-> IF k = 0 THEN 0 ELSE Wrap(16 * g[k - 1] + ds[k])]
  <2>1. ASSUME NEW k \in 0 .. m
        PROVE  g[k] = IF k = 0 THEN 0 ELSE Wrap(16 * g[k - 1] + ds[k])
    <3>1. CASE k = 0
      BY <1>2, <3>1
    <3>2. CASE k # 0
      <4>1. k \in 1 .. m /\ k - 1 \in 0 .. m
        BY <1>1, <3>2
      <4>2. g[k - 1] \in Int
        BY <1>2, <4>1
      <4>3. st[<<g[k - 1], k>>] = Wrap(16 * g[k - 1] + ds[k])
        BY <4>1, <4>2
      <4> QED
        BY <1>2, <3>2, <4>1, <4>3
    <3> QED
      BY <3>1, <3>2
  <2> QED
    BY <1>2, <2>1
<1>4. F = [k \in 0 .. m |-> IF k = 0 THEN 0 ELSE Wrap(16 * F[k - 1] + ds[k])]
  BY <1>3, Zenon DEF HexValue, m
<1> HIDE DEF F
<1>5. F[0] = 0 /\ \A k \in 1 .. m : F[k] = Wrap(16 * F[k - 1] + ds[k])
  BY <1>1, <1>4
<1> QED
  BY <1>4, <1>5 DEF m, F

(* The numbers that the digits make grow with each of them.                *)
LEMMA ValuesFacts ==
    ASSUME NEW ds \in Seq(Nat), NEW base \in Nat \ {0}
    PROVE  \A k \in 0 .. Len(ds) :
             Values(ds, base)[k] \in Nat /\ Values(ds, base)[k] <= Values(ds, base)[Len(ds)]
<1> DEFINE V == Values(ds, base)
           m == Len(ds)
           P == {k \in Nat : k <= m => V[k] \in Nat}
           Q == {j \in Nat : j <= m => V[m - j] <= V[m]}
<1>1. V[0] = 0 /\ \A k \in 1 .. m : V[k] = base * V[k - 1] + ds[k]
  BY ValuesDefined
<1>2. m \in Nat /\ \A k \in 1 .. m : ds[k] \in Nat
  OBVIOUS
<1> HIDE DEF V, m
<1>3. 0 \in P
  BY <1>1
<1>4. ASSUME NEW k \in Nat, k \in P
      PROVE  k + 1 \in P
  <2>1. ASSUME k + 1 <= m
        PROVE  V[k + 1] \in Nat
    <3>1. k + 1 \in 1 .. m /\ (k + 1) - 1 = k /\ k <= m
      BY <1>2, <2>1
    <3>2. V[k] \in Nat /\ ds[k + 1] \in Nat
      BY <1>2, <1>4, <3>1
    <3>3. V[k + 1] = base * V[k] + ds[k + 1]
      BY <1>1, <3>1
    <3>4. \A x, y \in Nat : base * x + y \in Nat
      OBVIOUS
    <3> QED
      BY <3>2, <3>3, <3>4
  <2> QED
    BY <2>1
<1>5. Nat \subseteq P
  <2> HIDE DEF P
  <2> QED
    BY <1>3, <1>4, NatSetInduction
<1>6. \A k \in 0 .. m : V[k] \in Nat
  BY <1>2, <1>5
<1>7. 0 \in Q
  BY <1>2, <1>6
<1>8. ASSUME NEW j \in Nat, j \in Q
      PROVE  j + 1 \in Q
  <2>1. ASSUME j + 1 <= m
        PROVE  V[m - (j + 1)] <= V[m]
    <3>1. m - j \in 1 .. m /\ (m - j) - 1 = m - (j + 1) /\ m - (j + 1) \in 0 .. m /\ m - j \in 0 .. m /\ j <= m
      BY <1>2, <2>1
    <3> DEFINE x == V[m - (j + 1)]
               y == V[m - j]
               e == ds[m - j]
    <3>2. x \in Nat /\ y \in Nat /\ e \in Nat /\ V[m] \in Nat /\ y <= V[m]
      BY <1>2, <1>6, <1>8, <3>1
    <3>3. y = base * x + e
      BY <1>1, <3>1
    <3> HIDE DEF x, y, e
    <3>4. x <= y
      BY <3>2, <3>3
    <3>5. x <= V[m]
      BY <3>2, <3>4
    <3> QED
      BY <3>5 DEF x
  <2> QED
    BY <2>1
<1>9. Nat \subseteq Q
  <2> HIDE DEF Q
  <2> QED
    BY <1>7, <1>8, NatSetInduction
<1>10. ASSUME NEW k \in 0 .. m
       PROVE  V[k] <= V[m]
  <2>1. m - k \in Nat /\ m - k <= m /\ m - (m - k) = k
    BY <1>2
  <2>2. m - k \in Q
    BY <1>9, <2>1
  <2> QED
    BY <2>1, <2>2
<1> QED
  BY <1>6, <1>10 DEF V, m

(* In base 10, n is that number below zero.                                *)
LEMMA PartialFacts ==
    ASSUME NEW ds \in Seq(Nat)
    PROVE  /\ DOMAIN Partial(ds) = 0 .. Len(ds)
           /\ \A k \in 0 .. Len(ds) : Partial(ds)[k] = -Values(ds, 10)[k]
<1> DEFINE V == Values(ds, 10)
           F == Partial(ds)
           m == Len(ds)
           P == {k \in Nat : k <= m => F[k] = -V[k]}
<1>1. V[0] = 0 /\ \A k \in 1 .. m : V[k] = 10 * V[k - 1] + ds[k]
  BY ValuesDefined
<1>2. /\ F = [k \in 0 .. m |-> IF k = 0 THEN 0 ELSE 10 * F[k - 1] - ds[k]]
      /\ F[0] = 0 /\ \A k \in 1 .. m : F[k] = 10 * F[k - 1] - ds[k]
  BY PartialDefined, Zenon
<1>3. m \in Nat /\ \A k \in 1 .. m : ds[k] \in Nat
  OBVIOUS
<1>4. \A k \in 0 .. m : V[k] \in Nat
  BY ValuesFacts
<1> HIDE DEF V, F, m
<1>5. 0 \in P
  BY <1>1, <1>2
<1>6. ASSUME NEW k \in Nat, k \in P
      PROVE  k + 1 \in P
  <2>1. ASSUME k + 1 <= m
        PROVE  F[k + 1] = -V[k + 1]
    <3>1. k + 1 \in 1 .. m /\ (k + 1) - 1 = k /\ k \in 0 .. m
      BY <1>3, <2>1
    <3>2. F[k] = -V[k] /\ V[k] \in Nat /\ ds[k + 1] \in Nat
      BY <1>3, <1>4, <1>6, <3>1
    <3>3. F[k + 1] = 10 * F[k] - ds[k + 1] /\ V[k + 1] = 10 * V[k] + ds[k + 1]
      BY <1>1, <1>2, <3>1
    <3> QED
      BY <3>2, <3>3
  <2> QED
    BY <2>1
<1>7. Nat \subseteq P
  <2> HIDE DEF P
  <2> QED
    BY <1>5, <1>6, NatSetInduction
<1>8. \A k \in 0 .. m : F[k] = -V[k]
  BY <1>3, <1>7
<1>9. DOMAIN F = 0 .. m
  BY <1>2
<1> QED
  BY <1>8, <1>9 DEF V, F, m

(* In base 16, n is that number up to whole words.                         *)
LEMMA HexFacts ==
    ASSUME NEW ds \in Seq(Nat)
    PROVE  /\ HexValue(ds)[Len(ds)] \in Int
           /\ \E q \in Int : HexValue(ds)[Len(ds)] = Values(ds, 16)[Len(ds)] + q * Pow2[Bits]
<1> DEFINE V == Values(ds, 16)
           F == HexValue(ds)
           m == Len(ds)
           M == Pow2[Bits]
           C(k) == F[k] \in Int /\ \E q \in Int : F[k] = V[k] + q * M
           P == {k \in Nat : k <= m => C(k)}
<1>1. V[0] = 0 /\ \A k \in 1 .. m : V[k] = 16 * V[k - 1] + ds[k]
  BY ValuesDefined
<1>2. F[0] = 0 /\ \A k \in 1 .. m : F[k] = Wrap(16 * F[k - 1] + ds[k])
  BY HexDefined, Zenon
<1>3. m \in Nat /\ M \in Nat /\ \A k \in 1 .. m : ds[k] \in Nat
  BY Pow2Facts
<1>4. \A k \in 0 .. m : V[k] \in Nat
  BY ValuesFacts
<1> HIDE DEF V, F, m
<1>5. 0 \in P
  <2>1. F[0] = V[0] + 0 * M /\ F[0] \in Int
    BY <1>1, <1>2, <1>3
  <2>2. C(0)
    BY <2>1
  <2> HIDE DEF C
  <2> QED
    BY <2>2
<1>6. ASSUME NEW k \in Nat, k \in P
      PROVE  k + 1 \in P
  <2>1. k <= m => C(k)
    BY <1>6, Zenon
  <2>2. ASSUME k + 1 <= m
        PROVE  C(k + 1)
    <3>1. k + 1 \in 1 .. m /\ (k + 1) - 1 = k /\ k \in 0 .. m /\ k <= m
      BY <1>3, <2>2
    <3>2. F[k] \in Int /\ V[k] \in Nat /\ ds[k + 1] \in Nat
      BY <1>3, <1>4, <2>1, <3>1
    <3>3. PICK q \in Int : F[k] = V[k] + q * M
      BY <2>1, <3>1
    <3> DEFINE a == 16 * F[k] + ds[k + 1]
    <3>4. a \in Int
      BY <3>2
    <3>5. F[k + 1] = Wrap(a) /\ V[k + 1] = 16 * V[k] + ds[k + 1]
      BY <1>1, <1>2, <3>1
    <3> HIDE DEF a, M
    <3>6. PICK r \in Int : Wrap(a) = a + r * M
      BY <3>4, WrapFacts DEF M
    <3>7. Wrap(a) \in Int
      BY <3>4, WrapFacts
    <3>8. a = 16 * (V[k] + q * M) + ds[k + 1]
      BY <3>3 DEF a
    <3>9. a + r * M = (16 * V[k] + ds[k + 1]) + (16 * q + r) * M
      BY <1>3, <3>2, <3>8
    <3>10. 16 * q + r \in Int
      OBVIOUS
    <3>11. F[k + 1] = V[k + 1] + (16 * q + r) * M
      BY <3>5, <3>6, <3>9
    <3> QED
      BY <3>5, <3>7, <3>10, <3>11
  <2> HIDE DEF C
  <2> QED
    BY <2>2
<1>7. C(m)
  <2>1. Nat \subseteq P
    <3> HIDE DEF P
    <3> QED
      BY <1>5, <1>6, NatSetInduction
  <2>2. m \in P /\ m <= m
    BY <1>3, <2>1
  <2> HIDE DEF C
  <2> QED
    BY <2>2
<1> QED
  BY <1>7, Zenon DEF V, F, m

(* The digits of a word are numbers.                                       *)
LEMMA DigitsFacts ==
    ASSUME NEW s \in Seq(Graph), NEW base
    PROVE  Digits(s, base) \in Seq(Nat)
<1> DEFINE m == Len(s)
           T == {k \in 1 .. m + 1 : k = m + 1 \/ DigitOf[s[k]] >= base}
           n == Min(T)
<1>1. m \in Nat /\ \A k \in 1 .. m : s[k] \in Graph
  OBVIOUS
<1>2. \A c \in Graph : DigitOf[c] \in Nat
  BY CmdAssumption
<1> HIDE DEF m
<1>3. T \in SUBSET Nat /\ m + 1 \in T
  BY <1>1
<1>4. n \in T
  <2> HIDE DEF T
  <2> QED
    BY <1>3, MinFacts
<1>5. Digits(s, base) = [k \in 1 .. n - 1 |-> DigitOf[s[k]]]
  BY Zenon DEF Digits, m
<1> HIDE DEF n
<1>6. n - 1 \in Nat /\ \A k \in 1 .. n - 1 : k \in 1 .. m
  BY <1>1, <1>4
<1>7. [k \in 1 .. n - 1 |-> DigitOf[s[k]]] \in [1 .. n - 1 -> Nat]
  BY <1>1, <1>2, <1>6
<1> QED
  BY <1>5, <1>6, <1>7

(* A multiple of a word.                                                   *)
LEMMA WholeWords ==
    ASSUME NEW M \in Nat \ {0}, NEW q \in Int
    PROVE  (q * M) % M = 0
  OBVIOUS

(* dbg_atol reads a word as the number it stands for.                      *)
LEMMA NumberRead ==
    ASSUME NEW s \in Seq(Graph)
    PROVE  IF IsHex(s) THEN (dbg_atol(s) - Number(s)) % Pow2[Bits] = 0
           ELSE Number(s) \in Long =>
                  /\ dbg_atol(s) = Number(s)
                  /\ \A j \in DOMAIN Partial(DecDigits(s)) : Partial(DecDigits(s))[j] \in Long
<1> DEFINE u == Unsigned(s)
           M == Pow2[Bits]
           H == Pow2[Bits - 1]
<1>1. M \in Nat \ {0} /\ H \in Nat \ {0} /\ M = 2 * H
  BY Pow2Facts
<1>2. u \in Seq(Graph)
  BY DEF Unsigned, Negative
<1>3. CASE IsHex(s)
  <2> DEFINE ds == HexDigits(s)
             n == HexValue(ds)[Len(ds)]
             v == Values(ds, 16)[Len(ds)]
  <2>1. ds \in Seq(Nat)
    <3>1. SubSeq(u, 3, Len(u)) \in Seq(Graph)
      BY <1>2
    <3> QED
      BY <3>1, DigitsFacts DEF HexDigits
  <2> HIDE DEF ds
  <2>2. n \in Int /\ v \in Nat
    BY <2>1, HexFacts, ValuesFacts
  <2>3. PICK q \in Int : n = v + q * M
    BY <2>1, HexFacts
  <2>4. Number(s) = SignOf(s) * v
    BY <1>3 DEF Number, ds
  <2>5. dbg_atol(s) = IF Negative(s) THEN Wrap(-n) ELSE Wrap(n)
    BY <1>3 DEF dbg_atol, ds
  <2> HIDE DEF n, v, M
  <2>9. M \in Int /\ v \in Int
    BY <1>1, <2>2
  <2>6. CASE Negative(s)
    <3>1. -n \in Int
      BY <2>2
    <3>2. PICK r \in Int : Wrap(-n) = -n + r * M
      BY <3>1, WrapFacts DEF M
    <3>3. Number(s) = -v
      BY <2>2, <2>4, <2>6 DEF SignOf
    <3>a. (-(v + q * M) + r * M) - (-v) = (r - q) * M
      <4>1. (r - q) * M = r * M - q * M
        BY <2>9
      <4> DEFINE a == q * M
                 b == r * M
      <4>2. a \in Int /\ b \in Int
        BY <2>9
      <4> HIDE DEF a, b
      <4>3. (-(v + a) + b) - (-v) = b - a
        BY <2>9, <4>2
      <4> QED
        BY <4>1, <4>3 DEF a, b
    <3>b. dbg_atol(s) = -(v + q * M) + r * M
      BY <2>3, <2>5, <2>6, <3>2, Zenon
    <3>4. dbg_atol(s) - Number(s) = (r - q) * M
      BY <3>3, <3>a, <3>b, Zenon
    <3>5. r - q \in Int
      OBVIOUS
    <3> QED
      BY <1>1, <1>3, <3>4, <3>5, WholeWords DEF M
  <2>7. CASE ~Negative(s)
    <3>2. PICK r \in Int : Wrap(n) = n + r * M
      BY <2>2, WrapFacts DEF M
    <3>3. Number(s) = v
      BY <2>2, <2>4, <2>7 DEF SignOf
    <3>a. ((v + q * M) + r * M) - v = (q + r) * M
      <4>1. (q + r) * M = q * M + r * M
        BY <2>9
      <4> DEFINE a == q * M
                 b == r * M
      <4>2. a \in Int /\ b \in Int
        BY <2>9
      <4> HIDE DEF a, b
      <4>3. ((v + a) + b) - v = a + b
        BY <2>9, <4>2
      <4> QED
        BY <4>1, <4>3 DEF a, b
    <3>b. dbg_atol(s) = (v + q * M) + r * M
      BY <2>3, <2>5, <2>7, <3>2, Zenon
    <3>4. dbg_atol(s) - Number(s) = (q + r) * M
      BY <3>3, <3>a, <3>b, Zenon
    <3>5. q + r \in Int
      OBVIOUS
    <3> QED
      BY <1>1, <1>3, <3>4, <3>5, WholeWords DEF M
  <2> QED
    BY <2>6, <2>7
<1>4. CASE ~IsHex(s)
  <2> DEFINE ds == DecDigits(s)
             m == Len(ds)
             F == Partial(ds)
             V == Values(ds, 10)
             v == V[m]
  <2>1. ds \in Seq(Nat)
    BY <1>2, DigitsFacts DEF DecDigits
  <2> HIDE DEF ds
  <2>2. m \in Nat /\ \A k \in 0 .. m : V[k] \in Nat /\ V[k] <= v
    BY <2>1, ValuesFacts
  <2>3. DOMAIN F = 0 .. m /\ \A k \in 0 .. m : F[k] = -V[k]
    BY <2>1, PartialFacts
  <2>4. Number(s) = SignOf(s) * v
    BY <1>4 DEF Number, ds
  <2>5. dbg_atol(s) = IF Negative(s) THEN Wrap(-(-F[m])) ELSE Wrap(-F[m])
    BY <1>4 DEF dbg_atol, ds
  <2> HIDE DEF F, V, m
  <2>6. F[m] = -v /\ v \in Nat
    BY <2>2, <2>3
  <2> HIDE DEF v
  <2>7. dbg_atol(s) = Wrap(Number(s)) /\ Number(s) = (IF Negative(s) THEN -v ELSE v)
    <3>1. -(-F[m]) = -v /\ -F[m] = v
      BY <2>6
    <3>2. CASE Negative(s)
      BY <2>4, <2>5, <2>6, <3>1, <3>2 DEF SignOf
    <3>3. CASE ~Negative(s)
      BY <2>4, <2>5, <2>6, <3>1, <3>3 DEF SignOf
    <3> QED
      BY <3>2, <3>3
  <2>8. ASSUME Number(s) \in Long
        PROVE  dbg_atol(s) = Number(s) /\ \A j \in DOMAIN F : F[j] \in Long
    <3>1. Number(s) \in Int
      BY <2>6, <2>7
    <3>2. dbg_atol(s) = Number(s)
      BY <2>7, <2>8, <3>1, WrapFacts
    <3>3. v <= H
      BY <1>1, <2>6, <2>7, <2>8 DEF Long
    <3>4. ASSUME NEW j \in DOMAIN F
          PROVE  F[j] \in Long
      <4>1. j \in 0 .. m
        BY <2>3
      <4>2. F[j] = -V[j] /\ V[j] \in Nat /\ V[j] <= v
        BY <2>2, <2>3, <4>1 DEF v
      <4> QED
        BY <1>1, <2>6, <3>3, <4>2 DEF Long
    <3> QED
      BY <3>2, <3>4
  <2> QED
    BY <1>4, <2>8 DEF F, ds
<1> QED
  BY <1>3, <1>4

(* The arguments are read as the numbers they stand for: dbg_atol for      *)
(* words of any length and longs of any number of bits.                    *)
THEOREM NumbersExactThm == Spec => []NumbersExact
<1>1. ASSUME CmdInv, Complete, NEW k \in 0 .. argc - 1
      PROVE  StringAt(argv[k]) \in Seq(Graph)
  <2>1. PICK L : L = Line
    OBVIOUS
  <2>2. mode = "exec" /\ Last(keys) = CR
    BY <1>1 DEF Complete, Last
  <2>3. CmdType /\ CutInv(L) /\ IsWord(L, k)
    BY <1>1, <2>1, <2>2 DEF CmdInv, ParseInv, CutInv
  <2> QED
    BY <2>3, WordRead
<1>2. CmdInv => NumbersExact
  BY <1>1, NumberRead, Zenon DEF NumbersExact
<1> QED
  BY <1>2, CmdInvariant, PTL

=============================================================================
