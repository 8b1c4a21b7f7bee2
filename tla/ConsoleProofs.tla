---------------------------- MODULE ConsoleProofs ----------------------------
(***************************************************************************)
(* Proofs about the debug output: the serial port implements a stream of   *)
(* characters, delivers what it is called with, every sink is served, and  *)
(* the conversions print numerals, for every set of messages and sinks,    *)
(* any size of the table, and queues, words and users of any kind.         *)
(***************************************************************************)
EXTENDS Console, FiniteSetTheorems, SequenceTheorems, WellFoundedInduction, TLAPS

Bytes == Char \cup {CR, LF}

(* What is on the line or on its way to it.                                *)
Out == line \o shift \o fifo

SerialType ==
    /\ initialized \in BOOLEAN /\ loop \in BOOLEAN
    /\ drv \in {"idle", "config", "loop", "probe", "test", "send", "read"}
    /\ call \in {"init", "put", "get"}
    /\ todo \in Seq(Bytes)
    /\ fifo \in Seq(Bytes \cup Noise) /\ shift \in Seq(Bytes \cup Noise) /\ Len(shift) <= 1
    /\ rx \in Seq(Bytes \cup Noise) /\ line \in Seq(Bytes \cup Noise)

(* The port before it is open.  Configure has emptied the queues; from     *)
(* then on there is at most the byte in the shift register, and in the     *)
(* test the test byte, and they come back behind what was typed before the *)
(* loopback mode was entered.                                              *)
ClosedInv ==
    ~initialized =>
        /\ drv \notin {"send", "read"}
        /\ line = <<>> /\ got = Zero
        /\ fifo \in Seq(Noise) /\ shift \in Seq(Noise)
        /\ drv \in {"loop", "probe"} => fifo = <<>>
        /\ drv \in {"probe", "test"} => loop
        /\ drv \in {"loop", "probe", "test"} =>
              \/ rx # <<>> /\ Head(rx) \notin Noise
              \/ /\ rx \in Seq(Noise) /\ (~loop => rx = <<>>)
                 /\ Len(rx) + Len(shift) + Len(fifo) <= IF drv = "test" THEN 2 ELSE 1

OpenInv == initialized => ~loop /\ drv \in {"idle", "send", "read"}

(* What dbg_serial_putc has still to send: all of its character, or the    *)
(* line feed behind its carriage return.                                   *)
TodoInv ==
    /\ \/ todo = <<>>
       \/ \E c \in Bytes : todo = Expand(c)
       \/ initialized /\ todo = <<LF>> /\ Out # <<>> /\ Out[Len(Out)] = CR
    /\ (todo # <<>>) <=> (drv # "idle" /\ call = "put")
    /\ drv = "send" => call = "put"
    /\ drv = "read" => call = "get"

PortInv == SerialType /\ ClosedInv /\ OpenInv /\ TodoInv

(* The port while it is closed owes what its last call was about, then     *)
(* what it was called with since it opened.                                *)
SentInv ==
    /\ sent \in Seq(Bytes)
    /\ pc = "boot" => sent = <<>>
    /\ pc \in {"boot", "register"} => fmt = <<>> /\ text = <<>>
    /\ ~initialized /\ drv # "idle" => todo = Crlf(sent)
    /\ Delivered

(* The format still to be printed is the rest of a message's, and the      *)
(* parameters are those of the rest.                                       *)
FormatInv ==
    fmt # <<>> =>
        \E m \in Messages : \E a \in 0 .. Len(m.fmt) - 1 :
            /\ fmt = SubSeq(m.fmt, a + 1, Len(m.fmt))
            /\ params = SubSeq(m.params, Taken(m.fmt, a) + 1, Len(m.params))

Buffer == [Index -> {0} \cup Ascii]

TextInv == text \in Seq(Ascii) /\ i64 \in Buffer

(* A store has hit the table of sinks.                                     *)
Struck == wild /\ before = "sinks"

TableInv ==
    /\ slot \in 1 .. NSlots + 1
    /\ ~Struck =>
          /\ sinks \in [Slots -> Sink \cup {NULL}]
          /\ owed \in [Sink -> Nat] /\ log \in [Sink -> Seq(Ascii)]
          /\ printed \in Seq([c : Ascii, to : [Sink -> Nat]])
          /\ \A s \in Sink : owed[s] = Cardinality({k \in Slots : sinks[k] = s})

ServedInv ==
    ~Struck =>
        /\ \A s \in Sink \ {"serial"} : log[s] = Due(s)
        /\ \E u \in Seq(Ascii) : Due("serial") = u \o sent

-----------------------------------------------------------------------------
(* Induction on the natural numbers, for a set of them.                    *)
LEMMA NatSetInduction ==
    ASSUME NEW P, 0 \in P, \A n \in Nat : n \in P => n + 1 \in P
    PROVE  Nat \subseteq P
<1> DEFINE T == Nat \ P
           Less == {ss \in Nat \X Nat : ss[1] < ss[2]}
<1> SUFFICES ASSUME T # {}
             PROVE  FALSE
  OBVIOUS
<1>1. OpToRel(<, Nat) = Less
  BY Zenon DEF OpToRel
<1>2. \E x \in T : \A y \in T : ~ (<<y, x>> \in Less)
  BY <1>1, WFMin, NatLessThanWellFounded, Zenon
<1>3. PICK x \in T : \A y \in T : ~ (<<y, x>> \in Less)
  BY <1>2, Zenon
<1>4. x \in Nat /\ x # 0 /\ x - 1 \in Nat /\ x - 1 < x
  OBVIOUS
<1>5. <<x - 1, x>> \in Less
  BY <1>4
<1>6. x - 1 \notin T
  BY <1>3, <1>5, Zenon
<1> QED
  BY <1>4, <1>6

(* The recursion inside FlattenSeq.                                        *)
FlatTo(q) == CHOOSE f : f = [j \in 1 .. Len(q) |-> IF j = 1 THEN q[j] ELSE f[j - 1] \o q[j]]

(* It is defined, and yields sequences.                                    *)
LEMMA FlatToDefined ==
    ASSUME NEW S, NEW q \in Seq(Seq(S))
    PROVE  /\ FlatTo(q) = [j \in 1 .. Len(q) |->
                              IF j = 1 THEN q[j] ELSE FlatTo(q)[j - 1] \o q[j]]
           /\ \A j \in 1 .. Len(q) : FlatTo(q)[j] \in Seq(S)
<1> DEFINE N == Len(q)
           R(g, m) == g = [j \in 1 .. m |-> IF j = 1 THEN q[j] ELSE g[j - 1] \o q[j]]
           D(m) == \E g : R(g, m)
           P == {m \in Nat : m <= N => D(m)}
           Q == {m \in Nat : m + 1 <= N => FlatTo(q)[m + 1] \in Seq(S)}
<1>1. N \in Nat /\ DOMAIN q = 1 .. N /\ \A j \in 1 .. N : q[j] \in Seq(S)
  OBVIOUS
<1>2. 0 \in P
  <2> DEFINE e == [j \in 1 .. 0 |-> {}]
  <2>1. \A j \in 1 .. 0 : FALSE
    OBVIOUS
  <2>2. R(e, 0)
    BY <2>1, Zenon
  <2>3. D(0)
    BY <2>2, Zenon
  <2> HIDE DEF D
  <2> QED
    BY <2>3
<1>3. ASSUME NEW m \in Nat, m \in P
      PROVE  m + 1 \in P
  <2> SUFFICES ASSUME m + 1 <= N
               PROVE  D(m + 1)
    <3> HIDE DEF D
    <3> QED
      OBVIOUS
  <2>0. D(m)
    <3> HIDE DEF D
    <3> QED
      BY <1>1, <1>3
  <2>1. PICK g : R(g, m)
    BY <2>0, Zenon
  <2> DEFINE h == [j \in 1 .. m + 1 |->
                     IF j = m + 1 THEN IF m = 0 THEN q[1] ELSE g[m] \o q[m + 1] ELSE g[j]]
  <2>2. R(h, m + 1)
    <3>1. ASSUME NEW j \in 1 .. m + 1
          PROVE  h[j] = IF j = 1 THEN q[j] ELSE h[j - 1] \o q[j]
      <4>1. CASE j = m + 1 /\ m = 0
        BY <4>1
      <4>2. CASE j = m + 1 /\ m # 0
        <5>1. h[j] = g[m] \o q[m + 1]
          BY <4>2
        <5>2. j - 1 = m /\ h[m] = g[m] /\ j # 1
          BY <4>2
        <5> QED
          BY <4>2, <5>1, <5>2
      <4>3. CASE j # m + 1
        <5>1. j \in 1 .. m /\ h[j] = g[j]
          BY <4>3
        <5>2. j # 1 => j - 1 \in 1 .. m /\ h[j - 1] = g[j - 1]
          BY <5>1
        <5>3. g[j] = IF j = 1 THEN q[j] ELSE g[j - 1] \o q[j]
          BY <2>1, <5>1
        <5> QED
          BY <5>1, <5>2, <5>3
      <4> QED
        BY <4>1, <4>2, <4>3
    <3> QED
      BY <3>1
  <2> QED
    BY <2>2, Zenon
<1>4. N \in P
  <2> HIDE DEF P
  <2> QED
    BY <1>1, <1>2, <1>3, NatSetInduction
<1>5. D(N)
  <2> HIDE DEF D
  <2> QED
    BY <1>1, <1>4
<1>6. R(FlatTo(q), N)
  BY <1>5, Zenon DEF FlatTo
<1>7. 0 \in Q
  <2> SUFFICES ASSUME 1 <= N
               PROVE  FlatTo(q)[1] \in Seq(S)
    OBVIOUS
  <2>1. 1 \in 1 .. N /\ FlatTo(q)[1] = IF 1 = 1 THEN q[1] ELSE FlatTo(q)[1 - 1] \o q[1]
    BY <1>1, <1>6
  <2> QED
    BY <1>1, <2>1
<1>8. ASSUME NEW m \in Nat, m \in Q
      PROVE  m + 1 \in Q
  <2> SUFFICES ASSUME m + 2 <= N
               PROVE  FlatTo(q)[m + 2] \in Seq(S)
    OBVIOUS
  <2>1. FlatTo(q)[m + 1] \in Seq(S)
    BY <1>1, <1>8
  <2>2. m + 2 \in 1 .. N /\ m + 2 # 1 /\ (m + 2) - 1 = m + 1
    BY <1>1
  <2>3. FlatTo(q)[m + 2] = FlatTo(q)[m + 1] \o q[m + 2]
    <3> DEFINE E(j) == FlatTo(q)[j] = FlatTo(q)[j - 1] \o q[j]
    <3>1. \A j \in 1 .. N : j # 1 => E(j)
      BY <1>6, Zenon
    <3>2. E(m + 2)
      <4> HIDE DEF E
      <4> QED
        BY <2>2, <3>1
    <3> QED
      BY <2>2, <3>2, Zenon
  <2>4. q[m + 2] \in Seq(S)
    BY <1>1, <2>2
  <2> QED
    BY <2>1, <2>3, <2>4
<1>9. \A j \in 1 .. N : FlatTo(q)[j] \in Seq(S)
  <2>1. Nat \subseteq Q
    <3> HIDE DEF Q
    <3> QED
      BY <1>7, <1>8, NatSetInduction
  <2>2. ASSUME NEW j \in 1 .. N
        PROVE  FlatTo(q)[j] \in Seq(S)
    <3>1. j - 1 \in Nat /\ (j - 1) + 1 = j /\ j <= N
      BY <1>1
    <3>2. j - 1 \in Q
      BY <2>1, <3>1
    <3> QED
      BY <3>1, <3>2
  <2> QED
    BY <2>2
<1> QED
  BY <1>6, <1>9

(* The whole is flat, and what is appended comes last.                     *)
LEMMA FlattenAppend ==
    ASSUME NEW S, NEW q \in Seq(Seq(S)), NEW e \in Seq(S)
    PROVE  /\ FlattenSeq(q) \in Seq(S)
           /\ FlattenSeq(Append(q, e)) = FlattenSeq(q) \o e
<1> DEFINE r == Append(q, e)
           N == Len(q)
           F == FlatTo(q)
           G == FlatTo(r)
<1>1. /\ N \in Nat /\ r \in Seq(Seq(S)) /\ Len(r) = N + 1 /\ r[N + 1] = e
      /\ \A j \in 1 .. N : r[j] = q[j]
  OBVIOUS
<1>2. /\ \A j \in 1 .. N : F[j] \in Seq(S)
      /\ \A j \in 1 .. N : F[j] = IF j = 1 THEN q[j] ELSE F[j - 1] \o q[j]
  <2>1. F = [j \in 1 .. N |-> IF j = 1 THEN q[j] ELSE F[j - 1] \o q[j]]
    BY FlatToDefined, Zenon
  <2>2. \A j \in 1 .. N : F[j] \in Seq(S)
    BY FlatToDefined, Zenon
  <2> HIDE DEF F, N
  <2>3. \A j \in 1 .. N : F[j] = IF j = 1 THEN q[j] ELSE F[j - 1] \o q[j]
    BY <2>1, Zenon
  <2> QED
    BY <2>2, <2>3, Zenon
<1>3. \A j \in 1 .. N + 1 : G[j] = IF j = 1 THEN r[j] ELSE G[j - 1] \o r[j]
  <2>1. G = [j \in 1 .. Len(r) |-> IF j = 1 THEN r[j] ELSE G[j - 1] \o r[j]]
    BY <1>1, FlatToDefined, Zenon
  <2> HIDE DEF G, r, N
  <2>2. \A j \in 1 .. Len(r) : G[j] = IF j = 1 THEN r[j] ELSE G[j - 1] \o r[j]
    BY <2>1, Zenon
  <2> QED
    BY <1>1, <2>2, Zenon
<1>4. FlattenSeq(q) = IF N = 0 THEN q ELSE F[N]
  BY DEF FlattenSeq, FlatTo
<1>5. FlattenSeq(r) = G[N + 1]
  <2>1. FlattenSeq(r) = IF Len(r) = 0 THEN r ELSE G[Len(r)]
    BY DEF FlattenSeq, FlatTo
  <2> QED
    BY <1>1, <2>1
<1> HIDE DEF r, F, G
<1> DEFINE P == {m \in Nat : m + 1 <= N => G[m + 1] = F[m + 1]}
<1>6. 0 \in P
  <2> SUFFICES ASSUME 1 <= N
               PROVE  G[1] = F[1]
    OBVIOUS
  <2>1. 1 \in 1 .. N /\ 1 \in 1 .. N + 1
    BY <1>1
  <2> QED
    BY <1>1, <1>2, <1>3, <2>1, Zenon
<1>7. ASSUME NEW m \in Nat, m \in P
      PROVE  m + 1 \in P
  <2> SUFFICES ASSUME m + 2 <= N
               PROVE  G[m + 2] = F[m + 2]
    OBVIOUS
  <2>1. /\ m + 2 \in 1 .. N /\ m + 2 \in 1 .. N + 1 /\ m + 2 # 1 /\ (m + 2) - 1 = m + 1
    BY <1>1
  <2>2. G[m + 1] = F[m + 1]
    BY <1>1, <1>7
  <2>3. F[m + 2] = F[(m + 2) - 1] \o q[m + 2]
    BY <1>2, <2>1, Zenon
  <2>4. G[m + 2] = G[(m + 2) - 1] \o r[m + 2]
    BY <1>3, <2>1, Zenon
  <2>5. r[m + 2] = q[m + 2]
    BY <1>1, <2>1, Zenon
  <2> QED
    BY <2>1, <2>2, <2>3, <2>4, <2>5, Zenon
<1>8. Nat \subseteq P
  <2> HIDE DEF P
  <2> QED
    BY <1>6, <1>7, NatSetInduction
<1>9. CASE N = 0
  <2>1. G[1] = r[1] /\ r[1] = e
    <3>1. 1 \in 1 .. N + 1 /\ N + 1 = 1
      BY <1>9
    <3>2. G[1] = r[1]
      BY <1>3, <3>1, Zenon
    <3> QED
      BY <1>1, <3>1, <3>2
  <2>2. q = <<>> /\ FlattenSeq(q) = <<>>
    BY <1>4, <1>9 DEF N
  <2>3. <<>> \in Seq(S) /\ <<>> \o e = e
    OBVIOUS
  <2>4. FlattenSeq(r) = e
    BY <1>5, <1>9, <2>1
  <2> QED
    BY <2>2, <2>3, <2>4, Zenon DEF r
<1>10. CASE N # 0
  <2>1. /\ N \in 1 .. N /\ N + 1 \in 1 .. N + 1 /\ N + 1 # 1 /\ (N + 1) - 1 = N
        /\ N - 1 \in Nat /\ (N - 1) + 1 = N /\ N <= N
    BY <1>1, <1>10
  <2>2. G[N] = F[N]
    <3>1. N - 1 \in P
      BY <1>8, <2>1
    <3> QED
      BY <2>1, <3>1
  <2>3. G[N + 1] = G[(N + 1) - 1] \o r[N + 1]
    BY <1>3, <2>1, Zenon
  <2>4. F[N] \in Seq(S) /\ FlattenSeq(q) = F[N]
    BY <1>2, <1>4, <1>10, <2>1, Zenon
  <2> QED
    BY <1>1, <1>5, <2>1, <2>2, <2>3, <2>4, Zenon DEF r
<1> QED
  BY <1>9, <1>10

-----------------------------------------------------------------------------
(* The recursion of Pow10 and Pow16.                                       *)
PowTo(b, n) == CHOOSE f : f = [k \in 0 .. n |-> IF k = 0 THEN 1 ELSE b * f[k - 1]]

(* A power is a number, and not 0.                                         *)
LEMMA PowToPositive ==
    ASSUME NEW b \in Nat \ {0}, NEW N \in Nat
    PROVE  /\ \A k \in 0 .. N : PowTo(b, N)[k] \in Nat \ {0}
           /\ PowTo(b, N)[0] = 1 /\ \A k \in 1 .. N : PowTo(b, N)[k] = b * PowTo(b, N)[k - 1]
<1> DEFINE R(g, m) == g = [k \in 0 .. m |-> IF k = 0 THEN 1 ELSE b * g[k - 1]]
           D(m) == \E g : R(g, m)
           P == {m \in Nat : D(m)}
           F == PowTo(b, N)
           Q == {m \in Nat : m <= N => F[m] \in Nat \ {0}}
<1>1. 0 \in P
  <2>1. R([k \in 0 .. 0 |-> 1], 0)
    OBVIOUS
  <2>2. D(0)
    BY <2>1, Zenon
  <2> HIDE DEF D
  <2> QED
    BY <2>2
<1>2. ASSUME NEW m \in Nat, m \in P
      PROVE  m + 1 \in P
  <2>1. D(m)
    BY <1>2, Zenon
  <2>2. PICK g : R(g, m)
    BY <2>1, Zenon
  <2>3. R([k \in 0 .. m + 1 |-> IF k = m + 1 THEN b * g[m] ELSE g[k]], m + 1)
    BY <2>2
  <2>4. D(m + 1)
    BY <2>3, Zenon
  <2> HIDE DEF D
  <2> QED
    BY <2>4
<1>3. D(N)
  <2>1. Nat \subseteq P
    <3> HIDE DEF P
    <3> QED
      BY <1>1, <1>2, NatSetInduction
  <2> HIDE DEF D
  <2> QED
    BY <2>1
<1>4. R(F, N)
  BY <1>3, Zenon DEF PowTo
<1> HIDE DEF F
<1>5. F[0] = 1 /\ \A k \in 1 .. N : F[k] = b * F[k - 1]
  BY <1>4
<1>6. 0 \in Q
  BY <1>5
<1>7. ASSUME NEW m \in Nat, m \in Q
      PROVE  m + 1 \in Q
  <2> SUFFICES ASSUME m + 1 <= N
               PROVE  F[m + 1] \in Nat \ {0}
    OBVIOUS
  <2>1. m + 1 \in 1 .. N /\ (m + 1) - 1 = m /\ m <= N
    OBVIOUS
  <2>2. F[m] \in Nat \ {0}
    BY <1>7, <2>1
  <2>3. F[m + 1] = b * F[m]
    BY <1>5, <2>1
  <2>4. \A x \in Nat \ {0} : b * x \in Nat \ {0}
    OBVIOUS
  <2> QED
    BY <2>2, <2>3, <2>4
<1>8. Nat \subseteq Q
  <2> HIDE DEF Q
  <2> QED
    BY <1>6, <1>7, NatSetInduction
<1>9. \A k \in 0 .. N : F[k] \in Nat \ {0}
  BY <1>8
<1> QED
  BY <1>5, <1>9 DEF F

(* The powers of the conversions.                                          *)
LEMMA PowFacts ==
    /\ MaxLen \in Nat /\ LongDigits \in Nat \ {0}
    /\ \A k \in 0 .. MaxLen : Pow10[k] \in Nat \ {0}
    /\ \A k \in 0 .. LongDigits : Pow16[k] \in Nat \ {0}
    /\ Pow10[0] = 1 /\ \A k \in 1 .. MaxLen : Pow10[k] = 10 * Pow10[k - 1]
    /\ Pow16[0] = 1 /\ \A k \in 1 .. LongDigits : Pow16[k] = 16 * Pow16[k - 1]
<1>1. MaxLen \in Nat /\ LongDigits \in Nat \ {0}
  BY WidthAssumption DEF MaxLen
<1>2. Pow10 = PowTo(10, MaxLen)
  BY Zenon DEF Pow10, PowTo
<1>3. Pow16 = PowTo(16, LongDigits)
  BY Zenon DEF Pow16, PowTo
<1>4. 10 \in Nat \ {0} /\ 16 \in Nat \ {0} /\ LongDigits \in Nat
  BY <1>1
<1>5. /\ \A k \in 0 .. MaxLen : PowTo(10, MaxLen)[k] \in Nat \ {0}
      /\ PowTo(10, MaxLen)[0] = 1
      /\ \A k \in 1 .. MaxLen : PowTo(10, MaxLen)[k] = 10 * PowTo(10, MaxLen)[k - 1]
  BY <1>1, <1>4, PowToPositive
<1>6. /\ \A k \in 0 .. LongDigits : PowTo(16, LongDigits)[k] \in Nat \ {0}
      /\ PowTo(16, LongDigits)[0] = 1
      /\ \A k \in 1 .. LongDigits : PowTo(16, LongDigits)[k] = 16 * PowTo(16, LongDigits)[k - 1]
  BY <1>4, PowToPositive
<1> QED
  BY <1>1, <1>2, <1>3, <1>5, <1>6, Zenon

(* The number of digits fits the buffers.                                  *)
LEMMA LengthFits ==
    ASSUME NEW v
    PROVE  length(v) \in 0 .. MaxLen
<1> DEFINE A == {k \in 1 .. MaxLen : v \div Pow10[k] > 0}
<1>1. MaxLen \in Nat
  BY PowFacts
<1>2. IsFiniteSet(1 .. MaxLen) /\ Cardinality(1 .. MaxLen) = MaxLen
  <2>1. IsFiniteSet(1 .. MaxLen) /\ Cardinality(1 .. MaxLen)
                = IF 1 > MaxLen THEN 0 ELSE MaxLen - 1 + 1
    BY <1>1, FS_Interval
  <2> QED
    BY <1>1, <2>1
<1>3. IsFiniteSet(A) /\ Cardinality(A) <= Cardinality(1 .. MaxLen)
  <2>1. A \subseteq 1 .. MaxLen
    OBVIOUS
  <2> QED
    BY <1>2, <2>1, FS_Subset
<1>4. Cardinality(A) \in Nat
  BY <1>3, FS_CardinalityType
<1>5. length(v) = Cardinality(A)
  BY DEF length
<1> QED
  BY <1>1, <1>2, <1>3, <1>4, <1>5

(* A digit of a number is one.                                             *)
LEMMA DigitFits ==
    ASSUME NEW v \in Nat, NEW k \in 0 .. MaxLen
    PROVE  digit(v, k) \in 0 .. 9
<1>1. Pow10[k] \in Nat \ {0}
  BY PowFacts
<1>2. v \div Pow10[k] \in Nat
  BY <1>1
<1> QED
  BY <1>2 DEF digit

(* A set of natural numbers has a least one.                               *)
LEMMA Least ==
    ASSUME NEW T \in SUBSET Nat, T # {}
    PROVE  \E x \in T : \A y \in T : x <= y
<1> SUFFICES ASSUME ~ \E x \in T : \A y \in T : x <= y
             PROVE  FALSE
  OBVIOUS
<1> DEFINE P == {n \in Nat : \A y \in T : n <= y}
<1>1. 0 \in P
  OBVIOUS
<1>2. ASSUME NEW n \in Nat, n \in P
      PROVE  n + 1 \in P
  <2>1. n \notin T
    BY <1>2
  <2>2. \A y \in T : y # n /\ n <= y
    BY <1>2, <2>1
  <2> QED
    BY <2>2
<1>3. Nat \subseteq P
  <2> HIDE DEF P
  <2> QED
    BY <1>1, <1>2, NatSetInduction
<1>4. PICK t \in T : t \in Nat
  OBVIOUS
<1>5. t + 1 \in P
  BY <1>3, <1>4
<1> QED
  BY <1>4, <1>5

(* A buffer that is ended holds a string.                                  *)
LEMMA StrText ==
    ASSUME NEW b \in Buffer, NEW z \in 0 .. MaxLen + 2, b[z] = 0
    PROVE  Str(b) \in Seq(Ascii)
<1> DEFINE T == {k \in 0 .. MaxLen + 2 : b[k] = 0}
           E(n) == b[n] = 0 /\ \A k \in 0 .. n - 1 : b[k] # 0
           n == CHOOSE n \in 0 .. MaxLen + 2 : E(n)
<1>0. MaxLen \in Nat
  BY PowFacts
<1>1. PICK x \in T : \A y \in T : x <= y
  <2>1. T \in SUBSET Nat /\ z \in T
    BY <1>0
  <2> QED
    BY <2>1, Least
<1>2. x \in 0 .. MaxLen + 2 /\ E(x)
  <2>1. ASSUME NEW k \in 0 .. x - 1
        PROVE  b[k] # 0
    <3>1. k \in 0 .. MaxLen + 2 /\ ~(x <= k)
      BY <1>0
    <3> QED
      BY <1>1, <3>1
  <2> QED
    BY <2>1
<1>3. n \in 0 .. MaxLen + 2 /\ E(n)
  <2> HIDE DEF E
  <2> QED
    BY <1>2
<1>4. Str(b) = [k \in 1 .. n |-> b[k - 1]]
  BY DEF Str
<1> HIDE DEF n
<1>5. ASSUME NEW k \in 1 .. n
      PROVE  b[k - 1] \in Ascii
  <2>1. k - 1 \in 0 .. n - 1 /\ k - 1 \in Index
    BY <1>0, <1>3 DEF Index
  <2>2. b[k - 1] # 0 /\ b[k - 1] \in {0} \cup Ascii
    BY <1>3, <2>1 DEF Buffer
  <2> QED
    BY <2>2
<1>6. n \in Nat
  BY <1>0, <1>3
<1> QED
  BY <1>4, <1>5, <1>6, IsASeq

(* The buffer of zeros, and the stores of u64_to_str in it.                *)
LEMMA U64Text ==
    ASSUME NEW v \in Nat
    PROVE  Str(u64_to_str(ZeroBuff, v)) \in Seq(Ascii)
<1> DEFINE L == length(v)
           b == u64_to_str(ZeroBuff, v)
<1>1. L \in 0 .. MaxLen /\ MaxLen \in Nat
  BY LengthFits, PowFacts
<1>2. \A k \in 0 .. L : Zero0 + digit(v, L - k) \in Ascii
  <2>1. ASSUME NEW k \in 0 .. L
        PROVE  Zero0 + digit(v, L - k) \in Ascii
    <3>1. L - k \in 0 .. MaxLen
      BY <1>1
    <3>2. digit(v, L - k) \in 0 .. 9
      BY <3>1, DigitFits
    <3> QED
      BY <3>2 DEF Zero0, Ascii
  <2> QED
    BY <2>1
<1>3. \A k \in Index : ZeroBuff[k] = 0
  BY DEF ZeroBuff
<1>4. Zero0 \in Ascii
  BY DEF Zero0, Ascii
<1>5. b = [k \in Index |->
             CASE k \in 0 .. L    -> Zero0 + digit(v, L - k)
               [] k = L + 1       -> 0
               [] k = -1 /\ L = 0 -> Zero0
               [] OTHER           -> ZeroBuff[k]]
  BY DEF u64_to_str
<1> HIDE DEF L
<1>6. b \in Buffer
  <2> DEFINE c(k) == Zero0 + digit(v, L - k)
  <2>1. \A k \in 0 .. L : c(k) \in Ascii
    BY <1>2
  <2>2. b = [k \in Index |->
             CASE k \in 0 .. L    -> c(k)
               [] k = L + 1       -> 0
               [] k = -1 /\ L = 0 -> Zero0
               [] OTHER           -> ZeroBuff[k]]
    BY <1>5
  <2> HIDE DEF c, b
  <2> QED
    BY <1>3, <1>4, <2>1, <2>2 DEF Buffer
<1>7. L + 1 \in 0 .. MaxLen + 2 /\ L + 1 \in Index /\ L + 1 \notin 0 .. L
  BY <1>1 DEF Index
<1>8. b[L + 1] = 0
  <2> HIDE DEF b
  <2> QED
    BY <1>5, <1>7
<1> QED
  BY <1>6, <1>7, <1>8, StrText

(* The signed value of a word is a number.                                 *)
LEMMA SignedInt ==
    ASSUME NEW p \in Nat, NEW n \in 0 .. LongDigits
    PROVE  Signed(p, n) \in Int
<1>1. Word(n) \in Nat \ {0}
  BY PowFacts DEF Word
<1>2. p % Word(n) \in Int
  BY <1>1
<1> QED
  BY <1>1, <1>2 DEF Signed

(* toI64StrBuff stays a buffer of characters, and is ended.                *)
LEMMA S64Text ==
    ASSUME NEW b \in Buffer, NEW v \in Int
    PROVE  /\ s64_to_str(b, v) \in Buffer
           /\ Str(s64_to_str(b, v)) \in Seq(Ascii)
<1> DEFINE neg == IF v < 0 THEN 1 ELSE 0
           a   == IF v < 0 THEN -v ELSE v
           L   == length(a)
           min == 2 * a = Word(LongDigits) /\ neg = 1
           last == (256 - (a % 10) + Zero0) % 256
           d(k) == Zero0 + digit(a, neg + L - k)
           s == s64_to_str(b, v)
<1>1. L \in 0 .. MaxLen /\ MaxLen \in Nat
  BY LengthFits, PowFacts
<1>2. neg \in {0, 1} /\ a \in Nat
  OBVIOUS
<1>3. s = [k \in Index |->
            CASE k = 0 /\ neg = 1              -> Minus
              [] k = neg + L + 1               -> 0
              [] min /\ k = neg + L            -> last
              [] ~min /\ k \in neg .. neg + L  -> d(k)
              [] OTHER                         -> b[k]]
  BY DEF s64_to_str
<1> HIDE DEF neg, a, L, min, s
<1>4. Minus \in Ascii
  BY DEF Minus, Ascii
<1>5. last \in Ascii
  <2>1. a % 10 \in 0 .. 9
    BY <1>2
  <2>2. \A r \in 0 .. 9 : (256 - r + 48) % 256 \in 1 .. 127
    OBVIOUS
  <2> QED
    BY <2>1, <2>2 DEF Ascii, Zero0
<1>6. \A k \in neg .. neg + L : d(k) \in Ascii
  <2>1. ASSUME NEW k \in neg .. neg + L
        PROVE  d(k) \in Ascii
    <3>1. neg + L - k \in 0 .. MaxLen
      BY <1>1, <1>2
    <3>2. digit(a, neg + L - k) \in 0 .. 9
      BY <1>2, <3>1, DigitFits
    <3> QED
      BY <3>2 DEF Zero0, Ascii
  <2> QED
    BY <2>1
<1>7. \A k \in Index : b[k] \in {0} \cup Ascii
  BY DEF Buffer
<1> HIDE DEF last, d
<1>8. s \in Buffer
  <2>1. ASSUME NEW k \in Index
        PROVE  s[k] \in {0} \cup Ascii
    BY <1>3, <1>4, <1>5, <1>6, <1>7
  <2>2. s = [k \in Index |-> s[k]]
    BY <1>3
  <2> QED
    BY <2>1, <2>2 DEF Buffer
<1>9. neg + L + 1 \in 0 .. MaxLen + 2 /\ neg + L + 1 \in Index /\ neg + L + 1 # 0
  BY <1>1, <1>2 DEF Index
<1>10. s[neg + L + 1] = 0
  <2>1. ASSUME NEW k \in Index, k = neg + L + 1, k # 0
        PROVE  s[k] = 0
    BY <1>1, <1>2, <1>3, <2>1
  <2> QED
    BY <1>9, <2>1
<1> QED
  BY <1>8, <1>9, <1>10, StrText DEF s

(* Hexadecimal digits are characters.                                      *)
LEMMA HexText ==
    ASSUME NEW v \in Nat, NEW n \in 0 .. LongDigits
    PROVE  hstr(v, n) \in Seq(Ascii)
<1> DEFINE h(k) == HexCode((v \div Pow16[n - k]) % 16)
<1>1. LongDigits \in Nat
  BY PowFacts
<1>2. ASSUME NEW k \in 1 .. n
      PROVE  h(k) \in Ascii
  <2>1. n - k \in 0 .. LongDigits
    BY <1>1
  <2>2. Pow16[n - k] \in Nat \ {0}
    BY <2>1, PowFacts
  <2>3. (v \div Pow16[n - k]) % 16 \in 0 .. 15
    BY <2>2
  <2> QED
    BY <2>3 DEF HexCode, Zero0, Ascii
<1>3. hstr(v, n) = [k \in 1 .. n |-> h(k)]
  BY DEF hstr
<1>4. n \in Nat
  BY <1>1
<1> HIDE DEF h
<1> QED
  BY <1>2, <1>3, <1>4, IsASeq

-----------------------------------------------------------------------------
Piece == [kind : Kinds, src : Seq(Ascii) \ {<<>>}]

(* The parameters taken, one piece further.                                *)
LEMMA TakenStep ==
    ASSUME NEW f, NEW a \in Nat
    PROVE  /\ Taken(f, a) \in Nat
           /\ Taken(f, a + 1) = Taken(f, a) + (IF TakesParam(f[a + 1]) THEN 1 ELSE 0)
<1> DEFINE A(n) == {j \in 1 .. n : TakesParam(f[j])}
<1>1. IsFiniteSet(A(a)) /\ Cardinality(A(a)) \in Nat
  <2>1. A(a) \subseteq 1 .. a /\ IsFiniteSet(1 .. a)
    BY FS_Interval
  <2>2. IsFiniteSet(A(a))
    BY <2>1, FS_Subset
  <2> QED
    BY <2>2, FS_CardinalityType
<1>2. a + 1 \notin A(a)
  OBVIOUS
<1>3. CASE TakesParam(f[a + 1])
  <2>1. A(a + 1) = A(a) \cup {a + 1}
    BY <1>3
  <2>2. Cardinality(A(a) \cup {a + 1}) = Cardinality(A(a)) + 1
    BY <1>1, <1>2, FS_AddElement
  <2> QED
    BY <1>1, <1>3, <2>1, <2>2 DEF Taken
<1>4. CASE ~TakesParam(f[a + 1])
  <2>1. A(a + 1) = A(a)
    BY <1>4
  <2> QED
    BY <1>1, <1>4, <2>1 DEF Taken
<1> QED
  BY <1>3, <1>4

(* The next piece, its parameter, and what is left behind them.            *)
LEMMA FormatStep ==
    ASSUME FormatInv, fmt # <<>>
    PROVE  /\ fmt \in Seq(Piece) /\ Head(fmt) \in Piece
           /\ TakesParam(Head(fmt)) =>
                 Head(params) \in Seq(Nat) /\ Suits(Head(fmt).kind, Head(params))
           /\ Tail(fmt) # <<>> =>
                 \E m \in Messages : \E a \in 0 .. Len(m.fmt) - 1 :
                    /\ Tail(fmt) = SubSeq(m.fmt, a + 1, Len(m.fmt))
                    /\ (IF TakesParam(Head(fmt)) THEN Tail(params) ELSE params)
                          = SubSeq(m.params, Taken(m.fmt, a) + 1, Len(m.params))
<1>0. PICK m \in Messages : \E a \in 0 .. Len(m.fmt) - 1 :
            /\ fmt = SubSeq(m.fmt, a + 1, Len(m.fmt))
            /\ params = SubSeq(m.params, Taken(m.fmt, a) + 1, Len(m.params))
  BY DEF FormatInv
<1>1. PICK a \in 0 .. Len(m.fmt) - 1 :
            /\ fmt = SubSeq(m.fmt, a + 1, Len(m.fmt))
            /\ params = SubSeq(m.params, Taken(m.fmt, a) + 1, Len(m.params))
  BY <1>0
<1> DEFINE n == Len(m.fmt)
           t == Taken(m.fmt, a)
           k == Len(m.params)
<1>2. m.fmt \in Seq(Piece) /\ m.params \in Seq(Seq(Nat))
  BY MessagesAssumption DEF Piece
<1>3. n \in Nat /\ k \in Nat /\ a \in Nat /\ a + 1 \in 1 .. n /\ n \in a + 1 .. n
  BY <1>2
<1>4. a + 1 \in DOMAIN m.fmt /\ m.fmt[a + 1] \in Piece
  BY <1>2, <1>3
<1>5. Head(fmt) = m.fmt[a + 1] /\ Tail(fmt) = SubSeq(m.fmt, (a + 1) + 1, n)
  BY <1>1, <1>2, <1>3, HeadTailOfSubSeq
<1>6. fmt \in Seq(Piece)
  <2>1. \A j \in a + 1 .. n : m.fmt[j] \in Piece
    BY <1>2, <1>3
  <2> QED
    BY <1>1, <1>3, <2>1, SubSeqProperties
<1>7. t \in Nat /\ Taken(m.fmt, a + 1) = t + (IF TakesParam(m.fmt[a + 1]) THEN 1 ELSE 0)
  BY <1>3, TakenStep
<1>8. ASSUME TakesParam(Head(fmt))
      PROVE  /\ Taken(m.fmt, a + 1) = t + 1
             /\ Head(params) \in Seq(Nat) /\ Suits(Head(fmt).kind, Head(params))
             /\ Tail(params) = SubSeq(m.params, (t + 1) + 1, k)
  <2>1. Taken(m.fmt, a + 1) = t + 1
    BY <1>5, <1>7, <1>8
  <2>2. t + 1 <= k /\ Suits(m.fmt[a + 1].kind, m.params[t + 1])
    BY <1>4, <1>5, <1>8, <2>1, MessagesAssumption
  <2>3. t + 1 \in 1 .. k /\ k \in t + 1 .. k
    BY <1>3, <1>7, <2>2
  <2>4. Head(params) = m.params[t + 1] /\ Tail(params) = SubSeq(m.params, (t + 1) + 1, k)
    BY <1>1, <1>2, <2>3, HeadTailOfSubSeq
  <2>5. m.params[t + 1] \in Seq(Nat)
    BY <1>2, <2>3
  <2> QED
    BY <1>5, <2>1, <2>2, <2>4, <2>5
<1>9. ASSUME Tail(fmt) # <<>>
      PROVE  a + 1 \in 0 .. n - 1
  <2>1. CASE a + 1 = n
    <3>1. n < (a + 1) + 1 /\ (a + 1) + 1 \in Int /\ n \in Int
      BY <1>3, <2>1
    <3>2. SubSeq(m.fmt, (a + 1) + 1, n) = <<>>
      BY <3>1, SubSeqEmpty
    <3> QED
      BY <1>5, <1>9, <3>2
  <2>2. CASE a + 1 # n
    BY <1>3, <2>2
  <2> QED
    BY <2>1, <2>2
<1>10. ~TakesParam(Head(fmt)) => Taken(m.fmt, a + 1) = t
  BY <1>5, <1>7
<1> HIDE DEF n, k, t
<1>11. Tail(fmt) # <<>> =>
          /\ a + 1 \in 0 .. Len(m.fmt) - 1
          /\ Tail(fmt) = SubSeq(m.fmt, (a + 1) + 1, Len(m.fmt))
          /\ (IF TakesParam(Head(fmt)) THEN Tail(params) ELSE params)
                = SubSeq(m.params, Taken(m.fmt, a + 1) + 1, Len(m.params))
  BY <1>1, <1>5, <1>8, <1>9, <1>10 DEF n, k, t
<1> QED
  BY <1>4, <1>5, <1>6, <1>8, <1>11

(* Raw prints characters.                                                  *)
LEMMA RawText ==
    ASSUME NEW f \in Seq(Piece)
    PROVE  Raw(f) \in Seq(Ascii)
<1> DEFINE q == [k \in DOMAIN f |-> f[k].src]
<1>1. \A r \in Piece : r.src \in Seq(Ascii)
  BY DEF Piece
<1>2. DOMAIN f = 1 .. Len(f) /\ Len(f) \in Nat /\ \A k \in 1 .. Len(f) : f[k] \in Piece
  OBVIOUS
<1>3. q \in Seq(Seq(Ascii))
  BY <1>1, <1>2, IsASeq
<1>4. <<>> \in Seq(Ascii)
  OBVIOUS
<1>5. FlattenSeq(q) \in Seq(Ascii)
  BY <1>3, <1>4, FlattenAppend
<1> QED
  BY <1>5 DEF Raw

(* A parameter that is a word is the only one of its sequence.             *)
LEMMA Single ==
    ASSUME NEW S, NEW s \in Seq(S), Len(s) = 1
    PROVE  Head(s) \in S
<1>1. s # <<>>
  OBVIOUS
<1> QED
  BY <1>1, HeadTailProperties

(* What a piece of the format prints are characters, and the static buffer *)
(* of its conversion keeps holding such.                                   *)
LEMMA ConvertText ==
    ASSUME NEW piece \in Piece, NEW s \in Seq(Nat), i64 \in Buffer, fmt \in Seq(Piece),
           TakesParam(piece) => Suits(piece.kind, s)
    PROVE  /\ Convert(piece, s) \in Seq(Ascii)
           /\ piece.kind = "d" => s64_to_str(i64, Signed(Head(s), IntDigits)) \in Buffer
           /\ piece.kind = "ld" => s64_to_str(i64, Signed(Head(s), LongDigits)) \in Buffer
<1> DEFINE p == Head(s)
           Numeric == {"d", "ld", "u", "lu", "b", "x", "lx"}
<1>1. piece.kind \in Kinds /\ piece.src \in Seq(Ascii) /\ piece.src # <<>>
  BY DEF Piece
<1>2. piece.kind \in {"c", "s"} => s \in Seq(Ascii)
  BY DEF TakesParam, Suits
<1>3. piece.kind \in Numeric => p \in Nat
  <2> SUFFICES ASSUME piece.kind \in Numeric
               PROVE  p \in Nat
    OBVIOUS
  <2>1. Len(s) = 1
    BY DEF TakesParam, Suits
  <2> QED
    BY <2>1, Single
<1>4. /\ LongDigits \in 0 .. LongDigits /\ IntDigits \in 0 .. LongDigits
      /\ ByteDigits \in 0 .. LongDigits
  BY WidthAssumption
<1>5. Word(IntDigits) \in Nat \ {0} /\ Word(ByteDigits) \in Nat \ {0}
  BY <1>4, PowFacts DEF Word
<1>6. ASSUME NEW w \in Nat \ {0}, NEW v \in Nat
      PROVE  v % w \in Nat
  OBVIOUS
<1>7. CASE piece.kind = "text"
  BY <1>1, <1>7 DEF Convert
<1>8. CASE piece.kind = "%%"
  BY <1>1, <1>8 DEF Convert
<1>9. CASE piece.kind = "c"
  BY <1>2, <1>9 DEF Convert
<1>10. CASE piece.kind = "s"
  BY <1>2, <1>10 DEF Convert
<1>11. CASE piece.kind = "d"
  <2>1. Signed(p, IntDigits) \in Int
    BY <1>3, <1>4, <1>11, SignedInt
  <2>2. Convert(piece, s) = Str(s64_to_str(i64, Signed(p, IntDigits)))
    BY <1>11 DEF Convert
  <2> QED
    BY <1>11, <2>1, <2>2, S64Text
<1>12. CASE piece.kind = "ld"
  <2>1. Signed(p, LongDigits) \in Int
    BY <1>3, <1>4, <1>12, SignedInt
  <2>2. Convert(piece, s) = Str(s64_to_str(i64, Signed(p, LongDigits)))
    BY <1>12 DEF Convert
  <2> QED
    BY <1>12, <2>1, <2>2, S64Text
<1>13. CASE piece.kind = "u"
  <2>1. p % Word(IntDigits) \in Nat
    BY <1>3, <1>5, <1>6, <1>13
  <2>2. Convert(piece, s) = Str(u64_to_str(ZeroBuff, p % Word(IntDigits)))
    BY <1>13 DEF Convert
  <2> QED
    BY <1>13, <2>1, <2>2, U64Text
<1>14. CASE piece.kind = "lu"
  <2>1. Convert(piece, s) = Str(u64_to_str(ZeroBuff, p))
    BY <1>14 DEF Convert
  <2> QED
    BY <1>3, <1>14, <2>1, U64Text
<1>15. CASE piece.kind = "b"
  <2>1. p % Word(ByteDigits) \in Nat
    BY <1>3, <1>5, <1>6, <1>15
  <2>2. Convert(piece, s) = hstr(p % Word(ByteDigits), ByteDigits)
    BY <1>15 DEF Convert
  <2> QED
    BY <1>4, <1>15, <2>1, <2>2, HexText
<1>16. CASE piece.kind = "x"
  <2>1. p % Word(IntDigits) \in Nat
    BY <1>3, <1>5, <1>6, <1>16
  <2>2. Convert(piece, s) = hstr(p % Word(IntDigits), IntDigits)
    BY <1>16 DEF Convert
  <2> QED
    BY <1>4, <1>16, <2>1, <2>2, HexText
<1>17. CASE piece.kind = "lx"
  <2>1. Convert(piece, s) = hstr(p, LongDigits)
    BY <1>17 DEF Convert
  <2> QED
    BY <1>3, <1>4, <1>17, <2>1, HexText
<1>18. CASE piece.kind = "unknown"
  BY <1>18, RawText DEF Convert
<1> QED
  BY <1>1, <1>7, <1>8, <1>9, <1>10, <1>11, <1>12, <1>13, <1>14, <1>15, <1>16, <1>17, <1>18
     DEF Kinds

-----------------------------------------------------------------------------
PrintInv == FormatInv /\ TextInv

(* Printing: the text stays one, and the format and its parameters go      *)
(* together.                                                               *)
LEMMA PrintStep ==
    ASSUME PrintInv, [Next]_vars
    PROVE  PrintInv'
<1> USE DEF PrintInv
<1>1. CASE NextPiece
  <2> DEFINE piece == Head(fmt)
             s == IF TakesParam(piece) THEN Head(params) ELSE <<0>>
             p == Head(s)
  <2>1. fmt # <<>> /\ FormatInv
    BY <1>1 DEF NextPiece
  <2>2. /\ text' = Convert(piece, s)
        /\ params' = IF TakesParam(piece) THEN Tail(params) ELSE params
        /\ fmt' = IF piece.kind = "unknown" THEN <<>> ELSE Tail(fmt)
        /\ i64' = CASE piece.kind = "d"  -> s64_to_str(i64, Signed(p, IntDigits))
                    [] piece.kind = "ld" -> s64_to_str(i64, Signed(p, LongDigits))
                    [] OTHER             -> i64
    BY <1>1, Zenon DEF NextPiece
  <2>3. /\ fmt \in Seq(Piece) /\ piece \in Piece /\ s \in Seq(Nat)
        /\ TakesParam(piece) => Suits(piece.kind, s)
    BY <2>1, FormatStep
  <2>4. FormatInv'
    <3>1. fmt' # <<>> => fmt' = Tail(fmt)
      BY <2>2
    <3> HIDE DEF piece
    <3> QED
      BY <2>1, <2>2, <3>1, FormatStep DEF FormatInv, piece
  <2>5. TextInv'
    <3> HIDE DEF piece, s
    <3>1. Convert(piece, s) \in Seq(Ascii)
      BY <2>3, ConvertText DEF TextInv
    <3>2. i64' \in Buffer
      <4>1. CASE piece.kind = "d"
        BY <2>2, <2>3, <4>1, ConvertText DEF TextInv
      <4>2. CASE piece.kind = "ld"
        BY <2>2, <2>3, <4>2, ConvertText DEF TextInv
      <4>3. CASE piece.kind # "d" /\ piece.kind # "ld"
        BY <2>2, <4>3 DEF TextInv
      <4> QED
        BY <4>1, <4>2, <4>3
    <3> QED
      BY <2>2, <3>1, <3>2 DEF TextInv
  <2> QED
    BY <2>4, <2>5
<1>2. CASE CharDone
  BY <1>2 DEF CharDone, FormatInv, TextInv
<1>3. CASE dbg_msg
  <2>1. PICK m \in Messages : fmt' = m.fmt /\ params' = m.params
    BY <1>3 DEF dbg_msg
  <2>2. m.fmt \in Seq(Piece) /\ m.params \in Seq(Seq(Nat))
    BY MessagesAssumption DEF Piece
  <2>3. m.fmt = SubSeq(m.fmt, 1, Len(m.fmt)) /\ m.params = SubSeq(m.params, 1, Len(m.params))
    BY <2>2, SubSeqFull
  <2>4. Taken(m.fmt, 0) = 0
    <3>1. {j \in 1 .. 0 : TakesParam(m.fmt[j])} = {}
      OBVIOUS
    <3> QED
      BY <3>1, FS_EmptySet DEF Taken
  <2>5. fmt' # <<>> => 0 \in 0 .. Len(m.fmt) - 1
    BY <2>1, <2>2
  <2>6. SubSeq(m.fmt, 0 + 1, Len(m.fmt)) = m.fmt
    BY <2>3
  <2>7. SubSeq(m.params, Taken(m.fmt, 0) + 1, Len(m.params)) = m.params
    BY <2>3, <2>4
  <2>8. FormatInv'
    BY <2>1, <2>5, <2>6, <2>7 DEF FormatInv
  <2>9. TextInv'
    BY <1>3 DEF dbg_msg, TextInv
  <2> QED
    BY <2>8, <2>9
<1>4. CASE UNCHANGED <<fmt, params, text, i64>>
  BY <1>4 DEF FormatInv, TextInv
<1>5. ~NextPiece /\ ~CharDone /\ ~dbg_msg => UNCHANGED <<fmt, params, text, i64>>
  BY DEF Next, Kernel, CallSink, Driver, InitPort, RegisterPort, ChangeSinks, ReadKey, Exit,
         Port, User, Stopped, vars, mine, out
<1> QED
  BY <1>1, <1>2, <1>3, <1>4, <1>5

-----------------------------------------------------------------------------
(* The bytes on their way, as a sequence.                                  *)
LEMMA OutSeq ==
    ASSUME SerialType
    PROVE  /\ Out \in Seq(Bytes \cup Noise)
           /\ shift = <<>> \/ \E b \in Bytes \cup Noise : shift = <<b>>
<1>1. Out \in Seq(Bytes \cup Noise)
  BY DEF SerialType, Out
<1>2. shift = <<>> \/ \E b \in Bytes \cup Noise : shift = <<b>>
  <2>1. shift \in Seq(Bytes \cup Noise) /\ Len(shift) <= 1
    BY DEF SerialType
  <2>2. CASE Len(shift) = 0
    BY <2>1, <2>2
  <2>3. CASE Len(shift) = 1
    <3>1. shift[1] \in Bytes \cup Noise
      BY <2>1, <2>3
    <3>2. shift = <<shift[1]>>
      BY <2>1, <2>3, <3>1, SeqEqual
    <3> QED
      BY <3>1, <3>2
  <2>4. Len(shift) = 0 \/ Len(shift) = 1
    <3>1. Len(shift) \in Nat
      BY <2>1, LenProperties
    <3>2. Len(shift) <= 1
      BY <2>1
    <3>3. \A n \in Nat : n <= 1 => n = 0 \/ n = 1
      OBVIOUS
    <3> QED
      BY <3>1, <3>2, <3>3, Zenon
  <2> QED
    BY <2>2, <2>3, <2>4, Zenon
<1> QED
  BY <1>1, <1>2

(* The UART does not change them while the port is open.                   *)
LEMMA LoadOut ==
    ASSUME SerialType, Load
    PROVE  Out' = Out
<1>1. /\ shift = <<>> /\ fifo # <<>> /\ shift' = <<Head(fifo)>> /\ fifo' = Tail(fifo)
      /\ line' = line
  BY DEF Load
<1>2. line \in Seq(Bytes \cup Noise) /\ fifo \in Seq(Bytes \cup Noise)
  BY DEF SerialType
<1>3. fifo = <<Head(fifo)>> \o Tail(fifo) /\ Head(fifo) \in Bytes \cup Noise
      /\ Tail(fifo) \in Seq(Bytes \cup Noise)
  BY <1>1, <1>2
<1>4. line \o <<>> = line
  BY <1>2
<1>5. (line \o <<Head(fifo)>>) \o Tail(fifo) = line \o (<<Head(fifo)>> \o Tail(fifo))
  <2>1. <<Head(fifo)>> \in Seq(Bytes \cup Noise)
    BY <1>3
  <2> QED
    BY <1>2, <1>3, <2>1, ConcatAssociative
<1> QED
  BY <1>1, <1>3, <1>4, <1>5, Zenon DEF Out

(* Nor does it when the byte arrives.                                      *)
LEMMA TransmitOut ==
    ASSUME SerialType, OpenInv, Transmit, initialized
    PROVE  Out' = Out /\ rx' = rx
<1>1. /\ shift' = <<>> /\ line' = line \o shift /\ fifo' = fifo /\ rx' = rx
  BY DEF Transmit, OpenInv
<1>2. /\ line \in Seq(Bytes \cup Noise) /\ shift \in Seq(Bytes \cup Noise)
  BY DEF SerialType
<1>3. (line \o shift) \o <<>> = line \o shift
  BY <1>2
<1> QED
  BY <1>1, <1>3, Zenon DEF Out

(* The port sends its next byte behind all others.                         *)
LEMMA SendOut ==
    ASSUME SerialType, Send, todo # <<>>
    PROVE  Out' = Append(Out, Head(todo))
<1>1. fifo = <<>> /\ fifo' = <<Head(todo)>> /\ line' = line /\ shift' = shift
  BY DEF Send
<1>2. /\ line \o shift \in Seq(Bytes \cup Noise) /\ Head(todo) \in Bytes \cup Noise
  BY DEF SerialType
<1>3. (line \o shift) \o <<>> = line \o shift
  BY <1>2
<1>4. (line \o shift) \o <<Head(todo)>> = Append(line \o shift, Head(todo))
  BY <1>2, AppendIsConcat
<1> QED
  BY <1>1, <1>3, <1>4, Zenon DEF Out

(* Characters are not noise.                                               *)
LEMMA NoNoise ==
    /\ \A c \in Bytes : c \notin Noise
    /\ Key \subseteq Bytes /\ CR \in Bytes /\ LF \in Bytes /\ Ascii \subseteq Bytes
    /\ CR # LF
    /\ \A c \in Bytes : Expand(c) \in Seq(Bytes) /\ Expand(c) # <<>>
BY SerialAssumption, MessagesAssumption DEF Bytes, Expand

(* The receive queue takes another byte or is full.                        *)
LEMMA ReceiveType ==
    ASSUME SerialType, NEW b \in Bytes \cup Noise
    PROVE  /\ Receive(<<b>>) \in Seq(Bytes \cup Noise)
           /\ Len(Receive(<<b>>)) <= Len(rx) + 1
           /\ rx # <<>> => Receive(<<b>>) # <<>> /\ Head(Receive(<<b>>)) = Head(rx)
           /\ rx \in Seq(Noise) /\ b \in Noise => Receive(<<b>>) \in Seq(Noise)
           /\ rx = <<>> => Receive(<<b>>) = <<b>>
<1>1. rx \in Seq(Bytes \cup Noise) /\ RxCap \in Nat \ {0}
  BY SerialAssumption DEF SerialType
<1>2. CASE Len(rx) < RxCap
  <2>1. Receive(<<b>>) = rx \o <<b>>
    BY <1>2 DEF Receive
  <2>2. rx \o <<b>> \in Seq(Bytes \cup Noise) /\ Len(rx \o <<b>>) = Len(rx) + 1
    BY <1>1
  <2>3. rx # <<>> => rx \o <<b>> # <<>> /\ Head(rx \o <<b>>) = Head(rx)
    <3> SUFFICES ASSUME rx # <<>>
                 PROVE  rx \o <<b>> # <<>> /\ Head(rx \o <<b>>) = Head(rx)
      OBVIOUS
    <3>1. rx \o <<b>> = Append(rx, b)
      BY <1>1, AppendIsConcat
    <3>2. Append(rx, b) # <<>> /\ Head(Append(rx, b)) = Head(rx)
      BY <1>1, AppendProperties, HeadTailAppend
    <3> QED
      BY <3>1, <3>2
  <2>4. rx \in Seq(Noise) /\ b \in Noise => rx \o <<b>> \in Seq(Noise)
    OBVIOUS
  <2>5. rx = <<>> => rx \o <<b>> = <<b>>
    OBVIOUS
  <2> QED
    BY <1>1, <2>1, <2>2, <2>3, <2>4, <2>5
<1>3. CASE ~(Len(rx) < RxCap)
  <2>1. Receive(<<b>>) = rx
    BY <1>3 DEF Receive
  <2>2. rx # <<>>
    BY <1>1, <1>3
  <2> QED
    BY <1>1, <2>1, <2>2
<1> QED
  BY <1>2, <1>3

-----------------------------------------------------------------------------
(* The port is an invariant's: the steps of the UART.                      *)
LEMMA LoadPort ==
    ASSUME PortInv, Load
    PROVE  PortInv'
<1>0. SerialType /\ ClosedInv /\ OpenInv /\ TodoInv
  BY DEF PortInv
<1>1. /\ shift = <<>> /\ fifo # <<>> /\ shift' = <<Head(fifo)>> /\ fifo' = Tail(fifo)
      /\ UNCHANGED <<initialized, drv, call, todo, got, loop, rx, line>>
  BY DEF Load, driver
<1>2. fifo \in Seq(Bytes \cup Noise)
  BY <1>0 DEF SerialType
<1>3. /\ Head(fifo) \in Bytes \cup Noise /\ Tail(fifo) \in Seq(Bytes \cup Noise)
      /\ <<Head(fifo)>> \in Seq(Bytes \cup Noise) /\ Len(<<Head(fifo)>>) = 1
      /\ Len(Tail(fifo)) = Len(fifo) - 1
  BY <1>1, <1>2
<1>4. SerialType'
  BY <1>0, <1>1, <1>3 DEF SerialType
<1>5. ClosedInv'
  <2> SUFFICES ASSUME ~initialized
               PROVE  ClosedInv'
    BY <1>1 DEF ClosedInv
  <2>1. fifo \in Seq(Noise) /\ drv \notin {"loop", "probe"}
    BY <1>0, <1>1 DEF ClosedInv
  <2>2. <<Head(fifo)>> \in Seq(Noise) /\ Tail(fifo) \in Seq(Noise)
    BY <1>1, <2>1
  <2>3. Len(shift) = 0 /\ Len(shift') = 1 /\ Len(fifo') = Len(fifo) - 1
    BY <1>1, <1>3
  <2>4. Len(fifo) \in Nat /\ Len(rx) \in Nat
    BY <1>0, <1>2 DEF SerialType
  <2>5. Len(rx) + Len(shift') + Len(fifo') = Len(rx) + Len(shift) + Len(fifo)
    BY <2>3, <2>4
  <2> QED
    BY <1>0, <1>1, <2>1, <2>2, <2>5 DEF ClosedInv
<1>6. OpenInv'
  BY <1>0, <1>1 DEF OpenInv
<1>7. TodoInv'
  BY <1>0, <1>1, LoadOut DEF TodoInv
<1> QED
  BY <1>4, <1>5, <1>6, <1>7 DEF PortInv

(* A byte leaves the shift register, to the line or back.                  *)
LEMMA TransmitPort ==
    ASSUME PortInv, Transmit
    PROVE  PortInv'
<1>0. SerialType /\ ClosedInv /\ OpenInv /\ TodoInv
  BY DEF PortInv
<1>1. /\ shift # <<>> /\ shift' = <<>>
      /\ UNCHANGED <<initialized, drv, call, todo, got, loop, fifo>>
      /\ loop => rx' = Receive(shift) /\ line' = line
      /\ ~loop => rx' = rx /\ line' = IF initialized THEN line \o shift ELSE line
  BY DEF Transmit, driver
<1>2. PICK b \in Bytes \cup Noise : shift = <<b>>
  BY <1>0, <1>1, OutSeq
<1>3. Len(shift) = 1 /\ Len(shift') = 0 /\ shift' \in Seq(Noise) /\ shift' \in Seq(Bytes \cup Noise)
  BY <1>1, <1>2
<1>4. rx \in Seq(Bytes \cup Noise) /\ line \in Seq(Bytes \cup Noise) /\ fifo \in Seq(Bytes \cup Noise)
      /\ loop \in BOOLEAN /\ initialized \in BOOLEAN
  BY <1>0 DEF SerialType
<1>5. rx' \in Seq(Bytes \cup Noise) /\ line' \in Seq(Bytes \cup Noise)
  <2>1. Receive(<<b>>) \in Seq(Bytes \cup Noise)
    BY <1>0, ReceiveType
  <2>2. line \o <<b>> \in Seq(Bytes \cup Noise)
    BY <1>4
  <2> QED
    BY <1>1, <1>2, <1>4, <2>1, <2>2
<1>6. SerialType'
  BY <1>0, <1>1, <1>3, <1>5 DEF SerialType
<1>7. ClosedInv'
  <2> SUFFICES ASSUME ~initialized
               PROVE  ClosedInv'
    BY <1>1 DEF ClosedInv
  <2>1. shift \in Seq(Noise) /\ b \in Noise
    <3>1. shift \in Seq(Noise)
      BY <1>0 DEF ClosedInv
    <3>2. shift[1] \in Noise /\ shift[1] = b
      BY <1>2, <1>3, <3>1
    <3> QED
      BY <3>1, <3>2
  <2>2. line' = line
    BY <1>1, <1>4
  <2>3. ASSUME drv \in {"loop", "probe", "test"}
        PROVE  \/ rx' # <<>> /\ Head(rx') \notin Noise
               \/ /\ rx' \in Seq(Noise) /\ (~loop => rx' = <<>>)
                  /\ Len(rx') + Len(shift') + Len(fifo) <= IF drv = "test" THEN 2 ELSE 1
    <3>1. Len(rx) \in Nat /\ Len(fifo) \in Nat /\ Len(rx') \in Nat
      BY <1>4, <1>5
    <3>2. CASE loop
      <4>1. rx' = Receive(<<b>>)
        BY <1>1, <1>2, <3>2
      <4>2. CASE rx # <<>> /\ Head(rx) \notin Noise
        BY <1>0, <4>1, <4>2, ReceiveType
      <4>3. CASE rx \in Seq(Noise) /\ Len(rx) + Len(shift) + Len(fifo) <= IF drv = "test" THEN 2 ELSE 1
        <5>1. rx' \in Seq(Noise) /\ Len(rx') <= Len(rx) + 1
          BY <1>0, <2>1, <4>1, <4>3, ReceiveType
        <5>2. Len(rx') + Len(shift') + Len(fifo) <= Len(rx) + Len(shift) + Len(fifo)
          BY <1>3, <3>1, <5>1
        <5> QED
          BY <1>3, <3>1, <3>2, <4>3, <5>1, <5>2
      <4> QED
        BY <1>0, <2>3, <4>2, <4>3 DEF ClosedInv
    <3>3. CASE ~loop
      <4>1. rx' = rx
        BY <1>1, <3>3
      <4>2. Len(rx) + Len(shift') + Len(fifo) <= Len(rx) + Len(shift) + Len(fifo)
        BY <1>3, <3>1
      <4>3. CASE rx # <<>> /\ Head(rx) \notin Noise
        BY <4>1, <4>3
      <4>4. CASE /\ rx \in Seq(Noise) /\ (~loop => rx = <<>>)
                 /\ Len(rx) + Len(shift) + Len(fifo) <= IF drv = "test" THEN 2 ELSE 1
        BY <1>3, <3>1, <4>1, <4>2, <4>4
      <4> QED
        BY <1>0, <2>3, <4>3, <4>4 DEF ClosedInv
    <3> QED
      BY <3>2, <3>3
  <2> QED
    BY <1>0, <1>1, <1>3, <2>2, <2>3 DEF ClosedInv
<1>8. OpenInv'
  BY <1>0, <1>1 DEF OpenInv
<1>9. TodoInv'
  <2>1. CASE initialized
    BY <1>0, <1>1, <2>1, TransmitOut DEF TodoInv
  <2>2. CASE ~initialized
    BY <1>0, <1>1, <2>2 DEF TodoInv
  <2> QED
    BY <2>1, <2>2
<1> QED
  BY <1>6, <1>7, <1>8, <1>9 DEF PortInv

(* The user types.                                                         *)
LEMMA TypePort ==
    ASSUME PortInv, Type
    PROVE  PortInv'
<1>0. SerialType /\ ClosedInv /\ OpenInv /\ TodoInv
  BY DEF PortInv
<1>1. PICK c \in Key : rx' = IF loop THEN rx ELSE Receive(<<c>>)
  BY DEF Type
<1>2. UNCHANGED <<initialized, drv, call, todo, got, loop, fifo, shift, line>>
  BY DEF Type, driver
<1>3. c \in Bytes /\ c \notin Noise
  BY NoNoise
<1>4. rx \in Seq(Bytes \cup Noise) /\ loop \in BOOLEAN
  BY <1>0 DEF SerialType
<1>5. rx' \in Seq(Bytes \cup Noise)
  BY <1>0, <1>1, <1>3, <1>4, ReceiveType
<1>6. SerialType'
  BY <1>0, <1>2, <1>5 DEF SerialType
<1>7. ClosedInv'
  <2> SUFFICES ASSUME ~initialized
               PROVE  ClosedInv'
    BY <1>2 DEF ClosedInv
  <2>1. ASSUME drv \in {"loop", "probe", "test"}, ~loop
        PROVE  rx' # <<>> /\ Head(rx') \notin Noise
    <3>1. rx' = Receive(<<c>>)
      BY <1>1, <2>1
    <3>2. CASE rx = <<>>
      <4>1. rx' = <<c>>
        BY <1>0, <1>3, <3>1, <3>2, ReceiveType
      <4> QED
        BY <1>3, <4>1
    <3>3. CASE rx # <<>>
      <4>1. Head(rx) \notin Noise
        BY <1>0, <2>1, <3>3 DEF ClosedInv
      <4> QED
        BY <1>0, <1>3, <3>1, <3>3, <4>1, ReceiveType
    <3> QED
      BY <3>2, <3>3
  <2>2. loop => rx' = rx
    BY <1>1
  <2> QED
    BY <1>0, <1>2, <2>1, <2>2 DEF ClosedInv
<1>8. OpenInv'
  BY <1>0, <1>2 DEF OpenInv
<1>9. TodoInv'
  BY <1>0, <1>2 DEF TodoInv, Out
<1> QED
  BY <1>6, <1>7, <1>8, <1>9 DEF PortInv

(* A call begins.                                                          *)
LEMMA CallPort ==
    ASSUME PortInv,
           dbg_serial_init \/ dbg_serial_getc \/ \E c \in Bytes : dbg_serial_putc(c)
    PROVE  PortInv'
<1>0. SerialType /\ ClosedInv /\ OpenInv /\ TodoInv
  BY DEF PortInv
<1>1. /\ drv = "idle" /\ UNCHANGED <<initialized, got, loop, fifo, shift, rx, line>>
      /\ call' \in {"init", "put", "get"}
  BY DEF dbg_serial_init, dbg_serial_getc, dbg_serial_putc, uart
<1>2. /\ call' # "put" => todo' = todo
      /\ call' = "put" => \E c \in Bytes : todo' = Expand(c)
  BY DEF dbg_serial_init, dbg_serial_getc, dbg_serial_putc
<1>3. todo = <<>>
  BY <1>0, <1>1 DEF TodoInv
<1>4. todo' \in Seq(Bytes) /\ (todo' # <<>> <=> call' = "put")
  <2>1. CASE call' = "put"
    <3>1. PICK c \in Bytes : todo' = Expand(c)
      BY <1>2, <2>1
    <3>2. Expand(c) \in Seq(Bytes) /\ Expand(c) # <<>>
      BY NoNoise
    <3> QED
      BY <2>1, <3>1, <3>2
  <2>2. CASE call' # "put"
    BY <1>2, <1>3, <2>2
  <2> QED
    BY <2>1, <2>2
<1>5. /\ initialized \in BOOLEAN
      /\ initialized => \/ call' = "init" /\ drv' = "idle"
                        \/ call' = "put" /\ drv' = "send"
                        \/ call' = "get" /\ drv' = "read"
      /\ ~initialized => drv' = "config"
  <2>1. initialized \in BOOLEAN
    BY <1>0 DEF SerialType
  <2>2. ASSUME NEW k \in {"init", "put", "get"}, Begin(k)
        PROVE  /\ initialized => \/ k = "init" /\ drv' = "idle"
                                 \/ k = "put" /\ drv' = "send"
                                 \/ k = "get" /\ drv' = "read"
               /\ ~initialized => drv' = "config"
    BY <2>1, <2>2 DEF Begin
  <2>3. \/ call' = "init" /\ Begin("init")
        \/ call' = "put" /\ Begin("put")
        \/ call' = "get" /\ Begin("get")
    <3>1. ASSUME NEW c \in Bytes, dbg_serial_putc(c)
          PROVE  call' = "put" /\ Begin("put")
      BY <3>1, Zenon DEF dbg_serial_putc
    <3>2. ASSUME dbg_serial_init
          PROVE  call' = "init" /\ Begin("init")
      BY <3>2, Zenon DEF dbg_serial_init
    <3>3. ASSUME dbg_serial_getc
          PROVE  call' = "get" /\ Begin("get")
      BY <3>3, Zenon DEF dbg_serial_getc
    <3> QED
      BY <3>1, <3>2, <3>3, Zenon
  <2> QED
    BY <2>1, <2>2, <2>3
<1>6. SerialType'
  BY <1>0, <1>1, <1>4, <1>5 DEF SerialType
<1>7. ClosedInv'
  BY <1>0, <1>1, <1>5 DEF ClosedInv
<1>8. OpenInv'
  BY <1>0, <1>1, <1>5 DEF OpenInv
<1>9. TodoInv'
  BY <1>1, <1>2, <1>3, <1>4, <1>5 DEF TodoInv
<1> QED
  BY <1>6, <1>7, <1>8, <1>9 DEF PortInv

(* dbg_serial_init up to the loopback test.                                *)
LEMMA TestingPort ==
    ASSUME PortInv, Configure \/ EnterLoop \/ SendTest
    PROVE  PortInv'
<1>0. SerialType /\ ClosedInv /\ OpenInv /\ TodoInv
  BY DEF PortInv
<1>1. /\ UNCHANGED <<initialized, call, todo, got, line>>
      /\ drv \in {"config", "loop", "probe"}
      /\ drv' \in {"loop", "probe", "test"}
  BY DEF Configure, EnterLoop, SendTest
<1>2. ~initialized
  BY <1>0, <1>1 DEF OpenInv
<1>3. /\ fifo \in Seq(Noise) /\ shift \in Seq(Noise) /\ line = <<>> /\ got = Zero
      /\ Len(shift) <= 1 /\ rx \in Seq(Bytes \cup Noise)
  BY <1>0, <1>2 DEF ClosedInv, SerialType
<1>4. Len(shift) \in Nat /\ Len(rx) \in Nat /\ Len(fifo) \in Nat
  BY <1>3
<1>5. Test \in Noise /\ Broken \in Noise
  BY DEF Noise
<1>6. TodoInv' /\ OpenInv'
  BY <1>0, <1>1, <1>2 DEF TodoInv, OpenInv
<1>7. CASE Configure
  <2>1. /\ drv' = "loop" /\ fifo' = <<>> /\ rx' = <<>> /\ shift' = shift /\ loop' = loop
    BY <1>7 DEF Configure
  <2>2. SerialType'
    BY <1>0, <1>1, <2>1 DEF SerialType
  <2>3. rx' \in Seq(Noise) /\ Len(rx') + Len(shift') + Len(fifo') <= 1
    BY <1>3, <1>4, <2>1
  <2>4. ClosedInv'
    BY <1>1, <1>3, <2>1, <2>3 DEF ClosedInv
  <2> QED
    BY <1>6, <2>2, <2>4 DEF PortInv
<1>8. CASE EnterLoop
  <2>1. /\ drv = "loop" /\ drv' = "probe" /\ loop' = TRUE /\ fifo' = fifo /\ rx' = rx
        /\ shift' \in IF loop THEN {shift} ELSE Cut
    BY <1>8 DEF EnterLoop
  <2>2. /\ shift' \in Seq(Noise) /\ Len(shift') <= Len(shift) /\ Len(shift') \in Nat
    <3>1. shift' = shift \/ (shift # <<>> /\ shift' \in {<<>>, <<Broken>>})
      BY <2>1 DEF Cut
    <3>2. CASE shift' = shift
      BY <1>3, <1>4, <3>2
    <3>3. CASE shift # <<>> /\ shift' = <<>>
      BY <1>4, <3>3
    <3>4. CASE shift # <<>> /\ shift' = <<Broken>>
      <4>1. Len(shift) >= 1
        BY <1>3, <1>4, <3>4
      <4> QED
        BY <1>4, <1>5, <3>4, <4>1
    <3> QED
      BY <3>1, <3>2, <3>3, <3>4
  <2>3. SerialType'
    <3>1. shift' \in Seq(Bytes \cup Noise) /\ Len(shift') <= 1
      BY <1>3, <1>4, <2>2
    <3> QED
      BY <1>0, <1>1, <2>1, <3>1 DEF SerialType
  <2>4. fifo = <<>>
    BY <1>0, <1>2, <2>1 DEF ClosedInv
  <2>5. \/ rx # <<>> /\ Head(rx) \notin Noise
        \/ rx \in Seq(Noise) /\ Len(rx) + Len(shift) + Len(fifo) <= 1
    BY <1>0, <1>2, <2>1 DEF ClosedInv
  <2>6. Len(rx) + Len(shift) + Len(fifo) <= 1 => Len(rx) + Len(shift') + Len(fifo) <= 1
    BY <1>4, <2>2
  <2>7. ClosedInv'
    BY <1>1, <1>3, <2>1, <2>2, <2>4, <2>5, <2>6 DEF ClosedInv
  <2> QED
    BY <1>6, <2>3, <2>7 DEF PortInv
<1>9. CASE SendTest
  <2>1. /\ drv = "probe" /\ drv' = "test" /\ fifo' = Append(fifo, Test)
        /\ shift' = shift /\ rx' = rx /\ loop' = loop
    BY <1>9 DEF SendTest
  <2>2. fifo = <<>> /\ loop
    BY <1>0, <1>2, <2>1 DEF ClosedInv
  <2>3. fifo' \in Seq(Noise) /\ Len(fifo') = 1 /\ Len(fifo) = 0
    BY <1>5, <2>1, <2>2
  <2>4. SerialType'
    <3>1. fifo' \in Seq(Bytes \cup Noise)
      BY <2>3
    <3> QED
      BY <1>0, <1>1, <2>1, <3>1 DEF SerialType
  <2>5. \/ rx # <<>> /\ Head(rx) \notin Noise
        \/ rx \in Seq(Noise) /\ Len(rx) + Len(shift) + Len(fifo) <= 1
    BY <1>0, <1>2, <2>1 DEF ClosedInv
  <2>6. Len(rx) + Len(shift) + Len(fifo) <= 1 => Len(rx) + Len(shift) + Len(fifo') <= 2
    BY <1>4, <2>3
  <2>7. ClosedInv'
    BY <1>1, <1>3, <2>1, <2>2, <2>3, <2>5, <2>6 DEF ClosedInv
  <2> QED
    BY <1>6, <2>4, <2>7 DEF PortInv
<1> QED
  BY <1>7, <1>8, <1>9

(* The test passes: each direction then has at most one byte of noise in   *)
(* it.                                                                     *)
LEMMA TestPassesFacts ==
    ASSUME PortInv, drv = "test", TestPasses
    PROVE  /\ ~initialized /\ line' = <<>> /\ initialized' = TRUE
           /\ fifo' \in Seq(Noise) /\ shift' \in Seq(Noise) /\ rx' \in Seq(Noise)
           /\ Len(shift') + Len(fifo') <= 1 /\ Len(rx') <= 1
<1>0. SerialType /\ ClosedInv /\ OpenInv
  BY DEF PortInv
<1>1. /\ Echoed /\ rx' = Tail(rx) /\ shift' \in Cut /\ initialized' = TRUE
      /\ fifo' = fifo /\ line' = line
  BY DEF TestPasses
<1>2. ~initialized
  BY <1>0 DEF OpenInv
<1>3. fifo \in Seq(Noise) /\ shift \in Seq(Noise) /\ line = <<>>
  BY <1>0, <1>2 DEF ClosedInv
<1>4. rx # <<>> /\ Head(rx) \in Noise /\ Broken \in Noise
  BY <1>1 DEF Echoed, Noise
<1>5. rx \in Seq(Noise) /\ Len(rx) + Len(shift) + Len(fifo) <= 2
  BY <1>0, <1>2, <1>4 DEF ClosedInv
<1>6. Len(rx) \in Nat \ {0} /\ Len(shift) \in Nat /\ Len(fifo) \in Nat
  BY <1>3, <1>4, <1>5
<1>7. Tail(rx) \in Seq(Noise) /\ Len(Tail(rx)) = Len(rx) - 1
  BY <1>4, <1>5
<1>8. shift' \in Seq(Noise) /\ Len(shift') <= Len(shift) /\ Len(shift') \in Nat
  <2>1. shift' = shift \/ (shift # <<>> /\ shift' \in {<<>>, <<Broken>>})
    BY <1>1 DEF Cut
  <2>2. CASE shift' = shift
    BY <1>3, <1>6, <2>2
  <2>3. CASE shift # <<>> /\ shift' = <<>>
    BY <1>6, <2>3
  <2>4. CASE shift # <<>> /\ shift' = <<Broken>>
    <3>1. Len(shift) >= 1
      BY <1>3, <1>6, <2>4
    <3> QED
      BY <1>4, <1>6, <2>4, <3>1
  <2> QED
    BY <2>1, <2>2, <2>3, <2>4
<1> QED
  BY <1>1, <1>2, <1>3, <1>5, <1>6, <1>7, <1>8

(* The loopback test.                                                      *)
LEMMA TestPort ==
    ASSUME PortInv, LoopTest
    PROVE  PortInv'
<1>0. SerialType /\ ClosedInv /\ OpenInv /\ TodoInv /\ drv = "test"
  BY DEF PortInv, LoopTest
<1>1. ~initialized /\ rx \in Seq(Bytes \cup Noise)
  BY <1>0 DEF OpenInv, SerialType
<1>2. CASE TestFails
  <2>1. /\ drv' = "idle" /\ todo' = <<>> /\ rx' = (IF rx = <<>> THEN rx ELSE Tail(rx))
        /\ got' = (IF call = "get" THEN Zero ELSE got)
        /\ UNCHANGED <<initialized, call, loop, fifo, shift, line>>
    BY <1>2 DEF TestFails
  <2>2. rx' \in Seq(Bytes \cup Noise)
    BY <1>1, <2>1
  <2>3. got' = Zero
    BY <1>0, <1>1, <2>1 DEF ClosedInv
  <2>4. SerialType'
    BY <1>0, <2>1, <2>2 DEF SerialType
  <2>5. ClosedInv'
    BY <1>0, <1>1, <2>1, <2>3 DEF ClosedInv
  <2>6. OpenInv' /\ TodoInv'
    BY <1>1, <2>1 DEF OpenInv, TodoInv
  <2> QED
    BY <2>4, <2>5, <2>6 DEF PortInv
<1>3. CASE TestPasses
  <2>1. /\ initialized' = TRUE
        /\ fifo' \in Seq(Noise) /\ shift' \in Seq(Noise) /\ rx' \in Seq(Noise)
        /\ line' = <<>> /\ Len(shift') + Len(fifo') <= 1
    BY <1>0, <1>3, TestPassesFacts
  <2>2. /\ UNCHANGED <<call, todo, got>> /\ loop' = FALSE
        /\ drv' = CASE call = "init" -> "idle" [] call = "put" -> "send" [] call = "get" -> "read"
    BY <1>3 DEF TestPasses
  <2>3. Len(shift') \in Nat /\ Len(fifo') \in Nat
    BY <2>1
  <2>4. Len(shift') <= 1
    BY <2>1, <2>3
  <2>5. call \in {"init", "put", "get"}
    BY <1>0 DEF SerialType
  <2>6. /\ drv' \in {"idle", "send", "read"}
        /\ (drv' = "send" <=> call = "put") /\ (drv' = "idle" <=> call = "init")
        /\ (drv' = "read" <=> call = "get")
    BY <2>2, <2>5
  <2>7. SerialType'
    <3>1. /\ fifo' \in Seq(Bytes \cup Noise) /\ shift' \in Seq(Bytes \cup Noise)
          /\ rx' \in Seq(Bytes \cup Noise) /\ line' \in Seq(Bytes \cup Noise)
      BY <2>1
    <3> QED
      BY <1>0, <2>1, <2>2, <2>4, <2>5, <2>6, <3>1 DEF SerialType
  <2>8. ClosedInv' /\ OpenInv'
    BY <2>1, <2>2, <2>6 DEF ClosedInv, OpenInv
  <2>9. TodoInv'
    BY <1>0, <1>1, <2>2, <2>6 DEF TodoInv
  <2> QED
    BY <2>7, <2>8, <2>9 DEF PortInv
<1> QED
  BY <1>2, <1>3 DEF LoopTest

(* The open port sends and reads.                                          *)
LEMMA OpenPort ==
    ASSUME PortInv, Send \/ Read
    PROVE  PortInv'
<1>0. SerialType /\ ClosedInv /\ OpenInv /\ TodoInv
  BY DEF PortInv
<1>1. /\ UNCHANGED <<initialized, call, loop, shift, line>> /\ initialized
  BY <1>0 DEF Send, Read, ClosedInv
<1>2. ClosedInv'
  BY <1>1 DEF ClosedInv
<1>3. CASE Send
  <2>1. /\ drv = "send" /\ fifo' = <<Head(todo)>> /\ todo' = Tail(todo)
        /\ drv' = (IF Tail(todo) = <<>> THEN "idle" ELSE "send") /\ rx' = rx
    BY <1>3 DEF Send
  <2>2. todo # <<>> /\ todo \in Seq(Bytes) /\ call = "put"
    BY <1>0, <2>1 DEF TodoInv, SerialType
  <2>3. Head(todo) \in Bytes /\ Tail(todo) \in Seq(Bytes) /\ <<Head(todo)>> \in Seq(Bytes \cup Noise)
    BY <2>2
  <2>4. SerialType'
    BY <1>0, <1>1, <2>1, <2>3 DEF SerialType
  <2>5. OpenInv'
    BY <1>0, <1>1, <2>1 DEF OpenInv
  <2>6. Tail(todo) = <<>> \/ (Head(todo) = CR /\ Tail(todo) = <<LF>>)
    <3>1. todo = <<LF>> \/ todo = <<CR, LF>> \/ \E c \in Bytes : todo = <<c>>
      BY <1>0, <2>2 DEF TodoInv, Expand
    <3>2. ASSUME NEW c, todo = <<c>>
          PROVE  Tail(todo) = <<>>
      BY <3>2
    <3>3. ASSUME todo = <<CR, LF>>
          PROVE  Head(todo) = CR /\ Tail(todo) = <<LF>>
      BY <3>3
    <3> QED
      BY <3>1, <3>2, <3>3
  <2>7. Out' = Append(Out, Head(todo)) /\ Out \in Seq(Bytes \cup Noise)
    BY <1>0, <1>3, <2>2, SendOut, OutSeq
  <2>8. Out' # <<>> /\ (Out')[Len(Out')] = Head(todo)
    <3>1. Head(todo) \in Bytes \cup Noise
      BY <2>3
    <3> QED
      BY <2>7, <3>1, AppendProperties
  <2>9. TodoInv'
    BY <1>1, <2>1, <2>2, <2>6, <2>8 DEF TodoInv
  <2> QED
    BY <1>2, <2>4, <2>5, <2>9 DEF PortInv
<1>4. CASE Read
  <2>1. /\ drv = "read" /\ drv' = "idle" /\ rx # <<>> /\ rx' = Tail(rx)
        /\ UNCHANGED <<todo, fifo>>
    BY <1>4 DEF Read
  <2>2. rx \in Seq(Bytes \cup Noise)
    BY <1>0 DEF SerialType
  <2>3. rx' \in Seq(Bytes \cup Noise)
    BY <2>1, <2>2
  <2>4. SerialType'
    BY <1>0, <1>1, <2>1, <2>3 DEF SerialType
  <2>5. OpenInv'
    BY <1>0, <1>1, <2>1 DEF OpenInv
  <2>6. call # "put"
    BY <1>0, <2>1 DEF TodoInv
  <2>7. TodoInv'
    BY <1>0, <1>1, <2>1, <2>6 DEF TodoInv, Out
  <2> QED
    BY <1>2, <2>4, <2>5, <2>7 DEF PortInv
<1> QED
  BY <1>3, <1>4

-----------------------------------------------------------------------------
PortAction ==
    \/ Load \/ Transmit \/ Type
    \/ dbg_serial_init \/ dbg_serial_getc \/ \E c \in Bytes : dbg_serial_putc(c)
    \/ Configure \/ EnterLoop \/ SendTest \/ LoopTest \/ Send \/ Read

(* What the kernel does with the port.                                     *)
LEMMA PortActions ==
    ASSUME PrintInv, [Next]_vars
    PROVE  PortAction \/ UNCHANGED svars
<1>1. CASE CallSink
  <2>1. text \in Seq(Ascii) /\ text # <<>>
    BY <1>1 DEF PrintInv, TextInv, CallSink
  <2>2. Head(text) \in Bytes
    BY <2>1, NoNoise
  <2>3. dbg_serial_putc(Head(text)) \/ UNCHANGED svars
    BY <1>1 DEF CallSink
  <2> QED
    BY <2>2, <2>3 DEF PortAction
<1>2. CASE Driver
  BY <1>2 DEF Driver, DriverStep, PortAction
<1>3. CASE InitPort \/ ReadKey
  BY <1>3 DEF InitPort, ReadKey, PortAction
<1>4. CASE Port \/ User
  BY <1>4 DEF Port, User, Uart, PortAction
<1>5. CASE NextPiece \/ CharDone \/ RegisterPort \/ dbg_msg \/ ChangeSinks \/ Exit
  BY <1>5 DEF NextPiece, CharDone, RegisterPort, dbg_msg, ChangeSinks, Exit
<1>6. CASE Stopped \/ UNCHANGED vars
  BY <1>6 DEF Stopped, vars
<1> QED
  BY <1>1, <1>2, <1>3, <1>4, <1>5, <1>6 DEF Next, Kernel

(* The invariant of the port is one.                                       *)
LEMMA PortStep ==
    ASSUME PortInv, PrintInv, [Next]_vars
    PROVE  PortInv'
<1>1. CASE PortAction
  BY <1>1, LoadPort, TransmitPort, TypePort, CallPort, TestingPort, TestPort, OpenPort
     DEF PortAction
<1>2. CASE UNCHANGED svars
  BY <1>2 DEF PortInv, SerialType, ClosedInv, OpenInv, TodoInv, Out, svars, driver, uart
<1> QED
  BY <1>1, <1>2, PortActions

(* What the firmware left in the port is noise.                            *)
LEMMA PortInit ==
    ASSUME Init
    PROVE  PortInv /\ PrintInv
<1>1. SerialInit
  BY DEF Init
<1>2. Broken \in Noise
  BY DEF Noise
<1>3. PortInv
  <2>1. fifo \in Seq(Noise) /\ fifo \in Seq(Bytes \cup Noise)
    <3>1. <<Broken>> \in Seq(Noise) /\ <<Broken>> \in Seq(Bytes \cup Noise)
      BY <1>2
    <3>2. <<>> \in Seq(Noise) /\ <<>> \in Seq(Bytes \cup Noise)
      OBVIOUS
    <3>3. fifo = <<>> \/ fifo = <<Broken>>
      BY <1>1 DEF SerialInit
    <3> QED
      BY <3>1, <3>2, <3>3, Zenon
  <2>2. SerialType
    <3>1. /\ todo \in Seq(Bytes) /\ shift \in Seq(Bytes \cup Noise) /\ Len(shift) <= 1
          /\ rx \in Seq(Bytes \cup Noise) /\ line \in Seq(Bytes \cup Noise)
      BY <1>1 DEF SerialInit
    <3>2. initialized \in BOOLEAN /\ loop \in BOOLEAN
      BY <1>1 DEF SerialInit
    <3>3. drv = "idle" /\ call = "init"
      BY <1>1 DEF SerialInit
    <3> QED
      BY <2>1, <3>1, <3>2, <3>3 DEF SerialType
  <2>3. ClosedInv
    BY <1>1, <2>1 DEF SerialInit, ClosedInv
  <2>4. OpenInv /\ TodoInv
    BY <1>1 DEF SerialInit, OpenInv, TodoInv
  <2> QED
    BY <2>2, <2>3, <2>4 DEF PortInv
<1>4. FormatInv
  BY DEF Init, FormatInv
<1>5. TextInv
  BY DEF Init, TextInv, ZeroBuff, Buffer
<1> QED
  BY <1>3, <1>4, <1>5 DEF PrintInv

(* A sequence of noise that is no longer than one byte.                    *)
LEMMA ShortNoise ==
    ASSUME NEW a \in Seq(Noise), NEW b \in Seq(Noise), Len(a) + Len(b) <= 1
    PROVE  a \o b \in Stream!Stray
<1>1. a \o b \in Seq(Noise) /\ Len(a \o b) = Len(a) + Len(b) /\ Len(a \o b) \in Nat
  BY ConcatProperties, LenProperties
<1> DEFINE c == a \o b
<1> HIDE DEF c
<1>2. c \in Seq(Noise) /\ Len(c) <= 1 /\ Len(c) \in Nat
  BY <1>1 DEF c
<1>3. CASE Len(c) = 0
  BY <1>2, <1>3 DEF Stream!Stray, c
<1>4. CASE Len(c) = 1
  <2>1. c[1] \in Noise
    BY <1>2, <1>4
  <2>2. c = <<c[1]>>
    BY <1>2, <1>4, <2>1, SeqEqual
  <2> QED
    BY <2>1, <2>2 DEF Stream!Stray, c
<1>5. Len(c) = 0 \/ Len(c) = 1
  BY <1>2
<1> QED
  BY <1>3, <1>4, <1>5

(* When the test passes, the stream opens.                                 *)
LEMMA OpensStream ==
    ASSUME PortInv, drv = "test", TestPasses
    PROVE  Stream!SOpen /\ Out' \in Stream!Stray
<1>1. /\ ~initialized /\ line' = <<>> /\ initialized' = TRUE
      /\ fifo' \in Seq(Noise) /\ shift' \in Seq(Noise) /\ rx' \in Seq(Noise)
      /\ Len(shift') + Len(fifo') <= 1 /\ Len(rx') <= 1
  BY TestPassesFacts
<1>2. got' = got
  BY DEF TestPasses
<1>3. (line \o shift \o fifo)' = shift' \o fifo'
  <2>1. <<>> \o shift' = shift'
    BY <1>1
  <2> QED
    BY <1>1, <2>1
<1>4. shift' \o fifo' \in Stream!Stray
  BY <1>1, ShortNoise
<1>5. rx' \in Stream!Stray
  <2>1. <<>> \in Seq(Noise) /\ Len(<<>>) = 0 /\ <<>> \o rx' = rx'
    BY <1>1
  <2>2. Len(<<>>) + Len(rx') <= 1
    BY <1>1, <2>1
  <2>3. <<>> \o rx' \in Stream!Stray
    BY <1>1, <2>1, <2>2, ShortNoise
  <2> QED
    BY <2>1, <2>3
<1> QED
  BY <1>1, <1>2, <1>3, <1>4, <1>5 DEF Stream!SOpen, Out

(* Every step of the port is one of the stream.                            *)
LEMMA StreamStep ==
    ASSUME PortInv, PortInv', PortAction \/ UNCHANGED svars
    PROVE  [Stream!SNext]_(Stream!svars)
<1>0. SerialType /\ ClosedInv /\ OpenInv /\ TodoInv /\ ClosedInv'
  BY DEF PortInv
<1>a. initialized \in BOOLEAN
  BY <1>0 DEF SerialType
<1>b. ASSUME initialized' = initialized, got' = got,
             initialized => (line \o shift \o fifo)' = line \o shift \o fifo /\ rx' = rx
      PROVE  UNCHANGED Stream!svars
  BY <1>a, <1>b DEF Stream!svars
<1>1. CASE Load
  <2>1. Out' = Out
    BY <1>0, <1>1, LoadOut
  <2>2. initialized' = initialized /\ got' = got /\ rx' = rx
    BY <1>1 DEF Load, driver
  <2> QED
    BY <1>b, <2>1, <2>2 DEF Out
<1>2. CASE Transmit
  <2>1. initialized => Out' = Out /\ rx' = rx
    BY <1>0, <1>2, TransmitOut
  <2>2. initialized' = initialized /\ got' = got
    BY <1>2 DEF Transmit, driver
  <2> QED
    BY <1>b, <2>1, <2>2 DEF Out
<1>3. CASE Type
  <2>1. PICK c \in Key : rx' = IF loop THEN rx ELSE Receive(<<c>>)
    BY <1>3 DEF Type
  <2>2. /\ UNCHANGED <<initialized, got, line, shift, fifo>>
    BY <1>3 DEF Type, driver
  <2>3. CASE ~initialized
    BY <1>b, <2>2, <2>3
  <2>4. CASE initialized
    <3>1. ~loop /\ rx \in Seq(Bytes \cup Noise)
      BY <1>0, <2>4 DEF OpenInv, SerialType
    <3>2. CASE Len(rx) < RxCap
      <4>1. rx' = rx \o <<c>>
        BY <2>1, <3>1, <3>2 DEF Receive
      <4>2. c \in Char \cup {CR, LF} /\ rx \o <<c>> = Append(rx, c)
        BY <3>1, NoNoise, AppendIsConcat DEF Bytes
      <4>a. Append(rx, c) # rx
        <5>1. Len(Append(rx, c)) = Len(rx) + 1 /\ Len(rx) \in Nat
          BY <3>1
        <5> QED
          BY <5>1
      <4>3. Stream!SType
        BY <1>a, <2>2, <2>4, <3>2, <4>1, <4>2, <4>a DEF Stream!SType
      <4> QED
        BY <4>3 DEF Stream!SNext
    <3>3. CASE ~(Len(rx) < RxCap)
      BY <1>b, <2>1, <2>2, <3>1, <3>3 DEF Receive
    <3> QED
      BY <3>2, <3>3
  <2> QED
    BY <2>3, <2>4
<1>4. CASE dbg_serial_init \/ dbg_serial_getc \/ \E c \in Bytes : dbg_serial_putc(c)
  <2>1. UNCHANGED <<initialized, got, line, shift, fifo, rx>>
    BY <1>4 DEF dbg_serial_init, dbg_serial_getc, dbg_serial_putc, uart
  <2> QED
    BY <1>b, <2>1
<1>5. CASE Configure \/ EnterLoop \/ SendTest
  <2>1. UNCHANGED <<initialized, got>>
    BY <1>5 DEF Configure, EnterLoop, SendTest
  <2>2. ~initialized
    BY <1>0, <1>5 DEF OpenInv, Configure, EnterLoop, SendTest
  <2> QED
    BY <1>b, <2>1, <2>2
<1>6. CASE LoopTest
  <2>1. drv = "test" /\ ~initialized
    BY <1>0, <1>6 DEF LoopTest, OpenInv
  <2>2. CASE TestFails
    <3>1. initialized' = initialized /\ ~initialized' /\ got' = Zero /\ got = Zero
      BY <1>0, <2>1, <2>2 DEF TestFails, ClosedInv
    <3> QED
      BY <1>b, <2>1, <3>1
  <2>3. CASE TestPasses
    BY <2>1, <2>3, OpensStream DEF Stream!SNext
  <2> QED
    BY <1>6, <2>2, <2>3 DEF LoopTest
<1>7. CASE Send
  <2>1. /\ drv = "send" /\ UNCHANGED <<initialized, got, rx>>
    BY <1>7 DEF Send
  <2>2. initialized /\ todo # <<>> /\ todo \in Seq(Bytes)
    BY <1>0, <2>1 DEF ClosedInv, TodoInv, SerialType
  <2>3. Out' = Append(Out, Head(todo))
    BY <1>0, <1>7, <2>2, SendOut
  <2>4. Head(todo) \in Char \cup {CR, LF}
    BY <2>2 DEF Bytes
  <2>5. Head(todo) = LF => Out # <<>> /\ Out[Len(Out)] = CR
    <3>1. todo = <<LF>> \/ \E c \in Bytes : todo = Expand(c)
      BY <1>0, <2>2 DEF TodoInv
    <3>2. ASSUME NEW c \in Bytes, todo = Expand(c)
          PROVE  Head(todo) # LF
      BY <3>2, NoNoise DEF Expand
    <3>3. Head(todo) = LF => Out # <<>> /\ Out[Len(Out)] = CR
      BY <1>0, <2>2, <3>2 DEF TodoInv
    <3> QED
      BY <3>3
  <2>a. Append(Out, Head(todo)) # Out
    <3>1. Out \in Seq(Bytes \cup Noise)
      BY <1>0, OutSeq
    <3>2. Len(Append(Out, Head(todo))) = Len(Out) + 1 /\ Len(Out) \in Nat
      BY <3>1
    <3> QED
      BY <3>2
  <2>6. Stream!SPut
    BY <1>a, <2>1, <2>2, <2>3, <2>4, <2>5, <2>a DEF Stream!SPut, Out
  <2> QED
    BY <2>6 DEF Stream!SNext
<1>8. CASE Read
  <2>1. /\ drv = "read" /\ rx # <<>> /\ got' = Head(rx) /\ rx' = Tail(rx)
        /\ UNCHANGED <<initialized, line, shift, fifo>>
    BY <1>8 DEF Read
  <2>2. initialized
    BY <1>0, <2>1 DEF ClosedInv
  <2>3. Stream!SGet
    BY <2>1, <2>2 DEF Stream!SGet
  <2> QED
    BY <2>3 DEF Stream!SNext
<1>9. CASE UNCHANGED svars
  <2>1. UNCHANGED <<initialized, got, line, shift, fifo, rx>>
    BY <1>9 DEF svars, driver, uart
  <2> QED
    BY <1>b, <2>1
<1> QED
  BY <1>1, <1>2, <1>3, <1>4, <1>5, <1>6, <1>7, <1>8, <1>9 DEF PortAction

(* The port and what is printed to it, in every state.                     *)
LEMMA PortAlways == Spec => [](PortInv /\ PrintInv)
<1>1. Init => PortInv /\ PrintInv
  BY PortInit
<1>2. PortInv /\ PrintInv /\ [Next]_vars => (PortInv /\ PrintInv)'
  BY PortStep, PrintStep
<1> QED
  BY <1>1, <1>2, PTL DEF Spec

(* The driver implements the stream (ImplementsStream): whatever the       *)
(* firmware left in the UART, however often the loopback test fails, and   *)
(* at whatever pace the UART moves bytes and the user types, the open port *)
(* puts what it is called with on the line in order and reads what was     *)
(* typed in order, apart from one byte of noise in each direction.         *)
THEOREM StreamImplemented == Spec => ImplementsStream
<1>1. Init => Stream!SInit
  BY DEF Init, SerialInit, Stream!SInit
<1>2. PortInv /\ PrintInv /\ (PortInv /\ PrintInv)' /\ [Next]_vars
         => [Stream!SNext]_(Stream!svars)
  BY PortActions, StreamStep
<1> QED
  BY <1>1, <1>2, PortAlways, PTL DEF Spec, ImplementsStream, Stream!SSpec

-----------------------------------------------------------------------------
(* What a sequence of characters is on the line, one character further.    *)
LEMMA CrlfAppend ==
    ASSUME NEW q \in Seq(Bytes), NEW c \in Bytes
    PROVE  /\ Crlf(q) \in Seq(Bytes)
           /\ Crlf(Append(q, c)) = Crlf(q) \o Expand(c)
<1> DEFINE f(r) == [k \in DOMAIN r |-> IF r[k] = LF THEN <<CR, LF>> ELSE <<r[k]>>]
<1>1. \A r \in Seq(Bytes) : f(r) \in Seq(Seq(Bytes))
  <2>1. ASSUME NEW r \in Seq(Bytes)
        PROVE  f(r) \in Seq(Seq(Bytes))
    <3>1. DOMAIN r = 1 .. Len(r) /\ Len(r) \in Nat /\ \A k \in 1 .. Len(r) : r[k] \in Bytes
      OBVIOUS
    <3>2. <<CR, LF>> \in Seq(Bytes)
      BY NoNoise
    <3> QED
      BY <3>1, <3>2
  <2> QED
    BY <2>1
<1>2. Expand(c) \in Seq(Bytes)
  BY NoNoise
<1>3. f(Append(q, c)) = Append(f(q), Expand(c))
  <2>1. /\ DOMAIN q = 1 .. Len(q) /\ Len(q) \in Nat
        /\ DOMAIN Append(q, c) = 1 .. Len(q) + 1
        /\ \A k \in 1 .. Len(q) : Append(q, c)[k] = q[k]
        /\ Append(q, c)[Len(q) + 1] = c
    OBVIOUS
  <2>2. /\ f(q) \in Seq(Seq(Bytes)) /\ f(Append(q, c)) \in Seq(Seq(Bytes))
    <3>1. Append(q, c) \in Seq(Bytes)
      OBVIOUS
    <3> HIDE DEF f
    <3> QED
      BY <1>1, <3>1
  <2>3. Len(f(q)) = Len(q) /\ Len(f(Append(q, c))) = Len(q) + 1
    <3>1. DOMAIN f(q) = 1 .. Len(q) /\ DOMAIN f(Append(q, c)) = 1 .. Len(q) + 1
      BY <2>1
    <3> HIDE DEF f
    <3> QED
      BY <2>1, <2>2, <3>1
  <2>4. \A k \in 1 .. Len(q) : f(Append(q, c))[k] = f(q)[k]
    BY <2>1
  <2>5. f(Append(q, c))[Len(q) + 1] = Expand(c)
    BY <2>1 DEF Expand
  <2> HIDE DEF f
  <2>6. /\ Append(f(q), Expand(c)) \in Seq(Seq(Bytes))
        /\ Len(Append(f(q), Expand(c))) = Len(q) + 1
        /\ \A k \in 1 .. Len(q) : Append(f(q), Expand(c))[k] = f(q)[k]
        /\ Append(f(q), Expand(c))[Len(q) + 1] = Expand(c)
    <3> DEFINE g == f(q)
               e == Expand(c)
    <3>1. g \in Seq(Seq(Bytes)) /\ e \in Seq(Bytes) /\ Len(g) = Len(q)
      BY <1>2, <2>2, <2>3
    <3> HIDE DEF g, e
    <3>2. /\ Append(g, e) \in Seq(Seq(Bytes)) /\ Len(Append(g, e)) = Len(g) + 1
          /\ \A k \in 1 .. Len(g) : Append(g, e)[k] = g[k]
          /\ Append(g, e)[Len(g) + 1] = e
      BY <3>1, AppendProperties
    <3> QED
      BY <3>1, <3>2 DEF g, e
  <2>7. \A k \in 1 .. Len(q) + 1 : f(Append(q, c))[k] = Append(f(q), Expand(c))[k]
    BY <2>1, <2>4, <2>5, <2>6
  <2> QED
    BY <2>2, <2>3, <2>6, <2>7, SeqEqual
<1>4. f(q) \in Seq(Seq(Bytes))
  BY <1>1
<1>5. Crlf(q) = FlattenSeq(f(q)) /\ Crlf(Append(q, c)) = FlattenSeq(f(Append(q, c)))
  BY Zenon DEF Crlf
<1> HIDE DEF f
<1> QED
  BY <1>2, <1>3, <1>4, <1>5, FlattenAppend

(* No characters, and one.                                                 *)
LEMMA CrlfShort ==
    /\ Crlf(<<>>) = <<>>
    /\ \A c \in Bytes : Crlf(<<c>>) = Expand(c)
<1>1. Crlf(<<>>) = <<>>
  <2> DEFINE e == [k \in DOMAIN <<>> |-> IF <<>>[k] = LF THEN <<CR, LF>> ELSE <<(<<>>)[k]>>]
  <2>1. e = <<>>
    OBVIOUS
  <2>2. Len(e) = 0
    BY <2>1
  <2>3. FlattenSeq(e) = e
    BY <2>2 DEF FlattenSeq
  <2> QED
    BY <2>1, <2>3 DEF Crlf
<1>2. ASSUME NEW c \in Bytes
      PROVE  Crlf(<<c>>) = Expand(c)
  <2>1. <<>> \in Seq(Bytes) /\ Append(<<>>, c) = <<c>>
    OBVIOUS
  <2>2. Crlf(<<c>>) = Crlf(<<>>) \o Expand(c)
    BY <2>1, CrlfAppend
  <2>3. Expand(c) \in Seq(Bytes)
    BY NoNoise
  <2>4. <<>> \o Expand(c) = Expand(c)
    BY <2>3
  <2> QED
    BY <1>1, <2>2, <2>4
<1> QED
  BY <1>1, <1>2

(* What was put is on its way.                                             *)
LEMMA SentStep ==
    ASSUME PortInv, PrintInv, PortInv', SentInv, [Next]_vars
    PROVE  SentInv'
<1> DEFINE S == Bytes \cup Noise
<1>0. SerialType /\ ClosedInv /\ OpenInv /\ TodoInv
  BY DEF PortInv
<1>1. /\ Out \in Seq(S) /\ todo \in Seq(S) /\ todo \in Seq(Bytes) /\ initialized \in BOOLEAN
      /\ sent \in Seq(Bytes)
  BY <1>0, OutSeq DEF SerialType, SentInv
<1>2. initialized => \E n \in Stream!Stray : Out \o todo = n \o Crlf(sent)
  BY DEF SentInv, Delivered, Out
<1>3. ASSUME initialized' => \E n \in Stream!Stray : Out' \o todo' = n \o Crlf(sent')
      PROVE  Delivered'
  BY <1>3 DEF Delivered, Out, Crlf
<1>4. \A n \in Stream!Stray : n \in Seq(S)
  <2>1. <<>> \in Seq(S) /\ \A b \in Noise : <<b>> \in Seq(S)
    OBVIOUS
  <2> QED
    BY <2>1, Zenon DEF Stream!Stray
<1>5. /\ pc' = "boot" => pc = "boot" /\ sent' = sent
      /\ pc' \in {"boot", "register"} => pc \in {"boot", "register"} /\ UNCHANGED <<fmt, text>>
  <2>1. CASE NextPiece \/ CallSink \/ CharDone
    <3>1. fmt # <<>> \/ text # <<>>
      BY <2>1 DEF NextPiece, CallSink, CharDone
    <3>2. pc \notin {"boot", "register"}
      BY <3>1 DEF SentInv
    <3>3. pc' = pc \/ pc' = "crashed"
      BY <2>1 DEF NextPiece, CallSink, CharDone
    <3> QED
      BY <3>2, <3>3
  <2>2. CASE Driver \/ Port \/ User
    BY <2>2 DEF Driver, Port, User, mine, out, hist
  <2>3. CASE InitPort \/ RegisterPort \/ dbg_msg \/ ChangeSinks \/ ReadKey \/ Exit
    <3>1. CASE InitPort \/ RegisterPort
      BY <3>1 DEF InitPort, RegisterPort, out, hist
    <3>2. CASE dbg_msg \/ ChangeSinks \/ ReadKey \/ Exit
      BY <3>2 DEF dbg_msg, ChangeSinks, ReadKey, Exit, Ready
    <3> QED
      BY <2>3, <3>1, <3>2
  <2>4. CASE Stopped \/ UNCHANGED vars
    BY <2>4 DEF Stopped, vars, mine, out, hist
  <2> QED
    BY <2>1, <2>2, <2>3, <2>4 DEF Next, Kernel
<1>6. /\ pc' = "boot" => sent' = <<>>
      /\ pc' \in {"boot", "register"} => fmt' = <<>> /\ text' = <<>>
  BY <1>5 DEF SentInv
<1>7. CASE CallSink /\ ~UNCHANGED svars
  <2> DEFINE c == Head(text)
  <2>1. /\ dbg_serial_putc(c)
        /\ sent' = IF initialized THEN Append(sent, c) ELSE <<c>>
    BY <1>7 DEF CallSink
  <2>2. c \in Bytes
    <3>1. text \in Seq(Ascii) /\ text # <<>>
      BY <1>7 DEF PrintInv, TextInv, CallSink
    <3> QED
      BY <3>1, NoNoise
  <2> HIDE DEF c
  <2>3. /\ drv = "idle" /\ todo' = Expand(c) /\ initialized' = initialized
        /\ UNCHANGED <<line, shift, fifo>>
    BY <2>1 DEF dbg_serial_putc, uart
  <2>4. todo = <<>> /\ Out' = Out
    BY <1>0, <2>3 DEF TodoInv, Out
  <2>5. sent' \in Seq(Bytes)
    BY <1>1, <2>1, <2>2
  <2>6. CASE initialized
    <3>1. sent' = Append(sent, c)
      BY <2>1, <2>6
    <3>2. PICK n \in Stream!Stray : Out \o todo = n \o Crlf(sent)
      BY <1>2, <2>6
    <3>3. Out \o <<>> = Out
      BY <1>1
    <3>4. Expand(c) \in Seq(S) /\ Crlf(sent) \in Seq(S) /\ n \in Seq(S)
      <4>1. Expand(c) \in Seq(Bytes) /\ Crlf(sent) \in Seq(Bytes)
        BY <1>1, <2>2, NoNoise, CrlfAppend
      <4> QED
        BY <1>4, <4>1
    <3>5. (n \o Crlf(sent)) \o Expand(c) = n \o (Crlf(sent) \o Expand(c))
      BY <3>4, ConcatAssociative
    <3>6. Crlf(Append(sent, c)) = Crlf(sent) \o Expand(c)
      BY <1>1, <2>2, CrlfAppend
    <3>7. Out' \o todo' = n \o Crlf(sent')
      BY <2>3, <2>4, <3>1, <3>2, <3>3, <3>5, <3>6, Zenon
    <3>8. Delivered'
      BY <1>3, <3>7
    <3> QED
      BY <1>6, <2>3, <2>5, <2>6, <3>8 DEF SentInv
  <2>7. CASE ~initialized
    <3>1. sent' = <<c>> /\ Crlf(sent') = todo'
      BY <2>1, <2>2, <2>3, <2>7, CrlfShort
    <3>2. Delivered'
      BY <2>3, <2>7 DEF Delivered
    <3>3. Crlf(sent)' = Crlf(sent')
      BY Zenon DEF Crlf
    <3> QED
      BY <1>6, <2>5, <3>1, <3>2, <3>3 DEF SentInv
  <2> QED
    BY <2>6, <2>7
<1>8. CASE ReadKey \/ InitPort
  <2>1. /\ drv = "idle" /\ todo' = todo /\ UNCHANGED <<initialized, line, shift, fifo>>
    BY <1>8 DEF ReadKey, InitPort, dbg_serial_getc, dbg_serial_init, uart
  <2>2. todo = <<>> /\ Out' = Out
    BY <1>0, <2>1 DEF TodoInv, Out
  <2>3. CASE initialized
    <3>1. sent' = sent
      BY <1>8, <2>3 DEF ReadKey, InitPort, hist
    <3>2. Delivered'
      BY <1>2, <1>3, <2>1, <2>2, <2>3, <3>1
    <3> QED
      BY <1>1, <1>6, <2>1, <2>3, <3>1, <3>2 DEF SentInv
  <2>4. CASE ~initialized
    <3>1. sent' = <<>>
      BY <1>8, <2>4 DEF ReadKey, InitPort, hist, SentInv
    <3>2. todo' = Crlf(sent') /\ sent' \in Seq(Bytes)
      BY <2>1, <2>2, <3>1, CrlfShort
    <3>3. Delivered'
      BY <2>1, <2>4 DEF Delivered
    <3>4. Crlf(sent)' = Crlf(sent')
      BY Zenon DEF Crlf
    <3> QED
      BY <1>6, <3>2, <3>3, <3>4 DEF SentInv
  <2> QED
    BY <1>1, <2>3, <2>4
<1>9. CASE sent' = sent /\ (Load \/ Transmit \/ Type \/ Configure \/ EnterLoop \/ SendTest)
  <2>1. initialized' = initialized /\ todo' = todo
    BY <1>9 DEF Load, Transmit, Type, Configure, EnterLoop, SendTest, driver
  <2>2. initialized => Out' = Out
    <3>1. CASE Load
      BY <1>0, <3>1, LoadOut
    <3>2. CASE Transmit
      BY <1>0, <3>2, TransmitOut
    <3>3. CASE Type
      BY <3>3 DEF Type, Out
    <3>4. CASE Configure \/ EnterLoop \/ SendTest
      BY <1>0, <3>4 DEF OpenInv, Configure, EnterLoop, SendTest
    <3> QED
      BY <1>9, <3>1, <3>2, <3>3, <3>4
  <2>3. drv' # "idle" => drv # "idle"
    BY <1>9 DEF Load, Transmit, Type, Configure, EnterLoop, SendTest, driver
  <2>4. Delivered'
    BY <1>1, <1>2, <1>3, <1>9, <2>1, <2>2
  <2>5. Crlf(sent)' = Crlf(sent)
    BY <1>9, Zenon DEF Crlf
  <2> QED
    BY <1>1, <1>6, <1>9, <2>1, <2>3, <2>4, <2>5 DEF SentInv
<1>10. CASE sent' = sent /\ LoopTest
  <2>1. drv = "test" /\ ~initialized
    BY <1>0, <1>10 DEF LoopTest, OpenInv
  <2>2. CASE TestFails
    <3>1. drv' = "idle" /\ ~initialized'
      BY <2>1, <2>2 DEF TestFails
    <3> QED
      BY <1>1, <1>6, <1>10, <3>1 DEF SentInv, Delivered
  <2>3. CASE TestPasses
    <3>1. Out' \in Stream!Stray /\ todo' = todo /\ initialized'
      BY <2>1, <2>3, OpensStream DEF TestPasses
    <3>2. todo = Crlf(sent)
      BY <2>1 DEF SentInv
    <3>3. Out' \o todo' = Out' \o Crlf(sent')
      BY <1>10, <3>1, <3>2
    <3>4. Delivered'
      BY <1>3, <3>1, <3>3
    <3> QED
      BY <1>1, <1>6, <1>10, <3>1, <3>4 DEF SentInv
  <2> QED
    BY <1>10, <2>2, <2>3 DEF LoopTest
<1>11. CASE sent' = sent /\ Send
  <2>1. /\ drv = "send" /\ todo' = Tail(todo) /\ initialized' = initialized
    BY <1>11 DEF Send
  <2>2. initialized /\ todo # <<>>
    BY <1>0, <2>1 DEF ClosedInv, TodoInv
  <2>3. Out' = Append(Out, Head(todo))
    BY <1>0, <1>11, <2>2, SendOut
  <2>4. Append(Out, Head(todo)) \o Tail(todo) = Out \o todo
    <3>1. Head(todo) \in S /\ Tail(todo) \in Seq(S) /\ <<Head(todo)>> \in Seq(S)
      BY <1>1, <2>2
    <3>2. Append(Out, Head(todo)) = Out \o <<Head(todo)>>
      BY <1>1, <3>1, AppendIsConcat
    <3>3. (Out \o <<Head(todo)>>) \o Tail(todo) = Out \o (<<Head(todo)>> \o Tail(todo))
      BY <1>1, <3>1, ConcatAssociative
    <3>4. <<Head(todo)>> \o Tail(todo) = todo
      BY <1>1, <2>2
    <3> QED
      BY <3>2, <3>3, <3>4, Zenon
  <2>5. Delivered'
    BY <1>2, <1>3, <1>11, <2>1, <2>2, <2>3, <2>4
  <2> QED
    BY <1>1, <1>6, <1>11, <2>1, <2>2, <2>5 DEF SentInv
<1>12. CASE sent' = sent /\ (Read \/ UNCHANGED svars)
  <2>1. /\ todo' = todo /\ UNCHANGED <<initialized, line, shift, fifo>>
        /\ drv' # "idle" => drv # "idle"
    BY <1>12 DEF Read, svars, driver, uart
  <2>2. Out' = Out
    BY <2>1 DEF Out
  <2>3. Delivered'
    BY <1>2, <1>3, <1>12, <2>1, <2>2
  <2>4. Crlf(sent)' = Crlf(sent)
    BY <1>12, Zenon DEF Crlf
  <2> QED
    BY <1>1, <1>6, <1>12, <2>1, <2>3, <2>4 DEF SentInv
<1>13. \/ CallSink /\ ~UNCHANGED svars
       \/ ReadKey \/ InitPort
       \/ sent' = sent /\ (Load \/ Transmit \/ Type \/ Configure \/ EnterLoop \/ SendTest)
       \/ sent' = sent /\ LoopTest
       \/ sent' = sent /\ Send
       \/ sent' = sent /\ (Read \/ UNCHANGED svars)
  <2>1. CASE CallSink /\ UNCHANGED svars
    <3>1. sent' = sent
      <4>1. CASE dbg_serial_putc(Head(text))
        BY <1>0, <2>1, <4>1 DEF dbg_serial_putc, Begin, svars, driver, SerialType
      <4>2. CASE ~dbg_serial_putc(Head(text))
        BY <2>1, <4>2 DEF CallSink
      <4> QED
        BY <4>1, <4>2
    <3> QED
      BY <2>1, <3>1
  <2>2. CASE Driver
    BY <2>2 DEF Driver, DriverStep, mine, hist
  <2>3. CASE Port \/ User
    BY <2>3 DEF Port, User, Uart, mine, hist
  <2>4. CASE NextPiece \/ CharDone \/ RegisterPort \/ dbg_msg \/ ChangeSinks \/ Exit
    BY <2>4 DEF NextPiece, CharDone, RegisterPort, dbg_msg, ChangeSinks, Exit, hist
  <2>5. CASE Stopped \/ UNCHANGED vars
    BY <2>5 DEF Stopped, vars, mine, hist
  <2> QED
    BY <2>1, <2>2, <2>3, <2>4, <2>5 DEF Next, Kernel
<1> QED
  BY <1>7, <1>8, <1>9, <1>10, <1>11, <1>12, <1>13

(* What the open port was called with is on the line or on its way to it,  *)
(* with a carriage return before each line feed and behind at most one     *)
(* byte of noise (Delivered).                                              *)
THEOREM DeliveredThm == Spec => []Delivered
<1>1. Init => SentInv
  <2> SUFFICES ASSUME Init
               PROVE  SentInv
    OBVIOUS
  <2>1. drv = "idle" /\ ~initialized
    BY DEF Init, SerialInit
  <2>2. sent = <<>> /\ fmt = <<>> /\ text = <<>>
    BY DEF Init
  <2>3. sent \in Seq(Bytes)
    BY <2>2
  <2> QED
    BY <2>1, <2>2, <2>3 DEF SentInv, Delivered
<1>2. PortInv /\ PrintInv /\ PortInv' /\ SentInv /\ [Next]_vars => SentInv'
  BY SentStep
<1>3. SentInv => Delivered
  BY DEF SentInv
<1> QED
  BY <1>1, <1>2, <1>3, PortAlways, PTL DEF Spec

-----------------------------------------------------------------------------
(* The slots.                                                              *)
LEMMA SlotSets ==
    ASSUME NEW T, T \subseteq Slots
    PROVE  /\ IsFiniteSet(T) /\ Cardinality(T) \in Nat
           /\ T # {} => Min(T) \in T /\ \A k \in T : Min(T) <= k
<1>1. IsFiniteSet(Slots) /\ Slots \subseteq Nat
  BY ConsoleAssumption, FS_Interval DEF Slots
<1>2. IsFiniteSet(T)
  BY <1>1, FS_Subset
<1>3. Cardinality(T) \in Nat
  BY <1>2, FS_CardinalityType
<1>4. ASSUME T # {}
      PROVE  Min(T) \in T /\ \A k \in T : Min(T) <= k
  <2>1. \E x \in T : \A y \in T : x <= y
    BY <1>1, <1>4, Least
  <2> QED
    BY <2>1, Zenon DEF Min
<1> QED
  BY <1>2, <1>3, <1>4

(* A sink that is in the table is found.                                   *)
LEMMA FirstFound ==
    ASSUME NEW s, \E k \in Slots : sinks[k] = s
    PROVE  First(s) \in Slots /\ sinks[First(s)] = s
<1> DEFINE T == {k \in Slots : sinks[k] = s}
           m == Min(T)
<1>1. T \subseteq Slots /\ T # {}
  OBVIOUS
<1>2. m \in T /\ \A k \in T : m <= k
  BY <1>1, SlotSets
<1> HIDE DEF m
<1>3. NSlots \in Nat
  BY ConsoleAssumption
<1>4. \A j \in 1 .. m - 1 : sinks[j] # s
  <2>1. ASSUME NEW j \in 1 .. m - 1
        PROVE  sinks[j] # s
    <3>1. j \in Slots /\ ~(m <= j)
      BY <1>2, <1>3 DEF Slots
    <3> QED
      BY <1>2, <3>1
  <2> QED
    BY <2>1
<1>5. \E k \in Slots : sinks[k] = s /\ \A j \in 1 .. k - 1 : sinks[j] # s
  BY <1>2, <1>4
<1> QED
  BY <1>5, Zenon DEF First

Registered(s) == {k \in Slots : sinks[k] = s}

(* The table and the count of registrations after a change.                *)
LEMMA ChangeTable ==
    ASSUME TableInv, ~Struck, NEW s \in Sink, dbg_register_sink(s) \/ dbg_unregister_sink(s)
    PROVE  /\ sinks' \in [Slots -> Sink \cup {NULL}] /\ owed' \in [Sink -> Nat]
           /\ \A t \in Sink : owed'[t] = Cardinality({k \in Slots : sinks'[k] = t})
<1>0. /\ sinks \in [Slots -> Sink \cup {NULL}] /\ owed \in [Sink -> Nat]
      /\ \A t \in Sink : owed[t] = Cardinality(Registered(t))
      /\ NULL \notin Sink
  BY ConsoleAssumption DEF TableInv, Registered
<1>1. \A t : IsFiniteSet(Registered(t)) /\ Cardinality(Registered(t)) \in Nat
  BY SlotSets DEF Registered
<1>2. CASE UNCHANGED <<sinks, owed>>
  BY <1>0, <1>2 DEF Registered
<1>3. CASE /\ \E k \in Slots : sinks[k] = NULL
           /\ sinks' = [sinks EXCEPT ![First(NULL)] = s]
           /\ owed' = [owed EXCEPT ![s] = @ + 1]
  <2> DEFINE f == First(NULL)
  <2>1. f \in Slots /\ sinks[f] = NULL
    BY <1>3, FirstFound
  <2> HIDE DEF f
  <2>2. sinks' = [sinks EXCEPT ![f] = s]
    BY <1>3 DEF f
  <2>3. /\ sinks' \in [Slots -> Sink \cup {NULL}] /\ owed' \in [Sink -> Nat]
    BY <1>0, <1>3, <2>1, <2>2
  <2>4. ASSUME NEW t \in Sink
        PROVE  owed'[t] = Cardinality({k \in Slots : sinks'[k] = t})
    <3>1. CASE t = s
      <4>1. {k \in Slots : sinks'[k] = t} = Registered(s) \cup {f} /\ f \notin Registered(s)
        BY <1>0, <2>1, <2>2, <3>1 DEF Registered
      <4>2. Cardinality(Registered(s) \cup {f}) = Cardinality(Registered(s)) + 1
        BY <1>1, <4>1, FS_AddElement
      <4>3. owed'[t] = owed[s] + 1
        BY <1>0, <1>3, <3>1
      <4> QED
        BY <1>0, <4>1, <4>2, <4>3
    <3>2. CASE t # s
      <4>1. {k \in Slots : sinks'[k] = t} = Registered(t)
        BY <1>0, <2>1, <2>2, <3>2 DEF Registered
      <4>2. owed'[t] = owed[t]
        BY <1>0, <1>3, <3>2
      <4> QED
        BY <1>0, <4>1, <4>2
    <3> QED
      BY <3>1, <3>2
  <2> QED
    BY <2>3, <2>4
<1>4. CASE /\ \E k \in Slots : sinks[k] = s
           /\ sinks' = [sinks EXCEPT ![First(s)] = NULL]
           /\ owed' = [owed EXCEPT ![s] = @ - 1]
  <2> DEFINE f == First(s)
  <2>1. f \in Slots /\ sinks[f] = s
    BY <1>4, FirstFound
  <2> HIDE DEF f
  <2>2. sinks' = [sinks EXCEPT ![f] = NULL]
    BY <1>4 DEF f
  <2>3. /\ owed[s] \in Nat /\ owed[s] # 0
    <3>1. Registered(s) # {}
      BY <2>1 DEF Registered
    <3>2. Cardinality(Registered(s)) # 0
      BY <1>1, <3>1, FS_EmptySet
    <3> QED
      BY <1>0, <3>2
  <2>4. /\ sinks' \in [Slots -> Sink \cup {NULL}]
    BY <1>0, <2>1, <2>2
  <2>5. owed' \in [Sink -> Nat]
    BY <1>0, <1>4, <2>3
  <2>6. ASSUME NEW t \in Sink
        PROVE  owed'[t] = Cardinality({k \in Slots : sinks'[k] = t})
    <3>1. CASE t = s
      <4>1. {k \in Slots : sinks'[k] = t} = Registered(s) \ {f} /\ f \in Registered(s)
        BY <1>0, <2>1, <2>2, <3>1 DEF Registered
      <4>2. Cardinality(Registered(s) \ {f}) = Cardinality(Registered(s)) - 1
        BY <1>1, <4>1, FS_RemoveElement
      <4>3. owed'[t] = owed[s] - 1
        BY <1>0, <1>4, <3>1
      <4> QED
        BY <1>0, <4>1, <4>2, <4>3
    <3>2. CASE t # s
      <4>1. {k \in Slots : sinks'[k] = t} = Registered(t)
        BY <1>0, <2>1, <2>2, <3>2 DEF Registered
      <4>2. owed'[t] = owed[t]
        BY <1>0, <1>4, <3>2
      <4> QED
        BY <1>0, <4>1, <4>2
    <3> QED
      BY <3>1, <3>2
  <2> QED
    BY <2>4, <2>5, <2>6
<1> QED
  BY <1>2, <1>3, <1>4 DEF dbg_register_sink, dbg_unregister_sink

(* A store that has hit the table is not taken back, and the other stores  *)
(* leave the table alone.                                                  *)
LEMMA StruckStays ==
    ASSUME [Next]_vars, ~Struck'
    PROVE  ~Struck /\ (NextPiece => sinks' = sinks)
<1>1. CASE NextPiece
  <2> DEFINE piece == Head(fmt)
             s == IF TakesParam(piece) THEN Head(params) ELSE <<0>>
             p == Head(s)
             stray == /\ piece.kind \in {"u", "lu"}
                      /\ u64_to_str(ZeroBuff, IF piece.kind = "u" THEN p % Word(IntDigits) ELSE p)[-1] # 0
  <2>1. /\ sinks' = IF stray /\ before = "sinks" THEN [sinks EXCEPT ![NSlots] = Wild] ELSE sinks
        /\ wild' = (wild \/ stray) /\ before' = before
    BY <1>1, Zenon DEF NextPiece
  <2> HIDE DEF stray
  <2> QED
    BY <2>1 DEF Struck
<1>2. CASE UNCHANGED <<wild, before>> /\ ~NextPiece
  BY <1>2 DEF Struck
<1>3. ~NextPiece => UNCHANGED <<wild, before>>
  BY DEF Next, Kernel, CallSink, CharDone, dbg_msg, Driver, InitPort, RegisterPort, ChangeSinks, ReadKey,
         Exit, Port, User, Stopped, vars, mine, hist
<1> QED
  BY <1>1, <1>2, <1>3

(* The slot dbg_sinkchr calls next: those it passes over are empty.        *)
LEMMA NextSlot ==
    ASSUME TableInv, ~Struck, SlotsLeft # {}
    PROVE  /\ Min(SlotsLeft) \in Slots /\ Min(SlotsLeft) >= slot
           /\ sinks[Min(SlotsLeft)] \in Sink
           /\ \A j \in Slots : slot <= j /\ j < Min(SlotsLeft) => sinks[j] = NULL
<1> DEFINE m == Min(SlotsLeft)
<1>1. SlotsLeft \subseteq Slots
  BY DEF SlotsLeft
<1>2. m \in SlotsLeft /\ \A k \in SlotsLeft : m <= k
  BY <1>1, SlotSets
<1> HIDE DEF m
<1>3. NSlots \in Nat /\ slot \in Nat
  BY ConsoleAssumption DEF TableInv
<1>4. m \in Slots /\ m >= slot /\ sinks[m] # NULL
  BY <1>2 DEF SlotsLeft
<1>5. sinks[m] \in Sink
  BY <1>4 DEF TableInv
<1>6. ASSUME NEW j \in Slots, slot <= j, j < m
      PROVE  sinks[j] = NULL
  <2>1. ~(m <= j)
    BY <1>3, <1>4, <1>6 DEF Slots
  <2>2. j \notin SlotsLeft
    BY <1>2, <2>1
  <2> QED
    BY <1>3, <1>6, <2>2 DEF SlotsLeft, Slots
<1> QED
  BY <1>4, <1>5, <1>6 DEF m

(* The table, the counts and the histories stay what they are.             *)
LEMMA TableStep ==
    ASSUME PrintInv, TableInv, [Next]_vars
    PROVE  TableInv'
<1>0. NSlots \in Nat \ {0} /\ NULL \notin Sink /\ Wild \notin Sink
  BY ConsoleAssumption
<1>1. slot' \in 1 .. NSlots + 1
  <2>1. CASE CallSink
    <3>1. slot' = Min(SlotsLeft) + 1 /\ SlotsLeft # {}
      BY <2>1 DEF CallSink
    <3>2. SlotsLeft \subseteq Slots
      BY DEF SlotsLeft
    <3>3. Min(SlotsLeft) \in Slots
      BY <3>1, <3>2, SlotSets
    <3> QED
      BY <1>0, <3>1, <3>3 DEF Slots
  <2>2. CASE slot' = 1 \/ slot' = slot
    BY <1>0, <2>2 DEF TableInv
  <2>3. ~CallSink => slot' = 1 \/ slot' = slot
    BY DEF Next, Kernel, NextPiece, CharDone, dbg_msg, Driver, InitPort, RegisterPort, ChangeSinks,
           ReadKey, Exit, Port, User, Stopped, vars, mine, out
  <2> QED
    BY <2>1, <2>2, <2>3
<1> SUFFICES ASSUME ~Struck'
             PROVE  TableInv'
  BY <1>1 DEF TableInv
<1>2. ~Struck /\ (NextPiece => sinks' = sinks)
  BY StruckStays
<1>3. /\ sinks \in [Slots -> Sink \cup {NULL}]
      /\ owed \in [Sink -> Nat] /\ log \in [Sink -> Seq(Ascii)]
      /\ printed \in Seq([c : Ascii, to : [Sink -> Nat]])
      /\ \A s \in Sink : owed[s] = Cardinality({k \in Slots : sinks[k] = s})
  BY <1>2 DEF TableInv
<1>4. CASE CallSink
  <2> DEFINE k == Min(SlotsLeft)
  <2>1. text # <<>> /\ SlotsLeft # {}
    BY <1>4 DEF CallSink
  <2>2. Head(text) \in Ascii
    BY <2>1 DEF PrintInv, TextInv
  <2>3. sinks[k] \in Sink
    BY <1>2, <2>1, NextSlot
  <2>4. log' = log \/ log' = [log EXCEPT ![sinks[k]] = Append(log[sinks[k]], Head(text))]
    BY <1>4 DEF CallSink
  <2> HIDE DEF k
  <2>5. log' \in [Sink -> Seq(Ascii)]
    <3>1. log[sinks[k]] \in Seq(Ascii)
      BY <1>3, <2>3
    <3>2. Append(log[sinks[k]], Head(text)) \in Seq(Ascii)
      BY <2>2, <3>1, AppendProperties
    <3> QED
      BY <1>3, <2>3, <2>4, <3>2
  <2>6. UNCHANGED <<sinks, owed, printed>>
    BY <1>4 DEF CallSink
  <2> QED
    BY <1>1, <1>3, <2>5, <2>6 DEF TableInv
<1>5. CASE CharDone
  <2>1. text # <<>> /\ printed' = Append(printed, [c |-> Head(text), to |-> owed])
        /\ UNCHANGED <<sinks, owed, log>>
    BY <1>5 DEF CharDone
  <2>2. [c |-> Head(text), to |-> owed] \in [c : Ascii, to : [Sink -> Nat]]
    BY <1>3, <2>1 DEF PrintInv, TextInv
  <2>3. printed' \in Seq([c : Ascii, to : [Sink -> Nat]])
    BY <1>3, <2>1, <2>2
  <2> QED
    BY <1>1, <1>3, <2>1, <2>3 DEF TableInv
<1>6. CASE RegisterPort \/ ChangeSinks
  <2>1. PICK s \in Sink : dbg_register_sink(s) \/ dbg_unregister_sink(s)
    BY <1>6, ConsoleAssumption DEF RegisterPort, ChangeSinks
  <2>2. UNCHANGED <<printed, log>>
    BY <1>6 DEF RegisterPort, ChangeSinks
  <2>3. /\ sinks' \in [Slots -> Sink \cup {NULL}] /\ owed' \in [Sink -> Nat]
        /\ \A t \in Sink : owed'[t] = Cardinality({k \in Slots : sinks'[k] = t})
    BY <1>2, <2>1, ChangeTable
  <2> QED
    BY <1>1, <1>3, <2>2, <2>3 DEF TableInv
<1>7. CASE UNCHANGED <<sinks, owed, log, printed>>
  BY <1>1, <1>3, <1>7 DEF TableInv
<1>8. ~CallSink /\ ~CharDone /\ ~RegisterPort /\ ~ChangeSinks => UNCHANGED <<sinks, owed, log, printed>>
  <2>1. CASE NextPiece
    BY <1>2, <2>1 DEF NextPiece
  <2>2. CASE dbg_msg \/ Driver \/ InitPort \/ ReadKey \/ Exit \/ Port \/ User \/ Stopped \/ UNCHANGED vars
    BY <2>2 DEF dbg_msg, Driver, InitPort, ReadKey, Exit, Port, User, Stopped, vars, mine, hist
  <2> QED
    BY <2>1, <2>2 DEF Next, Kernel
<1> QED
  BY <1>4, <1>5, <1>6, <1>7, <1>8

-----------------------------------------------------------------------------
(* A character as often as it is due.                                      *)
Rep(n, c) == [j \in 1 .. n |-> c]

(* One more is one appended.                                               *)
LEMMA RepFacts ==
    ASSUME NEW n \in Nat, NEW c \in Ascii
    PROVE  /\ Rep(n, c) \in Seq(Ascii)
           /\ Rep(0, c) = <<>>
           /\ Rep(n + 1, c) = Append(Rep(n, c), c)
<1>1. Rep(n, c) \in Seq(Ascii) /\ Len(Rep(n, c)) = n /\ Rep(n + 1, c) \in Seq(Ascii)
      /\ Len(Rep(n + 1, c)) = n + 1
  BY DEF Rep
<1>2. Rep(0, c) = <<>>
  BY DEF Rep
<1>3. /\ Append(Rep(n, c), c) \in Seq(Ascii) /\ Len(Append(Rep(n, c), c)) = n + 1
      /\ \A j \in 1 .. n : Append(Rep(n, c), c)[j] = Rep(n, c)[j]
      /\ Append(Rep(n, c), c)[n + 1] = c
  BY <1>1, AppendProperties
<1>4. \A j \in 1 .. n + 1 : Rep(n + 1, c)[j] = Append(Rep(n, c), c)[j]
  BY <1>3 DEF Rep
<1>5. Rep(n + 1, c) = Append(Rep(n, c), c)
  BY <1>1, <1>3, <1>4, SeqEqual
<1> QED
  BY <1>1, <1>2, <1>5

(* What a sink was due for the characters printed, and the slots called    *)
(* with the one being printed.                                             *)
PastOf(pr, s) == FlattenSeq([k \in DOMAIN pr |-> Rep(pr[k].to[s], pr[k].c)])
Called(s) == {k \in Slots : k < slot /\ sinks[k] = s}
Now(s) == IF text = <<>> THEN <<>> ELSE Rep(Cardinality(Called(s)), Head(text))

(* A function on the first n numbers is a sequence.                        *)
LEMMA FunctionIsSeq ==
    ASSUME NEW S, NEW n \in Nat, NEW g \in [1 .. n -> S]
    PROVE  g \in Seq(S) /\ Len(g) = n
  OBVIOUS

(* A character printed adds what it was due.                               *)
LEMMA PastAppend ==
    ASSUME NEW pr \in Seq([c : Ascii, to : [Sink -> Nat]]), NEW s \in Sink,
           NEW e \in [c : Ascii, to : [Sink -> Nat]]
    PROVE  /\ PastOf(pr, s) \in Seq(Ascii)
           /\ PastOf(Append(pr, e), s) = PastOf(pr, s) \o Rep(e.to[s], e.c)
<1> DEFINE P == [c : Ascii, to : [Sink -> Nat]]
           f(q) == [k \in DOMAIN q |-> Rep(q[k].to[s], q[k].c)]
           r == Rep(e.to[s], e.c)
<1>1. ASSUME NEW x \in P
      PROVE  Rep(x.to[s], x.c) \in Seq(Ascii)
  BY RepFacts
<1>2. f(pr) \in Seq(Seq(Ascii)) /\ Len(f(pr)) = Len(pr) /\ r \in Seq(Ascii)
  <2>0. pr \in Seq(P)
    OBVIOUS
  <2> HIDE DEF P
  <2>1. \A k \in DOMAIN pr : pr[k] \in P
    BY <2>0
  <2>2. \A k \in DOMAIN pr : Rep(pr[k].to[s], pr[k].c) \in Seq(Ascii)
    BY <1>1, <2>1
  <2>3. DOMAIN pr = 1 .. Len(pr) /\ Len(pr) \in Nat
    OBVIOUS
  <2>4. r \in Seq(Ascii)
    BY <1>1 DEF P
  <2>5. f(pr) \in [1 .. Len(pr) -> Seq(Ascii)]
    BY <2>2, <2>3
  <2> DEFINE g == f(pr)
  <2>6. g \in [1 .. Len(pr) -> Seq(Ascii)]
    BY <2>5
  <2> HIDE DEF g
  <2>7. g \in Seq(Seq(Ascii)) /\ Len(g) = Len(pr)
    BY <2>3, <2>6, FunctionIsSeq
  <2> QED
    BY <2>4, <2>7 DEF g
<1>3. f(Append(pr, e)) = Append(f(pr), r)
  <2>1. /\ Append(pr, e) \in Seq(P) /\ Len(Append(pr, e)) = Len(pr) + 1
        /\ \A k \in 1 .. Len(pr) : Append(pr, e)[k] = pr[k]
        /\ Append(pr, e)[Len(pr) + 1] = e
    BY AppendProperties
  <2>2. /\ DOMAIN Append(pr, e) = 1 .. Len(pr) + 1 /\ DOMAIN pr = 1 .. Len(pr) /\ Len(pr) \in Nat
    BY <2>1
  <2>3. /\ DOMAIN f(Append(pr, e)) = 1 .. Len(pr) + 1
        /\ \A k \in 1 .. Len(pr) : f(Append(pr, e))[k] = f(pr)[k]
        /\ f(Append(pr, e))[Len(pr) + 1] = r
    BY <2>1, <2>2
  <2>4. f(Append(pr, e)) \in Seq(Seq(Ascii)) /\ Len(f(Append(pr, e))) = Len(pr) + 1
    <3> HIDE DEF P
    <3>1. \A k \in DOMAIN Append(pr, e) : Append(pr, e)[k] \in P
      BY <2>1
    <3>2. \A k \in DOMAIN Append(pr, e) : Rep(Append(pr, e)[k].to[s], Append(pr, e)[k].c) \in Seq(Ascii)
      BY <1>1, <3>1
    <3> QED
      BY <2>2, <3>2
  <2> HIDE DEF f, r, P
  <2>5. /\ Append(f(pr), r) \in Seq(Seq(Ascii)) /\ Len(Append(f(pr), r)) = Len(f(pr)) + 1
        /\ \A k \in 1 .. Len(f(pr)) : Append(f(pr), r)[k] = f(pr)[k]
        /\ Append(f(pr), r)[Len(f(pr)) + 1] = r
    <3> DEFINE g == f(pr)
    <3>1. g \in Seq(Seq(Ascii)) /\ r \in Seq(Ascii)
      BY <1>2
    <3> HIDE DEF g
    <3>2. /\ Append(g, r) \in Seq(Seq(Ascii)) /\ Len(Append(g, r)) = Len(g) + 1
          /\ \A k \in 1 .. Len(g) : Append(g, r)[k] = g[k]
          /\ Append(g, r)[Len(g) + 1] = r
      BY <3>1, AppendProperties
    <3> QED
      BY <3>2 DEF g
  <2>6. \A k \in 1 .. Len(pr) + 1 : f(Append(pr, e))[k] = Append(f(pr), r)[k]
    BY <1>2, <2>2, <2>3, <2>5
  <2> QED
    BY <1>2, <2>4, <2>5, <2>6, SeqEqual
<1>4. PastOf(pr, s) = FlattenSeq(f(pr)) /\ PastOf(Append(pr, e), s) = FlattenSeq(f(Append(pr, e)))
  BY Zenon DEF PastOf
<1> HIDE DEF f, r
<1>5. FlattenSeq(f(pr)) \in Seq(Ascii) /\ FlattenSeq(Append(f(pr), r)) = FlattenSeq(f(pr)) \o r
  BY <1>2, FlattenAppend
<1> QED
  BY <1>3, <1>4, <1>5 DEF r

(* A sequence is a suffix of what ends in it.                              *)
LEMMA SuffixOfConcat ==
    ASSUME NEW S, NEW u \in Seq(S), NEW v \in Seq(S)
    PROVE  IsSuffix(v, u \o v)
<1> DEFINE w == u \o v
           n == Len(v)
           a == Reverse(v)
           b == Reverse(w)
<1>1. /\ w \in Seq(S) /\ Len(w) = Len(u) + n /\ n \in Nat /\ Len(u) \in Nat
      /\ \A i \in 1 .. Len(u) + n : w[i] = IF i <= Len(u) THEN u[i] ELSE v[i - Len(u)]
  BY ConcatProperties
<1> HIDE DEF w
<1>2. /\ a \in Seq(S) /\ Len(a) = n /\ \A i \in 1 .. n : a[i] = v[(n - i) + 1]
  <2>1. \A i \in 1 .. n : (n - i) + 1 \in 1 .. n
    BY <1>1
  <2>2. a \in [1 .. n -> S]
    BY <2>1 DEF Reverse
  <2>3. \A i \in 1 .. n : a[i] = v[(n - i) + 1]
    BY DEF Reverse
  <2> HIDE DEF a
  <2> QED
    BY <1>1, <2>2, <2>3
<1>3. /\ b \in Seq(S) /\ Len(b) = Len(w) /\ \A i \in 1 .. Len(w) : b[i] = w[(Len(w) - i) + 1]
  <2>1. \A i \in 1 .. Len(w) : (Len(w) - i) + 1 \in 1 .. Len(w)
    BY <1>1
  <2>2. b \in [1 .. Len(w) -> S]
    BY <1>1, <2>1 DEF Reverse
  <2>3. \A i \in 1 .. Len(w) : b[i] = w[(Len(w) - i) + 1]
    BY DEF Reverse
  <2>4. Len(w) \in Nat
    BY <1>1
  <2> HIDE DEF b
  <2>5. b \in Seq(S) /\ Len(b) = Len(w)
    BY <2>2, <2>4, FunctionIsSeq
  <2> QED
    BY <2>3, <2>5
<1> HIDE DEF a, b
<1>4. ASSUME NEW i \in 1 .. n
      PROVE  a[i] = b[i]
  <2>1. i \in 1 .. Len(w) /\ (Len(w) - i) + 1 \in 1 .. Len(u) + n /\ ~((Len(w) - i) + 1 <= Len(u))
    BY <1>1
  <2>2. b[i] = v[((Len(w) - i) + 1) - Len(u)]
    BY <1>1, <1>3, <2>1
  <2>3. ((Len(w) - i) + 1) - Len(u) = (n - i) + 1
    BY <1>1
  <2> QED
    BY <1>2, <2>2, <2>3
<1>5. /\ SubSeq(a, 1, n) \in Seq(S) /\ Len(SubSeq(a, 1, n)) = n
      /\ \A i \in 1 .. n : SubSeq(a, 1, n)[i] = a[i]
  BY <1>1, <1>2
<1>6. /\ SubSeq(b, 1, n) \in Seq(S) /\ Len(SubSeq(b, 1, n)) = n
      /\ \A i \in 1 .. n : SubSeq(b, 1, n)[i] = b[i]
  BY <1>1, <1>3
<1>7. SubSeq(a, 1, n) = SubSeq(b, 1, n)
  BY <1>4, <1>5, <1>6, SeqEqual
<1>8. IsPrefix(a, b)
  BY <1>1, <1>2, <1>3, <1>7 DEF IsPrefix
<1> QED
  BY <1>8 DEF IsSuffix, a, b, w

(* What is due, and that it is a text.                                     *)
LEMMA DueParts ==
    ASSUME PrintInv, TableInv, ~Struck, NEW s \in Sink
    PROVE  /\ Due(s) = PastOf(printed, s) \o Now(s)
           /\ PastOf(printed, s) \in Seq(Ascii) /\ Now(s) \in Seq(Ascii) /\ Due(s) \in Seq(Ascii)
           /\ Cardinality(Called(s)) \in Nat
           /\ text = <<>> => Due(s) = PastOf(printed, s)
<1>1. Due(s) = PastOf(printed, s) \o Now(s)
  BY Zenon DEF Due, PastOf, Now, Called, Rep
<1>2. printed \in Seq([c : Ascii, to : [Sink -> Nat]])
  BY DEF TableInv
<1>3. PastOf(printed, s) \in Seq(Ascii)
  <2>1. [c |-> 1, to |-> [t \in Sink |-> 0]] \in [c : Ascii, to : [Sink -> Nat]]
    BY DEF Ascii
  <2> QED
    BY <1>2, <2>1, PastAppend
<1>4. Cardinality(Called(s)) \in Nat
  BY SlotSets DEF Called
<1>5. Now(s) \in Seq(Ascii)
  <2>1. CASE text = <<>>
    BY <2>1 DEF Now
  <2>2. CASE text # <<>>
    <3>1. Head(text) \in Ascii
      BY <2>2 DEF PrintInv, TextInv
    <3>2. Now(s) = Rep(Cardinality(Called(s)), Head(text))
      BY <2>2 DEF Now
    <3> QED
      BY <1>4, <3>1, <3>2, RepFacts
  <2> QED
    BY <2>1, <2>2
<1>6. Due(s) \in Seq(Ascii)
  BY <1>1, <1>3, <1>5, ConcatProperties
<1>7. text = <<>> => Due(s) = PastOf(printed, s)
  <2>1. text = <<>> => Now(s) = <<>>
    BY DEF Now
  <2>2. PastOf(printed, s) \o <<>> = PastOf(printed, s)
    BY <1>3, ConcatEmptySeq
  <2> QED
    BY <1>1, <2>1, <2>2
<1> QED
  BY <1>1, <1>3, <1>4, <1>5, <1>6, <1>7

(* A step that begins a character, or prints nothing, leaves what is due.  *)
LEMMA DueAtStart ==
    ASSUME PrintInv', TableInv', ~Struck', NEW s \in Sink, text' = <<>> \/ slot' = 1
    PROVE  Due(s)' = PastOf(printed', s)
<1>1. Due(s)' = PastOf(printed', s) \o Now(s)'
  BY Zenon DEF Due, PastOf, Now, Called, Rep
<1>2. printed' \in Seq([c : Ascii, to : [Sink -> Nat]])
  BY DEF TableInv
<1>3. PastOf(printed', s) \in Seq(Ascii)
  <2>1. [c |-> 1, to |-> [t \in Sink |-> 0]] \in [c : Ascii, to : [Sink -> Nat]]
    BY DEF Ascii
  <2> QED
    BY <1>2, <2>1, PastAppend
<1>4. Now(s)' = <<>>
  <2>1. CASE text' = <<>>
    BY <2>1 DEF Now
  <2>2. CASE text' # <<>> /\ slot' = 1
    <3>1. Called(s)' = {}
      BY <2>2, ConsoleAssumption DEF Called, Slots
    <3>2. Cardinality(Called(s))' = 0
      BY <3>1, FS_EmptySet
    <3>3. Head(text') \in Ascii
      BY <2>2 DEF PrintInv, TextInv
    <3>4. Now(s)' = Rep(0, Head(text'))
      BY <2>2, <3>2 DEF Now
    <3> QED
      BY <3>3, <3>4, RepFacts
  <2> QED
    BY <2>1, <2>2
<1> QED
  BY <1>1, <1>3, <1>4, ConcatEmptySeq

(* A slot is called: its sink is due one character more.                   *)
LEMMA DueCalled ==
    ASSUME PrintInv, TableInv, ~Struck, NEW s \in Sink, CallSink
    PROVE  Due(s)' = IF sinks[Min(SlotsLeft)] = s THEN Append(Due(s), Head(text)) ELSE Due(s)
<1> DEFINE m == Min(SlotsLeft)
           c == Head(text)
           n == Cardinality(Called(s))
<1>0. text # <<>> /\ SlotsLeft # {} /\ slot' = m + 1 /\ UNCHANGED <<sinks, text, printed>>
  BY DEF CallSink
<1>1. /\ m \in Slots /\ m >= slot /\ \A j \in Slots : slot <= j /\ j < m => sinks[j] = NULL
  BY <1>0, NextSlot
<1>2. c \in Ascii
  BY <1>0 DEF PrintInv, TextInv
<1>3. /\ Due(s) = PastOf(printed, s) \o Now(s) /\ PastOf(printed, s) \in Seq(Ascii)
      /\ Now(s) \in Seq(Ascii) /\ n \in Nat
  BY DueParts
<1>4. Now(s) = Rep(n, c) /\ Now(s)' = Rep(Cardinality(Called(s)'), c)
  BY <1>0 DEF Now
<1>5. Due(s)' = PastOf(printed, s) \o Now(s)'
  <2>1. Due(s)' = PastOf(printed', s) \o Now(s)'
    BY Zenon DEF Due, PastOf, Now, Called, Rep
  <2> QED
    BY <1>0, <2>1
<1> HIDE DEF m, c
<1>6. NSlots \in Nat /\ slot \in Nat /\ NULL \notin Sink
  BY ConsoleAssumption DEF TableInv
<1>7. CASE sinks[m] = s
  <2>1. Called(s)' = Called(s) \cup {m} /\ m \notin Called(s)
    BY <1>0, <1>1, <1>6, <1>7 DEF Called, Slots
  <2>2. Cardinality(Called(s)') = n + 1
    <3>1. Called(s) \subseteq Slots
      BY DEF Called
    <3>2. IsFiniteSet(Called(s))
      BY <3>1, SlotSets
    <3> QED
      BY <2>1, <3>2, FS_AddElement
  <2>3. Now(s)' = Append(Now(s), c)
    BY <1>2, <1>3, <1>4, <2>2, RepFacts
  <2>4. PastOf(printed, s) \o Append(Now(s), c) = Append(PastOf(printed, s) \o Now(s), c)
    <3> DEFINE P == PastOf(printed, s)
               N == Now(s)
    <3>1. P \in Seq(Ascii) /\ N \in Seq(Ascii) /\ <<c>> \in Seq(Ascii) /\ P \o N \in Seq(Ascii)
      BY <1>2, <1>3, ConcatProperties
    <3> HIDE DEF P, N
    <3>2. Append(N, c) = N \o <<c>> /\ Append(P \o N, c) = (P \o N) \o <<c>>
      BY <1>2, <3>1, AppendIsConcat
    <3>3. (P \o N) \o <<c>> = P \o (N \o <<c>>)
      BY <3>1, ConcatAssociative
    <3>4. P \o Append(N, c) = Append(P \o N, c)
      BY <3>2, <3>3
    <3> QED
      BY <3>4 DEF P, N
  <2>5. Due(s)' = Append(Due(s), c)
    BY <1>3, <1>5, <2>3, <2>4
  <2> QED
    BY <1>7, <2>5 DEF m, c
<1>8. CASE sinks[m] # s
  <2>1. Called(s)' = Called(s)
    BY <1>0, <1>1, <1>6, <1>8 DEF Called, Slots
  <2>2. Due(s)' = Due(s)
    BY <1>3, <1>4, <1>5, <2>1
  <2> QED
    BY <1>8, <2>2 DEF m
<1> QED
  BY <1>7, <1>8

(* The character is done: it joins those printed.                          *)
LEMMA DueDone ==
    ASSUME PrintInv, TableInv, PrintInv', TableInv', ~Struck, ~Struck', NEW s \in Sink, CharDone
    PROVE  Due(s)' = Due(s)
<1> DEFINE e == [c |-> Head(text), to |-> owed]
<1>0. text # <<>> /\ SlotsLeft = {} /\ slot' = 1 /\ printed' = Append(printed, e)
  BY DEF CharDone
<1>1. Due(s)' = PastOf(printed', s)
  BY <1>0, DueAtStart
<1>2. printed \in Seq([c : Ascii, to : [Sink -> Nat]]) /\ e \in [c : Ascii, to : [Sink -> Nat]]
  BY <1>0 DEF TableInv, PrintInv, TextInv
<1>3. e.to[s] = owed[s] /\ e.c = Head(text)
  OBVIOUS
<1> HIDE DEF e
<1>4. PastOf(printed', s) = PastOf(printed, s) \o Rep(owed[s], Head(text))
  BY <1>0, <1>2, <1>3, PastAppend
<1>5. Called(s) = {k \in Slots : sinks[k] = s}
  <2>1. NULL \notin Sink /\ slot \in Nat /\ NSlots \in Nat
    BY ConsoleAssumption DEF TableInv
  <2>2. \A k \in Slots : k >= slot => sinks[k] = NULL
    BY <1>0 DEF SlotsLeft
  <2> QED
    BY <2>1, <2>2 DEF Called, Slots
<1>6. Cardinality(Called(s)) = owed[s]
  BY <1>5 DEF TableInv
<1>7. Now(s) = Rep(owed[s], Head(text))
  BY <1>0, <1>6 DEF Now
<1>8. Due(s) = PastOf(printed, s) \o Now(s)
  BY DueParts
<1> QED
  BY <1>1, <1>4, <1>7, <1>8

(* Every sink has what it is due.                                          *)
LEMMA ServedStep ==
    ASSUME PortInv, PrintInv, PrintInv', SentInv, TableInv, TableInv', ServedInv, [Next]_vars
    PROVE  ServedInv'
<1> SUFFICES ASSUME ~Struck'
             PROVE  /\ \A s \in Sink \ {"serial"} : log'[s] = Due(s)'
                    /\ \E u \in Seq(Ascii) : Due("serial")' = u \o sent'
  BY DEF ServedInv
<1>1. ~Struck /\ "serial" \in Sink
  BY StruckStays, ConsoleAssumption
<1>2. /\ \A s \in Sink \ {"serial"} : log[s] = Due(s)
      /\ \E u \in Seq(Ascii) : Due("serial") = u \o sent
  BY <1>1 DEF ServedInv
<1>3. \A s \in Sink : Due(s) \in Seq(Ascii)
  BY <1>1, DueParts
<1>4. CASE /\ \A s \in Sink : Due(s)' = Due(s)
           /\ log' = log /\ (sent' = sent \/ sent' = <<>>)
  <2>1. \A s \in Sink \ {"serial"} : log'[s] = Due(s)'
    BY <1>2, <1>4
  <2>2. CASE sent' = sent
    BY <1>1, <1>2, <1>4, <2>1, <2>2
  <2>3. CASE sent' = <<>>
    <3>1. Due("serial") \o <<>> = Due("serial")
      BY <1>1, <1>3, ConcatEmptySeq
    <3>2. Due("serial")' = Due("serial") \o sent'
      BY <1>1, <1>4, <2>3, <3>1
    <3> QED
      BY <1>1, <1>3, <2>1, <3>2
  <2> QED
    BY <1>4, <2>2, <2>3
<1>5. CASE NextPiece
  <2>1. text = <<>> /\ slot' = 1 /\ UNCHANGED <<printed, log, sent>>
    BY <1>5 DEF NextPiece
  <2>2. ASSUME NEW s \in Sink
        PROVE  Due(s)' = Due(s)
    BY <1>1, <2>1, DueParts, DueAtStart
  <2> QED
    BY <1>4, <2>1, <2>2
<1>6. CASE CallSink
  <2> DEFINE m == Min(SlotsLeft)
             c == Head(text)
  <2>1. \A s \in Sink : Due(s)' = IF sinks[m] = s THEN Append(Due(s), c) ELSE Due(s)
    BY <1>1, <1>6, DueCalled
  <2>2. sinks[m] \in Sink /\ c \in Ascii
    <3>1. text # <<>> /\ SlotsLeft # {}
      BY <1>6 DEF CallSink
    <3> QED
      BY <1>1, <3>1, NextSlot DEF PrintInv, TextInv
  <2>3. CASE sinks[m] = "serial"
    <3>1. sent' = (IF initialized THEN Append(sent, c) ELSE <<c>>) /\ log' = log
      BY <1>6, <2>3 DEF CallSink, Wild
    <3> HIDE DEF m, c
    <3>2. \A s \in Sink \ {"serial"} : log'[s] = Due(s)'
      BY <1>2, <2>1, <2>3, <3>1
    <3>3. Due("serial")' = Append(Due("serial"), c)
      BY <1>1, <2>1, <2>3
    <3>4. CASE initialized
      <4>1. PICK u \in Seq(Ascii) : Due("serial") = u \o sent
        BY <1>2
      <4>2. sent \in Seq(Bytes) /\ u \in Seq(Bytes) /\ c \in Bytes
        BY <2>2, MessagesAssumption DEF SentInv, Bytes
      <4>3. Append(sent, c) = sent \o <<c>> /\ <<c>> \in Seq(Bytes)
        BY <4>2, AppendIsConcat
      <4>4. u \o sent \in Seq(Bytes)
        BY <4>2, ConcatProperties
      <4>5. Append(u \o sent, c) = (u \o sent) \o <<c>>
        BY <4>2, <4>4, AppendIsConcat
      <4>6. (u \o sent) \o <<c>> = u \o (sent \o <<c>>)
        BY <4>2, <4>3, ConcatAssociative
      <4>7. Due("serial")' = u \o sent'
        BY <3>1, <3>3, <3>4, <4>1, <4>3, <4>5, <4>6
      <4> QED
        BY <3>2, <4>7
    <3>5. CASE ~initialized
      <4>1. Append(Due("serial"), c) = Due("serial") \o <<c>>
        BY <1>1, <1>3, <2>2, AppendIsConcat
      <4>2. Due("serial")' = Due("serial") \o sent'
        BY <3>1, <3>3, <3>5, <4>1
      <4> QED
        BY <1>1, <1>3, <3>2, <4>2
    <3> QED
      BY <3>4, <3>5
  <2>4. CASE sinks[m] # "serial"
    <3>1. sinks[m] # Wild
      BY <2>2, ConsoleAssumption
    <3>2. log' = [log EXCEPT ![sinks[m]] = Append(log[sinks[m]], c)] /\ sent' = sent
      BY <1>6, <2>4, <3>1 DEF CallSink
    <3>3. log \in [Sink -> Seq(Ascii)]
      BY <1>1 DEF TableInv
    <3> HIDE DEF m, c
    <3>4. ASSUME NEW s \in Sink \ {"serial"}
          PROVE  log'[s] = Due(s)'
      BY <1>2, <2>1, <2>2, <3>2, <3>3
    <3>5. Due("serial")' = Due("serial")
      BY <1>1, <2>1, <2>4
    <3> QED
      BY <1>2, <3>2, <3>4, <3>5
  <2> QED
    BY <2>3, <2>4
<1>7. CASE CharDone
  <2>1. UNCHANGED <<log, sent>>
    BY <1>7 DEF CharDone
  <2>2. ASSUME NEW s \in Sink
        PROVE  Due(s)' = Due(s)
    BY <1>1, <1>7, DueDone
  <2> QED
    BY <1>4, <2>1, <2>2
<1>8. CASE RegisterPort \/ dbg_msg \/ ChangeSinks \/ ReadKey
  <2>1. text = <<>>
    BY <1>8 DEF RegisterPort, dbg_msg, ChangeSinks, ReadKey, Ready, Printing, SentInv
  <2>2. text' = text /\ printed' = printed /\ log' = log
    BY <1>8 DEF RegisterPort, dbg_msg, ChangeSinks, ReadKey, out, hist
  <2>3. sent' = sent \/ sent' = <<>>
    BY <1>8 DEF RegisterPort, dbg_msg, ChangeSinks, ReadKey, hist
  <2>4. ASSUME NEW s \in Sink
        PROVE  Due(s)' = Due(s)
    BY <1>1, <2>1, <2>2, DueParts, DueAtStart
  <2> QED
    BY <1>4, <2>2, <2>3, <2>4
<1>9. CASE InitPort \/ Driver \/ Exit \/ Port \/ User \/ Stopped \/ UNCHANGED vars
  <2>1. UNCHANGED <<printed, log, sent, text, slot, sinks>>
    BY <1>9 DEF InitPort, Driver, Exit, Port, User, Stopped, vars, mine, out, hist
  <2>2. ASSUME NEW s \in Sink
        PROVE  Due(s)' = Due(s)
    BY <2>1, Zenon DEF Due
  <2> QED
    BY <1>4, <2>1, <2>2
<1> QED
  BY <1>5, <1>6, <1>7, <1>8, <1>9 DEF Next, Kernel

(* Every sink gets every character once for each of its registrations, and *)
(* the open port all of them from the one that opened it on (SinksServed): *)
(* for a table of any size, and any order of messages, registrations and   *)
(* retries of the port, as long as no store has hit the table.             *)
THEOREM SinksServedThm == Spec => []SinksServed
<1> DEFINE All == SentInv /\ TableInv /\ ServedInv
<1>1. Init => All
  <2> SUFFICES ASSUME Init
               PROVE  All
    OBVIOUS
  <2>1. /\ drv = "idle" /\ ~initialized
    BY DEF Init, SerialInit
  <2>2. /\ sent = <<>> /\ fmt = <<>> /\ text = <<>> /\ slot = 1 /\ sinks = [k \in Slots |-> NULL]
        /\ owed = [s \in Sink |-> 0] /\ printed = <<>> /\ log = [s \in Sink |-> <<>>]
    BY DEF Init
  <2>3. SentInv
    BY <2>1, <2>2 DEF SentInv, Delivered
  <2>4. TableInv
    <3>1. NULL \notin Sink /\ NSlots \in Nat
      BY ConsoleAssumption
    <3>2. \A s \in Sink : {k \in Slots : sinks[k] = s} = {}
      BY <2>2, <3>1
    <3>3. \A s \in Sink : owed[s] = Cardinality({k \in Slots : sinks[k] = s})
      BY <2>2, <3>2, FS_EmptySet
    <3>4. /\ sinks \in [Slots -> Sink \cup {NULL}] /\ owed \in [Sink -> Nat]
          /\ log \in [Sink -> Seq(Ascii)] /\ slot \in 1 .. NSlots + 1
      BY <2>2, <3>1
    <3>5. printed \in Seq([c : Ascii, to : [Sink -> Nat]])
      BY <2>2
    <3> QED
      BY <3>3, <3>4, <3>5 DEF TableInv
  <2>5. ServedInv
    <3>1. ASSUME NEW s
          PROVE  Due(s) = <<>>
      <4>1. PastOf(printed, s) = <<>>
        <5> DEFINE e == [k \in DOMAIN printed |-> Rep(printed[k].to[s], printed[k].c)]
        <5>1. e = <<>>
          BY <2>2
        <5>2. Len(e) = 0
          BY <5>1
        <5>3. FlattenSeq(e) = e
          BY <5>2 DEF FlattenSeq
        <5> QED
          BY <5>1, <5>3 DEF PastOf
      <4>2. Now(s) = <<>>
        BY <2>2 DEF Now
      <4>3. Due(s) = PastOf(printed, s) \o Now(s)
        BY Zenon DEF Due, PastOf, Now, Called, Rep
      <4> QED
        BY <4>1, <4>2, <4>3
    <3>2. Due("serial") = <<>> \o sent /\ <<>> \in Seq(Ascii)
      BY <2>2, <3>1
    <3> QED
      BY <2>2, <3>1, <3>2 DEF ServedInv
  <2> QED
    BY <2>3, <2>4, <2>5
<1>2. PortInv /\ PrintInv /\ PortInv' /\ PrintInv' /\ All /\ [Next]_vars => All'
  BY SentStep, TableStep, ServedStep
<1>3. PortInv /\ PrintInv /\ All => SinksServed
  <2> SUFFICES ASSUME PortInv, PrintInv, All, ~Struck
               PROVE  /\ \A s \in Sink \ {"serial"} : log[s] = Due(s)
                      /\ IsSuffix(sent, Due("serial"))
    BY DEF SinksServed, Struck
  <2>1. PICK u \in Seq(Ascii) : Due("serial") = u \o sent
    BY DEF ServedInv
  <2>2. sent \in Seq(Bytes) /\ u \in Seq(Bytes)
    BY MessagesAssumption DEF SentInv, Bytes
  <2>3. IsSuffix(sent, u \o sent)
    BY <2>2, SuffixOfConcat
  <2> QED
    BY <2>1, <2>3 DEF ServedInv
<1> QED
  BY <1>1, <1>2, <1>3, PortAlways, PTL DEF Spec

-----------------------------------------------------------------------------
(* The solutions of a recursion over digits with step st; there is one.    *)
Solutions(m, z, st) ==
    {g \in [0 .. m -> Int] : g[0] = z /\ \A k \in 1 .. m : g[k] = st[<<g[k - 1], k>>]}

LEMMA RecursionDefined ==
    ASSUME NEW m \in Nat, NEW z \in Int, NEW st \in [Int \X (1 .. m) -> Int]
    PROVE  Solutions(m, z, st) # {}
<1> DEFINE S == Int
           R(g, j) == g[0] = z /\ \A k \in 1 .. j : g[k] = st[<<g[k - 1], k>>]
           D(j) == j <= m => \E g \in [0 .. j -> S] : R(g, j)
           P == {j \in Nat : D(j)}
<1>1. 0 \in P
  <2>1. [k \in 0 .. 0 |-> z] \in [0 .. 0 -> S] /\ R([k \in 0 .. 0 |-> z], 0)
    OBVIOUS
  <2>2. D(0)
    BY <2>1, Zenon
  <2> HIDE DEF D
  <2> QED
    BY <2>2
<1>2. ASSUME NEW j \in Nat, j \in P
      PROVE  j + 1 \in P
  <2>1. D(j)
    BY <1>2, Zenon
  <2>2. ASSUME j + 1 <= m
        PROVE  \E g \in [0 .. j + 1 -> S] : R(g, j + 1)
    <3>1. j <= m
      BY <2>2
    <3>2. PICK g \in [0 .. j -> S] : R(g, j)
      BY <2>1, <3>1, Zenon
    <3> DEFINE x == st[<<g[j], j + 1>>]
               h == [k \in 0 .. j + 1 |-> IF k = j + 1 THEN x ELSE g[k]]
    <3>3. x \in S
      BY <2>2, <3>2
    <3> HIDE DEF x
    <3>4. h \in [0 .. j + 1 -> S]
      BY <3>2, <3>3
    <3>5. h[0] = z
      BY <3>2
    <3>6. ASSUME NEW k \in 1 .. j + 1
          PROVE  h[k] = st[<<h[k - 1], k>>]
      <4>1. CASE k = j + 1
        <5>1. k - 1 = j /\ j \in 0 .. j + 1 /\ j # j + 1 /\ k \in 0 .. j + 1
          BY <4>1
        <5>2. h[k] = x /\ h[k - 1] = g[j]
          BY <4>1, <5>1
        <5> QED
          BY <4>1, <5>2, Zenon DEF x
      <4>2. CASE k # j + 1
        <5>1. k \in 1 .. j /\ k \in 0 .. j + 1 /\ k - 1 \in 0 .. j + 1 /\ k - 1 # j + 1
          BY <4>2
        <5> QED
          BY <3>2, <4>2, <5>1
      <4> QED
        BY <4>1, <4>2
    <3> QED
      BY <3>4, <3>5, <3>6
  <2>3. D(j + 1)
    BY <2>2, Zenon
  <2> HIDE DEF D
  <2> QED
    BY <2>3
<1>3. D(m)
  <2>1. Nat \subseteq P
    <3> HIDE DEF P
    <3> QED
      BY <1>1, <1>2, NatSetInduction
  <2>2. m \in P
    BY <2>1
  <2> HIDE DEF D
  <2> QED
    BY <2>2
<1>4. m <= m
  OBVIOUS
<1>5. PICK g \in [0 .. m -> S] : R(g, m)
  BY <1>3, <1>4, Zenon
<1>6. g \in Solutions(m, z, st)
  BY <1>5, Zenon DEF Solutions
<1> QED
  BY <1>6

(* The reference is defined.                                               *)
LEMMA ValuesDefined ==
    ASSUME NEW ds \in Seq(Nat), NEW base \in Nat
    PROVE  LET F == Values(ds, base) IN
           /\ F = [k \in 0 .. Len(ds) |-> IF k = 0 THEN 0 ELSE base * F[k - 1] + ds[k]]
           /\ F[0] = 0 /\ \A k \in 1 .. Len(ds) : F[k] = base * F[k - 1] + ds[k]
<1> DEFINE m == Len(ds)
           st == [p \in Int \X (1 .. m) |-> base * p[1] + ds[p[2]]]
           F == Values(ds, base)
<1>1. m \in Nat /\ \A k \in 1 .. m : ds[k] \in Nat
  OBVIOUS
<1>2. PICK g \in [0 .. m -> Int] : g[0] = 0 /\ \A k \in 1 .. m : g[k] = st[<<g[k - 1], k>>]
  <2>1. ASSUME NEW x \in Int, NEW k \in 1 .. m
        PROVE  base * x + ds[k] \in Int
    BY <1>1
  <2> HIDE DEF m
  <2>2. st \in [Int \X (1 .. m) -> Int]
    BY <2>1
  <2> HIDE DEF st
  <2>3. m \in Nat /\ 0 \in Int
    BY <1>1
  <2>4. Solutions(m, 0, st) # {}
    BY <2>2, <2>3, RecursionDefined
  <2> QED
    BY <2>4, Zenon DEF Solutions
<1> HIDE DEF m
<1>3. g = [k \in 0 .. m |-> IF k = 0 THEN 0 ELSE base * g[k - 1] + ds[k]]
  <2>1. ASSUME NEW k \in 0 .. m
        PROVE  g[k] = IF k = 0 THEN 0 ELSE base * g[k - 1] + ds[k]
    <3>1. CASE k = 0
      BY <1>2, <3>1
    <3>2. CASE k # 0
      <4>1. k \in 1 .. m /\ k - 1 \in 0 .. m
        BY <1>1, <3>2
      <4>2. g[k - 1] \in Int
        BY <1>2, <4>1
      <4>3. st[<<g[k - 1], k>>] = base * g[k - 1] + ds[k]
        BY <4>1, <4>2
      <4> QED
        BY <1>2, <3>2, <4>1, <4>3
    <3> QED
      BY <3>1, <3>2
  <2> QED
    BY <1>2, <2>1
<1>4. F = [k \in 0 .. m |-> IF k = 0 THEN 0 ELSE base * F[k - 1] + ds[k]]
  BY <1>3, Zenon DEF Values, m
<1> HIDE DEF F
<1>5. F[0] = 0 /\ \A k \in 1 .. m : F[k] = base * F[k - 1] + ds[k]
  BY <1>1, <1>4
<1> QED
  BY <1>4, <1>5 DEF m, F

(* Dividing by two powers in a row.                                        *)
LEMMA DivTwice ==
    ASSUME NEW v \in Nat, NEW p \in Nat \ {0}, NEW b \in Nat \ {0}
    PROVE  v \div p = b * (v \div (b * p)) + ((v \div p) % b)
<1> DEFINE x == v \div p
           r == v % p
           y == x \div b
           d == x % b
           w == b * p
<1>1. x \in Nat /\ r \in 0 .. p - 1 /\ v = x * p + r
  OBVIOUS
<1> HIDE DEF x, r
<1>2. y \in Nat /\ d \in 0 .. b - 1 /\ x = y * b + d
  BY <1>1
<1> HIDE DEF y, d
<1>3. w \in Nat \ {0}
  OBVIOUS
<1>4. v = y * w + (d * p + r)
  <2>1. (y * b + d) * p = y * (b * p) + d * p
    BY <1>2
  <2> QED
    BY <1>1, <1>2, <2>1
<1>5. d * p + r \in 0 .. w - 1
  <2>1. d * p \in Nat /\ d * p <= (b - 1) * p
    BY <1>2
  <2>2. (b - 1) * p = b * p - p
    OBVIOUS
  <2> QED
    BY <1>1, <1>3, <2>1, <2>2
<1> DEFINE e == d * p + r
<1> HIDE DEF e, w
<1>6. v \div w = y
  <2>1. v = y * w + e /\ e \in 0 .. w - 1
    BY <1>4, <1>5 DEF e
  <2> QED
    BY <1>2, <1>3, <2>1
<1>7. x = b * y + d
  BY <1>2
<1> QED
  BY <1>6, <1>7 DEF x, d, w

(* Nothing is left of a number by a greater one.                           *)
LEMMA DivSmall ==
    ASSUME NEW v \in Nat, NEW w \in Nat \ {0}, v < w
    PROVE  v \div w = 0
  OBVIOUS

(* P are the powers of b up to the n-th.                                   *)
Powers(P, b, n) ==
    /\ \A k \in 0 .. n : P[k] \in Nat \ {0}
    /\ P[0] = 1 /\ \A k \in 1 .. n : P[k] = b * P[k - 1]

(* ds are the digits of v with the weights P[n - 1] down to P[0].          *)
DigitsOf(ds, v, P, b, n) == \A k \in 1 .. n : ds[k] = (v \div P[n - k]) % b

(* The digits of a number are a numeral of it.                             *)
LEMMA NumeralValue ==
    ASSUME NEW b \in Nat \ {0}, NEW n \in Nat, NEW P, Powers(P, b, n),
           NEW v \in Nat, v < P[n],
           NEW ds \in Seq(Nat), Len(ds) = n, DigitsOf(ds, v, P, b, n)
    PROVE  Value(ds, b) = v
<1>0. /\ \A k \in 0 .. n : P[k] \in Nat \ {0}
      /\ P[0] = 1 /\ \A k \in 1 .. n : P[k] = b * P[k - 1]
      /\ \A k \in 1 .. n : ds[k] = (v \div P[n - k]) % b
  BY Zenon DEF Powers, DigitsOf
<1> USE <1>0
<1> DEFINE V == Values(ds, b)
           Q == {k \in Nat : k <= n => V[k] = v \div P[n - k]}
<1>1. V[0] = 0 /\ \A k \in 1 .. n : V[k] = b * V[k - 1] + ds[k]
  BY ValuesDefined
<1> HIDE DEF V
<1>2. 0 \in Q
  <2>1. n - 0 = n /\ n \in 0 .. n
    OBVIOUS
  <2> DEFINE w == P[n]
  <2>2. w \in Nat \ {0} /\ v < w
    BY <2>1
  <2> HIDE DEF w
  <2>3. v \div w = 0
    BY <2>2, DivSmall
  <2> QED
    BY <1>1, <2>1, <2>3 DEF w
<1>3. ASSUME NEW k \in Nat, k \in Q
      PROVE  k + 1 \in Q
  <2>1. ASSUME k + 1 <= n
        PROVE  V[k + 1] = v \div P[n - (k + 1)]
    <3> DEFINE j == n - (k + 1)
    <3>1. /\ k + 1 \in 1 .. n /\ (k + 1) - 1 = k /\ k <= n
          /\ j \in 0 .. n /\ n - k \in 1 .. n /\ (n - k) - 1 = j
      BY <2>1
    <3>2. V[k] = v \div P[n - k]
      BY <1>3, <3>1
    <3>3. P[n - k] = b * P[j] /\ P[j] \in Nat \ {0}
      BY <3>1
    <3>4. ds[k + 1] = (v \div P[j]) % b
      BY <3>1
    <3>5. V[k + 1] = b * V[k] + ds[k + 1]
      BY <1>1, <3>1
    <3> DEFINE q == P[j]
    <3>6. q \in Nat \ {0}
      BY <3>3
    <3>7. V[k + 1] = b * (v \div (b * q)) + ((v \div q) % b)
      BY <3>2, <3>3, <3>4, <3>5
    <3> HIDE DEF q, j
    <3>8. v \div q = b * (v \div (b * q)) + ((v \div q) % b)
      BY <3>6, DivTwice
    <3>9. V[k + 1] = v \div q
      BY <3>7, <3>8
    <3> QED
      BY <3>9 DEF q, j
  <2> QED
    BY <2>1
<1>4. n \in Q
  <2> HIDE DEF Q
  <2> QED
    BY <1>2, <1>3, NatSetInduction
<1>5. n <= n /\ n - n = 0 /\ v \div 1 = v
  OBVIOUS
<1>6. V[n] = v
  BY <1>4, <1>5
<1> QED
  BY <1>6 DEF Value, V

(* Powers grow.                                                            *)
LEMMA PowersGrow ==
    ASSUME NEW b \in Nat \ {0}, NEW n \in Nat, NEW P,
           \A k \in 0 .. n : P[k] \in Nat \ {0},
           \A k \in 1 .. n : P[k] = b * P[k - 1]
    PROVE  \A k \in 0 .. n : \A j \in 0 .. k : P[j] <= P[k]
<1> DEFINE Q == {k \in Nat : k <= n => \A j \in 0 .. k : P[j] <= P[k]}
<1>1. 0 \in Q
  OBVIOUS
<1>2. ASSUME NEW k \in Nat, k \in Q
      PROVE  k + 1 \in Q
  <2>1. ASSUME k + 1 <= n, NEW j \in 0 .. k + 1
        PROVE  P[j] <= P[k + 1]
    <3>1. k \in 0 .. n /\ k + 1 \in 0 .. n /\ k + 1 \in 1 .. n /\ (k + 1) - 1 = k /\ j \in 0 .. n
      BY <2>1
    <3>2. P[k] \in Nat \ {0} /\ P[k + 1] = b * P[k] /\ P[j] \in Nat /\ P[k + 1] \in Nat
      BY <3>1
    <3>3. P[k] <= P[k + 1]
      <4> DEFINE x == P[k]
      <4>1. x \in Nat /\ P[k + 1] = b * x
        BY <3>2
      <4> HIDE DEF x
      <4>2. x <= b * x
        BY <4>1
      <4> QED
        BY <4>1, <4>2 DEF x
    <3>4. CASE j = k + 1
      BY <3>2, <3>4
    <3>5. CASE j # k + 1
      <4>1. j \in 0 .. k /\ k <= n
        BY <3>1, <3>5
      <4>2. P[j] <= P[k]
        BY <1>2, <4>1
      <4> QED
        BY <3>2, <3>3, <4>2
    <3> QED
      BY <3>4, <3>5
  <2> QED
    BY <2>1
<1>3. Nat \subseteq Q
  <2> HIDE DEF Q
  <2> QED
    BY <1>1, <1>2, NatSetInduction
<1> QED
  BY <1>3

(* A word has no more than MaxLen decimal digits.                          *)
LEMMA WordsFit ==
    \A n \in 0 .. LongDigits : Word(n) \in Nat \ {0} /\ Word(n) <= Word(LongDigits) /\ Word(n) <= Pow10[MaxLen]
<1>1. /\ LongDigits \in Nat /\ MaxLen = 3 * LongDigits /\ MaxLen \in Nat
      /\ \A k \in 0 .. MaxLen : Pow10[k] \in Nat \ {0}
      /\ \A k \in 0 .. LongDigits : Pow16[k] \in Nat \ {0}
      /\ Pow10[0] = 1 /\ \A k \in 1 .. MaxLen : Pow10[k] = 10 * Pow10[k - 1]
      /\ Pow16[0] = 1 /\ \A k \in 1 .. LongDigits : Pow16[k] = 16 * Pow16[k - 1]
  BY PowFacts DEF MaxLen
<1> DEFINE Q == {k \in Nat : k <= LongDigits => Pow16[k] <= Pow10[3 * k]}
<1> HIDE DEF MaxLen
<1>2. 0 \in Q
  BY <1>1
<1>3. ASSUME NEW k \in Nat, k \in Q
      PROVE  k + 1 \in Q
  <2>1. ASSUME k + 1 <= LongDigits
        PROVE  Pow16[k + 1] <= Pow10[3 * (k + 1)]
    <3>1. /\ k \in 0 .. LongDigits /\ k + 1 \in 1 .. LongDigits /\ (k + 1) - 1 = k
          /\ 3 * k \in 0 .. MaxLen
          /\ 3 * k + 1 \in 1 .. MaxLen /\ (3 * k + 1) - 1 = 3 * k
          /\ 3 * k + 2 \in 1 .. MaxLen /\ (3 * k + 2) - 1 = 3 * k + 1
          /\ 3 * (k + 1) \in 1 .. MaxLen /\ 3 * (k + 1) - 1 = 3 * k + 2
      BY <1>1, <2>1
    <3> DEFINE x == Pow16[k]
               y == Pow10[3 * k]
    <3>2. Pow16[k + 1] = 16 * x
      BY <1>1, <3>1
    <3>3. Pow10[3 * k + 1] = 10 * y
      BY <1>1, <3>1
    <3>4. Pow10[3 * k + 2] = 10 * Pow10[3 * k + 1]
      BY <1>1, <3>1
    <3>5. Pow10[3 * (k + 1)] = 10 * Pow10[3 * k + 2]
      BY <1>1, <3>1
    <3>6. x \in Nat /\ y \in Nat /\ x <= y
      BY <1>1, <1>3, <3>1
    <3> HIDE DEF x, y
    <3>7. 16 * x <= 10 * (10 * (10 * y))
      BY <3>6
    <3> QED
      BY <3>2, <3>3, <3>4, <3>5, <3>7
  <2> QED
    BY <2>1
<1>4. Nat \subseteq Q
  <2> HIDE DEF Q
  <2> QED
    BY <1>2, <1>3, NatSetInduction
<1>5. Pow16[LongDigits] <= Pow10[MaxLen]
  BY <1>1, <1>4
<1>6. \A k \in 0 .. LongDigits : \A j \in 0 .. k : Pow16[j] <= Pow16[k]
  <2>1. 16 \in Nat \ {0}
    OBVIOUS
  <2> QED
    BY <1>1, <2>1, PowersGrow
<1>7. ASSUME NEW n \in 0 .. LongDigits
      PROVE  Word(n) \in Nat \ {0} /\ Word(n) <= Word(LongDigits) /\ Word(n) <= Pow10[MaxLen]
  <2>1. LongDigits \in 0 .. LongDigits /\ MaxLen \in 0 .. MaxLen
    BY <1>1
  <2>2. Pow16[n] <= Pow16[LongDigits]
    BY <1>6, <2>1
  <2>3. Pow16[n] \in Nat \ {0} /\ Pow16[LongDigits] \in Nat /\ Pow10[MaxLen] \in Nat
    BY <1>1, <2>1
  <2> QED
    BY <1>5, <2>2, <2>3 DEF Word
<1> QED
  BY <1>7

(* The loop over sizeTest counts the digits behind the first.              *)
LEMMA LengthExact ==
    ASSUME NEW v \in Nat, v < Pow10[MaxLen]
    PROVE  /\ length(v) \in 0 .. MaxLen - 1 /\ v < Pow10[length(v) + 1]
           /\ length(v) > 0 => Pow10[length(v)] <= v
<1>1. /\ MaxLen \in Nat \ {0} /\ Pow10[0] = 1
      /\ \A k \in 0 .. MaxLen : Pow10[k] \in Nat \ {0}
      /\ \A k \in 1 .. MaxLen : Pow10[k] = 10 * Pow10[k - 1]
  BY PowFacts DEF MaxLen
<1> HIDE DEF MaxLen
<1>2. \A k \in 0 .. MaxLen : \A j \in 0 .. k : Pow10[j] <= Pow10[k]
  <2>1. 10 \in Nat \ {0} /\ MaxLen \in Nat
    BY <1>1
  <2> QED
    BY <1>1, <2>1, PowersGrow
<1> DEFINE T == {k \in 1 .. MaxLen : v < Pow10[k]}
           A == {k \in 1 .. MaxLen : v \div Pow10[k] > 0}
<1>3. PICK x \in T : \A y \in T : x <= y
  <2>1. T \in SUBSET Nat /\ MaxLen \in T
    BY <1>1
  <2> HIDE DEF T
  <2> QED
    BY <2>1, Least
<1>4. x \in 1 .. MaxLen /\ v < Pow10[x]
  BY <1>3
<1>5. \A k \in 1 .. x - 1 : Pow10[k] <= v
  <2>1. ASSUME NEW k \in 1 .. x - 1
        PROVE  Pow10[k] <= v
    <3>1. k \in 1 .. MaxLen /\ ~(x <= k) /\ k \in 0 .. MaxLen
      BY <1>1, <1>4
    <3>2. k \notin T
      BY <1>3, <3>1
    <3>3. Pow10[k] \in Nat
      BY <1>1, <3>1
    <3> QED
      BY <3>1, <3>2, <3>3
  <2> QED
    BY <2>1
<1>6. ASSUME NEW p \in Nat \ {0}
      PROVE  v \div p > 0 <=> p <= v
  <2>1. CASE p <= v
    <3> DEFINE d == v \div p
               e == v % p
    <3>1. d \in Nat /\ e \in 0 .. p - 1 /\ v = d * p + e
      OBVIOUS
    <3> HIDE DEF d, e
    <3>2. d = 0 => v = e
      BY <3>1
    <3>3. d > 0
      BY <2>1, <3>1, <3>2
    <3> QED
      BY <2>1, <3>3 DEF d
  <2>2. CASE v < p
    BY <2>2
  <2> QED
    BY <2>1, <2>2
<1>7. A = 1 .. x - 1
  <2>1. ASSUME NEW k \in 1 .. MaxLen
        PROVE  v \div Pow10[k] > 0 <=> k \in 1 .. x - 1
    <3>1. Pow10[k] \in Nat \ {0} /\ k \in 0 .. MaxLen /\ Pow10[x] \in Nat
      BY <1>1, <1>4
    <3>2. v \div Pow10[k] > 0 <=> Pow10[k] <= v
      BY <1>6, <3>1
    <3>3. CASE k \in 1 .. x - 1
      BY <1>5, <3>2, <3>3
    <3>4. CASE k \notin 1 .. x - 1
      <4>1. x \in 0 .. k
        BY <1>4, <3>4
      <4>2. Pow10[x] <= Pow10[k]
        BY <1>2, <3>1, <4>1
      <4> QED
        BY <1>4, <3>1, <3>2, <3>4, <4>2
    <3> QED
      BY <3>3, <3>4
  <2>2. 1 .. x - 1 \subseteq 1 .. MaxLen
    BY <1>1, <1>4
  <2> QED
    BY <2>1, <2>2
<1>8. length(v) = x - 1
  <2>1. length(v) = Cardinality(1 .. x - 1)
    BY <1>7 DEF length
  <2>2. Cardinality(1 .. x - 1) = IF 1 > x - 1 THEN 0 ELSE (x - 1) - 1 + 1
    <3>1. 1 \in Int /\ x - 1 \in Int
      BY <1>4
    <3> QED
      BY <3>1, FS_Interval
  <2> QED
    BY <1>4, <2>1, <2>2
<1>9. (x - 1) + 1 = x /\ x - 1 \in 0 .. MaxLen - 1 /\ (x - 1 > 0 => x - 1 \in 1 .. x - 1)
  BY <1>1, <1>4
<1> QED
  BY <1>4, <1>5, <1>8, <1>9

-----------------------------------------------------------------------------
(* The string of a buffer, given where its first 0 is.                     *)
LEMMA StrIs ==
    ASSUME NEW b, NEW z \in 0 .. MaxLen + 2, b[z] = 0, \A k \in 0 .. z - 1 : b[k] # 0
    PROVE  Str(b) = [k \in 1 .. z |-> b[k - 1]]
<1> DEFINE E(n) == b[n] = 0 /\ \A k \in 0 .. n - 1 : b[k] # 0
<1>0. MaxLen \in Nat
  BY PowFacts
<1> HIDE DEF MaxLen
<1>1. E(z)
  OBVIOUS
<1>2. ASSUME NEW n \in 0 .. MaxLen + 2, E(n)
      PROVE  n = z
  <2>1. ~(z < n)
    <3>1. ASSUME z < n
          PROVE  FALSE
      <4>1. z \in 0 .. n - 1
        BY <1>0, <3>1
      <4> QED
        BY <1>2, <4>1
    <3> QED
      BY <3>1
  <2>2. ~(n < z)
    <3>1. ASSUME n < z
          PROVE  FALSE
      <4>1. n \in 0 .. z - 1
        BY <1>0, <3>1
      <4> QED
        BY <1>2, <4>1
    <3> QED
      BY <3>1
  <2> QED
    BY <1>0, <2>1, <2>2
<1>3. (CHOOSE n \in 0 .. MaxLen + 2 : E(n)) = z
  <2> HIDE DEF E
  <2> QED
    BY <1>1, <1>2, Zenon
<1> QED
  BY <1>3, Zenon DEF Str

(* The digits in their order are the decimal numeral.                      *)
LEMMA DecimalDigits ==
    ASSUME NEW v \in Nat, NEW n \in 1 .. MaxLen, v < Pow10[n],
           n > 1 => Pow10[n - 1] <= v,
           NEW s \in Seq(Int), Len(s) = n,
           \A k \in 1 .. n : s[k] = Zero0 + digit(v, n - k)
    PROVE  IsDecimal(s, v)
<1> DEFINE ds == [k \in 1 .. n |-> digit(v, n - k)]
<1>1. /\ MaxLen \in Nat /\ Pow10[0] = 1
      /\ \A k \in 0 .. MaxLen : Pow10[k] \in Nat \ {0}
      /\ \A k \in 1 .. MaxLen : Pow10[k] = 10 * Pow10[k - 1]
  BY PowFacts
<1> HIDE DEF MaxLen
<1>2. n \in Nat \ {0} /\ n <= MaxLen /\ DOMAIN s = 1 .. n
  BY <1>1
<1>3. ASSUME NEW k \in 1 .. n
      PROVE  digit(v, n - k) \in 0 .. 9 /\ digit(v, n - k) \in Nat
  <2>1. n - k \in 0 .. MaxLen
    BY <1>1, <1>2
  <2>2. digit(v, n - k) \in 0 .. 9
    BY <2>1, DigitFits
  <2> QED
    BY <2>2
<1>4. ds \in [1 .. n -> Nat]
  BY <1>3, Zenon
<1>5. \A k \in 1 .. n : ds[k] = digit(v, n - k)
  OBVIOUS
<1>6. [k \in DOMAIN s |-> s[k] - Zero0] = ds
  <2>1. \A k \in 1 .. n : s[k] - Zero0 = digit(v, n - k)
    BY <1>3 DEF Zero0
  <2> QED
    BY <1>2, <2>1
<1> HIDE DEF ds
<1>7. ds \in Seq(Nat) /\ Len(ds) = n
  BY <1>2, <1>4
<1>8. Value(ds, 10) = v
  <2>1. 10 \in Nat \ {0} /\ n \in Nat
    BY <1>2
  <2>2. \A k \in 0 .. n : k \in 0 .. MaxLen
    BY <1>1, <1>2
  <2>3. \A k \in 1 .. n : k \in 1 .. MaxLen
    BY <1>1, <1>2
  <2>4. /\ \A k \in 0 .. n : Pow10[k] \in Nat \ {0}
        /\ \A k \in 1 .. n : Pow10[k] = 10 * Pow10[k - 1]
    BY <1>1, <2>2, <2>3
  <2>5. \A k \in 1 .. n : ds[k] = (v \div Pow10[n - k]) % 10
    BY <1>5 DEF digit
  <2> DEFINE P == Pow10
             b == 10
  <2>6. Powers(P, b, n) /\ v < P[n] /\ DigitsOf(ds, v, P, b, n)
    BY <1>1, <2>4, <2>5 DEF Powers, DigitsOf
  <2>7. b \in Nat \ {0}
    OBVIOUS
  <2> HIDE DEF P, b
  <2>8. Value(ds, b) = v
    BY <1>7, <2>1, <2>6, <2>7, NumeralValue, Zenon
  <2> QED
    BY <2>8 DEF b
<1>9. ASSUME NEW k \in DOMAIN s
      PROVE  s[k] \in Zero0 .. Zero0 + 9
  <2>1. k \in 1 .. n
    BY <1>2
  <2> DEFINE x == digit(v, n - k)
  <2>2. x \in 0 .. 9 /\ s[k] = Zero0 + x
    BY <1>3, <2>1
  <2> HIDE DEF x
  <2> QED
    BY <2>2 DEF Zero0
<1>10. s # <<>>
  BY <1>2
<1>11. ASSUME Len(s) > 1
       PROVE  s[1] # Zero0
  <2> DEFINE p == Pow10[n - 1]
             x == v \div p
             y == v % p
  <2>1. n > 1 /\ 1 \in 1 .. n /\ n - 1 \in 0 .. MaxLen /\ n \in 1 .. MaxLen
    BY <1>1, <1>2, <1>11
  <2>2. s[1] = Zero0 + (x % 10)
    BY <2>1 DEF digit
  <2>3. p \in Nat \ {0} /\ p <= v /\ v < 10 * p
    BY <1>1, <2>1
  <2> HIDE DEF p
  <2>4. x \in Nat /\ y \in 0 .. p - 1 /\ v = x * p + y
    BY <2>3
  <2> HIDE DEF x, y
  <2>5. x # 0
    <3>1. x = 0 => x * p = 0
      BY <2>3
    <3> QED
      BY <2>3, <2>4, <3>1
  <2>6. x < 10
    <3>1. x >= 10 => x * p >= 10 * p
      BY <2>3, <2>4
    <3>2. x * p \in Nat
      BY <2>3, <2>4
    <3> DEFINE z == x * p
    <3>3. v = z + y /\ z \in Nat /\ (x >= 10 => z >= 10 * p)
      BY <2>4, <3>1, <3>2
    <3> HIDE DEF z
    <3> QED
      BY <2>3, <2>4, <3>3
  <2>7. x \in 1 .. 9
    BY <2>4, <2>5, <2>6
  <2>8. x % 10 = x
    BY <2>7
  <2> QED
    BY <2>2, <2>7, <2>8 DEF Zero0
<1> QED
  BY <1>6, <1>8, <1>9, <1>10, <1>11 DEF IsDecimal

(* What u64_to_str leaves in its zeroed buffer is the numeral.             *)
LEMMA U64Exact ==
    ASSUME NEW v \in Nat, v < Pow10[MaxLen]
    PROVE  IsDecimal(Str(u64_to_str(ZeroBuff, v)), v)
<1> DEFINE L == length(v)
           b == u64_to_str(ZeroBuff, v)
           d(k) == Zero0 + digit(v, L - k)
<1>1. /\ L \in 0 .. MaxLen - 1 /\ MaxLen \in Nat
      /\ v < Pow10[L + 1] /\ (L > 0 => Pow10[L] <= v)
  BY LengthExact, PowFacts
<1>2. b = [k \in Index |->
             CASE k \in 0 .. L    -> d(k)
               [] k = L + 1       -> 0
               [] k = -1 /\ L = 0 -> Zero0
               [] OTHER           -> ZeroBuff[k]]
  BY DEF u64_to_str
<1> HIDE DEF L, MaxLen
<1>3. ASSUME NEW k \in 0 .. L
      PROVE  d(k) \in Int /\ d(k) # 0
  <2>1. L - k \in 0 .. MaxLen
    BY <1>1
  <2>2. digit(v, L - k) \in 0 .. 9
    BY <2>1, DigitFits
  <2> QED
    BY <2>2 DEF Zero0
<1> HIDE DEF d, b
<1>4. ASSUME NEW k \in 0 .. L
      PROVE  b[k] = d(k)
  <2>1. k \in Index /\ k # L + 1 /\ k # -1
    BY <1>1 DEF Index
  <2> QED
    BY <1>2, <2>1
<1>5. L + 1 \in Index /\ L + 1 \notin 0 .. L /\ L + 1 \in 0 .. MaxLen + 2 /\ (L + 1) - 1 = L /\ L + 1 # -1
  BY <1>1 DEF Index
<1>6. b[L + 1] = 0
  BY <1>2, <1>5
<1>7. \A k \in 0 .. (L + 1) - 1 : b[k] # 0
  BY <1>3, <1>4, <1>5
<1> DEFINE n == L + 1
           s == [k \in 1 .. n |-> b[k - 1]]
<1>8. Str(b) = s
  BY <1>5, <1>6, <1>7, StrIs
<1>9. n \in 1 .. MaxLen /\ n \in Nat /\ v < Pow10[n] /\ (n > 1 => Pow10[n - 1] <= v)
  BY <1>1
<1>10. ASSUME NEW k \in 1 .. n
       PROVE  b[k - 1] = Zero0 + digit(v, n - k) /\ b[k - 1] \in Int
  <2>1. k - 1 \in 0 .. L /\ L - (k - 1) = n - k
    BY <1>1
  <2>2. b[k - 1] = d(k - 1) /\ d(k - 1) \in Int
    BY <1>3, <1>4, <2>1
  <2> QED
    BY <2>1, <2>2 DEF d
<1> HIDE DEF n
<1>11. s \in Seq(Int) /\ Len(s) = n /\ \A k \in 1 .. n : s[k] = Zero0 + digit(v, n - k)
  BY <1>9, <1>10
<1> HIDE DEF s
<1>12. IsDecimal(s, v)
  BY <1>9, <1>11, DecimalDigits
<1> QED
  BY <1>8, <1>12 DEF b

(* What s64_to_str leaves in toI64StrBuff is the signed numeral, whatever  *)
(* the buffer held before, except for the smallest number.                 *)
LEMMA S64Exact ==
    ASSUME NEW b, NEW v \in Int, -2 * v # Word(LongDigits),
           v < Pow10[MaxLen], -v < Pow10[MaxLen]
    PROVE  IsSigned(Str(s64_to_str(b, v)), v)
<1> DEFINE neg == IF v < 0 THEN 1 ELSE 0
           a   == IF v < 0 THEN -v ELSE v
           L   == length(a)
           min == 2 * a = Word(LongDigits) /\ neg = 1
           last == (256 - (a % 10) + Zero0) % 256
           d(k) == Zero0 + digit(a, neg + L - k)
           t == s64_to_str(b, v)
           n == L + 1
           z == neg + L + 1
           s == [k \in 1 .. z |-> t[k - 1]]
<1>1. neg \in {0, 1} /\ a \in Nat /\ a < Pow10[MaxLen] /\ (neg = 1 <=> v < 0) /\ (neg = 1 => a = -v)
      /\ (neg = 0 => a = v)
  OBVIOUS
<1>2. ~min
  OBVIOUS
<1>3. t = [k \in Index |->
            CASE k = 0 /\ neg = 1              -> Minus
              [] k = neg + L + 1               -> 0
              [] min /\ k = neg + L            -> last
              [] ~min /\ k \in neg .. neg + L  -> d(k)
              [] OTHER                         -> b[k]]
  BY DEF s64_to_str
<1> HIDE DEF neg, a, min, last, t
<1>4. /\ L \in 0 .. MaxLen - 1 /\ MaxLen \in Nat
      /\ a < Pow10[L + 1] /\ (L > 0 => Pow10[L] <= a)
  BY <1>1, LengthExact, PowFacts
<1> HIDE DEF L, MaxLen
<1>5. n \in 1 .. MaxLen /\ n \in Nat /\ a < Pow10[n] /\ (n > 1 => Pow10[n - 1] <= a)
      /\ z \in 0 .. MaxLen + 2 /\ z \in Index /\ z = neg + n /\ z # 0
  BY <1>1, <1>4 DEF Index
<1>6. ASSUME NEW k \in neg .. neg + L
      PROVE  d(k) \in Int /\ d(k) # 0
  <2>1. neg + L - k \in 0 .. MaxLen
    BY <1>1, <1>4
  <2>2. digit(a, neg + L - k) \in 0 .. 9
    BY <1>1, <2>1, DigitFits
  <2> QED
    BY <2>2 DEF Zero0
<1> HIDE DEF d
<1>7. ASSUME NEW k \in neg .. neg + L
      PROVE  t[k] = d(k)
  <2>1. k \in Index /\ k # neg + L + 1 /\ ~(k = 0 /\ neg = 1)
    BY <1>1, <1>4 DEF Index
  <2> QED
    BY <1>2, <1>3, <2>1
<1>8. t[z] = 0
  <2>1. ASSUME NEW k \in Index, k = neg + L + 1, k # 0
        PROVE  t[k] = 0
    <3>1. k \notin neg .. neg + L
      BY <1>1, <1>4, <2>1
    <3> QED
      BY <1>2, <1>3, <2>1, <3>1
  <2> QED
    BY <1>5, <2>1
<1>9. neg = 1 => t[0] = Minus
  <2>1. ASSUME NEW k \in Index, k = 0, neg = 1
        PROVE  t[k] = Minus
    <3>1. k \notin neg .. neg + L /\ k # neg + L + 1
      BY <1>4, <2>1
    <3> QED
      BY <1>2, <1>3, <2>1, <3>1
  <2>2. 0 \in Index
    BY <1>4 DEF Index
  <2> QED
    BY <2>1, <2>2
<1>10. \A k \in 0 .. z - 1 : t[k] # 0
  <2>1. ASSUME NEW k \in 0 .. z - 1
        PROVE  t[k] # 0
    <3>1. k \in neg .. neg + L \/ (k = 0 /\ neg = 1)
      BY <1>1, <1>4
    <3> QED
      BY <1>6, <1>7, <1>9, <3>1 DEF Minus
  <2> QED
    BY <2>1
<1> HIDE DEF z
<1>11. Str(t) = s
  BY <1>5, <1>8, <1>10, StrIs
<1>12. ASSUME NEW k \in 1 .. n
       PROVE  /\ t[neg + k - 1] = Zero0 + digit(a, n - k)
              /\ t[neg + k - 1] \in Int
  <2> DEFINE j == neg + k - 1
  <2>1. j \in neg .. neg + L /\ neg + L - j = n - k
    BY <1>1, <1>4
  <2> HIDE DEF j, n
  <2>2. t[j] = d(j) /\ d(j) \in Int
    BY <1>6, <1>7, <2>1
  <2>3. d(j) = Zero0 + digit(a, n - k)
    BY <2>1 DEF d
  <2> QED
    BY <2>2, <2>3 DEF j
<1> HIDE DEF n
<1>13. CASE neg = 0
  <2>1. z = n /\ \A k \in 1 .. n : neg + k - 1 = k - 1
    BY <1>5, <1>13
  <2>2. s \in Seq(Int) /\ Len(s) = n /\ \A k \in 1 .. n : s[k] = Zero0 + digit(a, n - k)
    BY <1>5, <1>12, <2>1
  <2> HIDE DEF s
  <2>3. IsDecimal(s, a)
    BY <1>1, <1>5, <2>2, DecimalDigits
  <2> QED
    BY <1>1, <1>11, <1>13, <2>3 DEF IsSigned, t
<1>14. CASE neg = 1
  <2>1. z = n + 1 /\ \A k \in 1 .. n : neg + k - 1 = k
    BY <1>5, <1>14
  <2>2. \A k \in 1 .. n : t[k] = Zero0 + digit(a, n - k) /\ t[k] \in Int
    BY <1>12, <2>1
  <2>3. t[0] = Minus /\ Minus \in Int
    BY <1>9, <1>14 DEF Minus
  <2>4. \A k \in 1 .. n + 1 : k - 1 = 0 \/ k - 1 \in 1 .. n
    BY <1>5
  <2>5. s \in Seq(Int) /\ Len(s) = n + 1 /\ \A k \in 1 .. n + 1 : s[k] = t[k - 1]
    <3>1. s = [k \in 1 .. n + 1 |-> t[k - 1]] /\ n + 1 \in Nat
      BY <1>5, <2>1
    <3>2. \A k \in 1 .. n + 1 : t[k - 1] \in Int
      BY <2>2, <2>3, <2>4
    <3> HIDE DEF s
    <3>3. s \in Seq(Int)
      BY <3>1, <3>2, IsASeq
    <3> QED
      BY <3>1, <3>3
  <2> HIDE DEF s
  <2>6. 1 \in 1 .. n + 1 /\ 1 - 1 = 0
    BY <1>5
  <2>7. s # <<>> /\ Head(s) = s[1] /\ s[1] = Minus
    BY <1>5, <2>3, <2>5, <2>6
  <2> DEFINE r == Tail(s)
  <2>8. r \in Seq(Int) /\ Len(r) = n /\ \A k \in 1 .. n : r[k] = s[k + 1]
    BY <1>5, <2>5, <2>7
  <2> HIDE DEF r
  <2>9. \A k \in 1 .. n : k + 1 \in 1 .. n + 1 /\ (k + 1) - 1 = k
    BY <1>5
  <2>10. \A k \in 1 .. n : r[k] = Zero0 + digit(a, n - k)
    <3>1. ASSUME NEW k \in 1 .. n
          PROVE  r[k] = Zero0 + digit(a, n - k)
      <4>1. r[k] = s[k + 1] /\ s[k + 1] = t[(k + 1) - 1]
        BY <2>5, <2>8, <2>9
      <4> QED
        BY <2>2, <2>9, <4>1
    <3> QED
      BY <3>1
  <2>11. IsDecimal(r, a)
    BY <1>1, <1>5, <2>8, <2>10, DecimalDigits
  <2> QED
    BY <1>1, <1>11, <1>14, <2>7, <2>11 DEF IsSigned, t, r
<1> QED
  BY <1>1, <1>13, <1>14

(* The hexadecimal conversions print the n digits of a word of n.          *)
LEMMA HexExact ==
    ASSUME NEW n \in 0 .. LongDigits, NEW v \in Nat, v < Word(n)
    PROVE  IsHex(hstr(v, n), v, n)
<1> DEFINE ds == [k \in 1 .. n |-> (v \div Pow16[n - k]) % 16]
           s == hstr(v, n)
<1>1. /\ LongDigits \in Nat /\ n \in Nat
      /\ \A k \in 0 .. LongDigits : Pow16[k] \in Nat \ {0}
      /\ Pow16[0] = 1 /\ \A k \in 1 .. LongDigits : Pow16[k] = 16 * Pow16[k - 1]
  BY PowFacts
<1>2. ASSUME NEW k \in 1 .. n
      PROVE  (v \div Pow16[n - k]) % 16 \in 0 .. 15
  <2> DEFINE q == Pow16[n - k]
  <2>1. n - k \in 0 .. LongDigits
    BY <1>1
  <2>2. q \in Nat \ {0}
    BY <1>1, <2>1
  <2> HIDE DEF q
  <2>3. (v \div q) % 16 \in 0 .. 15
    BY <2>2
  <2> QED
    BY <2>3 DEF q
<1>3. ds \in [1 .. n -> 0 .. 15] /\ \A k \in 1 .. n : ds[k] = (v \div Pow16[n - k]) % 16
  BY <1>2, Zenon
<1>4. s = [k \in 1 .. n |-> HexCode(ds[k])]
  <2>1. s = [k \in 1 .. n |-> HexCode((v \div Pow16[n - k]) % 16)]
    BY DEF hstr
  <2> HIDE DEF s
  <2> QED
    BY <1>3, <2>1, Zenon
<1> HIDE DEF ds, s
<1>5. Len(s) = n /\ \A k \in 1 .. n : s[k] = HexCode(ds[k])
  BY <1>1, <1>4
<1>6. ds \in Seq(Nat) /\ Len(ds) = n
  <2>1. ds \in [1 .. n -> Nat]
    <3>1. 0 .. 15 \subseteq Nat
      OBVIOUS
    <3> QED
      BY <1>3, <3>1, Zenon
  <2> QED
    BY <1>1, <2>1
<1>7. Value(ds, 16) = v
  <2> DEFINE P == Pow16
             b == 16
  <2>1. \A k \in 0 .. n : k \in 0 .. LongDigits
    BY <1>1
  <2>2. \A k \in 1 .. n : k \in 1 .. LongDigits
    BY <1>1
  <2>3. Powers(P, b, n)
    BY <1>1, <2>1, <2>2 DEF Powers
  <2>4. v < P[n]
    BY DEF Word
  <2>5. DigitsOf(ds, v, P, b, n)
    BY <1>3, Zenon DEF DigitsOf
  <2>6. b \in Nat \ {0}
    OBVIOUS
  <2> HIDE DEF P, b
  <2>7. Value(ds, b) = v
    BY <1>1, <1>6, <2>3, <2>4, <2>5, <2>6, NumeralValue, Zenon
  <2> QED
    BY <2>7 DEF b
<1> QED
  BY <1>3, <1>5, <1>7, Zenon DEF IsHex, s

(* The signed value of a word is smaller than the word.                    *)
LEMMA SignedFits ==
    ASSUME NEW p \in Nat, NEW n \in 0 .. LongDigits
    PROVE  /\ Signed(p, n) \in Int
           /\ Signed(p, n) < Pow10[MaxLen] /\ -Signed(p, n) < Pow10[MaxLen]
<1> DEFINE w == Word(n)
           u == p % w
           t == Pow10[MaxLen]
<1>1. w \in Nat \ {0} /\ w <= t /\ t \in Nat
  <2>1. MaxLen \in 0 .. MaxLen
    BY PowFacts
  <2> QED
    BY <2>1, WordsFit, PowFacts
<1>2. Signed(p, n) = IF 2 * u >= w THEN u - w ELSE u
  BY Zenon DEF Signed
<1> HIDE DEF w, t
<1>3. u \in 0 .. w - 1
  BY <1>1
<1> HIDE DEF u
<1>4. Signed(p, n) \in Int /\ Signed(p, n) < t /\ -Signed(p, n) < t
  BY <1>1, <1>2, <1>3
<1> QED
  BY <1>4 DEF t

-----------------------------------------------------------------------------
(* What a directive prints for its parameter.                              *)
RenderedStep ==
    fmt # <<>> /\ fmt' # fmt =>
        LET kind == Head(fmt).kind
            p    == Head(Head(params))
            v    == Signed(p, IF kind = "d" THEN IntDigits ELSE LongDigits)
        IN  CASE kind \in {"d", "ld"} -> -2 * v = Word(LongDigits) \/ IsSigned(text', v)
              [] kind = "u"  -> IsDecimal(text', p % Word(IntDigits))
              [] kind = "lu" -> IsDecimal(text', p)
              [] kind = "b"  -> IsHex(text', p % Word(ByteDigits), ByteDigits)
              [] kind = "x"  -> IsHex(text', p % Word(IntDigits), IntDigits)
              [] kind = "lx" -> IsHex(text', p, LongDigits)
              [] OTHER -> TRUE

(* The conversions, each with the numeral it is to print.                  *)
LEMMA ConvertExact ==
    ASSUME NEW piece \in Piece, NEW s \in Seq(Nat), Suits(piece.kind, s),
           piece.kind \in {"d", "ld", "u", "lu", "b", "x", "lx"}
    PROVE  LET p == Head(s)
               v == Signed(p, IF piece.kind = "d" THEN IntDigits ELSE LongDigits)
               t == Convert(piece, s)
           IN  /\ piece.kind \in {"d", "ld"} => -2 * v = Word(LongDigits) \/ IsSigned(t, v)
               /\ piece.kind = "u" => IsDecimal(t, p % Word(IntDigits))
               /\ piece.kind = "lu" => IsDecimal(t, p)
               /\ piece.kind = "b" => IsHex(t, p % Word(ByteDigits), ByteDigits)
               /\ piece.kind = "x" => IsHex(t, p % Word(IntDigits), IntDigits)
               /\ piece.kind = "lx" => IsHex(t, p, LongDigits)
<1> DEFINE p == Head(s)
           top == Pow10[MaxLen]
<1>1. p \in Nat /\ p < Word(LongDigits)
  <2>1. Len(s) = 1 /\ s[1] \in 0 .. Word(LongDigits) - 1
    BY Zenon DEF Suits
  <2>2. LongDigits \in 0 .. LongDigits
    BY PowFacts
  <2>3. Word(LongDigits) \in Nat
    BY <2>2, WordsFit
  <2>4. p = s[1]
    BY <2>1
  <2> HIDE DEF p
  <2> QED
    BY <2>1, <2>3, <2>4
<1> HIDE DEF p
<1>2. /\ LongDigits \in 0 .. LongDigits /\ IntDigits \in 0 .. LongDigits
      /\ ByteDigits \in 0 .. LongDigits
  BY WidthAssumption
<1>3. ASSUME NEW n \in 0 .. LongDigits
      PROVE  p % Word(n) \in Nat /\ p % Word(n) < Word(n) /\ p % Word(n) < top
  <2> DEFINE w == Word(n)
  <2>1. w \in Nat \ {0} /\ w <= top /\ top \in Nat
    <3>1. MaxLen \in 0 .. MaxLen
      BY PowFacts
    <3> QED
      BY <3>1, WordsFit, PowFacts
  <2> HIDE DEF w, top
  <2>2. p % w \in 0 .. w - 1
    BY <1>1, <2>1
  <2> QED
    BY <2>1, <2>2 DEF w
<1>4. p < top
  <2>1. Word(LongDigits) \in Nat /\ Word(LongDigits) <= top /\ top \in Nat
    <3>1. MaxLen \in 0 .. MaxLen
      BY PowFacts
    <3> QED
      BY <1>2, <3>1, WordsFit, PowFacts
  <2> HIDE DEF top
  <2> QED
    BY <1>1, <2>1
<1>5. ASSUME NEW n \in 0 .. LongDigits
      PROVE  -2 * Signed(p, n) = Word(LongDigits) \/ IsSigned(Str(s64_to_str(i64, Signed(p, n))), Signed(p, n))
  <2> DEFINE v == Signed(p, n)
  <2>1. v \in Int /\ v < Pow10[MaxLen] /\ -v < Pow10[MaxLen]
    BY <1>1, SignedFits
  <2> HIDE DEF v
  <2>2. -2 * v = Word(LongDigits) \/ IsSigned(Str(s64_to_str(i64, v)), v)
    BY <2>1, S64Exact
  <2> QED
    BY <2>2 DEF v
<1>6. CASE piece.kind = "d"
  <2>1. Convert(piece, s) = Str(s64_to_str(i64, Signed(p, IntDigits)))
    BY <1>6 DEF Convert, p
  <2> QED
    BY <1>2, <1>5, <1>6, <2>1 DEF p
<1>7. CASE piece.kind = "ld"
  <2>1. Convert(piece, s) = Str(s64_to_str(i64, Signed(p, LongDigits)))
    BY <1>7 DEF Convert, p
  <2> QED
    BY <1>2, <1>5, <1>7, <2>1 DEF p
<1>8. CASE piece.kind = "u"
  <2>1. Convert(piece, s) = Str(u64_to_str(ZeroBuff, p % Word(IntDigits)))
    BY <1>8 DEF Convert, p
  <2>2. IsDecimal(Str(u64_to_str(ZeroBuff, p % Word(IntDigits))), p % Word(IntDigits))
    BY <1>2, <1>3, U64Exact
  <2> QED
    BY <1>8, <2>1, <2>2 DEF p
<1>9. CASE piece.kind = "lu"
  <2>1. Convert(piece, s) = Str(u64_to_str(ZeroBuff, p))
    BY <1>9 DEF Convert, p
  <2>2. IsDecimal(Str(u64_to_str(ZeroBuff, p)), p)
    BY <1>1, <1>4, U64Exact
  <2> QED
    BY <1>9, <2>1, <2>2 DEF p
<1>10. CASE piece.kind = "b"
  <2>1. Convert(piece, s) = hstr(p % Word(ByteDigits), ByteDigits)
    BY <1>10 DEF Convert, p
  <2>2. IsHex(hstr(p % Word(ByteDigits), ByteDigits), p % Word(ByteDigits), ByteDigits)
    BY <1>2, <1>3, HexExact
  <2> QED
    BY <1>10, <2>1, <2>2 DEF p
<1>11. CASE piece.kind = "x"
  <2>1. Convert(piece, s) = hstr(p % Word(IntDigits), IntDigits)
    BY <1>11 DEF Convert, p
  <2>2. IsHex(hstr(p % Word(IntDigits), IntDigits), p % Word(IntDigits), IntDigits)
    BY <1>2, <1>3, HexExact
  <2> QED
    BY <1>11, <2>1, <2>2 DEF p
<1>12. CASE piece.kind = "lx"
  <2>1. Convert(piece, s) = hstr(p, LongDigits)
    BY <1>12 DEF Convert, p
  <2>2. IsHex(hstr(p, LongDigits), p, LongDigits)
    BY <1>1, <1>2, HexExact
  <2> QED
    BY <1>12, <2>1, <2>2 DEF p
<1> QED
  BY <1>6, <1>7, <1>8, <1>9, <1>10, <1>11, <1>12

(* What a directive prints (Rendered): dbg_msg prints the numeral of the   *)
(* parameter, decimal or hexadecimal, for words of any width and whatever  *)
(* the static buffers held; the smallest long number is the one exception. *)
THEOREM RenderedThm == Spec => Rendered
<1>1. ASSUME PrintInv, [Next]_vars
      PROVE  RenderedStep
  <2> SUFFICES ASSUME fmt # <<>>, fmt' # fmt
               PROVE  RenderedStep
    BY Zenon DEF RenderedStep
  <2>1. NextPiece
    BY <1>1 DEF Next, Kernel, CallSink, CharDone, Driver, InitPort, RegisterPort, dbg_msg, Ready,
                Printing, ChangeSinks, ReadKey, Exit, Port, User, Stopped, vars, mine, out
  <2> DEFINE piece == Head(fmt)
             s == IF TakesParam(piece) THEN Head(params) ELSE <<0>>
             Numeric == {"d", "ld", "u", "lu", "b", "x", "lx"}
  <2>2. text' = Convert(piece, s)
    BY <2>1, Zenon DEF NextPiece
  <2>3. piece \in Piece /\ (TakesParam(piece) => Head(params) \in Seq(Nat) /\ Suits(piece.kind, Head(params)))
    BY <1>1, FormatStep DEF PrintInv
  <2> HIDE DEF piece
  <2>4. CASE piece.kind \in Numeric
    <3>1. TakesParam(piece)
      BY <2>4 DEF TakesParam
    <3>2. s = Head(params) /\ s \in Seq(Nat) /\ Suits(piece.kind, s)
      BY <2>3, <3>1
    <3> HIDE DEF s
    <3>3. /\ piece.kind \in {"d", "ld"} =>
                \/ -2 * Signed(Head(s), IF piece.kind = "d" THEN IntDigits ELSE LongDigits) = Word(LongDigits)
                \/ IsSigned(text', Signed(Head(s), IF piece.kind = "d" THEN IntDigits ELSE LongDigits))
          /\ piece.kind = "u" => IsDecimal(text', Head(s) % Word(IntDigits))
          /\ piece.kind = "lu" => IsDecimal(text', Head(s))
          /\ piece.kind = "b" => IsHex(text', Head(s) % Word(ByteDigits), ByteDigits)
          /\ piece.kind = "x" => IsHex(text', Head(s) % Word(IntDigits), IntDigits)
          /\ piece.kind = "lx" => IsHex(text', Head(s), LongDigits)
      BY <2>2, <2>3, <2>4, <3>2, ConvertExact
    <3> QED
      BY <2>4, <3>2, <3>3 DEF RenderedStep, piece
  <2>5. CASE piece.kind \notin Numeric
    BY <2>5 DEF RenderedStep, piece
  <2> QED
    BY <2>4, <2>5
<1>2. ASSUME PrintInv, [Next]_vars
      PROVE  [RenderedStep]_vars
  BY <1>1, <1>2
<1> QED
  BY <1>2, PortAlways, PTL DEF Spec, Rendered, RenderedStep

=============================================================================
