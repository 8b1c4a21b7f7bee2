------------------------------- MODULE DbgIo -------------------------------
(***************************************************************************)
(* The conversions of dbg_internal_print (debug/dbgio.c).  A number is the *)
(* word of the machine that va_arg delivers; the width of a long, an int   *)
(* and a byte is a parameter, in hexadecimal digits.  A character is its   *)
(* code.                                                                   *)
(***************************************************************************)
EXTENDS Integers, Sequences, FiniteSets

CONSTANTS
    LongDigits, \* hexadecimal digits of a long (16)
    IntDigits,  \* of an int (8)
    ByteDigits  \* of a byte (2)

ASSUME WidthAssumption ==
    ByteDigits \in Nat \ {0} /\ IntDigits \in Nat \ {0} /\ LongDigits \in Nat \ {0}
    /\ ByteDigits <= IntDigits /\ IntDigits <= LongDigits

Zero0 == 48   \* '0'
Minus == 45   \* '-'

MaxLen == 3 * LongDigits   \* no word has more decimal digits

Pow10[k \in 0 .. MaxLen] == IF k = 0 THEN 1 ELSE 10 * Pow10[k - 1]
Pow16[k \in 0 .. LongDigits] == IF k = 0 THEN 1 ELSE 16 * Pow16[k - 1]

Word(n) == Pow16[n]

(* The word w of n digits as a signed number.                              *)
Signed(w, n) ==
    LET u == w % Word(n) IN IF 2 * u >= Word(n) THEN u - Word(n) ELSE u

(* The buffers toU64StrBuff and toI64StrBuff, with the byte before them.   *)
Index == -1 .. MaxLen + 2

ZeroBuff == [k \in Index |-> 0]

(* The string a buffer holds: up to the first 0 byte.                      *)
Str(b) == LET n == CHOOSE n \in 0 .. MaxLen + 2 :
                      b[n] = 0 /\ \A k \in 0 .. n - 1 : b[k] # 0
          IN  [k \in 1 .. n |-> b[k - 1]]

(* The loop over sizeTest: the decimal digits of v after the first.        *)
length(v) == Cardinality({k \in 1 .. MaxLen : v \div Pow10[k] > 0})

(* Mutant: the digits are stored from the first one on.                    *)
MutReversed(v, k) == (v \div Pow10[length(v) - k]) % 10

(* The digit of v with weight 10^k.                                        *)
digit(v, k) == (v \div Pow10[k]) % 10

(* u64_to_str.  The store behind its loop is one too many if there is only *)
(* one digit: it goes to the byte before the buffer.                       *)
u64_to_str(b, v) ==
    LET L == length(v) IN
    [k \in Index |->
        CASE k \in 0 .. L    -> Zero0 + digit(v, L - k)
          [] k = L + 1       -> 0
          [] k = -1 /\ L = 0 -> Zero0
          [] OTHER           -> b[k]]

(* s64_to_str.  The smallest number has no negative: its loop is skipped,  *)
(* and the remainder (u8)(v % 10) is no digit.                             *)
s64_to_str(b, v) ==
    LET neg == IF v < 0 THEN 1 ELSE 0
        a   == IF v < 0 THEN -v ELSE v
        L   == length(a)
        min == 2 * a = Word(LongDigits) /\ neg = 1
    IN  [k \in Index |->
            CASE k = 0 /\ neg = 1              -> Minus
              [] k = neg + L + 1               -> 0
              [] min /\ k = neg + L            -> (256 - (a % 10) + Zero0) % 256
              [] ~min /\ k \in neg .. neg + L  -> Zero0 + digit(a, neg + L - k)
              [] OTHER                         -> b[k]]

HexCode(d) == IF d < 10 THEN Zero0 + d ELSE 55 + d   \* hexDigits[d]

(* u64_to_hstr, u32_to_hstr and u8_to_hstr: n digits.  u8_to_hstr ends its *)
(* string six bytes late, with bytes that are never written and so are 0.  *)
hstr(v, n) == [k \in 1 .. n |-> HexCode((v \div Pow16[n - k]) % 16)]

-----------------------------------------------------------------------------
(* What a numeral of v in a base is: digits, the first not 0 unless it is  *)
(* the only one, with the value v.                                         *)
Values(ds, base) ==
    LET n[k \in 0 .. Len(ds)] == IF k = 0 THEN 0 ELSE base * n[k - 1] + ds[k] IN n

Value(ds, base) == Values(ds, base)[Len(ds)]

IsDecimal(s, v) ==
    /\ s # <<>> /\ \A k \in DOMAIN s : s[k] \in Zero0 .. Zero0 + 9
    /\ Len(s) > 1 => s[1] # Zero0
    /\ Value([k \in DOMAIN s |-> s[k] - Zero0], 10) = v

IsSigned(s, v) ==
    IF v < 0 THEN s # <<>> /\ Head(s) = Minus /\ IsDecimal(Tail(s), -v)
    ELSE IsDecimal(s, v)

IsHex(s, v, n) ==
    /\ Len(s) = n
    /\ \E f \in [1 .. n -> 0 .. 15] :
         Value(f, 16) = v /\ \A k \in 1 .. n : s[k] = HexCode(f[k])

=============================================================================
