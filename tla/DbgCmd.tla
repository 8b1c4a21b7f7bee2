------------------------------- MODULE DbgCmd -------------------------------
(***************************************************************************)
(* The debugger's command line (arch/x86_64/debug/debug.c): dbg_getcmd     *)
(* edits a line in cmd_buffer and echoes it to the terminal, dbg_parsecmd  *)
(* splits it into argv_buffer, dbg_exec finds the command and hands it its *)
(* parameters.  Both buffers are static: they keep what older lines left.  *)
(***************************************************************************)
EXTENDS Integers, Sequences, FiniteSets, SequencesExt, FiniteSetsExt

CONSTANTS
    Graph,     \* characters that print, other than the space
    DigitOf,   \* the value of those that are digits, 99 for the others
    BufSize,   \* bytes of cmd_buffer (256)
    MaxArgs,   \* entries of argv_buffer (8)
    Bits,      \* bits of a long (64)
    Names,     \* the names in cmd_table, and the command of each
    After,     \* what may lie in memory behind cmd_buffer
    MaxKeys    \* bound: keys typed

SP  == " "
BS  == "BS"    \* or 127
CR  == "CR"    \* or '\n'
NUL == "NUL"   \* also what dbg_serial_getc returns when the port fails

Char == Graph \cup {SP, NUL}
Key  == Char \cup {BS, CR}

ASSUME CmdAssumption ==
    /\ BufSize \in Nat \ {0} /\ Bits \in Nat \ {0}
    /\ MaxArgs \in Nat /\ MaxArgs >= 4   \* a command and three parameters
    /\ MaxKeys \in Nat /\ {"0", "x", "-"} \subseteq Graph
    /\ Graph \cap {SP, BS, CR, NUL} = {}
    /\ DigitOf \in [Graph -> 0 .. 15 \cup {99}]
    /\ \A s \in DOMAIN Names : s \in Seq(Graph) /\ s # <<>>
    /\ \A a \in After : a \in Seq(Char) /\ a # <<>> /\ Last(a) = NUL

VARIABLES
    mode,    \* "edit", "parse" or "exec"
    mem,     \* cmd_buffer and the bytes behind it, from 0 on
    i,       \* i of dbg_getcmd; then buff of dbg_parsecmd
    argc, argv,
    screen,  \* the terminal's line behind the prompt, and
    col,     \*   the cursor in it
    keys,    \* history: the keys of this line
    typed,   \* history: how many keys were typed
    outside, \* history: bytes behind the buffer that this line had parsed
    filled   \* history: some line has filled the buffer

tty  == <<screen, col>>
hist == <<keys, typed, outside, filled>>
vars == <<mode, mem, i, argc, argv, tty, hist>>

None == -1   \* a null pointer

Init ==
    /\ mode = "edit" /\ i = 0 /\ argc = 0
    /\ \E a \in After :
         mem = [k \in 0 .. BufSize + Len(a) - 1 |->
                  IF k < BufSize THEN NUL ELSE a[k - BufSize + 1]]
    /\ argv = [k \in 0 .. MaxArgs - 1 |-> None]
    /\ screen = <<>> /\ col = 0
    /\ keys = <<>> /\ typed = 0 /\ outside = {} /\ filled = FALSE

-----------------------------------------------------------------------------
(* The terminal: a character overwrites what is under the cursor, a        *)
(* backspace moves it, a 0 does nothing.                                   *)
Show(t, c) ==
    CASE c = BS  -> [t EXCEPT !.col = Max({0, @ - 1})]
      [] c = NUL -> t
      [] OTHER   -> [line |-> SubSeq(t.line, 1, t.col) \o <<c>>
                              \o SubSeq(t.line, t.col + 2, Len(t.line)),
                     col  |-> t.col + 1]

Tty == [line |-> screen, col |-> col]

Echo(t) == screen' = t.line /\ col' = t.col

(* A new prompt on a new line.                                             *)
Prompt ==
    /\ mode' = "edit" /\ i' = 0
    /\ screen' = <<>> /\ col' = 0
    /\ keys' = <<>> /\ outside' = {}

-----------------------------------------------------------------------------
(* Mutant: the character is left on the screen.                            *)
MutJustBack ==
    IF i > 0 THEN i' = i - 1 /\ Echo(Show(Tty, BS)) ELSE UNCHANGED <<i, tty>>

(* A character is taken back, in the buffer and on the screen.             *)
Backspace ==
    IF i > 0 THEN i' = i - 1 /\ Echo(Show(Show(Show(Tty, BS), SP), BS))
    ELSE UNCHANGED <<i, tty>>

(* Mutant: one character more.                                             *)
MutOneMore == i + 1 > BufSize

(* The line has filled the buffer: it ends there, without a 0.             *)
Full == i + 1 = BufSize

(* One key read by dbg_getcmd.  The line is over with a return, which      *)
(* becomes its 0, or when the buffer is full.                              *)
dbg_getcmd(c) ==
    /\ mode = "edit" /\ typed < MaxKeys /\ typed' = typed + 1
    /\ keys' = Append(keys, c)
    /\ CASE c = BS -> Backspace /\ UNCHANGED <<mode, mem>>
         [] c = CR -> /\ mem' = [mem EXCEPT ![i] = NUL]
                      /\ mode' = "parse" /\ i' = 0
                      /\ UNCHANGED tty
         [] OTHER  -> /\ mem' = [mem EXCEPT ![i] = c]
                      /\ Echo(Show(Tty, c))
                      /\ IF Full THEN mode' = "parse" /\ i' = 0
                         ELSE i' = i + 1 /\ UNCHANGED mode
    /\ argc' = IF mode' = "parse" THEN 0 ELSE argc
    /\ filled' = (filled \/ (c # CR /\ mode' = "parse"))
    /\ UNCHANGED <<argv, outside>>

(* The first byte from k on with, and without, a property.                 *)
SkipSpace(k) == Min({j \in DOMAIN mem : j >= k /\ mem[j] # SP})
WordEnd(k)   == Min({j \in DOMAIN mem : j >= k /\ mem[j] \in {SP, NUL}})

Touch(S) == outside' = outside \cup {k \in S : k >= BufSize}

ParseDone ==
    /\ mode' = "exec"
    /\ UNCHANGED <<mem, i, argc, argv>>

(* Mutant: the word is not ended by a 0.                                   *)
MutNoEnd(start, end) ==
    /\ argv' = [argv EXCEPT ![argc] = start] /\ argc' = argc + 1
    /\ mem' = mem
    /\ i' = IF mem[end] # NUL THEN end + 1 ELSE end
    /\ UNCHANGED mode

TakeWord(start, end) ==
    /\ argv' = [argv EXCEPT ![argc] = start] /\ argc' = argc + 1
    /\ mem' = [mem EXCEPT ![end] = NUL]
    /\ i' = IF mem[end] # NUL THEN end + 1 ELSE end
    /\ UNCHANGED mode

(* One round of the loop of dbg_parsecmd.                                  *)
dbg_parsecmd ==
    /\ mode = "parse"
    /\ IF mem[i] = NUL \/ argc = MaxArgs THEN Touch({i}) /\ ParseDone
       ELSE LET start == SkipSpace(i) IN
            IF mem[start] = NUL THEN Touch(i .. start) /\ ParseDone
            ELSE LET end == WordEnd(start) IN Touch(i .. end) /\ TakeWord(start, end)
    /\ UNCHANGED <<tty, keys, typed, filled>>

-----------------------------------------------------------------------------
(* The string at an address.                                               *)
StringAt(p) ==
    LET end == Min({j \in DOMAIN mem : j >= p /\ mem[j] = NUL}) IN
    [k \in 1 .. end - p |-> mem[p + k - 1]]

(* dbg_exec looks argv[0] up in the table.                                 *)
Command ==
    LET name == IF argc = 0 THEN <<>> ELSE StringAt(argv[0]) IN
    IF name \in DOMAIN Names THEN Names[name] ELSE "unknown"

(* The entries of argv_buffer a command may read its parameters through,   *)
(* when its line has n of them; the first parameter is argv_buffer[1].     *)
reg_reads(n) == IF n = 1 THEN {1} ELSE {}

hardware_bp_reads(n) == IF n = 3 THEN 1 .. 3 ELSE {}

(* Mutant: disasm does not look at argc either.                            *)
MutAnyCount(n) == 1 .. 2

disassembly_reads(n) == IF n = 2 THEN 1 .. 2 ELSE {}

dumphex_reads(n) == 1 .. 2   \* it does not look at argc

Reads(f, n) ==
    CASE f = "reg" -> reg_reads(n) [] f = "hbp" -> hardware_bp_reads(n)
      [] f = "disasm" -> disassembly_reads(n) [] f = "x" -> dumphex_reads(n)
      [] OTHER -> {}

(* The command runs, and the prompt comes back: at once, or, after c and   *)
(* s, when the debugger is entered again.                                  *)
dbg_exec ==
    /\ mode = "exec" /\ Prompt
    /\ UNCHANGED <<mem, argc, argv, typed, filled>>

(* The user types no more.                                                 *)
Idle == mode = "edit" /\ typed = MaxKeys /\ UNCHANGED vars

Next == (\E c \in Key : dbg_getcmd(c)) \/ dbg_parsecmd \/ dbg_exec \/ Idle

Spec == Init /\ [][Next]_vars

-----------------------------------------------------------------------------
(* dbg_atol of a word: sign, base, and the digits up to the first other    *)
(* character.                                                              *)
Digits(s, base) ==
    LET n == Min({k \in 1 .. Len(s) + 1 : k = Len(s) + 1 \/ DigitOf[s[k]] >= base})
    IN  [k \in 1 .. n - 1 |-> DigitOf[s[k]]]

Negative(s) == s # <<>> /\ s[1] = "-"
Unsigned(s) == IF Negative(s) THEN Tail(s) ELSE s
IsHex(s)    == Len(Unsigned(s)) >= 2 /\ SubSeq(Unsigned(s), 1, 2) = <<"0", "x">>

Pow2[k \in 0 .. Bits] == IF k = 0 THEN 1 ELSE 2 * Pow2[k - 1]

(* A number in a long.                                                     *)
Wrap(n) ==
    LET u == n % Pow2[Bits] IN IF 2 * u >= Pow2[Bits] THEN u - Pow2[Bits] ELSE u

(* The number the first k digits make in a base.                           *)
Values(ds, base) ==
    LET n[k \in 0 .. Len(ds)] == IF k = 0 THEN 0 ELSE base * n[k - 1] + ds[k] IN n

(* Mutant: n is computed above zero, and negated at the end.               *)
MutPositive(ds) == Values(ds, 10)

(* The values n takes in base 10: it is computed below zero.               *)
Partial(ds) ==
    LET n[k \in 0 .. Len(ds)] == IF k = 0 THEN 0 ELSE 10 * n[k - 1] - ds[k] IN n

(* The values in base 16: digits are shifted in from the right, and what   *)
(* leaves the word on the left is lost.                                    *)
HexValue(ds) ==
    LET n[k \in 0 .. Len(ds)] == IF k = 0 THEN 0 ELSE Wrap(16 * n[k - 1] + ds[k]) IN n

DecDigits(s) == Digits(Unsigned(s), 10)
HexDigits(s) == Digits(SubSeq(Unsigned(s), 3, Len(Unsigned(s))), 16)

dbg_atol(s) ==
    LET n == IF IsHex(s) THEN HexValue(HexDigits(s))[Len(HexDigits(s))]
             ELSE -Partial(DecDigits(s))[Len(DecDigits(s))]
    IN  IF Negative(s) THEN Wrap(-n) ELSE Wrap(n)

-----------------------------------------------------------------------------
(* The line the keys of this line make, with each backspace taking back    *)
(* the key before it; it ends at the return, and at a 0.                   *)
EditKey(s, k) ==
    CASE k = BS -> IF s = <<>> THEN s ELSE Front(s)
      [] k = CR -> s
      [] OTHER  -> Append(s, k)

EditOf(ks) ==
    LET line[n \in 0 .. Len(ks)] == IF n = 0 THEN <<>> ELSE EditKey(line[n - 1], ks[n])
    IN  line

Edited == EditOf(keys)[Len(keys)]

Line == LET n == Min({k \in 1 .. Len(Edited) + 1 : k = Len(Edited) + 1 \/ Edited[k] = NUL})
        IN  SubSeq(Edited, 1, n - 1)

(* While a line is edited the terminal shows it, and the buffer holds it,  *)
(* whatever was typed and taken back; a 0 from a failed port cannot be     *)
(* seen, and only then do the two differ.                                  *)
ScreenShowsLine ==
    mode = "edit" =>
        /\ [k \in 1 .. i |-> mem[k - 1]] = Edited
        /\ (\A k \in DOMAIN keys : keys[k] # NUL)
           => /\ SubSeq(screen, 1, col) = Edited
              /\ \A k \in col + 1 .. Len(screen) : screen[k] = SP

(* Where the words of a line start, and the word at such a place.          *)
Starts(s) == {k \in DOMAIN s : s[k] # SP /\ (k = 1 \/ s[k - 1] = SP)}

WordAt(s, k) == SubSeq(s, k, Max({j \in k .. Len(s) : \A l \in k .. j : s[l] # SP}))

Complete == mode = "exec" /\ keys[Len(keys)] = CR

(* argv is the words of the line, in order and as many as it holds, each   *)
(* where it was typed, although they are cut in place in a buffer with     *)
(* older lines in it.                                                      *)
ArgsAreWords ==
    Complete =>
        LET w == Starts(Line) IN
        /\ argc = Min({MaxArgs, Cardinality(w)})
        /\ \A k \in 0 .. argc - 1 :
             /\ argv[k] + 1 \in w /\ Cardinality({j \in w : j <= argv[k]}) = k
             /\ StringAt(argv[k]) = WordAt(Line, argv[k] + 1)

(* Memory behind the buffer is read, and words in it cut, only for a line  *)
(* that filled the buffer before the return was typed.                     *)
StaysInside == outside # {} => Len(Edited) = BufSize /\ Last(keys) # CR

(* The pointers older lines left in argv_buffer lead into text that was    *)
(* typed over since.  As long as no line has filled the buffer, whatever a *)
(* command reads through one is a string that ends inside the buffer, and  *)
(* every command but x reads words of its own line only.  x, which does    *)
(* not count its parameters, may also meet an entry no line has set yet.   *)
ParamsReadable ==
    mode = "exec" /\ ~filled =>
        \A k \in Reads(Command, argc - 1) :
            /\ k < argc \/ Command = "x"
            /\ \/ argv[k] >= 0 /\ \E j \in argv[k] .. BufSize - 1 : mem[j] = NUL
               \/ k >= argc /\ argv[k] = None

Long == -Pow2[Bits - 1] .. Pow2[Bits - 1] - 1

SignOf(s) == IF Negative(s) THEN -1 ELSE 1

(* The number a word stands for.                                           *)
Number(s) ==
    LET ds == IF IsHex(s) THEN HexDigits(s) ELSE DecDigits(s) IN
    SignOf(s) * Values(ds, IF IsHex(s) THEN 16 ELSE 10)[Len(ds)]

(* debug.c:58: "Compute n as a negative number to avoid overflow on        *)
(* LONG_MIN".  A decimal number that fits a long is read exactly, and no   *)
(* value on the way leaves the word; a hexadecimal one is the address with *)
(* those bits, the lowest ones of more than a long has.                    *)
NumbersExact ==
    Complete =>
        \A k \in 0 .. argc - 1 :
            LET s == StringAt(argv[k]) IN
            IF IsHex(s) THEN (dbg_atol(s) - Number(s)) % Pow2[Bits] = 0
            ELSE Number(s) \in Long =>
                   /\ dbg_atol(s) = Number(s)
                   /\ \A j \in DOMAIN Partial(DecDigits(s)) : Partial(DecDigits(s))[j] \in Long

=============================================================================
