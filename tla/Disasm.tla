------------------------------- MODULE Disasm -------------------------------
(***************************************************************************)
(* disasm (disasm.h): how many bytes of memory it takes for one            *)
(* instruction, and what it reads of its tables and of the addr_ globals   *)
(* on the way.  The text it prints is left out.  Opcode \h1xx is the       *)
(* opcode xx behind an 0F.                                                 *)
(***************************************************************************)
EXTENDS Integers, Sequences

CONSTANTS
    MaxPrefixes,   \* prefixes in front of an instruction; the code has no bound
    MaxNops        \* nops in a run; the code has no bound

ASSUME DisasmAssumption == MaxPrefixes \in Nat /\ MaxNops \in Nat \ {0}

-----------------------------------------------------------------------------
(* A row of a table: the opcodes it stands for, whether it names a size    *)
(* (DA_BYTE to DA_QUAD, DA_SDEP; all below 4) or DA_NONE (8), whether a    *)
(* ModRM byte follows, and its operands as far as the loop over i_mode     *)
(* does something with them: "E" reads the addr_ globals, "R" reads        *)
(* regs[i_size], "fixed" neither, the others take bytes.                   *)
Row(at, size, modrm, mode) ==
    [at |-> at, size |-> size, modrm |-> modrm, mode |-> mode, group |-> "none"]

(* Mutant: the rows of the groups lack DA_MODRM.                           *)
MutNoModrm(at, size, mode, group) ==
    [at |-> at, size |-> size, modrm |-> FALSE, mode |-> mode, group |-> group]

(* A row whose name is NULL: ext holds the names, or rows, of a group.     *)
Group(at, size, mode, group) ==
    [at |-> at, size |-> size, modrm |-> TRUE, mode |-> mode, group |-> group]

Alu(k) == {8 * j + k : j \in 0 .. 7}

(* inst_tbl, 00 to 7F.                                                     *)
RowsLow ==
    {Row((UNION {Alu(k) : k \in 0 .. 3}) \cup {\h63}, "given", TRUE, <<"E", "R">>),
     Row(Alu(4), "given", FALSE, <<"R", "Ib">>),
     Row(Alu(5), "given", FALSE, <<"R", "I">>),
     Row(\h50 .. \h5F, "given", FALSE, <<"fixed">>),
     Row({\h68}, "given", FALSE, <<"I">>),
     Row({\h69}, "given", TRUE, <<"R", "E", "I">>),
     Row({\h6A}, "given", FALSE, <<"Ib">>),
     Row({\h6B}, "given", TRUE, <<"R", "E", "Ib">>),
     Row(\h6C .. \h6F, "given", FALSE, <<"fixed", "fixed">>),
     Row(\h70 .. \h7F, "NONE", FALSE, <<"Db">>)}

(* inst_tbl, 80 to BF.                                                     *)
RowsMiddle ==
    {Group({\h80, \h82, \h83}, "given", <<"E", "Ib">>, "grp1"),
     Group({\h81}, "given", <<"E", "I">>, "grp1"),
     Row((\h84 .. \h8B) \cup {\h8D}, "given", TRUE, <<"E", "R">>),
     Row({\h8C, \h8E}, "NONE", TRUE, <<"E", "fixed">>),
     Row({\h8F}, "given", TRUE, <<"E">>),
     Row(\h91 .. \h97, "given", FALSE, <<"R", "R">>),
     Row({\h9B, \h9E, \h9F}, "NONE", FALSE, <<>>),
     Row({\h98, \h99, \h9C, \h9D} \cup (\hA4 .. \hA7) \cup (\hAA .. \hAF), "given", FALSE, <<>>),
     Row(\hA0 .. \hA3, "given", FALSE, <<"R", "O">>),
     Row({\hA8, \hA9} \cup (\hB8 .. \hBB), "given", FALSE, <<"R", "I">>),
     Row(\hB0 .. \hB7, "given", FALSE, <<"R", "Ib">>),
     Row(\hBC .. \hBF, "given", FALSE, <<"R", "Iq">>)}

(* inst_tbl, C0 to FF.  The check for the escapes D8 to DF also takes D0   *)
(* to D3, the shifts, which are therefore unknown.                         *)
RowsHigh ==
    {Group({\hC0, \hC1}, "given", <<"E", "Ib">>, "grp2"),
     Row({\hC2, \hCA}, "NONE", FALSE, <<"Iw">>),
     Row({\hC6, \hC7}, "given", TRUE, <<"E", "I">>),
     Row({\hC8}, "NONE", FALSE, <<"Ib", "Iq">>),
     Row({\hC3, \hC9, \hCB, \hCF, \hF4, \hF5} \cup (\hF8 .. \hFD), "NONE", FALSE, <<>>),
     Row({\hCC}, "NONE", FALSE, <<"fixed">>),
     Row({\hCD}, "NONE", FALSE, <<"Ib">>),
     Group(\hD0 .. \hD3, "given", <<"E", "fixed">>, "esc"),
     Row({\hD7}, "given", FALSE, <<"fixed">>),
     Row((\hE0 .. \hE2) \cup {\hEB}, "NONE", FALSE, <<"Db">>),
     Row({\hE3}, "given", FALSE, <<"Db">>),
     Row(\hE4 .. \hE7, "given", FALSE, <<"R", "Ib">>),
     Row({\hE8, \hE9}, "given", FALSE, <<"Dl">>),
     Row(\hEC .. \hEF, "given", FALSE, <<"R", "fixed">>),
     Group({\hF6, \hF7}, "given", <<>>, "grp3"),
     Group({\hFE}, "NONE", <<>>, "grp4"),
     Group({\hFF}, "NONE", <<>>, "grp5")}

(* inst0f0 to inst0fc.                                                     *)
RowsTwo ==
    {Group({\h100}, "NONE", <<"E">>, "grp6"),
     Group({\h101}, "NONE", <<"E">>, "grp7"),
     Row((\h105 .. \h109) \cup (\h130 .. \h133) \cup {\h1A2}, "NONE", FALSE, <<>>),
     Row((\h120 .. \h124) \cup {\h126}, "given", TRUE, <<"E", "fixed">>),
     Row(\h180 .. \h18F, "NONE", FALSE, <<"Dl">>),
     Row(\h190 .. \h19F, "NONE", TRUE, <<"E">>),
     Row({\h1A0, \h1A1, \h1A8, \h1A9} \cup (\h1C8 .. \h1CF), "given", FALSE, <<"fixed">>),
     Row({\h102, \h103, \h1A3, \h1AB, \h1AF} \cup (\h1B0 .. \h1B7) \cup (\h1BB .. \h1C1),
         "given", TRUE, <<"E", "R">>),
     Row({\h1A4, \h1AC}, "given", TRUE, <<"E", "R", "Ib">>),
     Row({\h1A5, \h1AD}, "given", TRUE, <<"E", "R", "fixed">>),
     Group({\h1AE, \h1C7}, "NONE", <<"E">>, "grp9"),
     Group({\h1BA}, "given", <<"E", "Ib">>, "grp8")}

(* Rows with an empty name, some of which have a ModRM byte; the tables    *)
(* inst_tbl0f lacks end a byte later all the same.                         *)
Unnamed(op) ==
    [at |-> {}, size |-> "NONE", mode |-> <<>>, group |-> "unnamed",
     modrm |-> op \in {\h62, \hC4, \hC5, \hD4, \hD5, \h1A7} \cup (\hD8 .. \hDF)]

inst_tbl ==
    [op \in 0 .. \h1FF |->
        LET rows == {r \in RowsLow \cup RowsMiddle \cup RowsHigh \cup RowsTwo : op \in r.at}
        IN  IF rows = {} THEN Unnamed(op) ELSE CHOOSE r \in rows : TRUE]

(* The members of the groups of names that have one.                       *)
GroupNames ==
    [grp1 |-> 0 .. 7, grp2 |-> 0 .. 7, grp6 |-> 0 .. 5, grp8 |-> 4 .. 7, grp9 |-> {1}]

(* The row that reg selects in a group of rows.                            *)
GroupRow(g, reg) ==
    CASE g = "grp3" /\ reg \in {0, 1} -> Row({}, "NONE", TRUE, <<"E", "I">>)
      [] g = "grp3" /\ reg \in {2, 3} -> Row({}, "NONE", TRUE, <<"E">>)
      [] g = "grp3" /\ reg \in 4 .. 7 -> Row({}, "NONE", TRUE, <<"R", "E">>)
      [] g = "grp4" /\ reg \in {0, 1} -> Row({}, "given", TRUE, <<"E">>)
      [] g = "grp5" /\ reg \in {0, 1, 2, 6} -> Row({}, "given", TRUE, <<"E">>)
      [] g = "grp5" /\ reg \in 3 .. 5 -> Row({}, "NONE", TRUE, <<"E">>)
      [] g = "grp7" /\ reg \in 0 .. 3 -> Row({}, "given", TRUE, <<"E">>)
      [] g = "grp7" /\ reg \in {4, 6} -> Row({}, "NONE", TRUE, <<"fixed">>)
      [] g = "grp7" /\ reg = 7 -> Group({}, "NONE", <<"fixed">>, "inst0f00")
      [] OTHER -> Unnamed(0)

-----------------------------------------------------------------------------
VARIABLES
    at,      \* where disasm is
    addr,    \* bytes taken so far: addr - disasmstart
    size,    \* the operand size the prefixes ask for
    rex,     \* is rex nonzero, and its bits R and B
    op,      \* the opcode
    inst,    \* its row
    modrm,   \* the ModRM byte, with the base of an SIB byte
    fresh,   \* were the addr_ globals set by this call
    head,    \* history: addr after the opcode
    named,   \* was the instruction known
    wild     \* was something read that is not there

local == <<addr, size, rex, op, inst, modrm, fresh, head, named, wild>>
dvars == <<at, local>>

NoModrm == [mod |-> 0, reg |-> 0, rm |-> 0, base |-> 0]

NoRex == [on |-> FALSE, r |-> 0, b |-> 0]

DInit ==
    /\ at = "prefix" /\ addr = 0 /\ size = "LONG" /\ rex = NoRex
    /\ op = 0 /\ inst = Unnamed(0) /\ modrm = NoModrm
    /\ fresh = FALSE /\ head = 0 /\ named = FALSE /\ wild = FALSE

(* Segment, address size, lock and rep prefixes.                           *)
Prefix ==
    /\ at = "prefix" /\ addr < MaxPrefixes
    /\ addr' = addr + 1
    /\ UNCHANGED <<at, size, rex, op, inst, modrm, fresh, head, named, wild>>

(* 66 counts as a REX prefix without bits.                                 *)
OperandSize ==
    /\ at = "prefix" /\ addr < MaxPrefixes
    /\ addr' = addr + 1
    /\ size' = "WORD" /\ rex' = [on |-> TRUE, r |-> 0, b |-> 0]
    /\ UNCHANGED <<at, op, inst, modrm, fresh, head, named, wild>>

Rex ==
    /\ at = "prefix"
    /\ \E w \in BOOLEAN, r, b \in {0, 1} :
         /\ rex' = [on |-> TRUE, r |-> r, b |-> b]
         /\ size' = IF w THEN "QUAD" ELSE size
    /\ at' = "opcode" /\ addr' = addr + 1
    /\ UNCHANGED <<op, inst, modrm, fresh, head, named, wild>>

(* A run of nops is taken as one.                                          *)
Nops ==
    /\ at \in {"prefix", "opcode"}
    /\ op' = \h90 /\ inst' = inst_tbl[\h90] /\ named' = TRUE
    /\ \E n \in 1 .. MaxNops : addr' = addr + n
    /\ at' = "done"
    /\ UNCHANGED <<size, rex, modrm, fresh, head, wild>>

(* Bytes getprefix does not let through to the tables.                     *)
PrefixBytes ==
    {\h26, \h2E, \h36, \h3E, \h64, \h65, \h66, \h67, \hF0, \hF2, \hF3} \cup (\h40 .. \h4F)

Opcode ==
    /\ at \in {"prefix", "opcode"}
    /\ op' \in (0 .. \h1FF) \ ({\h0F, \h90} \cup IF at = "prefix" THEN PrefixBytes ELSE {})
    /\ inst' = inst_tbl[op']
    /\ addr' = addr + (IF op' > \hFF THEN 2 ELSE 1) /\ head' = addr'
    /\ at' = IF inst'.modrm THEN "modrm" ELSE "select"
    /\ UNCHANGED <<size, rex, modrm, fresh, named, wild>>

(* Mutant: every displacement is one byte.                                 *)
MutDisp8(mod, rm, base, b) ==
    LET bytes == IF rm = 4 THEN 1 ELSE 0
        low   == IF rm = 4 THEN base ELSE rm
    IN  CASE mod = 3 -> 0
          [] mod = 0 -> bytes + (IF 8 * b + low = 5 THEN 4 ELSE 0)
          [] OTHER   -> bytes + 1

(* SIB byte and displacement.  rm is compared with the bit of REX in it.   *)
AddressBytes(mod, rm, base, b) ==
    LET bytes == IF rm = 4 THEN 1 ELSE 0
        low   == IF rm = 4 THEN base ELSE rm
    IN  CASE mod = 3 -> 0
          [] mod = 0 -> bytes + (IF 8 * b + low = 5 THEN 4 ELSE 0)
          [] mod = 1 -> bytes + 1
          [] mod = 2 -> bytes + 4

(* Of the registers 5 matters, and of rm also 4; reg matters in a group.   *)
ModRM ==
    /\ at = "modrm"
    /\ \E mod \in 0 .. 3, rm \in {0, 4, 5}, base \in {0, 5},
          reg \in IF inst.group = "none" THEN {0} ELSE 0 .. 7 :
         /\ rm = 4 \/ base = 0
         /\ modrm' = [mod |-> mod, reg |-> reg, rm |-> rm, base |-> base]
         /\ addr' = addr + 1 + AddressBytes(mod, rm, base, rex.b)
    /\ fresh' = TRUE /\ at' = "select"
    /\ UNCHANGED <<size, rex, op, inst, head, named, wild>>

(* A name is read behind the end of its table: whatever is there is taken  *)
(* for a name or for none, or cannot be read.                              *)
WildName ==
    /\ wild' = TRUE
    /\ \/ at' = "operands" /\ named' = TRUE
       \/ at' = "done" /\ UNCHANGED named
       \/ at' = "fault" /\ UNCHANGED named

Lookup(known) ==
    /\ at' = IF known THEN "operands" ELSE "done"
    /\ named' = known
    /\ UNCHANGED wild

(* The row and the name of the instruction.                                *)
Select ==
    /\ at = "select"
    /\ LET row == IF inst.group \in {"grp3", "grp4", "grp5", "grp7"}
                  THEN GroupRow(inst.group, modrm.reg) ELSE inst
           index == 8 * rex.r + modrm.reg
       IN  /\ inst' = row
           /\ \/ row.group = "none" /\ Lookup(TRUE)
              \/ row.group \in {"unnamed", "esc"} /\ Lookup(FALSE)
              \/ /\ row.group \in DOMAIN GroupNames \cup {"inst0f00"}
                 /\ IF index > 7 THEN WildName
                    ELSE Lookup(row.group # "inst0f00" /\ index \in GroupNames[row.group])
    /\ UNCHANGED <<addr, size, rex, op, modrm, fresh, head>>

(* Bytes an operand takes; isize is i_size after the prefixes.             *)
OperandBytes(o, isize) ==
    CASE o = "I" -> IF isize = "WORD" THEN 2 ELSE 4
      [] o \in {"Ib", "Db"} -> 1
      [] o \in {"Iw", "O"} -> 2
      [] o = "Dl" -> 4
      [] o = "Iq" -> 8
      [] OTHER -> 0

(* The bytes all operands of a row take.                                   *)
ModeBytes(mode, isize) ==
    LET n[k \in 0 .. Len(mode)] == IF k = 0 THEN 0 ELSE n[k - 1] + OperandBytes(mode[k], isize)
    IN  n[Len(mode)]

(* The loop over i_mode.                                                   *)
Operands ==
    /\ at = "operands"
    /\ LET isize == IF rex.on THEN size ELSE inst.size
           uses(o) == \E k \in DOMAIN inst.mode : inst.mode[k] = o
           bad == (uses("R") /\ isize = "NONE") \/ (uses("E") /\ ~fresh)
       IN  /\ addr' = addr + ModeBytes(inst.mode, isize)
           /\ wild' = (wild \/ bad)
           /\ at' \in {"done"} \cup IF bad THEN {"fault"} ELSE {}
    /\ UNCHANGED <<size, rex, op, inst, modrm, fresh, head, named>>

(* dbg_do_disassembly and dbg_main call again.                             *)
Again ==
    /\ at = "done"
    /\ at' = "prefix" /\ addr' = 0 /\ size' = "LONG" /\ rex' = NoRex
    /\ op' = 0 /\ inst' = Unnamed(0) /\ modrm' = NoModrm
    /\ fresh' = FALSE /\ head' = 0 /\ named' = FALSE /\ wild' = FALSE

DNext ==
    \/ Prefix \/ OperandSize \/ Rex \/ Nops \/ Opcode
    \/ ModRM \/ Select \/ Operands \/ Again
    \/ at = "fault" /\ UNCHANGED dvars

DisasmSpec == DInit /\ [][DNext]_dvars

-----------------------------------------------------------------------------
(* What the processor takes (Intel SDM, volume 2, chapter 2 and the opcode *)
(* maps of appendix A) in 64-bit mode.                                     *)
ImmByte ==
    Alu(4) \cup (\h70 .. \h7F) \cup (\hB0 .. \hB7) \cup (\hE0 .. \hE7)
    \cup {\h6A, \h6B, \h80, \h82, \h83, \hA8, \hC0, \hC1, \hC6, \hCD, \hEB, \h1A4, \h1AC, \h1BA}

ImmSized == Alu(5) \cup {\h68, \h69, \h81, \hA9, \hC7}

HasModrm ==
    (UNION {Alu(k) : k \in 0 .. 3}) \cup {\h63, \h69, \h6B} \cup (\h80 .. \h8F)
    \cup {\hC0, \hC1, \hC6, \hC7, \hF6, \hF7, \hFE, \hFF} \cup (\h100 .. \h103)
    \cup (\h120 .. \h126) \cup (\h190 .. \h19F) \cup (\h1A3 .. \h1A5)
    \cup ((\h1AB .. \h1C1) \ {\h1B8, \h1B9}) \cup {\h1C7}

IsTest(o) == op = o /\ modrm.reg < 2   \* test in grp3

ProcessorImmediate ==
    LET sized == IF size = "WORD" THEN 2 ELSE 4
    IN  CASE op \in ImmByte \/ IsTest(\hF6) -> 1
          [] op \in ImmSized \/ IsTest(\hF7) -> sized
          [] op \in \hB8 .. \hBF -> IF size = "QUAD" THEN 8 ELSE sized
          [] op \in {\hC2, \hCA} -> 2
          [] op = \hC8 -> 3
          [] op \in {\hE8, \hE9} \cup (\h180 .. \h18F) -> 4
          [] op \in \hA0 .. \hA3 -> 8
          [] OTHER -> 0

(* Moves to and from control registers have no memory form, and a base of  *)
(* 5 means the same with and without REX.                                  *)
ControlMoves == (\h120 .. \h124) \cup {\h126}

ProcessorAddress ==
    LET sib  == IF modrm.rm = 4 THEN 1 ELSE 0
        disp == CASE modrm.mod = 1 -> 1
                  [] modrm.mod = 2 -> 4
                  [] modrm.mod = 0 -> IF 5 \in {modrm.rm, modrm.base} THEN 4 ELSE 0
    IN  CASE op \notin HasModrm -> 0
          [] op \in ControlMoves -> 1
          [] OTHER -> IF modrm.mod = 3 THEN 1 ELSE 1 + sib + disp

(* The instructions disasm takes the wrong number of bytes for.            *)
Misread ==
    \/ op \in (\hA0 .. \hA3) \cup {\hA8, \hC6, \hC8}
    \/ IsTest(\hF6)
    \/ op \in \hB8 .. \hBB /\ size = "QUAD"
    \/ op \in \hBC .. \hBF /\ size # "QUAD"
    \/ /\ op \notin ControlMoves /\ rex.b = 1 /\ modrm.mod = 0
       /\ 5 \in {modrm.rm, modrm.base}
    \/ /\ op \in ControlMoves
       /\ \/ modrm.mod \in {1, 2}
          \/ modrm.mod = 0 /\ (modrm.rm = 4 \/ (modrm.rm = 5 /\ rex.b = 0))

(* debug.c:352, "Disassembles [count] instructions starting at [addr]":    *)
(* the address disasm returns is that of the next instruction for every    *)
(* known instruction but the ones of Misread, runs of nops aside.          *)
NextInstruction ==
    at = "done" /\ named /\ op # \h90 =>
        (addr = head + ProcessorAddress + ProcessorImmediate <=> ~Misread)

(* No call reads the addr_ globals an earlier call left, or behind the end *)
(* of regs or of a group's names, but for two cases: mul to idiv without a *)
(* REX prefix, whose rows in grp3 have no size, and a group of names with  *)
(* REX.R.                                                                  *)
ReadsDefined ==
    wild => \/ op \in {\hF6, \hF7} /\ modrm.reg \in 4 .. 7 /\ ~rex.on
            \/ rex.r = 1 /\ inst.group \in DOMAIN GroupNames \cup {"inst0f00"}

=============================================================================
