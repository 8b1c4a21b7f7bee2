----------------------------- MODULE Debugger -----------------------------
(***************************************************************************)
(* The kernel debugger (arch/x86_64/debug/debug.c): dbg_main, entered      *)
(* through the gates for #DB and int3, its commands, and the debug         *)
(* registers it programs, together with the processor that raises debug    *)
(* exceptions while it runs the kernel - or the debugger itself, when it   *)
(* dumps or disassembles memory that is being watched.                     *)
(***************************************************************************)
EXTENDS Integers, Sequences, FiniteSets, SequencesExt

CONSTANTS
    NCode,     \* the kernel's instructions are at addresses 1..NCode
    Data,      \* addresses of data
    Touch,     \* the data addresses each instruction accesses
    Int3,      \* the instructions that are breakpoint()
    NRegs,     \* breakpoint registers the user works with, of DR0..DR3
    IretSize,  \* bytes the entry stub's iret pops for each register
    MaxDepth,  \* bound: debugger entries nested in each other
    MaxSize    \* bound: the size of a dump, the count of a disassembly

Code == 1 .. NCode
Addr == {0} \cup Code \cup Data
Reg  == 0 .. NRegs - 1
Context == {"kernel", "dump", "disasm"}

(* The types the hbp command takes.                                        *)
HbpType == {"0", "ex", "ma"}

ASSUME CodeAssumption ==
    /\ NCode \in Nat \ {0} /\ Data \subseteq Nat \ Code
    /\ Touch \in [Code -> SUBSET Data] /\ Int3 \subseteq Code
    /\ \A c \in Int3 : Touch[c] = {}
ASSUME RegAssumption == NRegs \in 1 .. 4 /\ MaxDepth \in Nat \ {0} /\ MaxSize \in Nat
ASSUME IretAssumption == IretSize \in {4, 8}

VARIABLES
    mode,     \* "run", "entry" (an exception was raised), "prompt" or "fault"
    ctx,      \* what runs in that mode: the "kernel" or, in the debugger, a
              \* "dump" (of x or disasm) or the "disasm" before the prompt
    rip,      \* the kernel's next instruction
    tf,       \* RFLAGS.TF
    frames,   \* saved frames of the active dbg_main calls, innermost last
    cur,      \* base of the dump that runs, as it moves on, and
    limit,    \*   its limit: locals, on the stack with the frame
    argv,     \* what argv_buffer[2] stands for as a number, for all of them
    dr,       \* DR0..DR3
    dr7,      \* the bits set in DR7
    dr6,      \* the breakpoints flagged in DR6
    stepping, \* the flag of dbg_main
    reported, \* the breakpoint dbg_main last reported, or None
    want,     \* history: the breakpoints asked for with hbp
    moved,    \* history: the kernel has moved since the last execute break
    stuck,    \* history: the last two were raised without that
    dumps     \* history: of each dbg_main call, what its dump was asked for
              \*   and the addresses it has shown

cpu  == <<ctx, rip, tf>>
loop == <<cur, limit>>
regs == <<dr, dr7, dr6>>
hist == <<want, moved, stuck, dumps>>
vars == <<mode, cpu, frames, loop, argv, regs, stepping, reported, hist>>

None == -1
Off  == [kind |-> "off", at |-> 0]
NoDump == [from |-> 0, count |-> 0, shown |-> <<>>]

Init ==
    /\ mode = "run" /\ ctx = "kernel" /\ rip = 1 /\ tf = FALSE
    /\ frames = <<>> /\ cur = 0 /\ limit = 0 /\ argv = 0 /\ dumps = <<>>
    /\ dr = [k \in Reg |-> 0] /\ dr7 = {} /\ dr6 = {}
    /\ stepping = FALSE /\ reported = None
    /\ want = [k \in Reg |-> Off] /\ moved = TRUE /\ stuck = FALSE

-----------------------------------------------------------------------------
(* The processor.  The bits of DR7: a local and a global enable bit and    *)
(* two type bits for each breakpoint.                                      *)
Enabled(k) == dr7 \cap {2 * k, 2 * k + 1} # {}
TypeBits(k) == {16 + 4 * k, 17 + 4 * k}
ExecBreak(k) == Enabled(k) /\ dr7 \cap TypeBits(k) = {}
Watch(k)     == Enabled(k) /\ TypeBits(k) \subseteq dr7

ExecHits == {k \in Reg : ExecBreak(k) /\ dr[k] = rip}
WatchHits(A) == {k \in Reg : Watch(k) /\ dr[k] \in A}

(* An exception adds the frame f to fs; the dumps so far are ds.           *)
Push(fs, f, ds) ==
    /\ mode' = "entry"
    /\ frames' = Append(fs, f)
    /\ dumps' = Append(ds, NoDump)
    /\ cur' = 0 /\ limit' = 0

(* The frame of what runs, in a loop that has come to c.                   *)
Running(c) == [ctx |-> ctx, tf |-> tf, cur |-> c, limit |-> limit]

(* A debug exception flags what was hit.  The processor may or may not     *)
(* clear older flags; software is to do so.                                *)
Flag(H) == dr6' \in {H, dr6 \cup H}

Interrupt(c, ds, H) == Push(frames, Running(c), ds) /\ tf' = FALSE /\ Flag(H)

Trap(H) == Interrupt(cur, dumps, H)

(* An execute breakpoint is a fault: it is raised before the instruction   *)
(* runs, each time it is about to run with RFLAGS.RF clear.                *)
ExecFault ==
    /\ mode = "run" /\ ctx = "kernel" /\ ExecHits # {}
    /\ Trap(ExecHits)
    /\ moved' = FALSE
    /\ stuck' = ~moved
    /\ UNCHANGED <<ctx, rip, argv, dr, dr7, stepping, reported, want>>

(* Other debug exceptions are traps: they follow the instruction.          *)
Execute ==
    /\ mode = "run" /\ ctx = "kernel" /\ ExecHits = {}
    /\ rip' = IF rip = NCode THEN 1 ELSE rip + 1
    /\ moved' = TRUE /\ stuck' = FALSE
    /\ LET H == WatchHits(Touch[rip]) IN
       IF rip \in Int3 THEN Push(frames, Running(cur), dumps) /\ tf' = FALSE /\ UNCHANGED dr6
       ELSE IF tf \/ H # {} THEN Trap(H)
       ELSE UNCHANGED <<mode, frames, loop, dumps, tf, dr6>>
    /\ UNCHANGED <<ctx, argv, dr, dr7, stepping, reported, want>>

(* An instruction of the debugger that reads no watched memory.            *)
StepDebugger ==
    /\ mode = "run" /\ ctx # "kernel" /\ tf
    /\ Trap({})
    /\ UNCHANGED <<ctx, rip, argv, dr, dr7, stepping, reported, want, moved, stuck>>

-----------------------------------------------------------------------------
Top == Last(frames)

(* The switch over dr6 & 0xF names a breakpoint if it is the only one      *)
(* flagged, and no message is printed otherwise.                           *)
BreakCondition == IF Cardinality(dr6) = 1 THEN CHOOSE k \in dr6 : TRUE ELSE None

(* info->frame.rflags, with the trap flag cleared after a step.            *)
Entered == IF stepping THEN Front(frames) \o <<[Top EXCEPT !.tf = FALSE]>> ELSE frames

(* Mutant: the step flag is left set.                                      *)
MutKeepStepping ==
    /\ mode = "entry"
    /\ mode' = "prompt" /\ frames' = Entered
    /\ reported' = IF stepping THEN reported ELSE BreakCondition
    /\ UNCHANGED <<cpu, loop, argv, regs, stepping, hist>>

(* dbg_main up to its prompt.  It disassembles the instruction it stopped  *)
(* at, which is the kernel's if it was entered from there, before it       *)
(* resets the step flag.                                                   *)
dbg_main ==
    /\ mode = "entry"
    /\ reported' = IF stepping THEN reported ELSE BreakCondition
    /\ LET H == IF Top.ctx = "kernel" THEN WatchHits({rip}) ELSE {} IN
       IF H = {}
       THEN /\ mode' = "prompt" /\ frames' = Entered /\ stepping' = FALSE
            /\ UNCHANGED <<loop, dr6, dumps>>
       ELSE /\ Push(Entered, [ctx |-> "disasm", tf |-> FALSE, cur |-> 0, limit |-> 0], dumps)
            /\ Flag(H)
            /\ UNCHANGED stepping
    /\ UNCHANGED <<cpu, argv, dr, dr7, want, moved, stuck>>

(* What interrupted that is over, and dbg_main gets to its prompt.         *)
dbg_main_resumed ==
    /\ mode = "run" /\ ctx = "disasm" /\ ~tf
    /\ mode' = "prompt" /\ stepping' = FALSE
    /\ UNCHANGED <<cpu, frames, loop, argv, regs, reported, hist>>

(* The frame on the stack, in words of four bytes, and the words iret      *)
(* takes for RIP, CS, RFLAGS, RSP and SS.                                  *)
FrameWords == <<"rip", "rip high", "cs", "zero", "rflags", "zero",
                "rsp", "rsp high", "ss", "zero">>

Popped == [j \in 1 .. 5 |-> FrameWords[(j - 1) * (IretSize \div 4) + 1]]

(* dbg_main returns and the stub's iret restores the frame; a word of      *)
(* something else in CS is a general protection fault.                     *)
Return(flag) ==
    /\ frames' = Front(frames) /\ dumps' = Front(dumps)
    /\ IF Popped = <<"rip", "cs", "rflags", "rsp", "ss">>
       THEN /\ mode' = "run" /\ ctx' = Top.ctx /\ tf' = flag
            /\ cur' = Top.cur /\ limit' = Top.limit
       ELSE mode' = "fault" /\ UNCHANGED <<ctx, tf, loop>>

cntn ==
    /\ mode = "prompt"
    /\ Return(Top.tf)
    /\ UNCHANGED <<rip, argv, regs, stepping, reported, want, moved, stuck>>

step ==
    /\ mode = "prompt"
    /\ Return(TRUE)
    /\ stepping' = TRUE
    /\ UNCHANGED <<rip, argv, regs, reported, want, moved, stuck>>

enable_bit(k) == 2 * k + 1

type_bit(k) == 16 + 4 * k

(* Mutant: the type bits of an older breakpoint stay.                      *)
MutTypeStays(k, t) ==
    (dr7 \cup {enable_bit(k)}) \cup (IF t = "ma" THEN {type_bit(k), type_bit(k) + 1} ELSE {})

(* DR7 with breakpoint k set to type t, and with breakpoint k cleared.     *)
SetBits(k, t) ==
    ((dr7 \cup {enable_bit(k)}) \ (type_bit(k) .. type_bit(k) + 3))
    \cup (IF t = "ma" THEN {type_bit(k), type_bit(k) + 1} ELSE {})

ClearBits(k) ==
    dr7 \ ({enable_bit(k) - 1, enable_bit(k)} \cup (type_bit(k) .. type_bit(k) + 3))

(* hbp with three parameters it accepts, of which argv_buffer[2], a name,  *)
(* is no number.  The type 0 clears a breakpoint only together with the    *)
(* address 0; otherwise it is one on execution.                            *)
hardware_bp ==
    /\ mode = "prompt" /\ argv' = 0
    /\ \E a \in Addr, k \in Reg, t \in HbpType :
         IF t = "0" /\ a = 0
         THEN /\ dr7' = ClearBits(k)
              /\ want' = [want EXCEPT ![k] = Off]
              /\ UNCHANGED dr
         ELSE /\ dr' = [dr EXCEPT ![k] = a]
              /\ dr7' = SetBits(k, t)
              /\ want' = [want EXCEPT ![k] =
                             [kind |-> IF t = "ma" THEN "watch" ELSE "exec",
                              at |-> a]]
    /\ UNCHANGED <<mode, cpu, frames, loop, dr6, stepping, reported, moved, stuck, dumps>>

Depth == Len(frames)

(* A dump of n addresses from b on is prepared: its locals are set from    *)
(* argv_buffer.                                                            *)
StartDump(b, n) ==
    /\ Depth < MaxDepth \/ WatchHits(b .. b + n - 1) = {}
    /\ argv' = n
    /\ mode' = "run" /\ ctx' = "dump" /\ cur' = b /\ limit' = b + n
    /\ dumps' = [dumps EXCEPT ![Depth] = [from |-> b, count |-> n, shown |-> <<>>]]
    /\ UNCHANGED <<rip, tf, frames, regs, stepping, reported, want, moved, stuck>>

(* x with a base other than 0.  dbg_do_dumphex does not look at argc: what *)
(* was not given is whatever older commands left in argv_buffer.           *)
dumphex ==
    /\ mode = "prompt"
    /\ \E b \in Addr \ {0}, n \in 0 .. MaxSize : StartDump(b, n)

(* disasm with a base and a count other than 0.  An instruction of this    *)
(* kernel has one address.                                                 *)
disassembly ==
    /\ mode = "prompt"
    /\ \E b \in Addr \ {0}, n \in 1 .. MaxSize : StartDump(b, n)

(* Mutant: the limit is read from argv_buffer again in every round.        *)
MutReread == dumps[Depth].from + argv

(* The loop's limit.                                                       *)
DumpLimit == limit

(* A round of the loop: the read may be of watched memory.                 *)
DumpRound ==
    /\ mode = "run" /\ ctx = "dump" /\ cur < DumpLimit
    /\ LET H == WatchHits({cur})
           seen == [dumps EXCEPT ![Depth].shown = Append(@, cur)]
       IN  IF tf \/ H # {}
           THEN Interrupt(cur + 1, seen, H)
           ELSE /\ dumps' = seen /\ cur' = cur + 1
                /\ UNCHANGED <<mode, frames, limit, tf, dr6>>
    /\ UNCHANGED <<ctx, rip, argv, dr, dr7, stepping, reported, want, moved, stuck>>

(* The loop ends, and the prompt comes back.                               *)
DumpDone ==
    /\ mode = "run" /\ ctx = "dump" /\ cur >= DumpLimit /\ ~tf
    /\ mode' = "prompt" /\ cur' = 0 /\ limit' = 0
    /\ dumps' = [dumps EXCEPT ![Depth] = NoDump]
    /\ UNCHANGED <<cpu, frames, argv, regs, stepping, reported, want, moved, stuck>>

(* reg, help, wrong parameters of hbp, x and disasm and lines that are no  *)
(* command only answer, but they too are split into argv_buffer.           *)
Inspect ==
    /\ mode = "prompt"
    /\ argv' \in 0 .. MaxSize
    /\ UNCHANGED <<mode, cpu, frames, loop, regs, stepping, reported, hist>>

Processor == ExecFault \/ Execute \/ StepDebugger
Dump      == DumpRound \/ DumpDone
dbg_exec  == cntn \/ step \/ hardware_bp \/ dumphex \/ disassembly \/ Inspect

Next == Processor \/ dbg_main \/ dbg_main_resumed \/ Dump \/ dbg_exec

Spec == Init /\ [][Next]_vars

-----------------------------------------------------------------------------
(* The one flag "stepping" stands for the trap flag of whatever frame is   *)
(* resumed, also when the debugger was entered from within itself: the     *)
(* processor runs with TF exactly when a step was asked for, and no frame  *)
(* that waits at a prompt has it set, so that c never goes on stepping.    *)
StepFlag ==
    /\ mode = "run" => (tf <=> stepping)
    /\ mode = "prompt" => \A j \in DOMAIN frames : ~frames[j].tf

(* A dump shows the addresses its command asked for, each once and in      *)
(* order, however often it was interrupted by its own reads and whatever   *)
(* commands the nested prompts split into the same argv_buffer meanwhile.  *)
DumpWhole ==
    [][mode = "run" /\ ctx = "dump" /\ mode' = "prompt" =>
         LET d == dumps[Depth] IN d.shown = [j \in 1 .. d.count |-> d.from + j - 1]]_vars

(* The kernel stops as asked for with the hbp commands so far, whatever    *)
(* they did to the bits of DR7 that belong to other breakpoints: it never  *)
(* executes an instruction under an execute breakpoint, never touches      *)
(* watched data without stopping, and stops for nothing else.              *)
StopsAsAsked ==
    [][rip' # rip \/ (mode = "run" /\ ctx = "kernel" /\ mode' = "entry") =>
         LET ex == {k \in Reg : want[k] = [kind |-> "exec", at |-> rip]}
             wa == {k \in Reg : want[k].kind = "watch" /\ want[k].at \in Touch[rip]}
         IN  IF rip' = rip THEN ex # {} \/ (NCode = 1 /\ (wa # {} \/ tf \/ rip \in Int3))
             ELSE ex = {} /\ (mode' = "entry" <=> wa # {} \/ tf \/ rip \in Int3)]_vars

(* debug.c:178, of the command c: "Continues execution".  After a stop at  *)
(* an execute breakpoint the kernel would then execute that instruction    *)
(* before it can stop at one again.                                        *)
ContinueAdvances == ~stuck

(* debug.c:178, of the command c: "Continues execution", which takes the   *)
(* return to the frame it was entered from.  The interrupt gates of head   *)
(* .asm push eight bytes for each register.                                *)
ReturnResumes == mode # "fault"

=============================================================================
