--------------------------- MODULE DebuggerProofs ---------------------------
(***************************************************************************)
(* Proofs about the kernel debugger, for every kernel code and data, any   *)
(* of DR0..DR3, any depth of nested entries and both sizes of the stub's   *)
(* iret; and, below them, about its disassembler, for any number of        *)
(* prefixes and of nops in a run.                                          *)
(***************************************************************************)
EXTENDS Debugger, Disasm, SequenceTheorems, TLAPS

Frame == [ctx : Context, tf : BOOLEAN, cur : Nat, limit : Nat]
Wish  == [kind : {"off", "exec", "watch"}, at : Addr]

DebugType ==
    /\ mode \in {"run", "entry", "prompt", "fault"}
    /\ ctx \in Context /\ rip \in Code
    /\ tf \in BOOLEAN /\ stepping \in BOOLEAN
    /\ frames \in Seq(Frame) /\ cur \in Nat /\ limit \in Nat
    /\ dr \in [Reg -> Addr] /\ dr7 \subseteq Nat
    /\ want \in [Reg -> Wish]

(* The trap flag.  It is saved in the frame of an exception raised by a    *)
(* step, and until dbg_main has cleared it there no other frame has it.    *)
FlagInv ==
    /\ mode = "run" => (tf <=> stepping)
    /\ mode = "prompt" => ~stepping
    /\ mode \in {"entry", "prompt"} => ~tf
    /\ \A j \in DOMAIN frames :
          frames[j].tf => mode = "entry" /\ j = Len(frames) /\ stepping

(* What nests in what, and what the frame that is resumed leaves behind.   *)
NestInv ==
    /\ \A j \in DOMAIN frames :
          /\ frames[j].ctx = "kernel" <=> j = 1
          /\ frames[j].ctx = "disasm" => j = 2
    /\ mode \in {"entry", "prompt"} => Len(frames) > 0
    /\ mode = "run" => /\ ctx = "kernel" <=> Len(frames) = 0
                       /\ ctx = "disasm" => Len(frames) = 1

(* The debug registers hold what was asked for.                            *)
WantInv ==
    \A k \in Reg :
        /\ want[k].kind = "off" => ~Enabled(k)
        /\ want[k].kind = "exec" => ExecBreak(k) /\ dr[k] = want[k].at
        /\ want[k].kind = "watch" => Watch(k) /\ dr[k] = want[k].at

DebugInv == DebugType /\ FlagInv /\ NestInv /\ WantInv

-----------------------------------------------------------------------------
(* The innermost frame and the ones around it.                             *)
LEMMA FrontAndTop ==
    ASSUME frames \in Seq(Frame), Len(frames) > 0
    PROVE  /\ Top = frames[Len(frames)] /\ Top \in Frame
           /\ Front(frames) \in Seq(Frame) /\ Len(Front(frames)) = Len(frames) - 1
           /\ \A j \in DOMAIN Front(frames) : j \in DOMAIN frames /\ Front(frames)[j] = frames[j]
<1>1. Len(frames) \in Nat \ {0} /\ DOMAIN frames = 1 .. Len(frames)
  OBVIOUS
<1>2. Front(frames) = [j \in 1 .. Len(frames) - 1 |-> frames[j]]
  BY <1>1 DEF Front
<1> QED
  BY <1>1, <1>2 DEF Top, Last

(* A frame pushed on others.                                               *)
LEMMA Pushed ==
    ASSUME NEW fs \in Seq(Frame), NEW f \in Frame
    PROVE  /\ Append(fs, f) \in Seq(Frame) /\ Len(Append(fs, f)) = Len(fs) + 1
           /\ DOMAIN Append(fs, f) = 1 .. Len(fs) + 1
           /\ \A j \in 1 .. Len(fs) : Append(fs, f)[j] = fs[j]
           /\ Append(fs, f)[Len(fs) + 1] = f
OBVIOUS

(* The frames dbg_main goes on with: the contexts are those saved, and     *)
(* after a step the trap flag is gone.                                     *)
LEMMA EnteredFrames ==
    ASSUME frames \in Seq(Frame), Len(frames) > 0
    PROVE  /\ Entered \in Seq(Frame) /\ Len(Entered) = Len(frames)
           /\ \A j \in DOMAIN frames :
                 /\ Entered[j].ctx = frames[j].ctx
                 /\ Entered[j].cur = frames[j].cur /\ Entered[j].limit = frames[j].limit
                 /\ Entered[j].tf => frames[j].tf /\ ~(stepping /\ j = Len(frames))
<1> DEFINE g == [Top EXCEPT !.tf = FALSE]
<1>1. Top = frames[Len(frames)] /\ Top \in Frame /\ g \in Frame
      /\ g.ctx = Top.ctx /\ g.tf = FALSE /\ g.cur = Top.cur /\ g.limit = Top.limit
  BY FrontAndTop DEF Frame
<1>2. /\ Front(frames) \o <<g>> \in Seq(Frame)
      /\ Len(Front(frames) \o <<g>>) = Len(frames)
      /\ \A j \in DOMAIN frames :
            (Front(frames) \o <<g>>)[j] = IF j = Len(frames) THEN g ELSE frames[j]
  <2> HIDE DEF g
  <2> QED
    BY <1>1, FrontAndTop
<1> QED
  BY <1>1, <1>2 DEF Entered


-----------------------------------------------------------------------------
(* A trap out of running code keeps the frames nested, and the flag it     *)
(* saves is that of a step.                                                *)
LEMMA PushRunning ==
    ASSUME DebugInv, mode = "run", mode' = "entry", stepping' = stepping, tf' = FALSE,
           NEW c \in Nat, frames' = Append(frames, Running(c))
    PROVE  frames' \in Seq(Frame) /\ FlagInv' /\ NestInv'
<1> DEFINE f == Running(c)
<1>1. f \in Frame /\ f.ctx = ctx /\ f.tf = tf /\ frames \in Seq(Frame) /\ Len(frames) \in Nat
  BY DEF DebugInv, DebugType, Frame, Running
<1> HIDE DEF f
<1>2. /\ frames' \in Seq(Frame) /\ Len(frames') = Len(frames) + 1
      /\ DOMAIN frames' = 1 .. Len(frames) + 1 /\ DOMAIN frames = 1 .. Len(frames)
      /\ \A j \in 1 .. Len(frames) : frames'[j] = frames[j]
      /\ frames'[Len(frames) + 1] = f
  BY <1>1, Pushed DEF f
<1>3. FlagInv'
  BY <1>1, <1>2 DEF DebugInv, FlagInv
<1>4. NestInv'
  BY <1>1, <1>2 DEF DebugInv, NestInv
<1> QED
  BY <1>2, <1>3, <1>4

(* dbg_main interrupted by its own disassembly, with frames fs that do not *)
(* have the trap flag.                                                     *)
LEMMA PushNested ==
    ASSUME DebugInv, mode' = "entry", ~tf, tf' = tf, NEW fs \in Seq(Frame), Len(fs) = 1,
           Len(frames) = 1, \A j \in DOMAIN frames : fs[j].ctx = frames[j].ctx /\ ~fs[j].tf,
           frames' = Append(fs, [ctx |-> "disasm", tf |-> FALSE, cur |-> 0, limit |-> 0])
    PROVE  frames' \in Seq(Frame) /\ FlagInv' /\ NestInv'
<1> DEFINE f == [ctx |-> "disasm", tf |-> FALSE, cur |-> 0, limit |-> 0]
<1>1. f \in Frame /\ f.ctx = "disasm" /\ f.tf = FALSE /\ frames \in Seq(Frame)
  BY DEF DebugInv, DebugType, Frame, Context
<1> HIDE DEF f
<1>2. /\ frames' \in Seq(Frame) /\ Len(frames') = 2
      /\ DOMAIN frames' = 1 .. 2 /\ DOMAIN frames = 1 .. 1
      /\ frames'[1] = fs[1] /\ frames'[2] = f
  <2>1. /\ frames' \in Seq(Frame) /\ Len(frames') = Len(fs) + 1
        /\ DOMAIN frames' = 1 .. Len(fs) + 1 /\ frames'[Len(fs) + 1] = f
        /\ \A j \in 1 .. Len(fs) : frames'[j] = fs[j]
    BY <1>1, Pushed DEF f
  <2>2. DOMAIN frames = 1 .. Len(frames) /\ Len(fs) + 1 = 2 /\ 1 \in 1 .. Len(fs)
    BY <1>1
  <2> QED
    BY <2>1, <2>2
<1>3. FlagInv'
  BY <1>1, <1>2 DEF DebugInv, FlagInv
<1>4. NestInv'
  BY <1>1, <1>2 DEF DebugInv, NestInv
<1> QED
  BY <1>2, <1>3, <1>4

(* dbg_main returns: the frame's context runs with the flag it is given.   *)
LEMMA ReturnStep ==
    ASSUME DebugInv, mode = "prompt", NEW flag \in BOOLEAN, Return(flag),
           stepping' = flag
    PROVE  /\ mode' \in {"run", "fault"} /\ ctx' \in Context /\ tf' \in BOOLEAN
           /\ cur' \in Nat /\ limit' \in Nat
           /\ frames' \in Seq(Frame) /\ FlagInv' /\ NestInv'
<1>1. Len(frames) > 0 /\ frames \in Seq(Frame) /\ Len(frames) \in Nat
      /\ DOMAIN frames = 1 .. Len(frames)
  BY DEF DebugInv, DebugType, NestInv
<1>2. /\ Top = frames[Len(frames)] /\ Top \in Frame
      /\ frames' \in Seq(Frame) /\ Len(frames') = Len(frames) - 1
      /\ \A j \in DOMAIN frames' : j \in DOMAIN frames /\ frames'[j] = frames[j]
  BY <1>1, FrontAndTop DEF Return
<1>3. CASE /\ mode' = "run" /\ ctx' = Top.ctx /\ tf' = flag
           /\ cur' = Top.cur /\ limit' = Top.limit
  <2>1. ctx' \in Context /\ tf' \in BOOLEAN /\ cur' \in Nat /\ limit' \in Nat
    BY <1>2, <1>3 DEF Frame
  <2>2. FlagInv'
    BY <1>2, <1>3 DEF DebugInv, FlagInv
  <2>3. NestInv'
    BY <1>1, <1>2, <1>3 DEF DebugInv, NestInv
  <2> QED
    BY <1>2, <1>3, <2>1, <2>2, <2>3
<1>4. CASE mode' = "fault" /\ UNCHANGED <<ctx, tf, cur, limit>>
  <2>1. FlagInv'
    BY <1>2, <1>4 DEF DebugInv, FlagInv
  <2>2. NestInv'
    BY <1>1, <1>2, <1>4 DEF DebugInv, NestInv
  <2> QED
    BY <1>2, <1>4, <2>1, <2>2 DEF DebugInv, DebugType
<1> QED
  BY <1>3, <1>4 DEF Return, loop

(* hbp changes the bits of its own breakpoint only.                        *)
LEMMA BitsOfOthers ==
    ASSUME NEW k \in Reg, NEW m \in Reg, k # m, NEW t
    PROVE  /\ {2 * m, 2 * m + 1} \cap SetBits(k, t) = {2 * m, 2 * m + 1} \cap dr7
           /\ TypeBits(m) \cap SetBits(k, t) = TypeBits(m) \cap dr7
           /\ {2 * m, 2 * m + 1} \cap ClearBits(k) = {2 * m, 2 * m + 1} \cap dr7
           /\ TypeBits(m) \cap ClearBits(k) = TypeBits(m) \cap dr7
<1>1. k \in 0 .. 3 /\ m \in 0 .. 3
  BY RegAssumption DEF Reg
<1> QED
  BY <1>1 DEF SetBits, ClearBits, TypeBits, enable_bit, type_bit

(* ... and sets them to the type asked for, or clears both enable bits.    *)
LEMMA BitsOfOwn ==
    ASSUME NEW k \in Reg, NEW t \in HbpType
    PROVE  /\ 2 * k + 1 \in SetBits(k, t)
           /\ t = "ma" => TypeBits(k) \subseteq SetBits(k, t)
           /\ t # "ma" => TypeBits(k) \cap SetBits(k, t) = {}
           /\ ClearBits(k) \cap {2 * k, 2 * k + 1} = {}
<1>1. k \in 0 .. 3
  BY RegAssumption DEF Reg
<1> QED
  BY <1>1 DEF SetBits, ClearBits, TypeBits, enable_bit, type_bit


(* hbp keeps the registers as asked for.                                   *)
LEMMA WantStep ==
    ASSUME DebugInv, hardware_bp
    PROVE  dr' \in [Reg -> Addr] /\ dr7' \subseteq Nat /\ want' \in [Reg -> Wish] /\ WantInv'
<1>1. PICK a \in Addr, k \in Reg, t \in HbpType :
         IF t = "0" /\ a = 0
         THEN /\ dr7' = ClearBits(k)
              /\ want' = [want EXCEPT ![k] = Off]
              /\ UNCHANGED dr
         ELSE /\ dr' = [dr EXCEPT ![k] = a]
              /\ dr7' = SetBits(k, t)
              /\ want' = [want EXCEPT ![k] =
                             [kind |-> IF t = "ma" THEN "watch" ELSE "exec", at |-> a]]
  BY DEF hardware_bp
<1>2. dr \in [Reg -> Addr] /\ want \in [Reg -> Wish] /\ dr7 \subseteq Nat /\ WantInv
  BY DEF DebugInv, DebugType
<1>3. k \in 0 .. 3
  BY RegAssumption DEF Reg
<1>4. CASE t = "0" /\ a = 0
  <2>1. dr7' = ClearBits(k) /\ want' = [want EXCEPT ![k] = Off] /\ dr' = dr
    BY <1>1, <1>4
  <2>2. Off \in Wish /\ Off.kind = "off" /\ dr7' \subseteq Nat
    BY <1>2, <2>1 DEF Off, Wish, Addr, ClearBits
  <2>3. ASSUME NEW m \in Reg
        PROVE  /\ want'[m].kind = "off" => ~Enabled(m)'
               /\ want'[m].kind = "exec" => ExecBreak(m)' /\ dr'[m] = want'[m].at
               /\ want'[m].kind = "watch" => Watch(m)' /\ dr'[m] = want'[m].at
    <3>1. CASE m = k
      BY <1>2, <2>1, <2>2, <3>1, BitsOfOwn DEF Enabled
    <3>2. CASE m # k
      BY <1>2, <2>1, <3>2, BitsOfOthers DEF WantInv, Enabled, ExecBreak, Watch
    <3> QED
      BY <3>1, <3>2
  <2> QED
    BY <1>2, <2>1, <2>2, <2>3 DEF WantInv
<1>5. CASE ~(t = "0" /\ a = 0)
  <2> DEFINE w == [kind |-> IF t = "ma" THEN "watch" ELSE "exec", at |-> a]
  <2>1. dr7' = SetBits(k, t) /\ want' = [want EXCEPT ![k] = w] /\ dr' = [dr EXCEPT ![k] = a]
    BY <1>1, <1>5
  <2>2. /\ w \in Wish /\ w.kind = (IF t = "ma" THEN "watch" ELSE "exec") /\ w.at = a
        /\ dr7' \subseteq Nat
    BY <1>2, <1>3, <2>1 DEF Wish, SetBits, enable_bit, type_bit
  <2> HIDE DEF w
  <2>3. ASSUME NEW m \in Reg
        PROVE  /\ want'[m].kind = "off" => ~Enabled(m)'
               /\ want'[m].kind = "exec" => ExecBreak(m)' /\ dr'[m] = want'[m].at
               /\ want'[m].kind = "watch" => Watch(m)' /\ dr'[m] = want'[m].at
    <3>1. CASE m = k
      BY <1>2, <2>1, <2>2, <3>1, BitsOfOwn DEF Enabled, ExecBreak, Watch
    <3>2. CASE m # k
      BY <1>2, <2>1, <3>2, BitsOfOthers DEF WantInv, Enabled, ExecBreak, Watch
    <3> QED
      BY <3>1, <3>2
  <2> QED
    BY <1>2, <2>1, <2>2, <2>3 DEF WantInv
<1> QED
  BY <1>4, <1>5

(* Steps that leave the debug registers leave them as asked for.           *)
LEMMA WantStays ==
    ASSUME DebugInv, dr' = dr, dr7' = dr7, want' = want
    PROVE  dr' \in [Reg -> Addr] /\ dr7' \subseteq Nat /\ want' \in [Reg -> Wish] /\ WantInv'
BY DEF DebugInv, DebugType, WantInv, Enabled, ExecBreak, Watch

(* Addresses are numbers.                                                  *)
LEMMA AddrNat == Addr \subseteq Nat
BY CodeAssumption DEF Addr, Code

-----------------------------------------------------------------------------
(* Every step keeps the invariant.                                         *)
LEMMA DebugStep ==
    ASSUME DebugInv, [Next]_vars
    PROVE  DebugInv'
<1>0. /\ ctx \in Context /\ rip \in Code /\ tf \in BOOLEAN /\ stepping \in BOOLEAN
      /\ frames \in Seq(Frame) /\ cur \in Nat /\ limit \in Nat
  BY DEF DebugInv, DebugType
<1>1. CASE ExecFault
  <2>1. mode = "run" /\ mode' = "entry" /\ frames' = Append(frames, Running(cur))
        /\ tf' = FALSE /\ cur' = 0 /\ limit' = 0 /\ UNCHANGED <<ctx, rip, dr, dr7, stepping, want>>
    BY <1>1 DEF ExecFault, Trap, Interrupt, Push
  <2> QED
    BY <1>0, <2>1, PushRunning, WantStays DEF DebugInv, DebugType
<1>2. CASE Execute
  <2>1. /\ mode = "run" /\ ctx = "kernel"
        /\ rip' = IF rip = NCode THEN 1 ELSE rip + 1
        /\ UNCHANGED <<ctx, dr, dr7, stepping, want>>
        /\ \/ /\ mode' = "entry" /\ frames' = Append(frames, Running(cur))
              /\ tf' = FALSE /\ cur' = 0 /\ limit' = 0
           \/ UNCHANGED <<mode, frames, tf, cur, limit>>
    BY <1>2 DEF Execute, Trap, Interrupt, Push, loop
  <2>2. rip' \in Code
    BY <1>0, <2>1, CodeAssumption DEF Code
  <2>3. CASE /\ mode' = "entry" /\ frames' = Append(frames, Running(cur)) /\ tf' = FALSE
             /\ cur' = 0 /\ limit' = 0
    BY <1>0, <2>1, <2>2, <2>3, PushRunning, WantStays DEF DebugInv, DebugType
  <2>4. CASE UNCHANGED <<mode, frames, tf, cur, limit>>
    BY <1>0, <2>1, <2>2, <2>4, WantStays DEF DebugInv, DebugType, FlagInv, NestInv
  <2> QED
    BY <2>1, <2>3, <2>4
<1>3. CASE StepDebugger
  <2>1. mode = "run" /\ mode' = "entry" /\ frames' = Append(frames, Running(cur))
        /\ tf' = FALSE /\ cur' = 0 /\ limit' = 0 /\ UNCHANGED <<ctx, rip, dr, dr7, stepping, want>>
    BY <1>3 DEF StepDebugger, Trap, Interrupt, Push
  <2> QED
    BY <1>0, <2>1, PushRunning, WantStays DEF DebugInv, DebugType
<1>4. CASE dbg_main
  <2>1. mode = "entry" /\ UNCHANGED <<ctx, rip, tf, dr, dr7, want>>
    BY <1>4 DEF dbg_main, cpu
  <2>2. Len(frames) > 0 /\ Len(frames) \in Nat /\ ~tf
    BY <1>0, <2>1 DEF DebugInv, NestInv, FlagInv
  <2>3. /\ Entered \in Seq(Frame) /\ Len(Entered) = Len(frames)
        /\ DOMAIN Entered = DOMAIN frames
        /\ \A j \in DOMAIN frames : Entered[j].ctx = frames[j].ctx /\ ~Entered[j].tf
    BY <1>0, <2>2, EnteredFrames DEF DebugInv, FlagInv
  <2>4. CASE mode' = "prompt" /\ frames' = Entered /\ stepping' = FALSE /\ UNCHANGED <<cur, limit>>
    <3>1. FlagInv' /\ NestInv'
      BY <2>1, <2>2, <2>3, <2>4 DEF DebugInv, FlagInv, NestInv
    <3> QED
      BY <1>0, <2>1, <2>3, <2>4, <3>1, WantStays DEF DebugInv, DebugType
  <2>5. CASE /\ Top.ctx = "kernel" /\ stepping' = stepping /\ mode' = "entry"
             /\ cur' = 0 /\ limit' = 0
             /\ frames' = Append(Entered, [ctx |-> "disasm", tf |-> FALSE, cur |-> 0, limit |-> 0])
    <3>1. Len(Entered) = 1 /\ Len(frames) = 1
      <4>1. Top = frames[Len(frames)] /\ Len(frames) \in DOMAIN frames
        BY <1>0, <2>2, FrontAndTop
      <4> QED
        BY <2>3, <2>5, <4>1 DEF DebugInv, NestInv
    <3>2. frames' \in Seq(Frame) /\ FlagInv' /\ NestInv'
      BY <2>1, <2>2, <2>3, <2>5, <3>1, PushNested
    <3> QED
      BY <1>0, <2>1, <2>5, <3>2, WantStays DEF DebugInv, DebugType
  <2> QED
    BY <1>4, <2>4, <2>5 DEF dbg_main, Push, loop
<1>5. CASE cntn
  <2>1. mode = "prompt" /\ Return(Top.tf) /\ UNCHANGED <<rip, dr, dr7, stepping, want>>
    BY <1>5 DEF cntn, regs, hist
  <2>2. Top.tf = FALSE /\ stepping = FALSE
    <3>1. Len(frames) > 0 /\ Len(frames) \in DOMAIN frames
      BY <1>0, <2>1 DEF DebugInv, NestInv
    <3>2. Top = frames[Len(frames)] /\ Top.tf \in BOOLEAN
      BY <1>0, <3>1, FrontAndTop DEF Frame
    <3>3. ~Top.tf /\ ~stepping
      BY <2>1, <3>1, <3>2 DEF DebugInv, FlagInv
    <3> QED
      BY <1>0, <3>2, <3>3
  <2> QED
    BY <1>0, <2>1, <2>2, ReturnStep, WantStays DEF DebugInv, DebugType
<1>6. CASE step
  BY <1>0, <1>6, ReturnStep, WantStays DEF step, regs, hist, DebugInv, DebugType
<1>7. CASE hardware_bp
  BY <1>0, <1>7, WantStep DEF hardware_bp, cpu, loop, DebugInv, DebugType, FlagInv, NestInv
<1>8. CASE dumphex \/ disassembly
  <2>1. PICK b \in Nat, n \in Nat : StartDump(b, n)
    BY <1>8, AddrNat, RegAssumption DEF dumphex, disassembly
  <2>2. /\ mode = "prompt" /\ mode' = "run" /\ ctx' = "dump" /\ cur' = b /\ limit' = b + n
        /\ UNCHANGED <<rip, tf, frames, dr, dr7, stepping, want>>
    BY <1>8, <2>1 DEF dumphex, disassembly, StartDump, regs
  <2>3. Len(frames) > 0 /\ ~tf /\ ~stepping /\ Len(frames) # 0
    BY <1>0, <2>2 DEF DebugInv, NestInv, FlagInv
  <2>4. FlagInv' /\ NestInv'
    BY <2>2, <2>3 DEF DebugInv, FlagInv, NestInv
  <2> QED
    BY <1>0, <2>1, <2>2, <2>4, WantStays DEF DebugInv, DebugType, Context
<1>9. CASE DumpRound
  <2>1. /\ mode = "run" /\ UNCHANGED <<ctx, rip, dr, dr7, stepping, want>>
        /\ \/ /\ mode' = "entry" /\ frames' = Append(frames, Running(cur + 1))
              /\ tf' = FALSE /\ cur' = 0 /\ limit' = 0
           \/ cur' = cur + 1 /\ UNCHANGED <<mode, frames, limit, tf>>
    BY <1>9 DEF DumpRound, Interrupt, Push
  <2>a. cur + 1 \in Nat
    BY <1>0
  <2>2. CASE /\ mode' = "entry" /\ frames' = Append(frames, Running(cur + 1))
             /\ tf' = FALSE /\ cur' = 0 /\ limit' = 0
    BY <1>0, <2>1, <2>2, <2>a, PushRunning, WantStays DEF DebugInv, DebugType
  <2>3. CASE cur' = cur + 1 /\ UNCHANGED <<mode, frames, limit, tf>>
    BY <1>0, <2>1, <2>3, <2>a, WantStays DEF DebugInv, DebugType, FlagInv, NestInv
  <2> QED
    BY <2>1, <2>2, <2>3
<1>10. CASE dbg_main_resumed \/ DumpDone
  <2>1. /\ mode = "run" /\ ctx # "kernel" /\ ~tf /\ mode' = "prompt"
        /\ stepping' = FALSE \/ stepping' = stepping
        /\ cur' \in {0, cur} /\ limit' \in {0, limit}
        /\ UNCHANGED <<ctx, rip, tf, frames, dr, dr7, want>>
    BY <1>10 DEF dbg_main_resumed, DumpDone, cpu, loop, regs, hist
  <2>a. ~stepping /\ Len(frames) \in Nat /\ Len(frames) # 0
    BY <1>0, <2>1 DEF DebugInv, FlagInv, NestInv
  <2>2. stepping = FALSE /\ stepping' = FALSE /\ Len(frames) > 0
    BY <1>0, <2>1, <2>a
  <2>b. cur' \in Nat /\ limit' \in Nat
    BY <1>0, <2>1
  <2>3. FlagInv' /\ NestInv'
    BY <2>1, <2>2 DEF DebugInv, FlagInv, NestInv
  <2> QED
    BY <1>0, <2>1, <2>2, <2>b, <2>3, WantStays DEF DebugInv, DebugType
<1>11. CASE UNCHANGED <<mode, ctx, rip, tf, frames, cur, limit, dr, dr7, stepping, want>>
  BY <1>0, <1>11, WantStays DEF DebugInv, DebugType, FlagInv, NestInv
<1>12. Inspect \/ UNCHANGED vars =>
         UNCHANGED <<mode, ctx, rip, tf, frames, cur, limit, dr, dr7, stepping, want>>
  BY DEF Inspect, vars, cpu, loop, regs, hist
<1> QED
  BY <1>1, <1>2, <1>3, <1>4, <1>5, <1>6, <1>7, <1>8, <1>9, <1>10, <1>11, <1>12
     DEF Next, Processor, Dump, dbg_exec

(* DebugInv is an invariant of the debugger.                               *)
LEMMA DebugInvariant == Spec => []DebugInv
<1>1. Init => DebugInv
  <2> SUFFICES ASSUME Init
               PROVE  DebugInv
    OBVIOUS
  <2>1. Off \in Wish /\ Off.kind = "off" /\ 0 \in Addr /\ 1 \in Code
    BY CodeAssumption DEF Off, Wish, Addr, Code
  <2>2. DebugType
    <3>1. frames \in Seq(Frame)
      BY EmptySeq DEF Init
    <3>2. dr \in [Reg -> Addr] /\ dr7 \subseteq Nat /\ want \in [Reg -> Wish]
      BY <2>1 DEF Init
    <3>3. tf \in BOOLEAN /\ stepping \in BOOLEAN /\ ctx \in Context
      BY DEF Init, Context
    <3> QED
      BY <2>1, <3>1, <3>2, <3>3 DEF Init, DebugType
  <2>3. FlagInv /\ NestInv
    BY DEF Init, FlagInv, NestInv
  <2>4. WantInv
    BY <2>1 DEF Init, WantInv, Enabled
  <2> QED
    BY <2>2, <2>3, <2>4 DEF DebugInv
<1> QED
  BY <1>1, DebugStep, PTL DEF Spec

(* The kernel runs with RFLAGS.TF exactly after the command s, however     *)
(* dbg_main was nested, and no frame waits at a prompt with it set.        *)
THEOREM StepFlagThm == Spec => []StepFlag
<1>1. DebugInv => StepFlag
  BY DEF DebugInv, FlagInv, StepFlag
<1> QED
  BY <1>1, DebugInvariant, PTL

-----------------------------------------------------------------------------
(* Dumps.  One that was asked for as q says has shown what lies before c,  *)
(* and goes on up to l.                                                    *)
Asked == [from : Nat, count : Nat, shown : Seq(Nat)]

Fits(q, c, l) ==
    /\ q \in Asked /\ c \in Nat /\ q.from <= c /\ c <= l /\ l = q.from + q.count
    /\ q.shown = [j \in 1 .. c - q.from |-> q.from + j - 1]

(* The dump that runs, and each that is interrupted: frames[j] is the      *)
(* state of the dump of the call below it.                                 *)
DumpInv ==
    /\ Len(dumps) = Len(frames) /\ dumps \in Seq(Asked)
    /\ mode = "run" /\ ctx = "dump" => Fits(dumps[Len(frames)], cur, limit)
    /\ \A j \in DOMAIN frames :
          frames[j].ctx = "dump" => Fits(dumps[j - 1], frames[j].cur, frames[j].limit)

(* One address more.                                                       *)
LEMMA FitsNext ==
    ASSUME NEW q, NEW c, NEW l, Fits(q, c, l), c < l
    PROVE  Fits([q EXCEPT !.shown = Append(@, c)], c + 1, l)
<1>1. /\ q \in Asked /\ c \in Nat /\ q.from \in Nat /\ q.count \in Nat /\ q.from <= c
      /\ l = q.from + q.count /\ q.shown = [j \in 1 .. c - q.from |-> q.from + j - 1]
      /\ q.shown \in Seq(Nat)
  BY DEF Fits, Asked
<1> DEFINE n == c - q.from
           a == q.from
           t == Append(q.shown, c)
           p == [q EXCEPT !.shown = t]
<1>2. n \in Nat /\ a \in Nat /\ c = a + n /\ c + 1 - a = n + 1 /\ c + 1 <= l
  <2>1. a \in Nat /\ c \in Nat /\ a <= c /\ n = c - a /\ l \in Nat
    BY <1>1
  <2> HIDE DEF a, n
  <2> QED
    BY <2>1
<1>3. q.shown = [j \in 1 .. n |-> a + j - 1]
  BY <1>1, Zenon
<1> HIDE DEF n, a
<1>4. Len(q.shown) = n
  BY <1>1, <1>2, <1>3
<1>5. t = [j \in 1 .. n + 1 |-> a + j - 1] /\ t \in Seq(Nat)
  <2> DEFINE s == q.shown
  <2>1. s \in Seq(Nat) /\ Len(s) = n /\ \A j \in 1 .. n : s[j] = a + j - 1
    BY <1>1, <1>3, <1>4
  <2> HIDE DEF s
  <2>2. /\ Append(s, c) \in Seq(Nat) /\ Len(Append(s, c)) = n + 1
        /\ \A j \in 1 .. n : Append(s, c)[j] = s[j]
        /\ Append(s, c)[n + 1] = c
    BY <1>1, <2>1
  <2>3. \A j \in 1 .. n + 1 : Append(s, c)[j] = a + j - 1
    BY <1>2, <2>1, <2>2
  <2> DEFINE u == Append(s, c)
  <2>4. u \in Seq(Nat) /\ DOMAIN u = 1 .. n + 1 /\ \A j \in 1 .. n + 1 : u[j] = a + j - 1
    BY <2>2, <2>3
  <2> HIDE DEF u
  <2>5. u = [j \in 1 .. n + 1 |-> a + j - 1]
    BY <2>4
  <2> QED
    BY <2>4, <2>5 DEF u, s
<1> HIDE DEF t
<1>6. p \in Asked /\ p.from = a /\ p.count = q.count /\ p.shown = t
  BY <1>1, <1>5 DEF Asked, a
<1>7. p = [q EXCEPT !.shown = Append(@, c)]
  BY DEF t
<1> HIDE DEF p
<1>8. Fits(p, c + 1, l)
  <2>1. p.shown = [j \in 1 .. n + 1 |-> p.from + j - 1]
    BY <1>5, <1>6
  <2>2. c + 1 - p.from = n + 1
    BY <1>2, <1>6
  <2>3. p.shown = [j \in 1 .. c + 1 - p.from |-> p.from + j - 1]
    BY <2>1, <2>2
  <2>4. c + 1 \in Nat /\ p.from <= c + 1 /\ l = p.from + p.count
    <3>1. a = q.from /\ l = q.from + q.count /\ c \in Nat
      BY <1>1 DEF a
    <3>2. c + 1 \in Nat /\ a <= c + 1
      BY <1>2, <3>1
    <3> QED
      BY <1>6, <3>1, <3>2, Zenon
  <2> QED
    BY <1>2, <1>6, <2>3, <2>4 DEF Fits
<1> QED
  BY <1>7, <1>8

(* An exception on top of frames fs and their dumps ds.                    *)
LEMMA DumpPush ==
    ASSUME NEW fs \in Seq(Frame), NEW f \in Frame, NEW ds \in Seq(Asked), Push(fs, f, ds),
           Len(ds) = Len(fs),
           \A j \in DOMAIN fs :
              fs[j].ctx = "dump" => j # 1 /\ Fits(ds[j - 1], fs[j].cur, fs[j].limit),
           f.ctx = "dump" => Len(fs) > 0 /\ Fits(ds[Len(fs)], f.cur, f.limit)
    PROVE  DumpInv'
<1> DEFINE n == Len(fs)
<1>1. n \in Nat /\ DOMAIN fs = 1 .. n /\ Len(ds) = n
  OBVIOUS
<1>2. mode' = "entry" /\ frames' = Append(fs, f) /\ dumps' = Append(ds, NoDump)
  BY DEF Push
<1>3. NoDump \in Asked
  BY DEF NoDump, Asked
<1>4. /\ Len(frames') = n + 1 /\ DOMAIN frames' = 1 .. n + 1 /\ frames'[n + 1] = f
      /\ \A j \in 1 .. n : frames'[j] = fs[j]
  BY <1>1, <1>2, Pushed
<1>5. /\ dumps' \in Seq(Asked) /\ Len(dumps') = n + 1
      /\ \A j \in 1 .. n : dumps'[j] = ds[j]
  BY <1>1, <1>2, <1>3
<1>6. ASSUME NEW j \in DOMAIN frames', frames'[j].ctx = "dump"
      PROVE  Fits(dumps'[j - 1], frames'[j].cur, frames'[j].limit)
  <2>1. CASE j = n + 1
    <3>1. n > 0 /\ Fits(ds[n], f.cur, f.limit) /\ frames'[j] = f
      BY <1>4, <1>6, <2>1
    <3>2. j - 1 = n /\ n \in 1 .. n
      BY <1>1, <2>1, <3>1
    <3>3. dumps'[j - 1] = ds[n]
      BY <1>5, <3>2
    <3> QED
      BY <3>1, <3>3
  <2>2. CASE j # n + 1
    <3>1. j \in 1 .. n /\ frames'[j] = fs[j]
      BY <1>1, <1>4, <2>2
    <3>2. j # 1 /\ Fits(ds[j - 1], fs[j].cur, fs[j].limit)
      BY <1>1, <1>6, <3>1
    <3>3. j - 1 \in 1 .. n
      BY <1>1, <3>1, <3>2
    <3> QED
      BY <1>5, <3>1, <3>2, <3>3
  <2> QED
    BY <2>1, <2>2
<1> HIDE DEF n
<1> QED
  BY <1>2, <1>4, <1>5, <1>6 DEF DumpInv

(* The running call's record changes to q: those of interrupted dumps stay. *)
LEMMA DumpSet ==
    ASSUME DebugInv, DumpInv, Len(frames) > 0, NEW q \in Asked
    PROVE  LET ds == [dumps EXCEPT ![Len(frames)] = q] IN
           /\ ds \in Seq(Asked) /\ Len(ds) = Len(frames) /\ ds[Len(frames)] = q
           /\ \A j \in DOMAIN frames :
                 frames[j].ctx = "dump" => j # 1 /\ Fits(ds[j - 1], frames[j].cur, frames[j].limit)
<1> DEFINE n == Len(frames)
           ds == [dumps EXCEPT ![n] = q]
<1>1. frames \in Seq(Frame) /\ dumps \in Seq(Asked) /\ Len(dumps) = Len(frames)
  BY DEF DebugInv, DebugType, DumpInv
<1>2. n \in Nat /\ n > 0 /\ n \in 1 .. n /\ DOMAIN frames = 1 .. n /\ DOMAIN dumps = 1 .. n /\ Len(dumps) = n
  BY <1>1
<1> HIDE DEF n
<1>3. /\ ds \in Seq(Asked) /\ Len(ds) = n /\ ds[n] = q
      /\ \A j \in 1 .. n : j # n => ds[j] = dumps[j]
  BY <1>1, <1>2
<1>4. ASSUME NEW j \in DOMAIN frames, frames[j].ctx = "dump"
      PROVE  j # 1 /\ Fits(ds[j - 1], frames[j].cur, frames[j].limit)
  <2>1. j # 1 /\ Fits(dumps[j - 1], frames[j].cur, frames[j].limit)
    BY <1>4 DEF DebugInv, NestInv, DumpInv
  <2>2. j - 1 \in 1 .. n /\ j - 1 # n
    BY <1>2, <2>1
  <2> QED
    BY <1>3, <2>1, <2>2
<1> HIDE DEF ds
<1>5. /\ ds \in Seq(Asked) /\ Len(ds) = n /\ ds[n] = q
      /\ \A j \in DOMAIN frames :
            frames[j].ctx = "dump" => j # 1 /\ Fits(ds[j - 1], frames[j].cur, frames[j].limit)
  BY <1>3, <1>4
<1> QED
  BY <1>5 DEF ds, n

(* dbg_main returns to a dump: it goes on where it was.                    *)
LEMMA DumpReturn ==
    ASSUME DebugInv, DumpInv, mode = "prompt", NEW flag, Return(flag)
    PROVE  DumpInv'
<1> DEFINE n == Len(frames)
<1>1. frames \in Seq(Frame) /\ dumps \in Seq(Asked) /\ Len(dumps) = Len(frames) /\ Len(frames) > 0
  BY DEF DebugInv, DebugType, DumpInv, NestInv
<1>2. n \in Nat \ {0} /\ DOMAIN frames = 1 .. n
  BY <1>1
<1>3. /\ Top = frames[n] /\ frames' \in Seq(Frame) /\ Len(frames') = n - 1
      /\ \A j \in DOMAIN frames' : j \in DOMAIN frames /\ frames'[j] = frames[j]
  BY <1>1, FrontAndTop DEF Return
<1>4. dumps' = Front(dumps)
  BY DEF Return
<1>5. dumps' = [j \in 1 .. n - 1 |-> dumps[j]]
  BY <1>1, <1>4 DEF Front
<1>6. \A j \in 1 .. n - 1 : dumps[j] \in Asked
  BY <1>1, <1>2
<1> HIDE DEF n
<1>7. /\ dumps' \in Seq(Asked) /\ Len(dumps') = n - 1
      /\ \A j \in 1 .. n - 1 : dumps'[j] = dumps[j]
  BY <1>2, <1>5, <1>6
<1>8. DOMAIN frames' = 1 .. n - 1
  BY <1>3
<1>9. \A j \in DOMAIN frames : frames[j].ctx = "dump" => j # 1 /\ Fits(dumps[j - 1], frames[j].cur, frames[j].limit)
  BY DEF DebugInv, NestInv, DumpInv
<1>10. ASSUME NEW j \in DOMAIN frames', frames'[j].ctx = "dump"
       PROVE  Fits(dumps'[j - 1], frames'[j].cur, frames'[j].limit)
  <2>1. j \in 1 .. n - 1 /\ j \in DOMAIN frames /\ frames'[j] = frames[j]
    BY <1>3, <1>8
  <2>2. j # 1 /\ Fits(dumps[j - 1], frames[j].cur, frames[j].limit)
    BY <1>9, <1>10, <2>1
  <2>3. j - 1 \in 1 .. n - 1
    BY <1>2, <2>1, <2>2
  <2> QED
    BY <1>7, <2>1, <2>2, <2>3
<1>11. ASSUME mode' = "run", ctx' = "dump"
       PROVE  Fits(dumps'[n - 1], cur', limit')
  <2>1. ctx' = Top.ctx /\ cur' = Top.cur /\ limit' = Top.limit
    BY <1>11 DEF Return
  <2>2. n \in DOMAIN frames /\ frames[n].ctx = "dump"
    BY <1>2, <1>3, <1>11, <2>1
  <2>3. n # 1 /\ Fits(dumps[n - 1], frames[n].cur, frames[n].limit)
    BY <1>9, <2>2
  <2>4. n - 1 \in 1 .. n - 1
    BY <1>2, <2>3
  <2> QED
    BY <1>3, <1>7, <2>1, <2>3, <2>4
<1> QED
  BY <1>3, <1>7, <1>10, <1>11 DEF DumpInv

(* Every step keeps it.                                                    *)
LEMMA DumpStep ==
    ASSUME DebugInv, DumpInv, [Next]_vars
    PROVE  DumpInv'
<1>0. /\ frames \in Seq(Frame) /\ dumps \in Seq(Asked) /\ Len(dumps) = Len(frames)
      /\ ctx \in Context /\ tf \in BOOLEAN /\ cur \in Nat /\ limit \in Nat
      /\ Len(frames) \in Nat
  BY DEF DebugInv, DebugType, DumpInv
<1>1. \A j \in DOMAIN frames :
         frames[j].ctx = "dump" => j # 1 /\ Fits(dumps[j - 1], frames[j].cur, frames[j].limit)
  BY DEF DebugInv, NestInv, DumpInv
<1>2. mode = "run" /\ ctx = "dump" => Len(frames) > 0 /\ Fits(dumps[Len(frames)], cur, limit)
  BY <1>0 DEF DebugInv, NestInv, DumpInv
<1>3. \A c \in Nat : /\ Running(c) \in Frame /\ Running(c).ctx = ctx
                     /\ Running(c).cur = c /\ Running(c).limit = limit
  BY <1>0 DEF Running, Frame
<1>4. ASSUME mode = "run", Push(frames, Running(cur), dumps)
      PROVE  DumpInv'
  <2> DEFINE f == Running(cur)
  <2>1. f \in Frame /\ (f.ctx = "dump" => Len(frames) > 0 /\ Fits(dumps[Len(frames)], f.cur, f.limit))
    BY <1>0, <1>2, <1>3, <1>4
  <2>2. Push(frames, f, dumps)
    BY <1>4
  <2> HIDE DEF f
  <2> QED
    BY <1>0, <1>1, <2>1, <2>2, DumpPush
<1>5. ASSUME UNCHANGED <<mode, ctx, frames, cur, limit, dumps>>
      PROVE  DumpInv'
  BY <1>5 DEF DumpInv
<1>6. CASE Processor
  <2>1. mode = "run" /\ (Push(frames, Running(cur), dumps)
                           \/ UNCHANGED <<mode, ctx, frames, cur, limit, dumps>>)
    BY <1>6 DEF Processor, ExecFault, Execute, StepDebugger, Trap, Interrupt, loop
  <2> QED
    BY <1>4, <1>5, <2>1
<1>7. CASE dbg_main
  <2>1. mode = "entry" /\ Len(frames) > 0
    BY <1>7 DEF dbg_main, DebugInv, NestInv
  <2>2. /\ Entered \in Seq(Frame) /\ Len(Entered) = Len(frames)
        /\ DOMAIN Entered = DOMAIN frames
        /\ \A j \in DOMAIN frames :
              /\ Entered[j].ctx = frames[j].ctx
              /\ Entered[j].cur = frames[j].cur /\ Entered[j].limit = frames[j].limit
    BY <1>0, <2>1, EnteredFrames
  <2>3. CASE mode' = "prompt" /\ frames' = Entered /\ dumps' = dumps
    BY <1>0, <1>1, <2>2, <2>3 DEF DumpInv
  <2> DEFINE f == [ctx |-> "disasm", tf |-> FALSE, cur |-> 0, limit |-> 0]
  <2>4. CASE Push(Entered, f, dumps)
    <3>1. f \in Frame /\ f.ctx # "dump"
      BY DEF Frame, Context
    <3> HIDE DEF f
    <3>2. \A j \in DOMAIN Entered :
             Entered[j].ctx = "dump" =>
                 j # 1 /\ Fits(dumps[j - 1], Entered[j].cur, Entered[j].limit)
      BY <1>1, <2>2
    <3>3. Len(dumps) = Len(Entered) /\ dumps \in Seq(Asked) /\ Entered \in Seq(Frame)
      BY <1>0, <2>2
    <3> QED
      BY <2>4, <3>1, <3>2, <3>3, DumpPush, Zenon
  <2> QED
    BY <1>7, <2>3, <2>4 DEF dbg_main
<1>8. CASE cntn \/ step
  BY <1>8, DumpReturn DEF cntn, step
<1>9. CASE dumphex \/ disassembly
  <2>1. PICK b \in Nat, n \in Nat : StartDump(b, n)
    BY <1>9, AddrNat, RegAssumption DEF dumphex, disassembly
  <2> DEFINE q == [from |-> b, count |-> n, shown |-> <<>>]
  <2>2. /\ mode = "prompt" /\ mode' = "run" /\ ctx' = "dump" /\ cur' = b /\ limit' = b + n
        /\ dumps' = [dumps EXCEPT ![Len(frames)] = q] /\ frames' = frames
    BY <1>9, <2>1 DEF dumphex, disassembly, StartDump, Depth
  <2>3. q \in Asked /\ Fits(q, b, b + n)
    <3>1. [j \in 1 .. b - b |-> b + j - 1] = <<>> /\ <<>> \in Seq(Nat)
      OBVIOUS
    <3>2. q \in Asked /\ q.from = b /\ q.count = n /\ q.shown = <<>>
      BY <3>1 DEF Asked
    <3> HIDE DEF q
    <3> QED
      BY <3>1, <3>2 DEF Fits
  <2> HIDE DEF q
  <2>4. Len(frames) > 0
    BY <2>2 DEF DebugInv, NestInv
  <2> QED
    BY <2>2, <2>3, <2>4, DumpSet DEF DumpInv
<1>10. CASE DumpRound
  <2> DEFINE q == dumps[Len(frames)]
             p == [q EXCEPT !.shown = Append(@, cur)]
             ds == [dumps EXCEPT ![Len(frames)] = p]
  <2>1. mode = "run" /\ ctx = "dump" /\ cur < limit /\ ctx' = ctx
    BY <1>10 DEF DumpRound, DumpLimit
  <2>2. Len(frames) > 0 /\ Fits(p, cur + 1, limit)
    BY <1>2, <2>1, FitsNext
  <2>3. /\ \/ Push(frames, Running(cur + 1), ds)
           \/ dumps' = ds /\ cur' = cur + 1 /\ UNCHANGED <<mode, frames, limit>>
    BY <1>10 DEF DumpRound, Interrupt, Depth
  <2>4. p \in Asked
    BY <2>2 DEF Fits
  <2> HIDE DEF p
  <2>5. /\ ds \in Seq(Asked) /\ Len(ds) = Len(frames) /\ ds[Len(frames)] = p
        /\ \A j \in DOMAIN frames :
              frames[j].ctx = "dump" => j # 1 /\ Fits(ds[j - 1], frames[j].cur, frames[j].limit)
    BY <2>2, <2>4, DumpSet
  <2> HIDE DEF ds
  <2>6. CASE Push(frames, Running(cur + 1), ds)
    <3> DEFINE f == Running(cur + 1)
    <3>1. cur + 1 \in Nat
      BY <1>0
    <3>2. f \in Frame /\ f.cur = cur + 1 /\ f.limit = limit
      BY <1>3, <3>1
    <3>3. Fits(ds[Len(frames)], f.cur, f.limit)
      BY <2>2, <2>5, <3>2
    <3> HIDE DEF f
    <3>4. Push(frames, f, ds)
      BY <2>6 DEF f
    <3> QED
      BY <1>0, <2>2, <2>5, <3>2, <3>3, <3>4, DumpPush
  <2>7. CASE dumps' = ds /\ cur' = cur + 1 /\ UNCHANGED <<mode, frames, limit>>
    BY <2>1, <2>2, <2>5, <2>7 DEF DumpInv
  <2> QED
    BY <2>3, <2>6, <2>7
<1>11. CASE DumpDone
  <2>1. /\ mode = "run" /\ ctx = "dump" /\ mode' = "prompt" /\ frames' = frames
        /\ dumps' = [dumps EXCEPT ![Len(frames)] = NoDump]
    BY <1>11 DEF DumpDone, Depth
  <2>2. NoDump \in Asked
    BY DEF NoDump, Asked
  <2> QED
    BY <1>2, <2>1, <2>2, DumpSet DEF DumpInv
<1>12. CASE dbg_main_resumed
  BY <1>12 DEF dbg_main_resumed, cpu, loop, hist, DumpInv
<1>13. hardware_bp \/ Inspect \/ UNCHANGED vars =>
         UNCHANGED <<mode, ctx, frames, cur, limit, dumps>>
  BY DEF hardware_bp, Inspect, vars, cpu, loop, hist
<1> QED
  BY <1>5, <1>6, <1>7, <1>8, <1>9, <1>10, <1>11, <1>12, <1>13 DEF Next, Dump, dbg_exec

(* dbg_do_dumphex shows what it was asked to: base and limit are its own,  *)
(* and no nested dbg_main moves them, whatever it parses into argv_buffer, *)
(* for dumps of any size and entries of any depth.                         *)
THEOREM DumpWholeThm == Spec => DumpWhole
<1> DEFINE Whole == LET d == dumps[Depth] IN d.shown = [j \in 1 .. d.count |-> d.from + j - 1]
           Ends == mode = "run" /\ ctx = "dump" /\ mode' = "prompt"
<1>1. Init => DumpInv
  <2> SUFFICES ASSUME Init
               PROVE  DumpInv
    OBVIOUS
  <2>1. mode = "run" /\ ctx = "kernel" /\ frames = <<>> /\ dumps = <<>>
    BY DEF Init
  <2>2. dumps \in Seq(Asked) /\ Len(dumps) = Len(frames) /\ DOMAIN frames = {}
    BY <2>1
  <2> QED
    BY <2>1, <2>2 DEF DumpInv
<1>2. DebugInv /\ DumpInv /\ [Next]_vars => DumpInv'
  BY DumpStep
<1>3. DebugInv /\ DumpInv /\ [Next]_vars => [Ends => Whole]_vars
  <2> SUFFICES ASSUME DebugInv, DumpInv, [Next]_vars, Ends
               PROVE  Whole
    OBVIOUS
  <2>1. DumpDone
    BY DEF Next, Processor, ExecFault, Execute, StepDebugger, Trap, Interrupt, Push,
           dbg_main, dbg_main_resumed, Dump, DumpRound, dbg_exec, cntn, step, hardware_bp,
           dumphex, disassembly, Inspect, vars
  <2>2. cur >= limit
    BY <2>1 DEF DumpDone, DumpLimit
  <2> DEFINE d == dumps[Len(frames)]
  <2>3. Fits(d, cur, limit)
    BY DEF DumpInv
  <2> HIDE DEF d
  <2>4. /\ d.from \in Nat /\ d.count \in Nat /\ cur \in Nat /\ cur <= limit
        /\ limit = d.from + d.count /\ d.shown = [j \in 1 .. cur - d.from |-> d.from + j - 1]
    BY <2>3 DEF Fits, Asked
  <2>5. cur - d.from = d.count
    BY <2>2, <2>4
  <2>6. d.shown = [j \in 1 .. d.count |-> d.from + j - 1]
    BY <2>4, <2>5
  <2> QED
    BY <2>6 DEF d, Depth
<1> QED
  BY <1>1, <1>2, <1>3, DebugInvariant, PTL DEF Spec, DumpWhole

-----------------------------------------------------------------------------
(* The breakpoints that are hit are the ones asked for.                    *)
LEMMA HitsAreWanted ==
    ASSUME DebugInv
    PROVE  /\ ExecHits = {k \in Reg : want[k] = [kind |-> "exec", at |-> rip]}
           /\ \A A : WatchHits(A) = {k \in Reg : want[k].kind = "watch" /\ want[k].at \in A}
<1>1. ASSUME NEW k \in Reg
      PROVE  /\ ExecBreak(k) <=> want[k].kind = "exec"
             /\ Watch(k) <=> want[k].kind = "watch"
             /\ want[k].kind # "off" => dr[k] = want[k].at
             /\ want[k] \in Wish
  <2>1. want[k] \in Wish /\ want[k].kind \in {"off", "exec", "watch"}
    BY DEF DebugInv, DebugType, Wish
  <2>2. ~(ExecBreak(k) /\ Watch(k))
    BY DEF ExecBreak, Watch, TypeBits
  <2> QED
    BY <2>1, <2>2 DEF DebugInv, WantInv, ExecBreak, Watch
<1>2. \A w \in Wish : w = [kind |-> "exec", at |-> rip] <=> w.kind = "exec" /\ w.at = rip
  BY DEF Wish
<1>3. ExecHits = {k \in Reg : want[k] = [kind |-> "exec", at |-> rip]}
  BY <1>1, <1>2 DEF ExecHits
<1>4. \A A : WatchHits(A) = {k \in Reg : want[k].kind = "watch" /\ want[k].at \in A}
  BY <1>1 DEF WatchHits
<1> QED
  BY <1>3, <1>4

(* The kernel stops where hbp asked for it and nowhere else, whatever the  *)
(* commands did to the bits of DR7 (debug.c).                              *)
THEOREM StopsAsAskedThm == Spec => StopsAsAsked
<1> DEFINE ex == {k \in Reg : want[k] = [kind |-> "exec", at |-> rip]}
           wa == {k \in Reg : want[k].kind = "watch" /\ want[k].at \in Touch[rip]}
           Stop == IF rip' = rip THEN ex # {} \/ (NCode = 1 /\ (wa # {} \/ tf \/ rip \in Int3))
                   ELSE ex = {} /\ (mode' = "entry" <=> wa # {} \/ tf \/ rip \in Int3)
<1>1. ASSUME DebugInv, [Next]_vars,
             rip' # rip \/ (mode = "run" /\ ctx = "kernel" /\ mode' = "entry")
      PROVE  Stop
  <2>1. ex = ExecHits /\ wa = WatchHits(Touch[rip])
    BY <1>1, HitsAreWanted
  <2> HIDE DEF ex, wa
  <2>2. CASE ExecFault
    BY <2>1, <2>2 DEF ExecFault
  <2>3. CASE Execute
    <3>1. /\ mode = "run" /\ ExecHits = {}
          /\ rip' = IF rip = NCode THEN 1 ELSE rip + 1
          /\ mode' = "entry" <=> wa # {} \/ tf \/ rip \in Int3
      BY <2>1, <2>3 DEF Execute, Trap, Interrupt, Push
    <3>2. rip' = rip => NCode = 1
      BY <1>1, <3>1, CodeAssumption DEF DebugInv, DebugType, Code
    <3> QED
      BY <1>1, <2>1, <3>1, <3>2
  <2>4. CASE StepDebugger \/ dbg_main \/ dbg_main_resumed \/ Dump \/ dbg_exec
    BY <1>1, <2>4 DEF StepDebugger, dbg_main, dbg_main_resumed, Dump, DumpRound, DumpDone,
                      dbg_exec, cntn, step, hardware_bp, dumphex, disassembly, StartDump,
                      Inspect, vars, cpu
  <2>5. CASE UNCHANGED vars
    BY <1>1, <2>5 DEF vars, cpu
  <2> QED
    BY <1>1, <2>2, <2>3, <2>4, <2>5 DEF Next, Processor
<1>2. DebugInv /\ [Next]_vars =>
        [rip' # rip \/ (mode = "run" /\ ctx = "kernel" /\ mode' = "entry") => Stop]_vars
  BY <1>1
<1> QED
  BY <1>2, DebugInvariant, PTL DEF Spec, StopsAsAsked

-----------------------------------------------------------------------------
(* The disassembler.                                                       *)

(* Every operand takes a number of bytes.                                  *)
LEMMA OperandBytesInt ==
    ASSUME NEW o, NEW z
    PROVE  OperandBytes(o, z) \in Nat
BY DEF OperandBytes

(* What the recursion over a mode of at most three operands computes.      *)
LEMMA ModeBytesSum ==
    ASSUME NEW m, NEW z, Len(m) \in 0 .. 3
    PROVE  ModeBytes(m, z) = (IF Len(m) > 0 THEN OperandBytes(m[1], z) ELSE 0)
                             + (IF Len(m) > 1 THEN OperandBytes(m[2], z) ELSE 0)
                             + (IF Len(m) > 2 THEN OperandBytes(m[3], z) ELSE 0)
<1> DEFINE L == Len(m)
           a == OperandBytes(m[1], z)
           b == OperandBytes(m[2], z)
           c == OperandBytes(m[3], z)
           B(k) == OperandBytes(m[k], z)
           Eq(n) == n = [k \in 0 .. L |-> IF k = 0 THEN 0 ELSE n[k - 1] + B(k)]
           g == [k \in 0 .. L |-> CASE k = 0 -> 0 [] k = 1 -> a
                                    [] k = 2 -> a + b [] OTHER -> a + b + c]
           f == CHOOSE n : Eq(n)
<1>1. ModeBytes(m, z) = f[L]
  BY DEF ModeBytes
<1>2. a \in Nat /\ b \in Nat /\ c \in Nat /\ B(1) = a /\ B(2) = b /\ B(3) = c
  BY OperandBytesInt
<1>3. L \in 0 .. 3
  OBVIOUS
<1> HIDE DEF L, a, b, c, B
<1>4. Eq(g)
  BY <1>2, <1>3
<1>5. Eq(f)
  BY <1>4, Zenon
<1> HIDE DEF f, g
<1>6. f[0] = 0 /\ (L > 0 => f[1] = a) /\ (L > 1 => f[2] = a + b) /\ (L > 2 => f[3] = a + b + c)
  <2>1. /\ f[0] = 0
        /\ L > 0 => f[1] = f[0] + B(1)
        /\ L > 1 => f[2] = f[1] + B(2)
        /\ L > 2 => f[3] = f[2] + B(3)
    BY <1>5, <1>3
  <2> QED
    BY <2>1, <1>2, <1>3
<1>7. f[L] = (IF L > 0 THEN a ELSE 0) + (IF L > 1 THEN b ELSE 0) + (IF L > 2 THEN c ELSE 0)
  BY <1>6, <1>2, <1>3
<1> QED
  BY <1>1, <1>7 DEF L, a, b, c

(* The bytes of the modes of the tables.                                   *)
LEMMA ModeTable ==
    ASSUME NEW z
    PROVE  /\ ModeBytes(<<>>, z) = 0 /\ ModeBytes(<<"fixed">>, z) = 0
           /\ ModeBytes(<<"E">>, z) = 0 /\ ModeBytes(<<"E", "R">>, z) = 0
           /\ ModeBytes(<<"R", "E">>, z) = 0
           /\ ModeBytes(<<"fixed", "fixed">>, z) = 0
           /\ ModeBytes(<<"E", "fixed">>, z) = 0
           /\ ModeBytes(<<"R", "R">>, z) = 0
           /\ ModeBytes(<<"R", "fixed">>, z) = 0
           /\ ModeBytes(<<"E", "R", "fixed">>, z) = 0
           /\ ModeBytes(<<"I">>, z) = OperandBytes("I", z)
           /\ ModeBytes(<<"R", "I">>, z) = OperandBytes("I", z)
           /\ ModeBytes(<<"E", "I">>, z) = OperandBytes("I", z)
           /\ ModeBytes(<<"R", "E", "I">>, z) = OperandBytes("I", z)
           /\ ModeBytes(<<"Ib">>, z) = 1 /\ ModeBytes(<<"Db">>, z) = 1
           /\ ModeBytes(<<"R", "Ib">>, z) = 1 /\ ModeBytes(<<"E", "Ib">>, z) = 1
           /\ ModeBytes(<<"R", "E", "Ib">>, z) = 1
           /\ ModeBytes(<<"E", "R", "Ib">>, z) = 1 /\ ModeBytes(<<"Iw">>, z) = 2
           /\ ModeBytes(<<"R", "O">>, z) = 2 /\ ModeBytes(<<"Dl">>, z) = 4
           /\ ModeBytes(<<"R", "Iq">>, z) = 8
           /\ ModeBytes(<<"Ib", "Iq">>, z) = 9
<1>1. OperandBytes("I", z) \in Nat
  BY OperandBytesInt
<1>2. /\ OperandBytes("E", z) = 0 /\ OperandBytes("R", z) = 0 /\ OperandBytes("fixed", z) = 0
      /\ OperandBytes("Ib", z) = 1 /\ OperandBytes("Db", z) = 1 /\ OperandBytes("Iw", z) = 2
      /\ OperandBytes("O", z) = 2 /\ OperandBytes("Dl", z) = 4 /\ OperandBytes("Iq", z) = 8
  BY DEF OperandBytes
<1>3. \A m \in {<<>>, <<"fixed">>, <<"E">>, <<"I">>, <<"Ib">>, <<"Db">>, <<"Iw">>, <<"Dl">>} :
        /\ Len(m) \in 0 .. 1
        /\ ModeBytes(m, z) = IF Len(m) = 1 THEN OperandBytes(m[1], z) ELSE 0
  BY <1>1, <1>2, ModeBytesSum
<1>4. ASSUME NEW x, NEW y
      PROVE  ModeBytes(<<x, y>>, z) = OperandBytes(x, z) + OperandBytes(y, z)
  BY OperandBytesInt, ModeBytesSum
<1>5. ASSUME NEW x, NEW y, NEW w
      PROVE  ModeBytes(<<x, y, w>>, z)
                = OperandBytes(x, z) + OperandBytes(y, z) + OperandBytes(w, z)
  <2> DEFINE m == <<x, y, w>>
  <2>1. Len(m) = 3 /\ m[1] = x /\ m[2] = y /\ m[3] = w
    OBVIOUS
  <2> HIDE DEF m
  <2>2. Len(m) \in 0 .. 3
    BY <2>1
  <2>3. ModeBytes(m, z) = OperandBytes(m[1], z) + OperandBytes(m[2], z) + OperandBytes(m[3], z)
    BY <2>1, <2>2, ModeBytesSum
  <2> QED
    BY <2>1, <2>3 DEF m
<1> QED
  BY <1>1, <1>2, <1>3, <1>4, <1>5

(* The opcodes of the eight arithmetic instructions.                       *)
LEMMA AluFacts ==
    /\ \A k \in 0 .. 7 : \A x : x \in Alu(k) <=> x \in 0 .. 63 /\ x % 8 = k
    /\ \A x : x \in UNION {Alu(k) : k \in 0 .. 3} <=> x \in 0 .. 63 /\ x % 8 < 4
<1>1. ASSUME NEW k \in 0 .. 7, NEW x \in Alu(k)
      PROVE  x \in 0 .. 63 /\ x % 8 = k
  BY DEF Alu
<1>2. ASSUME NEW k \in 0 .. 7, NEW x \in 0 .. 63, x % 8 = k
      PROVE  x \in Alu(k)
  <2>1. x \div 8 \in 0 .. 7 /\ x = 8 * (x \div 8) + k
    BY <1>2
  <2> QED
    BY <2>1 DEF Alu
<1>3. \A k \in 0 .. 7 : \A x : x \in Alu(k) <=> x \in 0 .. 63 /\ x % 8 = k
  BY <1>1, <1>2
<1>4. ASSUME NEW x
      PROVE  x \in UNION {Alu(k) : k \in 0 .. 3} <=> \E k \in 0 .. 3 : x \in Alu(k)
  OBVIOUS
<1>5. \A x \in 0 .. 63 : x % 8 \in 0 .. 7
  OBVIOUS
<1> QED
  BY <1>3, <1>4, <1>5

(* What the tables say of an opcode: the bytes its operands take for the   *)
(* size z, where reg selects test in grp3.                                 *)
TableBytes(o, reg, z) ==
    CASE o \in ImmByte \ {\hA8, \hC6} -> 1
      [] \/ o \in ImmSized \cup {\hA8, \hC6} \cup (\hB8 .. \hBB)
         \/ o \in {\hF6, \hF7} /\ reg < 2 -> OperandBytes("I", z)
      [] o \in \hBC .. \hBF -> 8
      [] o \in {\hC2, \hCA} \cup (\hA0 .. \hA3) -> 2
      [] o = \hC8 -> 9
      [] o \in {\hE8, \hE9} \cup (\h180 .. \h18F) -> 4
      [] OTHER -> 0

(* The loop over i_mode meets operand x.                                   *)
Uses(r, x) == \E k \in DOMAIN r.mode : r.mode[k] = x

(* The groups of names, and the opcodes of the groups of rows.             *)
NameGroups == {"grp1", "grp2", "grp6", "grp8", "grp9"}
RowGroups  == {"grp3", "grp4", "grp5", "grp7"}

(* Row r of the tables, and r as the row of opcode o.                      *)
RowShape(r) ==
    /\ r.size \in {"given", "NONE"} /\ r.modrm \in BOOLEAN
    /\ Uses(r, "E") => r.modrm
    /\ Uses(r, "R") => r.size = "given"
    /\ r.group \in {"none", "esc"} \cup NameGroups \cup RowGroups

RowPlace(r, o) ==
    /\ r.group # "esc" => (r.modrm <=> o \in HasModrm)
    /\ r.group = "grp3" => o \in {\hF6, \hF7}
    /\ r.group = "grp4" => o = \hFE
    /\ r.group = "grp5" => o = \hFF
    /\ r.group = "grp7" => o = \h101
    /\ r.group \in {"none"} \cup NameGroups =>
          \A reg, z : ModeBytes(r.mode, z) = TableBytes(o, reg, z)

(* What a mode of at most two operands does not use.                       *)
LEMMA UsesOf ==
    ASSUME NEW r, NEW x
    PROVE  /\ r.mode = <<>> => ~Uses(r, x)
           /\ \A a : r.mode = <<a>> /\ x # a => ~Uses(r, x)
           /\ \A a, b : r.mode = <<a, b>> /\ x # a /\ x # b => ~Uses(r, x)
<1>1. ASSUME r.mode = <<>> PROVE ~Uses(r, x)
  BY <1>1 DEF Uses
<1>2. ASSUME NEW a, r.mode = <<a>>, x # a PROVE ~Uses(r, x)
  BY <1>2 DEF Uses
<1>3. ASSUME NEW a, NEW b, r.mode = <<a, b>>, x # a, x # b PROVE ~Uses(r, x)
  BY <1>3 DEF Uses
<1> QED
  BY <1>1, <1>2, <1>3

(* The opcodes by their value.                                             *)
LEMMA Classes ==
    ASSUME NEW o \in 0 .. \h1FF
    PROVE  /\ o \in HasModrm <=>
                \/ o < 64 /\ o % 8 < 4
                \/ o \in {\h63, \h69, \h6B} \cup (\h80 .. \h8F)
                         \cup {\hC0, \hC1, \hC6, \hC7, \hF6, \hF7, \hFE, \hFF} \cup (\h100 .. \h103)
                         \cup (\h120 .. \h126) \cup (\h190 .. \h19F) \cup (\h1A3 .. \h1A5)
                         \cup ((\h1AB .. \h1C1) \ {\h1B8, \h1B9}) \cup {\h1C7}
           /\ o \in ImmByte <=>
                \/ o < 64 /\ o % 8 = 4
                \/ o \in (\h70 .. \h7F) \cup (\hB0 .. \hB7) \cup (\hE0 .. \hE7)
                         \cup {\h6A, \h6B, \h80, \h82, \h83, \hA8, \hC0, \hC1, \hC6, \hCD, \hEB,
                               \h1A4, \h1AC, \h1BA}
           /\ o \in ImmSized <=> (o < 64 /\ o % 8 = 5) \/ o \in {\h68, \h69, \h81, \hA9, \hC7}
<1>1. \A k \in 0 .. 7 : o \in Alu(k) <=> o < 64 /\ o % 8 = k
  BY AluFacts
<1>2. o \in UNION {Alu(k) : k \in 0 .. 3} <=> o < 64 /\ o % 8 < 4
  BY AluFacts
<1> QED
  BY <1>1, <1>2 DEF HasModrm, ImmByte, ImmSized

(* The rows of 00 to 7F.                                                   *)
LEMMA RowsLowFacts ==
    ASSUME NEW o \in 0 .. \h1FF, NEW r \in RowsLow, o \in r.at
    PROVE  RowShape(r) /\ RowPlace(r, o)
<1> DEFINE R1  == Row((UNION {Alu(k) : k \in 0 .. 3}) \cup {\h63}, "given", TRUE, <<"E", "R">>)
           R2  == Row(Alu(4), "given", FALSE, <<"R", "Ib">>)
           R3  == Row(Alu(5), "given", FALSE, <<"R", "I">>)
           R4  == Row(\h50 .. \h5F, "given", FALSE, <<"fixed">>)
           R5  == Row({\h68}, "given", FALSE, <<"I">>)
           R6  == Row({\h69}, "given", TRUE, <<"R", "E", "I">>)
           R7  == Row({\h6A}, "given", FALSE, <<"Ib">>)
           R8  == Row({\h6B}, "given", TRUE, <<"R", "E", "Ib">>)
           R9  == Row(\h6C .. \h6F, "given", FALSE, <<"fixed", "fixed">>)
           R10 == Row(\h70 .. \h7F, "NONE", FALSE, <<"Db">>)
<1>0. r \in {R1, R2, R3, R4, R5, R6, R7, R8, R9, R10}
  BY DEF RowsLow, Row, Group
<1>1. CASE r = R1
  <2>1. r.size = "given" /\ r.modrm = TRUE /\ r.group = "none"
    BY <1>1 DEF Row
  <2>2. r.mode = <<"E", "R">>
    BY <1>1 DEF Row
  <2>3. (o < 64 /\ o % 8 < 4) \/ o = \h63
    BY <1>1, AluFacts DEF Row
  <2>4. o \in HasModrm /\ \A reg, z : TableBytes(o, reg, z) = 0
    BY <2>3, Classes DEF TableBytes
  <2>5. \A z : ModeBytes(r.mode, z) = 0
    BY <2>2, ModeTable, Zenon
  <2>6. RowPlace(r, o)
    BY <2>1, <2>4, <2>5 DEF RowPlace
  <2> QED
    BY <2>1, <2>6 DEF RowShape, NameGroups, RowGroups
<1>2. CASE r = R2
  <2>1. r.size = "given" /\ r.modrm = FALSE /\ r.group = "none"
    BY <1>2 DEF Row
  <2>2. r.mode = <<"R", "Ib">>
    BY <1>2 DEF Row
  <2>3. o < 64 /\ o % 8 = 4
    BY <1>2, AluFacts DEF Row
  <2>4. o \notin HasModrm /\ \A reg, z : TableBytes(o, reg, z) = 1
    BY <2>3, Classes DEF TableBytes
  <2>5. \A z : ModeBytes(r.mode, z) = 1
    BY <2>2, ModeTable, Zenon
  <2>6. RowPlace(r, o)
    BY <2>1, <2>4, <2>5 DEF RowPlace
  <2>7. ~Uses(r, "E")
    BY <2>2, UsesOf
  <2> QED
    BY <2>1, <2>6, <2>7 DEF RowShape, NameGroups, RowGroups
<1>3. CASE r = R3
  <2>1. r.size = "given" /\ r.modrm = FALSE /\ r.group = "none"
    BY <1>3 DEF Row
  <2>2. r.mode = <<"R", "I">>
    BY <1>3 DEF Row
  <2>3. o < 64 /\ o % 8 = 5
    BY <1>3, AluFacts DEF Row
  <2>4. o \notin HasModrm /\ \A reg, z : TableBytes(o, reg, z) = OperandBytes("I", z)
    BY <2>3, Classes DEF TableBytes
  <2>5. \A z : ModeBytes(r.mode, z) = OperandBytes("I", z)
    BY <2>2, ModeTable, Zenon
  <2>6. RowPlace(r, o)
    BY <2>1, <2>4, <2>5 DEF RowPlace
  <2>7. ~Uses(r, "E")
    BY <2>2, UsesOf
  <2> QED
    BY <2>1, <2>6, <2>7 DEF RowShape, NameGroups, RowGroups
<1>4. CASE r = R4
  <2>1. r.size = "given" /\ r.modrm = FALSE /\ r.group = "none"
    BY <1>4 DEF Row
  <2>2. r.mode = <<"fixed">>
    BY <1>4 DEF Row
  <2>3. o \in \h50 .. \h5F
    BY <1>4 DEF Row
  <2>4. o \notin HasModrm /\ \A reg, z : TableBytes(o, reg, z) = 0
    BY <2>3, Classes DEF TableBytes
  <2>5. \A z : ModeBytes(r.mode, z) = 0
    BY <2>2, ModeTable, Zenon
  <2>6. RowPlace(r, o)
    BY <2>1, <2>4, <2>5 DEF RowPlace
  <2>7. ~Uses(r, "E")
    BY <2>2, UsesOf
  <2> QED
    BY <2>1, <2>6, <2>7 DEF RowShape, NameGroups, RowGroups
<1>5. CASE r = R5
  <2>1. r.size = "given" /\ r.modrm = FALSE /\ r.group = "none"
    BY <1>5 DEF Row
  <2>2. r.mode = <<"I">>
    BY <1>5 DEF Row
  <2>3. o \in {\h68}
    BY <1>5 DEF Row
  <2>4. o \notin HasModrm /\ \A reg, z : TableBytes(o, reg, z) = OperandBytes("I", z)
    BY <2>3, Classes DEF TableBytes
  <2>5. \A z : ModeBytes(r.mode, z) = OperandBytes("I", z)
    BY <2>2, ModeTable, Zenon
  <2>6. RowPlace(r, o)
    BY <2>1, <2>4, <2>5 DEF RowPlace
  <2>7. ~Uses(r, "E")
    BY <2>2, UsesOf
  <2> QED
    BY <2>1, <2>6, <2>7 DEF RowShape, NameGroups, RowGroups
<1>6. CASE r = R6
  <2>1. r.size = "given" /\ r.modrm = TRUE /\ r.group = "none"
    BY <1>6 DEF Row
  <2>2. r.mode = <<"R", "E", "I">>
    BY <1>6 DEF Row
  <2>3. o \in {\h69}
    BY <1>6 DEF Row
  <2>4. o \in HasModrm /\ \A reg, z : TableBytes(o, reg, z) = OperandBytes("I", z)
    BY <2>3, Classes DEF TableBytes
  <2>5. \A z : ModeBytes(r.mode, z) = OperandBytes("I", z)
    BY <2>2, ModeTable, Zenon
  <2>6. RowPlace(r, o)
    BY <2>1, <2>4, <2>5 DEF RowPlace
  <2> QED
    BY <2>1, <2>6 DEF RowShape, NameGroups, RowGroups
<1>7. CASE r = R7
  <2>1. r.size = "given" /\ r.modrm = FALSE /\ r.group = "none"
    BY <1>7 DEF Row
  <2>2. r.mode = <<"Ib">>
    BY <1>7 DEF Row
  <2>3. o \in {\h6A}
    BY <1>7 DEF Row
  <2>4. o \notin HasModrm /\ \A reg, z : TableBytes(o, reg, z) = 1
    BY <2>3, Classes DEF TableBytes
  <2>5. \A z : ModeBytes(r.mode, z) = 1
    BY <2>2, ModeTable, Zenon
  <2>6. RowPlace(r, o)
    BY <2>1, <2>4, <2>5 DEF RowPlace
  <2>7. ~Uses(r, "E")
    BY <2>2, UsesOf
  <2> QED
    BY <2>1, <2>6, <2>7 DEF RowShape, NameGroups, RowGroups
<1>8. CASE r = R8
  <2>1. r.size = "given" /\ r.modrm = TRUE /\ r.group = "none"
    BY <1>8 DEF Row
  <2>2. r.mode = <<"R", "E", "Ib">>
    BY <1>8 DEF Row
  <2>3. o \in {\h6B}
    BY <1>8 DEF Row
  <2>4. o \in HasModrm /\ \A reg, z : TableBytes(o, reg, z) = 1
    BY <2>3, Classes DEF TableBytes
  <2>5. \A z : ModeBytes(r.mode, z) = 1
    BY <2>2, ModeTable, Zenon
  <2>6. RowPlace(r, o)
    BY <2>1, <2>4, <2>5 DEF RowPlace
  <2> QED
    BY <2>1, <2>6 DEF RowShape, NameGroups, RowGroups
<1>9. CASE r = R9
  <2>1. r.size = "given" /\ r.modrm = FALSE /\ r.group = "none"
    BY <1>9 DEF Row
  <2>2. r.mode = <<"fixed", "fixed">>
    BY <1>9 DEF Row
  <2>3. o \in \h6C .. \h6F
    BY <1>9 DEF Row
  <2>4. o \notin HasModrm /\ \A reg, z : TableBytes(o, reg, z) = 0
    BY <2>3, Classes DEF TableBytes
  <2>5. \A z : ModeBytes(r.mode, z) = 0
    BY <2>2, ModeTable, Zenon
  <2>6. RowPlace(r, o)
    BY <2>1, <2>4, <2>5 DEF RowPlace
  <2>7. ~Uses(r, "E")
    BY <2>2, UsesOf
  <2> QED
    BY <2>1, <2>6, <2>7 DEF RowShape, NameGroups, RowGroups
<1>10. CASE r = R10
  <2>1. r.size = "NONE" /\ r.modrm = FALSE /\ r.group = "none"
    BY <1>10 DEF Row
  <2>2. r.mode = <<"Db">>
    BY <1>10 DEF Row
  <2>3. o \in \h70 .. \h7F
    BY <1>10 DEF Row
  <2>4. o \notin HasModrm /\ \A reg, z : TableBytes(o, reg, z) = 1
    BY <2>3, Classes DEF TableBytes
  <2>5. \A z : ModeBytes(r.mode, z) = 1
    BY <2>2, ModeTable, Zenon
  <2>6. RowPlace(r, o)
    BY <2>1, <2>4, <2>5 DEF RowPlace
  <2>7. ~Uses(r, "E") /\ ~Uses(r, "R")
    BY <2>2, UsesOf
  <2> QED
    BY <2>1, <2>6, <2>7 DEF RowShape, NameGroups, RowGroups
<1> HIDE DEF R1, R2, R3, R4, R5, R6, R7, R8, R9, R10
<1> QED
  BY <1>0, <1>1, <1>2, <1>3, <1>4, <1>5, <1>6, <1>7, <1>8, <1>9, <1>10

(* The rows of 80 to BF.                                                   *)
LEMMA RowsMiddleFacts ==
    ASSUME NEW o \in 0 .. \h1FF, NEW r \in RowsMiddle, o \in r.at
    PROVE  RowShape(r) /\ RowPlace(r, o)
<1> DEFINE R1  == Group({\h80, \h82, \h83}, "given", <<"E", "Ib">>, "grp1")
           R2  == Group({\h81}, "given", <<"E", "I">>, "grp1")
           R3  == Row((\h84 .. \h8B) \cup {\h8D}, "given", TRUE, <<"E", "R">>)
           R4  == Row({\h8C, \h8E}, "NONE", TRUE, <<"E", "fixed">>)
           R5  == Row({\h8F}, "given", TRUE, <<"E">>)
           R6  == Row(\h91 .. \h97, "given", FALSE, <<"R", "R">>)
           R7  == Row({\h9B, \h9E, \h9F}, "NONE", FALSE, <<>>)
           R8  == Row({\h98, \h99, \h9C, \h9D} \cup (\hA4 .. \hA7) \cup (\hAA .. \hAF),
                      "given", FALSE, <<>>)
           R9  == Row(\hA0 .. \hA3, "given", FALSE, <<"R", "O">>)
           R10 == Row({\hA8, \hA9} \cup (\hB8 .. \hBB), "given", FALSE, <<"R", "I">>)
           R11 == Row(\hB0 .. \hB7, "given", FALSE, <<"R", "Ib">>)
           R12 == Row(\hBC .. \hBF, "given", FALSE, <<"R", "Iq">>)
<1>0. r \in {R1, R2, R3, R4, R5, R6, R7, R8, R9, R10, R11, R12}
  BY DEF RowsMiddle, Row, Group
<1>1. CASE r = R1
  <2>1. r.size = "given" /\ r.modrm = TRUE /\ r.group = "grp1"
    BY <1>1 DEF Group
  <2>2. r.mode = <<"E", "Ib">>
    BY <1>1 DEF Group
  <2>3. o \in {\h80, \h82, \h83}
    BY <1>1 DEF Group
  <2>4. o \in HasModrm /\ \A reg, z : TableBytes(o, reg, z) = 1
    BY <2>3, Classes DEF TableBytes
  <2>5. \A z : ModeBytes(r.mode, z) = 1
    BY <2>2, ModeTable, Zenon
  <2>6. RowPlace(r, o)
    BY <2>1, <2>4, <2>5 DEF RowPlace
  <2> QED
    BY <2>1, <2>6 DEF RowShape, NameGroups, RowGroups
<1>2. CASE r = R2
  <2>1. r.size = "given" /\ r.modrm = TRUE /\ r.group = "grp1"
    BY <1>2 DEF Group
  <2>2. r.mode = <<"E", "I">>
    BY <1>2 DEF Group
  <2>3. o \in {\h81}
    BY <1>2 DEF Group
  <2>4. o \in HasModrm /\ \A reg, z : TableBytes(o, reg, z) = OperandBytes("I", z)
    BY <2>3, Classes DEF TableBytes
  <2>5. \A z : ModeBytes(r.mode, z) = OperandBytes("I", z)
    BY <2>2, ModeTable, Zenon
  <2>6. RowPlace(r, o)
    BY <2>1, <2>4, <2>5 DEF RowPlace
  <2> QED
    BY <2>1, <2>6 DEF RowShape, NameGroups, RowGroups
<1>3. CASE r = R3
  <2>1. r.size = "given" /\ r.modrm = TRUE /\ r.group = "none"
    BY <1>3 DEF Row
  <2>2. r.mode = <<"E", "R">>
    BY <1>3 DEF Row
  <2>3. o \in (\h84 .. \h8B) \cup {\h8D}
    BY <1>3 DEF Row
  <2>4. o \in HasModrm /\ \A reg, z : TableBytes(o, reg, z) = 0
    BY <2>3, Classes DEF TableBytes
  <2>5. \A z : ModeBytes(r.mode, z) = 0
    BY <2>2, ModeTable, Zenon
  <2>6. RowPlace(r, o)
    BY <2>1, <2>4, <2>5 DEF RowPlace
  <2> QED
    BY <2>1, <2>6 DEF RowShape, NameGroups, RowGroups
<1>4. CASE r = R4
  <2>1. r.size = "NONE" /\ r.modrm = TRUE /\ r.group = "none"
    BY <1>4 DEF Row
  <2>2. r.mode = <<"E", "fixed">>
    BY <1>4 DEF Row
  <2>3. o \in {\h8C, \h8E}
    BY <1>4 DEF Row
  <2>4. o \in HasModrm /\ \A reg, z : TableBytes(o, reg, z) = 0
    BY <2>3, Classes DEF TableBytes
  <2>5. \A z : ModeBytes(r.mode, z) = 0
    BY <2>2, ModeTable, Zenon
  <2>6. RowPlace(r, o)
    BY <2>1, <2>4, <2>5 DEF RowPlace
  <2>7. ~Uses(r, "R")
    BY <2>2, UsesOf
  <2> QED
    BY <2>1, <2>6, <2>7 DEF RowShape, NameGroups, RowGroups
<1>5. CASE r = R5
  <2>1. r.size = "given" /\ r.modrm = TRUE /\ r.group = "none"
    BY <1>5 DEF Row
  <2>2. r.mode = <<"E">>
    BY <1>5 DEF Row
  <2>3. o \in {\h8F}
    BY <1>5 DEF Row
  <2>4. o \in HasModrm /\ \A reg, z : TableBytes(o, reg, z) = 0
    BY <2>3, Classes DEF TableBytes
  <2>5. \A z : ModeBytes(r.mode, z) = 0
    BY <2>2, ModeTable, Zenon
  <2>6. RowPlace(r, o)
    BY <2>1, <2>4, <2>5 DEF RowPlace
  <2> QED
    BY <2>1, <2>6 DEF RowShape, NameGroups, RowGroups
<1>6. CASE r = R6
  <2>1. r.size = "given" /\ r.modrm = FALSE /\ r.group = "none"
    BY <1>6 DEF Row
  <2>2. r.mode = <<"R", "R">>
    BY <1>6 DEF Row
  <2>3. o \in \h91 .. \h97
    BY <1>6 DEF Row
  <2>4. o \notin HasModrm /\ \A reg, z : TableBytes(o, reg, z) = 0
    BY <2>3, Classes DEF TableBytes
  <2>5. \A z : ModeBytes(r.mode, z) = 0
    BY <2>2, ModeTable, Zenon
  <2>6. RowPlace(r, o)
    BY <2>1, <2>4, <2>5 DEF RowPlace
  <2>7. ~Uses(r, "E")
    BY <2>2, UsesOf
  <2> QED
    BY <2>1, <2>6, <2>7 DEF RowShape, NameGroups, RowGroups
<1>7. CASE r = R7
  <2>1. r.size = "NONE" /\ r.modrm = FALSE /\ r.group = "none"
    BY <1>7 DEF Row
  <2>2. r.mode = <<>>
    BY <1>7 DEF Row
  <2>3. o \in {\h9B, \h9E, \h9F}
    BY <1>7 DEF Row
  <2>4. o \notin HasModrm /\ \A reg, z : TableBytes(o, reg, z) = 0
    BY <2>3, Classes DEF TableBytes
  <2>5. \A z : ModeBytes(r.mode, z) = 0
    BY <2>2, ModeTable, Zenon
  <2>6. RowPlace(r, o)
    BY <2>1, <2>4, <2>5 DEF RowPlace
  <2>7. ~Uses(r, "E") /\ ~Uses(r, "R")
    BY <2>2, UsesOf
  <2> QED
    BY <2>1, <2>6, <2>7 DEF RowShape, NameGroups, RowGroups
<1>8. CASE r = R8
  <2>1. r.size = "given" /\ r.modrm = FALSE /\ r.group = "none"
    BY <1>8 DEF Row
  <2>2. r.mode = <<>>
    BY <1>8 DEF Row
  <2>3. o \in {\h98, \h99, \h9C, \h9D} \cup (\hA4 .. \hA7) \cup (\hAA .. \hAF)
    BY <1>8 DEF Row
  <2>4. o \notin HasModrm /\ \A reg, z : TableBytes(o, reg, z) = 0
    BY <2>3, Classes DEF TableBytes
  <2>5. \A z : ModeBytes(r.mode, z) = 0
    BY <2>2, ModeTable, Zenon
  <2>6. RowPlace(r, o)
    BY <2>1, <2>4, <2>5 DEF RowPlace
  <2>7. ~Uses(r, "E")
    BY <2>2, UsesOf
  <2> QED
    BY <2>1, <2>6, <2>7 DEF RowShape, NameGroups, RowGroups
<1>9. CASE r = R9
  <2>1. r.size = "given" /\ r.modrm = FALSE /\ r.group = "none"
    BY <1>9 DEF Row
  <2>2. r.mode = <<"R", "O">>
    BY <1>9 DEF Row
  <2>3. o \in \hA0 .. \hA3
    BY <1>9 DEF Row
  <2>4. o \notin HasModrm /\ \A reg, z : TableBytes(o, reg, z) = 2
    BY <2>3, Classes DEF TableBytes
  <2>5. \A z : ModeBytes(r.mode, z) = 2
    BY <2>2, ModeTable, Zenon
  <2>6. RowPlace(r, o)
    BY <2>1, <2>4, <2>5 DEF RowPlace
  <2>7. ~Uses(r, "E")
    BY <2>2, UsesOf
  <2> QED
    BY <2>1, <2>6, <2>7 DEF RowShape, NameGroups, RowGroups
<1>10. CASE r = R10
  <2>1. r.size = "given" /\ r.modrm = FALSE /\ r.group = "none"
    BY <1>10 DEF Row
  <2>2. r.mode = <<"R", "I">>
    BY <1>10 DEF Row
  <2>3. o \in {\hA8, \hA9} \cup (\hB8 .. \hBB)
    BY <1>10 DEF Row
  <2>4. o \notin HasModrm /\ \A reg, z : TableBytes(o, reg, z) = OperandBytes("I", z)
    BY <2>3, Classes DEF TableBytes
  <2>5. \A z : ModeBytes(r.mode, z) = OperandBytes("I", z)
    BY <2>2, ModeTable, Zenon
  <2>6. RowPlace(r, o)
    BY <2>1, <2>4, <2>5 DEF RowPlace
  <2>7. ~Uses(r, "E")
    BY <2>2, UsesOf
  <2> QED
    BY <2>1, <2>6, <2>7 DEF RowShape, NameGroups, RowGroups
<1>11. CASE r = R11
  <2>1. r.size = "given" /\ r.modrm = FALSE /\ r.group = "none"
    BY <1>11 DEF Row
  <2>2. r.mode = <<"R", "Ib">>
    BY <1>11 DEF Row
  <2>3. o \in \hB0 .. \hB7
    BY <1>11 DEF Row
  <2>4. o \notin HasModrm /\ \A reg, z : TableBytes(o, reg, z) = 1
    BY <2>3, Classes DEF TableBytes
  <2>5. \A z : ModeBytes(r.mode, z) = 1
    BY <2>2, ModeTable, Zenon
  <2>6. RowPlace(r, o)
    BY <2>1, <2>4, <2>5 DEF RowPlace
  <2>7. ~Uses(r, "E")
    BY <2>2, UsesOf
  <2> QED
    BY <2>1, <2>6, <2>7 DEF RowShape, NameGroups, RowGroups
<1>12. CASE r = R12
  <2>1. r.size = "given" /\ r.modrm = FALSE /\ r.group = "none"
    BY <1>12 DEF Row
  <2>2. r.mode = <<"R", "Iq">>
    BY <1>12 DEF Row
  <2>3. o \in \hBC .. \hBF
    BY <1>12 DEF Row
  <2>4. o \notin HasModrm /\ \A reg, z : TableBytes(o, reg, z) = 8
    BY <2>3, Classes DEF TableBytes
  <2>5. \A z : ModeBytes(r.mode, z) = 8
    BY <2>2, ModeTable, Zenon
  <2>6. RowPlace(r, o)
    BY <2>1, <2>4, <2>5 DEF RowPlace
  <2>7. ~Uses(r, "E")
    BY <2>2, UsesOf
  <2> QED
    BY <2>1, <2>6, <2>7 DEF RowShape, NameGroups, RowGroups
<1> HIDE DEF R1, R2, R3, R4, R5, R6, R7, R8, R9, R10, R11, R12
<1> QED
  BY <1>0, <1>1, <1>2, <1>3, <1>4, <1>5, <1>6, <1>7, <1>8, <1>9, <1>10, <1>11, <1>12

(* The rows of C0 to FF.                                                   *)
LEMMA RowsHighFacts ==
    ASSUME NEW o \in 0 .. \h1FF, NEW r \in RowsHigh, o \in r.at
    PROVE  RowShape(r) /\ RowPlace(r, o)
<1> DEFINE R1  == Group({\hC0, \hC1}, "given", <<"E", "Ib">>, "grp2")
           R2  == Row({\hC2, \hCA}, "NONE", FALSE, <<"Iw">>)
           R3  == Row({\hC6, \hC7}, "given", TRUE, <<"E", "I">>)
           R4  == Row({\hC8}, "NONE", FALSE, <<"Ib", "Iq">>)
           R5  == Row({\hC3, \hC9, \hCB, \hCF, \hF4, \hF5} \cup (\hF8 .. \hFD), "NONE", FALSE, <<>>)
           R6  == Row({\hCC}, "NONE", FALSE, <<"fixed">>)
           R7  == Row({\hCD}, "NONE", FALSE, <<"Ib">>)
           R8  == Group(\hD0 .. \hD3, "given", <<"E", "fixed">>, "esc")
           R9  == Row({\hD7}, "given", FALSE, <<"fixed">>)
           R10 == Row((\hE0 .. \hE2) \cup {\hEB}, "NONE", FALSE, <<"Db">>)
           R11 == Row({\hE3}, "given", FALSE, <<"Db">>)
           R12 == Row(\hE4 .. \hE7, "given", FALSE, <<"R", "Ib">>)
           R13 == Row({\hE8, \hE9}, "given", FALSE, <<"Dl">>)
           R14 == Row(\hEC .. \hEF, "given", FALSE, <<"R", "fixed">>)
           R15 == Group({\hF6, \hF7}, "given", <<>>, "grp3")
           R16 == Group({\hFE}, "NONE", <<>>, "grp4")
           R17 == Group({\hFF}, "NONE", <<>>, "grp5")
<1>0. r \in {R1, R2, R3, R4, R5, R6, R7, R8, R9, R10, R11, R12, R13, R14, R15, R16, R17}
  BY DEF RowsHigh, Row, Group
<1>1. CASE r = R1
  <2>1. r.size = "given" /\ r.modrm = TRUE /\ r.group = "grp2"
    BY <1>1 DEF Group
  <2>2. r.mode = <<"E", "Ib">>
    BY <1>1 DEF Group
  <2>3. o \in {\hC0, \hC1}
    BY <1>1 DEF Group
  <2>4. o \in HasModrm /\ \A reg, z : TableBytes(o, reg, z) = 1
    BY <2>3, Classes DEF TableBytes
  <2>5. \A z : ModeBytes(r.mode, z) = 1
    BY <2>2, ModeTable, Zenon
  <2>6. RowPlace(r, o)
    BY <2>1, <2>4, <2>5 DEF RowPlace
  <2> QED
    BY <2>1, <2>6 DEF RowShape, NameGroups, RowGroups
<1>2. CASE r = R2
  <2>1. r.size = "NONE" /\ r.modrm = FALSE /\ r.group = "none"
    BY <1>2 DEF Row
  <2>2. r.mode = <<"Iw">>
    BY <1>2 DEF Row
  <2>3. o \in {\hC2, \hCA}
    BY <1>2 DEF Row
  <2>4. o \notin HasModrm /\ \A reg, z : TableBytes(o, reg, z) = 2
    BY <2>3, Classes DEF TableBytes
  <2>5. \A z : ModeBytes(r.mode, z) = 2
    BY <2>2, ModeTable, Zenon
  <2>6. RowPlace(r, o)
    BY <2>1, <2>4, <2>5 DEF RowPlace
  <2>7. ~Uses(r, "E") /\ ~Uses(r, "R")
    BY <2>2, UsesOf
  <2> QED
    BY <2>1, <2>6, <2>7 DEF RowShape, NameGroups, RowGroups
<1>3. CASE r = R3
  <2>1. r.size = "given" /\ r.modrm = TRUE /\ r.group = "none"
    BY <1>3 DEF Row
  <2>2. r.mode = <<"E", "I">>
    BY <1>3 DEF Row
  <2>3. o \in {\hC6, \hC7}
    BY <1>3 DEF Row
  <2>4. o \in HasModrm /\ \A reg, z : TableBytes(o, reg, z) = OperandBytes("I", z)
    BY <2>3, Classes DEF TableBytes
  <2>5. \A z : ModeBytes(r.mode, z) = OperandBytes("I", z)
    BY <2>2, ModeTable, Zenon
  <2>6. RowPlace(r, o)
    BY <2>1, <2>4, <2>5 DEF RowPlace
  <2> QED
    BY <2>1, <2>6 DEF RowShape, NameGroups, RowGroups
<1>4. CASE r = R4
  <2>1. r.size = "NONE" /\ r.modrm = FALSE /\ r.group = "none"
    BY <1>4 DEF Row
  <2>2. r.mode = <<"Ib", "Iq">>
    BY <1>4 DEF Row
  <2>3. o \in {\hC8}
    BY <1>4 DEF Row
  <2>4. o \notin HasModrm /\ \A reg, z : TableBytes(o, reg, z) = 9
    BY <2>3, Classes DEF TableBytes
  <2>5. \A z : ModeBytes(r.mode, z) = 9
    BY <2>2, ModeTable, Zenon
  <2>6. RowPlace(r, o)
    BY <2>1, <2>4, <2>5 DEF RowPlace
  <2>7. ~Uses(r, "E") /\ ~Uses(r, "R")
    BY <2>2, UsesOf
  <2> QED
    BY <2>1, <2>6, <2>7 DEF RowShape, NameGroups, RowGroups
<1>5. CASE r = R5
  <2>1. r.size = "NONE" /\ r.modrm = FALSE /\ r.group = "none"
    BY <1>5 DEF Row
  <2>2. r.mode = <<>>
    BY <1>5 DEF Row
  <2>3. o \in {\hC3, \hC9, \hCB, \hCF, \hF4, \hF5} \cup (\hF8 .. \hFD)
    BY <1>5 DEF Row
  <2>4. o \notin HasModrm /\ \A reg, z : TableBytes(o, reg, z) = 0
    BY <2>3, Classes DEF TableBytes
  <2>5. \A z : ModeBytes(r.mode, z) = 0
    BY <2>2, ModeTable, Zenon
  <2>6. RowPlace(r, o)
    BY <2>1, <2>4, <2>5 DEF RowPlace
  <2>7. ~Uses(r, "E") /\ ~Uses(r, "R")
    BY <2>2, UsesOf
  <2> QED
    BY <2>1, <2>6, <2>7 DEF RowShape, NameGroups, RowGroups
<1>6. CASE r = R6
  <2>1. r.size = "NONE" /\ r.modrm = FALSE /\ r.group = "none"
    BY <1>6 DEF Row
  <2>2. r.mode = <<"fixed">>
    BY <1>6 DEF Row
  <2>3. o \in {\hCC}
    BY <1>6 DEF Row
  <2>4. o \notin HasModrm /\ \A reg, z : TableBytes(o, reg, z) = 0
    BY <2>3, Classes DEF TableBytes
  <2>5. \A z : ModeBytes(r.mode, z) = 0
    BY <2>2, ModeTable, Zenon
  <2>6. RowPlace(r, o)
    BY <2>1, <2>4, <2>5 DEF RowPlace
  <2>7. ~Uses(r, "E") /\ ~Uses(r, "R")
    BY <2>2, UsesOf
  <2> QED
    BY <2>1, <2>6, <2>7 DEF RowShape, NameGroups, RowGroups
<1>7. CASE r = R7
  <2>1. r.size = "NONE" /\ r.modrm = FALSE /\ r.group = "none"
    BY <1>7 DEF Row
  <2>2. r.mode = <<"Ib">>
    BY <1>7 DEF Row
  <2>3. o \in {\hCD}
    BY <1>7 DEF Row
  <2>4. o \notin HasModrm /\ \A reg, z : TableBytes(o, reg, z) = 1
    BY <2>3, Classes DEF TableBytes
  <2>5. \A z : ModeBytes(r.mode, z) = 1
    BY <2>2, ModeTable, Zenon
  <2>6. RowPlace(r, o)
    BY <2>1, <2>4, <2>5 DEF RowPlace
  <2>7. ~Uses(r, "E") /\ ~Uses(r, "R")
    BY <2>2, UsesOf
  <2> QED
    BY <2>1, <2>6, <2>7 DEF RowShape, NameGroups, RowGroups
<1>8. CASE r = R8
  <2>1. r.size = "given" /\ r.modrm = TRUE /\ r.group = "esc"
    BY <1>8 DEF Group
  <2>2. r.mode = <<"E", "fixed">>
    BY <1>8 DEF Group
  <2>3. o \in \hD0 .. \hD3
    BY <1>8 DEF Group
  <2>6. RowPlace(r, o)
    BY <2>1 DEF RowPlace, NameGroups
  <2> QED
    BY <2>1, <2>6 DEF RowShape, NameGroups, RowGroups
<1>9. CASE r = R9
  <2>1. r.size = "given" /\ r.modrm = FALSE /\ r.group = "none"
    BY <1>9 DEF Row
  <2>2. r.mode = <<"fixed">>
    BY <1>9 DEF Row
  <2>3. o \in {\hD7}
    BY <1>9 DEF Row
  <2>4. o \notin HasModrm /\ \A reg, z : TableBytes(o, reg, z) = 0
    BY <2>3, Classes DEF TableBytes
  <2>5. \A z : ModeBytes(r.mode, z) = 0
    BY <2>2, ModeTable, Zenon
  <2>6. RowPlace(r, o)
    BY <2>1, <2>4, <2>5 DEF RowPlace
  <2>7. ~Uses(r, "E")
    BY <2>2, UsesOf
  <2> QED
    BY <2>1, <2>6, <2>7 DEF RowShape, NameGroups, RowGroups
<1>10. CASE r = R10
  <2>1. r.size = "NONE" /\ r.modrm = FALSE /\ r.group = "none"
    BY <1>10 DEF Row
  <2>2. r.mode = <<"Db">>
    BY <1>10 DEF Row
  <2>3. o \in (\hE0 .. \hE2) \cup {\hEB}
    BY <1>10 DEF Row
  <2>4. o \notin HasModrm /\ \A reg, z : TableBytes(o, reg, z) = 1
    BY <2>3, Classes DEF TableBytes
  <2>5. \A z : ModeBytes(r.mode, z) = 1
    BY <2>2, ModeTable, Zenon
  <2>6. RowPlace(r, o)
    BY <2>1, <2>4, <2>5 DEF RowPlace
  <2>7. ~Uses(r, "E") /\ ~Uses(r, "R")
    BY <2>2, UsesOf
  <2> QED
    BY <2>1, <2>6, <2>7 DEF RowShape, NameGroups, RowGroups
<1>11. CASE r = R11
  <2>1. r.size = "given" /\ r.modrm = FALSE /\ r.group = "none"
    BY <1>11 DEF Row
  <2>2. r.mode = <<"Db">>
    BY <1>11 DEF Row
  <2>3. o \in {\hE3}
    BY <1>11 DEF Row
  <2>4. o \notin HasModrm /\ \A reg, z : TableBytes(o, reg, z) = 1
    BY <2>3, Classes DEF TableBytes
  <2>5. \A z : ModeBytes(r.mode, z) = 1
    BY <2>2, ModeTable, Zenon
  <2>6. RowPlace(r, o)
    BY <2>1, <2>4, <2>5 DEF RowPlace
  <2>7. ~Uses(r, "E")
    BY <2>2, UsesOf
  <2> QED
    BY <2>1, <2>6, <2>7 DEF RowShape, NameGroups, RowGroups
<1>12. CASE r = R12
  <2>1. r.size = "given" /\ r.modrm = FALSE /\ r.group = "none"
    BY <1>12 DEF Row
  <2>2. r.mode = <<"R", "Ib">>
    BY <1>12 DEF Row
  <2>3. o \in \hE4 .. \hE7
    BY <1>12 DEF Row
  <2>4. o \notin HasModrm /\ \A reg, z : TableBytes(o, reg, z) = 1
    BY <2>3, Classes DEF TableBytes
  <2>5. \A z : ModeBytes(r.mode, z) = 1
    BY <2>2, ModeTable, Zenon
  <2>6. RowPlace(r, o)
    BY <2>1, <2>4, <2>5 DEF RowPlace
  <2>7. ~Uses(r, "E")
    BY <2>2, UsesOf
  <2> QED
    BY <2>1, <2>6, <2>7 DEF RowShape, NameGroups, RowGroups
<1>13. CASE r = R13
  <2>1. r.size = "given" /\ r.modrm = FALSE /\ r.group = "none"
    BY <1>13 DEF Row
  <2>2. r.mode = <<"Dl">>
    BY <1>13 DEF Row
  <2>3. o \in {\hE8, \hE9}
    BY <1>13 DEF Row
  <2>4. o \notin HasModrm /\ \A reg, z : TableBytes(o, reg, z) = 4
    BY <2>3, Classes DEF TableBytes
  <2>5. \A z : ModeBytes(r.mode, z) = 4
    BY <2>2, ModeTable, Zenon
  <2>6. RowPlace(r, o)
    BY <2>1, <2>4, <2>5 DEF RowPlace
  <2>7. ~Uses(r, "E")
    BY <2>2, UsesOf
  <2> QED
    BY <2>1, <2>6, <2>7 DEF RowShape, NameGroups, RowGroups
<1>14. CASE r = R14
  <2>1. r.size = "given" /\ r.modrm = FALSE /\ r.group = "none"
    BY <1>14 DEF Row
  <2>2. r.mode = <<"R", "fixed">>
    BY <1>14 DEF Row
  <2>3. o \in \hEC .. \hEF
    BY <1>14 DEF Row
  <2>4. o \notin HasModrm /\ \A reg, z : TableBytes(o, reg, z) = 0
    BY <2>3, Classes DEF TableBytes
  <2>5. \A z : ModeBytes(r.mode, z) = 0
    BY <2>2, ModeTable, Zenon
  <2>6. RowPlace(r, o)
    BY <2>1, <2>4, <2>5 DEF RowPlace
  <2>7. ~Uses(r, "E")
    BY <2>2, UsesOf
  <2> QED
    BY <2>1, <2>6, <2>7 DEF RowShape, NameGroups, RowGroups
<1>15. CASE r = R15
  <2>1. r.size = "given" /\ r.modrm = TRUE /\ r.group = "grp3"
    BY <1>15 DEF Group
  <2>2. r.mode = <<>>
    BY <1>15 DEF Group
  <2>3. o \in {\hF6, \hF7}
    BY <1>15 DEF Group
  <2>4. o \in HasModrm
    BY <2>3, Classes
  <2>6. RowPlace(r, o)
    BY <2>1, <2>3, <2>4 DEF RowPlace, NameGroups
  <2> QED
    BY <2>1, <2>6 DEF RowShape, NameGroups, RowGroups
<1>16. CASE r = R16
  <2>1. r.size = "NONE" /\ r.modrm = TRUE /\ r.group = "grp4"
    BY <1>16 DEF Group
  <2>2. r.mode = <<>>
    BY <1>16 DEF Group
  <2>3. o \in {\hFE}
    BY <1>16 DEF Group
  <2>4. o \in HasModrm
    BY <2>3, Classes
  <2>6. RowPlace(r, o)
    BY <2>1, <2>3, <2>4 DEF RowPlace, NameGroups
  <2>7. ~Uses(r, "R")
    BY <2>2, UsesOf
  <2> QED
    BY <2>1, <2>6, <2>7 DEF RowShape, NameGroups, RowGroups
<1>17. CASE r = R17
  <2>1. r.size = "NONE" /\ r.modrm = TRUE /\ r.group = "grp5"
    BY <1>17 DEF Group
  <2>2. r.mode = <<>>
    BY <1>17 DEF Group
  <2>3. o \in {\hFF}
    BY <1>17 DEF Group
  <2>4. o \in HasModrm
    BY <2>3, Classes
  <2>6. RowPlace(r, o)
    BY <2>1, <2>3, <2>4 DEF RowPlace, NameGroups
  <2>7. ~Uses(r, "R")
    BY <2>2, UsesOf
  <2> QED
    BY <2>1, <2>6, <2>7 DEF RowShape, NameGroups, RowGroups
<1> HIDE DEF R1, R2, R3, R4, R5, R6, R7, R8, R9, R10, R11, R12, R13, R14, R15, R16, R17
<1> QED
  BY <1>0, <1>1, <1>2, <1>3, <1>4, <1>5, <1>6, <1>7, <1>8, <1>9, <1>10, <1>11, <1>12, <1>13,
     <1>14, <1>15, <1>16, <1>17

(* The rows of 0F 00 to 0F CF.                                             *)
LEMMA RowsTwoFacts ==
    ASSUME NEW o \in 0 .. \h1FF, NEW r \in RowsTwo, o \in r.at
    PROVE  RowShape(r) /\ RowPlace(r, o)
<1> DEFINE R1  == Group({\h100}, "NONE", <<"E">>, "grp6")
           R2  == Group({\h101}, "NONE", <<"E">>, "grp7")
           R3  == Row((\h105 .. \h109) \cup (\h130 .. \h133) \cup {\h1A2}, "NONE", FALSE, <<>>)
           R4  == Row((\h120 .. \h124) \cup {\h126}, "given", TRUE, <<"E", "fixed">>)
           R5  == Row(\h180 .. \h18F, "NONE", FALSE, <<"Dl">>)
           R6  == Row(\h190 .. \h19F, "NONE", TRUE, <<"E">>)
           R7  == Row({\h1A0, \h1A1, \h1A8, \h1A9} \cup (\h1C8 .. \h1CF),
                      "given", FALSE, <<"fixed">>)
           R8  == Row({\h102, \h103, \h1A3, \h1AB, \h1AF} \cup (\h1B0 .. \h1B7) \cup (\h1BB .. \h1C1),
                      "given", TRUE, <<"E", "R">>)
           R9  == Row({\h1A4, \h1AC}, "given", TRUE, <<"E", "R", "Ib">>)
           R10 == Row({\h1A5, \h1AD}, "given", TRUE, <<"E", "R", "fixed">>)
           R11 == Group({\h1AE, \h1C7}, "NONE", <<"E">>, "grp9")
           R12 == Group({\h1BA}, "given", <<"E", "Ib">>, "grp8")
<1>0. r \in {R1, R2, R3, R4, R5, R6, R7, R8, R9, R10, R11, R12}
  BY DEF RowsTwo, Row, Group
<1>1. CASE r = R1
  <2>1. r.size = "NONE" /\ r.modrm = TRUE /\ r.group = "grp6"
    BY <1>1 DEF Group
  <2>2. r.mode = <<"E">>
    BY <1>1 DEF Group
  <2>3. o \in {\h100}
    BY <1>1 DEF Group
  <2>4. o \in HasModrm /\ \A reg, z : TableBytes(o, reg, z) = 0
    BY <2>3, Classes DEF TableBytes
  <2>5. \A z : ModeBytes(r.mode, z) = 0
    BY <2>2, ModeTable, Zenon
  <2>6. RowPlace(r, o)
    BY <2>1, <2>4, <2>5 DEF RowPlace
  <2>7. ~Uses(r, "R")
    BY <2>2, UsesOf
  <2> QED
    BY <2>1, <2>6, <2>7 DEF RowShape, NameGroups, RowGroups
<1>2. CASE r = R2
  <2>1. r.size = "NONE" /\ r.modrm = TRUE /\ r.group = "grp7"
    BY <1>2 DEF Group
  <2>2. r.mode = <<"E">>
    BY <1>2 DEF Group
  <2>3. o \in {\h101}
    BY <1>2 DEF Group
  <2>4. o \in HasModrm
    BY <2>3, Classes
  <2>6. RowPlace(r, o)
    BY <2>1, <2>3, <2>4 DEF RowPlace, NameGroups
  <2>7. ~Uses(r, "R")
    BY <2>2, UsesOf
  <2> QED
    BY <2>1, <2>6, <2>7 DEF RowShape, NameGroups, RowGroups
<1>3. CASE r = R3
  <2>1. r.size = "NONE" /\ r.modrm = FALSE /\ r.group = "none"
    BY <1>3 DEF Row
  <2>2. r.mode = <<>>
    BY <1>3 DEF Row
  <2>3. o \in (\h105 .. \h109) \cup (\h130 .. \h133) \cup {\h1A2}
    BY <1>3 DEF Row
  <2>4. o \notin HasModrm /\ \A reg, z : TableBytes(o, reg, z) = 0
    BY <2>3, Classes DEF TableBytes
  <2>5. \A z : ModeBytes(r.mode, z) = 0
    BY <2>2, ModeTable, Zenon
  <2>6. RowPlace(r, o)
    BY <2>1, <2>4, <2>5 DEF RowPlace
  <2>7. ~Uses(r, "E") /\ ~Uses(r, "R")
    BY <2>2, UsesOf
  <2> QED
    BY <2>1, <2>6, <2>7 DEF RowShape, NameGroups, RowGroups
<1>4. CASE r = R4
  <2>1. r.size = "given" /\ r.modrm = TRUE /\ r.group = "none"
    BY <1>4 DEF Row
  <2>2. r.mode = <<"E", "fixed">>
    BY <1>4 DEF Row
  <2>3. o \in (\h120 .. \h124) \cup {\h126}
    BY <1>4 DEF Row
  <2>4. o \in HasModrm /\ \A reg, z : TableBytes(o, reg, z) = 0
    BY <2>3, Classes DEF TableBytes
  <2>5. \A z : ModeBytes(r.mode, z) = 0
    BY <2>2, ModeTable, Zenon
  <2>6. RowPlace(r, o)
    BY <2>1, <2>4, <2>5 DEF RowPlace
  <2> QED
    BY <2>1, <2>6 DEF RowShape, NameGroups, RowGroups
<1>5. CASE r = R5
  <2>1. r.size = "NONE" /\ r.modrm = FALSE /\ r.group = "none"
    BY <1>5 DEF Row
  <2>2. r.mode = <<"Dl">>
    BY <1>5 DEF Row
  <2>3. o \in \h180 .. \h18F
    BY <1>5 DEF Row
  <2>4. o \notin HasModrm /\ \A reg, z : TableBytes(o, reg, z) = 4
    BY <2>3, Classes DEF TableBytes
  <2>5. \A z : ModeBytes(r.mode, z) = 4
    BY <2>2, ModeTable, Zenon
  <2>6. RowPlace(r, o)
    BY <2>1, <2>4, <2>5 DEF RowPlace
  <2>7. ~Uses(r, "E") /\ ~Uses(r, "R")
    BY <2>2, UsesOf
  <2> QED
    BY <2>1, <2>6, <2>7 DEF RowShape, NameGroups, RowGroups
<1>6. CASE r = R6
  <2>1. r.size = "NONE" /\ r.modrm = TRUE /\ r.group = "none"
    BY <1>6 DEF Row
  <2>2. r.mode = <<"E">>
    BY <1>6 DEF Row
  <2>3. o \in \h190 .. \h19F
    BY <1>6 DEF Row
  <2>4. o \in HasModrm /\ \A reg, z : TableBytes(o, reg, z) = 0
    BY <2>3, Classes DEF TableBytes
  <2>5. \A z : ModeBytes(r.mode, z) = 0
    BY <2>2, ModeTable, Zenon
  <2>6. RowPlace(r, o)
    BY <2>1, <2>4, <2>5 DEF RowPlace
  <2>7. ~Uses(r, "R")
    BY <2>2, UsesOf
  <2> QED
    BY <2>1, <2>6, <2>7 DEF RowShape, NameGroups, RowGroups
<1>7. CASE r = R7
  <2>1. r.size = "given" /\ r.modrm = FALSE /\ r.group = "none"
    BY <1>7 DEF Row
  <2>2. r.mode = <<"fixed">>
    BY <1>7 DEF Row
  <2>3. o \in {\h1A0, \h1A1, \h1A8, \h1A9} \cup (\h1C8 .. \h1CF)
    BY <1>7 DEF Row
  <2>4. o \notin HasModrm /\ \A reg, z : TableBytes(o, reg, z) = 0
    BY <2>3, Classes DEF TableBytes
  <2>5. \A z : ModeBytes(r.mode, z) = 0
    BY <2>2, ModeTable, Zenon
  <2>6. RowPlace(r, o)
    BY <2>1, <2>4, <2>5 DEF RowPlace
  <2>7. ~Uses(r, "E")
    BY <2>2, UsesOf
  <2> QED
    BY <2>1, <2>6, <2>7 DEF RowShape, NameGroups, RowGroups
<1>8. CASE r = R8
  <2>1. r.size = "given" /\ r.modrm = TRUE /\ r.group = "none"
    BY <1>8 DEF Row
  <2>2. r.mode = <<"E", "R">>
    BY <1>8 DEF Row
  <2>3. o \in {\h102, \h103, \h1A3, \h1AB, \h1AF} \cup (\h1B0 .. \h1B7) \cup (\h1BB .. \h1C1)
    BY <1>8 DEF Row
  <2>4. o \in HasModrm /\ \A reg, z : TableBytes(o, reg, z) = 0
    BY <2>3, Classes DEF TableBytes
  <2>5. \A z : ModeBytes(r.mode, z) = 0
    BY <2>2, ModeTable, Zenon
  <2>6. RowPlace(r, o)
    BY <2>1, <2>4, <2>5 DEF RowPlace
  <2> QED
    BY <2>1, <2>6 DEF RowShape, NameGroups, RowGroups
<1>9. CASE r = R9
  <2>1. r.size = "given" /\ r.modrm = TRUE /\ r.group = "none"
    BY <1>9 DEF Row
  <2>2. r.mode = <<"E", "R", "Ib">>
    BY <1>9 DEF Row
  <2>3. o \in {\h1A4, \h1AC}
    BY <1>9 DEF Row
  <2>4. o \in HasModrm /\ \A reg, z : TableBytes(o, reg, z) = 1
    BY <2>3, Classes DEF TableBytes
  <2>5. \A z : ModeBytes(r.mode, z) = 1
    BY <2>2, ModeTable, Zenon
  <2>6. RowPlace(r, o)
    BY <2>1, <2>4, <2>5 DEF RowPlace
  <2> QED
    BY <2>1, <2>6 DEF RowShape, NameGroups, RowGroups
<1>10. CASE r = R10
  <2>1. r.size = "given" /\ r.modrm = TRUE /\ r.group = "none"
    BY <1>10 DEF Row
  <2>2. r.mode = <<"E", "R", "fixed">>
    BY <1>10 DEF Row
  <2>3. o \in {\h1A5, \h1AD}
    BY <1>10 DEF Row
  <2>4. o \in HasModrm /\ \A reg, z : TableBytes(o, reg, z) = 0
    BY <2>3, Classes DEF TableBytes
  <2>5. \A z : ModeBytes(r.mode, z) = 0
    BY <2>2, ModeTable, Zenon
  <2>6. RowPlace(r, o)
    BY <2>1, <2>4, <2>5 DEF RowPlace
  <2> QED
    BY <2>1, <2>6 DEF RowShape, NameGroups, RowGroups
<1>11. CASE r = R11
  <2>1. r.size = "NONE" /\ r.modrm = TRUE /\ r.group = "grp9"
    BY <1>11 DEF Group
  <2>2. r.mode = <<"E">>
    BY <1>11 DEF Group
  <2>3. o \in {\h1AE, \h1C7}
    BY <1>11 DEF Group
  <2>4. o \in HasModrm /\ \A reg, z : TableBytes(o, reg, z) = 0
    BY <2>3, Classes DEF TableBytes
  <2>5. \A z : ModeBytes(r.mode, z) = 0
    BY <2>2, ModeTable, Zenon
  <2>6. RowPlace(r, o)
    BY <2>1, <2>4, <2>5 DEF RowPlace
  <2>7. ~Uses(r, "R")
    BY <2>2, UsesOf
  <2> QED
    BY <2>1, <2>6, <2>7 DEF RowShape, NameGroups, RowGroups
<1>12. CASE r = R12
  <2>1. r.size = "given" /\ r.modrm = TRUE /\ r.group = "grp8"
    BY <1>12 DEF Group
  <2>2. r.mode = <<"E", "Ib">>
    BY <1>12 DEF Group
  <2>3. o \in {\h1BA}
    BY <1>12 DEF Group
  <2>4. o \in HasModrm /\ \A reg, z : TableBytes(o, reg, z) = 1
    BY <2>3, Classes DEF TableBytes
  <2>5. \A z : ModeBytes(r.mode, z) = 1
    BY <2>2, ModeTable, Zenon
  <2>6. RowPlace(r, o)
    BY <2>1, <2>4, <2>5 DEF RowPlace
  <2> QED
    BY <2>1, <2>6 DEF RowShape, NameGroups, RowGroups
<1> HIDE DEF R1, R2, R3, R4, R5, R6, R7, R8, R9, R10, R11, R12
<1> QED
  BY <1>0, <1>1, <1>2, <1>3, <1>4, <1>5, <1>6, <1>7, <1>8, <1>9, <1>10, <1>11, <1>12

-----------------------------------------------------------------------------
(* A row of inst_tbl is that of an opcode without a name or one of a table.*)
LEMMA TableRow ==
    ASSUME NEW o \in 0 .. \h1FF
    PROVE  \/ inst_tbl[o] = Unnamed(o)
           \/ RowShape(inst_tbl[o]) /\ RowPlace(inst_tbl[o], o)
<1> DEFINE All == RowsLow \cup RowsMiddle \cup RowsHigh \cup RowsTwo
           rows == {r \in All : o \in r.at}
<1>1. inst_tbl[o] = IF rows = {} THEN Unnamed(o) ELSE CHOOSE r \in rows : TRUE
  BY DEF inst_tbl
<1>2. ASSUME rows # {} PROVE (CHOOSE r \in rows : TRUE) \in rows
  BY <1>2
<1>3. ASSUME NEW r \in rows PROVE RowShape(r) /\ RowPlace(r, o)
  BY RowsLowFacts, RowsMiddleFacts, RowsHighFacts, RowsTwoFacts
<1> HIDE DEF rows
<1> QED
  BY <1>1, <1>2, <1>3

(* The row the instruction is printed from.                                *)
Selected(o, reg) ==
    IF inst_tbl[o].group \in RowGroups THEN GroupRow(inst_tbl[o].group, reg) ELSE inst_tbl[o]

Known == {"none", "inst0f00"} \cup NameGroups

SelectedOk(s, o, reg) ==
    /\ s.size \in {"given", "NONE"}
    /\ inst_tbl[o].modrm <=> o \in HasModrm
    /\ Uses(s, "E") => o \in HasModrm
    /\ Uses(s, "R") /\ s.size # "given" => o \in {\hF6, \hF7} /\ reg \in 4 .. 7
    /\ \A z : ModeBytes(s.mode, z) = TableBytes(o, reg, z)

(* A row that is printed fits its opcode; only mul to idiv in grp3 read    *)
(* regs without a size.                                                    *)
LEMMA SelectedFacts ==
    ASSUME NEW o \in 0 .. \h1FF, NEW reg \in 0 .. 7, Selected(o, reg).group \in Known
    PROVE  SelectedOk(Selected(o, reg), o, reg)
<1> DEFINE r == inst_tbl[o]
           s == Selected(o, reg)
<1>1. r # Unnamed(o)
  BY DEF Unnamed, Selected, RowGroups, Known, NameGroups
<1>2. RowShape(r) /\ RowPlace(r, o)
  BY <1>1, TableRow
<1>3. CASE r.group \notin RowGroups
  <2>1. s = r
    BY <1>3 DEF Selected
  <2>2. r.group \in {"none"} \cup NameGroups
    BY <1>2, <1>3, <2>1 DEF RowShape, Known, NameGroups
  <2>3. r.group # "esc"
    BY <2>2 DEF NameGroups
  <2> QED
    BY <1>2, <2>1, <2>2, <2>3 DEF RowShape, RowPlace, SelectedOk
<1>4. CASE r.group \in RowGroups
  <2>1. s = GroupRow(r.group, reg)
    BY <1>4 DEF Selected
  <2>2. o \in HasModrm /\ r.modrm
    <3>1. o \in {\hF6, \hF7, \hFE, \hFF, \h101}
      BY <1>2, <1>4 DEF RowPlace, RowGroups
    <3>2. o \in HasModrm
      BY <3>1, Classes
    <3> QED
      BY <1>2, <1>4, <3>2 DEF RowPlace, RowGroups
  <2>3. s.group # "unnamed"
    BY DEF Known, NameGroups
  <2>4. CASE r.group = "grp3"
    <3>1. o \in {\hF6, \hF7}
      BY <1>2, <2>4 DEF RowPlace
    <3>2. o \notin ImmByte /\ o \notin ImmSized
      BY <3>1, Classes
    <3>3. CASE reg \in {0, 1}
      <4>1. s.size = "NONE" /\ s.mode = <<"E", "I">>
        BY <2>1, <2>4, <3>3 DEF GroupRow, Row
      <4>2. ASSUME NEW z PROVE TableBytes(o, reg, z) = OperandBytes("I", z)
        BY <3>1, <3>2, <3>3 DEF TableBytes
      <4>3. ASSUME NEW z PROVE ModeBytes(s.mode, z) = OperandBytes("I", z)
        BY <4>1, ModeTable, Zenon
      <4>4. ~Uses(s, "R")
        BY <4>1, UsesOf
      <4> QED
        BY <2>2, <4>1, <4>2, <4>3, <4>4 DEF SelectedOk
    <3>4. ASSUME reg \notin {0, 1}, NEW z PROVE TableBytes(o, reg, z) = 0
      BY <3>1, <3>2, <3>4 DEF TableBytes
    <3>5. CASE reg \in {2, 3}
      <4>1. s.size = "NONE" /\ s.mode = <<"E">>
        BY <2>1, <2>4, <3>5 DEF GroupRow, Row
      <4>2. ASSUME NEW z PROVE ModeBytes(s.mode, z) = 0
        BY <4>1, ModeTable, Zenon
      <4>3. ~Uses(s, "R")
        BY <4>1, UsesOf
      <4> QED
        BY <2>2, <3>4, <3>5, <4>1, <4>2, <4>3 DEF SelectedOk
    <3>6. CASE reg \in 4 .. 7
      <4>1. s.size = "NONE" /\ s.mode = <<"R", "E">>
        BY <2>1, <2>4, <3>6 DEF GroupRow, Row
      <4>2. ASSUME NEW z PROVE ModeBytes(s.mode, z) = 0
        BY <4>1, ModeTable, Zenon
      <4> QED
        BY <2>2, <3>1, <3>4, <3>6, <4>1, <4>2 DEF SelectedOk
    <3> QED
      BY <3>3, <3>5, <3>6
  <2>5. CASE r.group \in {"grp4", "grp5", "grp7"}
    <3>1. o \in {\hFE, \hFF, \h101}
      BY <1>2, <2>5 DEF RowPlace
    <3>2. ASSUME NEW z PROVE TableBytes(o, reg, z) = 0
      BY <3>1, Classes DEF TableBytes
    <3>3. s.size \in {"given", "NONE"} /\ (s.mode = <<"E">> \/ s.mode = <<"fixed">>)
      <4>1. CASE r.group = "grp4"
        BY <2>1, <2>3, <4>1 DEF GroupRow, Row, Unnamed
      <4>2. CASE r.group = "grp5"
        BY <2>1, <2>3, <4>2 DEF GroupRow, Row, Unnamed
      <4>3. CASE r.group = "grp7"
        BY <2>1, <2>3, <4>3 DEF GroupRow, Row, Group, Unnamed
      <4> QED
        BY <2>5, <4>1, <4>2, <4>3
    <3>4. ASSUME NEW z PROVE ModeBytes(s.mode, z) = 0
      BY <3>3, ModeTable, Zenon
    <3>5. ~Uses(s, "R")
      BY <3>3, UsesOf
    <3> QED
      BY <2>2, <3>2, <3>3, <3>4, <3>5 DEF SelectedOk
  <2> QED
    BY <1>4, <2>4, <2>5 DEF RowGroups
<1> QED
  BY <1>3, <1>4

-----------------------------------------------------------------------------
(* The two reasons for a wrong length: the immediate and the address.      *)
MisreadImm ==
    \/ op \in (\hA0 .. \hA3) \cup {\hA8, \hC6, \hC8}
    \/ IsTest(\hF6)
    \/ op \in \hB8 .. \hBB /\ size = "QUAD"
    \/ op \in \hBC .. \hBF /\ size # "QUAD"

MisreadAddr ==
    \/ /\ op \notin ControlMoves /\ rex.b = 1 /\ modrm.mod = 0
       /\ 5 \in {modrm.rm, modrm.base}
    \/ /\ op \in ControlMoves
       /\ \/ modrm.mod \in {1, 2}
          \/ modrm.mod = 0 /\ (modrm.rm = 4 \/ (modrm.rm = 5 /\ rex.b = 0))

ModrmByte == [mod : 0 .. 3, reg : 0 .. 7, rm : {0, 4, 5}, base : {0, 5}]

(* The immediates of the tables and those of the processor.  Behind a      *)
(* ModRM byte the tables take too many bytes, if they are wrong.           *)
LEMMA Immediates ==
    ASSUME op \in 0 .. \h1FF, modrm.reg \in 0 .. 7, size \in {"LONG", "WORD", "QUAD"},
           NEW z, z = "WORD" <=> size = "WORD"
    PROVE  /\ TableBytes(op, modrm.reg, z) \in Int /\ ProcessorImmediate \in Int
           /\ TableBytes(op, modrm.reg, z) = ProcessorImmediate <=> ~MisreadImm
           /\ op \in HasModrm => TableBytes(op, modrm.reg, z) >= ProcessorImmediate
           /\ op \in HasModrm => TableBytes(op, modrm.reg, z) - ProcessorImmediate \in {0, 1, 3}
           /\ op \in ControlMoves => ~MisreadImm
<1> DEFINE T == TableBytes(op, modrm.reg, z)
           sized == IF size = "WORD" THEN 2 ELSE 4
<1>1. OperandBytes("I", z) = sized
  BY DEF OperandBytes
<1> QED
  BY <1>1, Classes DEF TableBytes, ProcessorImmediate, MisreadImm, IsTest, ControlMoves

(* The bytes of the address.                                               *)
AddrTaken == IF op \in HasModrm THEN 1 + AddressBytes(modrm.mod, modrm.rm, modrm.base, rex.b) ELSE 0

(* The address of disasm and that of the processor.  Where they differ     *)
(* behind an ordinary ModRM byte, disasm is four bytes short.              *)
LEMMA Addresses ==
    ASSUME op \in 0 .. \h1FF, modrm \in ModrmByte, modrm.rm = 4 \/ modrm.base = 0,
           rex.b \in {0, 1}, op \notin HasModrm => modrm = NoModrm
    PROVE  /\ AddrTaken \in Int /\ ProcessorAddress \in Int
           /\ AddrTaken = ProcessorAddress <=> ~MisreadAddr
           /\ op \notin ControlMoves => AddrTaken - ProcessorAddress \in {0, -4}
           /\ op \notin HasModrm => ~MisreadAddr /\ op \notin ControlMoves
<1>1. op \in ControlMoves => op \in HasModrm
  BY Classes DEF ControlMoves
<1>2. CASE op \notin HasModrm
  BY <1>1, <1>2 DEF AddrTaken, ProcessorAddress, MisreadAddr, NoModrm
<1>3. CASE op \in ControlMoves
  BY <1>1, <1>3 DEF AddrTaken, ProcessorAddress, MisreadAddr, AddressBytes, ModrmByte
<1>4. CASE op \in HasModrm /\ op \notin ControlMoves
  BY <1>4 DEF AddrTaken, ProcessorAddress, MisreadAddr, AddressBytes, ModrmByte
<1> QED
  BY <1>2, <1>3, <1>4

-----------------------------------------------------------------------------
DisasmType ==
    /\ addr \in Int /\ head \in Int
    /\ size \in {"LONG", "WORD", "QUAD"}
    /\ rex \in [on : BOOLEAN, r : {0, 1}, b : {0, 1}]
    /\ ~rex.on => size = "LONG"
    /\ modrm \in ModrmByte /\ (modrm.rm = 4 \/ modrm.base = 0)

(* Before the ModRM byte and before the row are looked at.                 *)
EarlyInv ==
    /\ at \in {"prefix", "opcode", "modrm"} => modrm = NoModrm /\ ~fresh
    /\ at \in {"prefix", "opcode", "modrm", "select"} => ~wild /\ ~named

(* The ModRM byte and the address have been taken, or there are none.      *)
Placed ==
    IF inst_tbl[op].modrm
    THEN fresh /\ addr = head + 1 + AddressBytes(modrm.mod, modrm.rm, modrm.base, rex.b)
    ELSE modrm = NoModrm /\ addr = head

(* The row in hand.                                                        *)
RowInv ==
    /\ at \in {"modrm", "select", "operands"} => op \in 0 .. \h1FF
    /\ at = "modrm" => inst = inst_tbl[op] /\ inst.modrm /\ addr = head
    /\ at = "select" => inst = inst_tbl[op] /\ Placed
    /\ at = "operands" => inst = Selected(op, modrm.reg) /\ inst.group \in Known /\ Placed

DisasmInv == DisasmType /\ EarlyInv /\ RowInv /\ NextInstruction /\ ReadsDefined

(* A call starts in the invariant.                                         *)
LEMMA DisasmInit == DInit => DisasmInv
BY DEF DInit, DisasmInv, DisasmType, EarlyInv, RowInv, NextInstruction, ReadsDefined,
       NoModrm, NoRex, ModrmByte

(* The row in hand when the operands are printed.                          *)
LEMMA OperandsRow ==
    ASSUME DisasmType, RowInv, at = "operands"
    PROVE  SelectedOk(inst, op, modrm.reg)
<1>1. op \in 0 .. \h1FF /\ inst = Selected(op, modrm.reg) /\ inst.group \in Known
  BY DEF RowInv
<1>2. modrm.reg \in 0 .. 7
  BY DEF DisasmType, ModrmByte
<1>3. Selected(op, modrm.reg).group \in Known
  BY <1>1
<1>4. SelectedOk(Selected(op, modrm.reg), op, modrm.reg)
  BY <1>1, <1>2, <1>3, SelectedFacts
<1> QED
  BY <1>1, <1>4

(* The length, for a known instruction with all its bytes taken.           *)
LEMMA Length ==
    ASSUME DisasmInv, at = "operands", NEW z, z = "WORD" <=> size = "WORD"
    PROVE  /\ addr \in Int /\ ModeBytes(inst.mode, z) \in Int
           /\ addr + ModeBytes(inst.mode, z) = head + ProcessorAddress + ProcessorImmediate
                 <=> ~Misread
<1> DEFINE T == ModeBytes(inst.mode, z)
           A == AddrTaken
           PA == ProcessorAddress
           PI == ProcessorImmediate
<1>1. DisasmType /\ RowInv
  BY DEF DisasmInv
<1>2. /\ op \in 0 .. \h1FF /\ modrm.reg \in 0 .. 7 /\ modrm \in ModrmByte
      /\ modrm.rm = 4 \/ modrm.base = 0
      /\ rex.b \in {0, 1} /\ size \in {"LONG", "WORD", "QUAD"} /\ addr \in Int /\ head \in Int
  BY <1>1 DEF DisasmType, RowInv, ModrmByte
<1>3. inst = Selected(op, modrm.reg) /\ inst.group \in Known /\ Placed
  BY <1>1 DEF RowInv
<1>4. SelectedOk(inst, op, modrm.reg)
  BY <1>1, OperandsRow
<1>5. inst_tbl[op].modrm <=> op \in HasModrm
  BY <1>4 DEF SelectedOk
<1>6. op \notin HasModrm => modrm = NoModrm
  BY <1>3, <1>5 DEF Placed
<1>7. addr = head + A
  <2>1. CASE op \in HasModrm
    <3>1. addr = head + 1 + AddressBytes(modrm.mod, modrm.rm, modrm.base, rex.b)
      BY <1>3, <1>5, <2>1 DEF Placed
    <3>2. AddressBytes(modrm.mod, modrm.rm, modrm.base, rex.b) \in Int
      BY <1>2 DEF AddressBytes, ModrmByte
    <3>3. A = 1 + AddressBytes(modrm.mod, modrm.rm, modrm.base, rex.b)
      BY <2>1 DEF AddrTaken
    <3> QED
      BY <1>2, <3>1, <3>2, <3>3
  <2>2. CASE op \notin HasModrm
    BY <1>2, <1>3, <1>5, <2>2 DEF Placed, AddrTaken
  <2> QED
    BY <2>1, <2>2
<1>8. T = TableBytes(op, modrm.reg, z)
  BY <1>4 DEF SelectedOk
<1>9. /\ T \in Int /\ PI \in Int
      /\ T = PI <=> ~MisreadImm
      /\ op \in HasModrm => T - PI \in {0, 1, 3}
      /\ op \in ControlMoves => ~MisreadImm
  BY <1>2, <1>8, Immediates
<1>10. /\ A \in Int /\ PA \in Int
       /\ A = PA <=> ~MisreadAddr
       /\ op \notin ControlMoves => A - PA \in {0, -4}
       /\ op \notin HasModrm => ~MisreadAddr /\ op \notin ControlMoves
  BY <1>2, <1>6, Addresses
<1>11. Misread <=> MisreadImm \/ MisreadAddr
  BY DEF Misread, MisreadImm, MisreadAddr
<1> HIDE DEF T, A, PA, PI
<1>12. addr + T = head + PA + PI <=> A + T = PA + PI
  BY <1>2, <1>7, <1>9, <1>10
<1>13. A + T = PA + PI <=> A = PA /\ T = PI
  <2>1. CASE op \in ControlMoves
    BY <2>1, <1>9, <1>10
  <2>2. CASE op \notin HasModrm
    BY <2>2, <1>9, <1>10
  <2>3. CASE op \in HasModrm /\ op \notin ControlMoves
    <3>1. T - PI \in {0, 1, 3} /\ A - PA \in {0, -4}
      BY <2>3, <1>9, <1>10
    <3> QED
      BY <3>1, <1>9, <1>10
  <2> QED
    BY <2>1, <2>2, <2>3
<1>14. A = PA /\ T = PI <=> ~Misread
  BY <1>9, <1>10, <1>11
<1> QED
  BY <1>2, <1>9, <1>12, <1>13, <1>14 DEF T, PA, PI

(* Prefixes leave everything behind the opcode as it was.                  *)
LEMMA PrefixSteps == DisasmInv /\ (Prefix \/ OperandSize \/ Rex) => DisasmInv'
<1> SUFFICES ASSUME DisasmInv, Prefix \/ OperandSize \/ Rex PROVE DisasmInv'
  OBVIOUS
<1>1. DisasmType /\ EarlyInv
  BY DEF DisasmInv
<1>2. DisasmType'
  <2>1. CASE Prefix
    BY <1>1, <2>1 DEF DisasmType, Prefix
  <2>2. CASE OperandSize
    BY <1>1, <2>2 DEF DisasmType, OperandSize
  <2>3. CASE Rex
    BY <1>1, <2>3 DEF DisasmType, Rex
  <2> QED
    BY <2>1, <2>2, <2>3
<1>3. at' \in {"prefix", "opcode"} /\ at = "prefix"
      /\ modrm' = modrm /\ fresh' = fresh /\ wild' = wild /\ named' = named
  BY DEF Prefix, OperandSize, Rex
<1>4. EarlyInv' /\ RowInv'
  BY <1>1, <1>3 DEF EarlyInv, RowInv
<1>5. NextInstruction' /\ ReadsDefined'
  BY <1>1, <1>3 DEF EarlyInv, NextInstruction, ReadsDefined
<1> QED
  BY <1>2, <1>4, <1>5 DEF DisasmInv

(* A run of nops ends the call without looking at an operand.              *)
LEMMA NopsStep == DisasmInv /\ Nops => DisasmInv'
<1> SUFFICES ASSUME DisasmInv, Nops PROVE DisasmInv'
  OBVIOUS
<1>1. DisasmType /\ EarlyInv
  BY DEF DisasmInv
<1>2. DisasmType'
  BY <1>1, DisasmAssumption DEF DisasmType, Nops
<1>3. EarlyInv' /\ RowInv'
  BY DEF EarlyInv, RowInv, Nops
<1>4. NextInstruction' /\ ReadsDefined'
  BY <1>1 DEF EarlyInv, NextInstruction, ReadsDefined, Nops
<1> QED
  BY <1>2, <1>3, <1>4 DEF DisasmInv

(* The opcode puts its row in hand; without a ModRM byte nothing is left   *)
(* to be placed.                                                           *)
LEMMA OpcodeStep == DisasmInv /\ Opcode => DisasmInv'
<1> SUFFICES ASSUME DisasmInv, Opcode PROVE DisasmInv'
  OBVIOUS
<1>1. DisasmType /\ EarlyInv
  BY DEF DisasmInv
<1>2. /\ op' \in 0 .. \h1FF /\ inst' = inst_tbl[op'] /\ head' = addr'
      /\ addr' = addr + (IF op' > \hFF THEN 2 ELSE 1)
      /\ at' = IF inst'.modrm THEN "modrm" ELSE "select"
      /\ at \in {"prefix", "opcode"}
      /\ UNCHANGED <<size, rex, modrm, fresh, named, wild>>
  BY DEF Opcode
<1>3. DisasmType'
  BY <1>1, <1>2 DEF DisasmType
<1>4. modrm' = NoModrm /\ ~fresh' /\ ~wild' /\ ~named'
  BY <1>1, <1>2 DEF EarlyInv
<1>5. EarlyInv' /\ RowInv'
  BY <1>2, <1>4 DEF EarlyInv, RowInv, Placed
<1>6. NextInstruction' /\ ReadsDefined'
  BY <1>4 DEF NextInstruction, ReadsDefined
<1> QED
  BY <1>3, <1>5, <1>6 DEF DisasmInv

(* The ModRM byte sets the addr_ globals and the length of the address.    *)
LEMMA ModRMStep == DisasmInv /\ ModRM => DisasmInv'
<1> SUFFICES ASSUME DisasmInv, ModRM PROVE DisasmInv'
  OBVIOUS
<1>1. DisasmType /\ EarlyInv /\ RowInv /\ at = "modrm"
  BY DEF DisasmInv, ModRM
<1>2. PICK mod \in 0 .. 3, rm \in {0, 4, 5}, base \in {0, 5},
           reg \in IF inst.group = "none" THEN {0} ELSE 0 .. 7 :
         /\ rm = 4 \/ base = 0
         /\ modrm' = [mod |-> mod, reg |-> reg, rm |-> rm, base |-> base]
         /\ addr' = addr + 1 + AddressBytes(mod, rm, base, rex.b)
  BY DEF ModRM
<1>3. AddressBytes(mod, rm, base, rex.b) \in Int /\ reg \in 0 .. 7
  BY DEF AddressBytes
<1>4. /\ fresh' = TRUE /\ at' = "select"
      /\ UNCHANGED <<size, rex, op, inst, head, named, wild>>
  BY DEF ModRM
<1>5. DisasmType'
  BY <1>1, <1>2, <1>3, <1>4 DEF DisasmType, ModrmByte
<1>6. EarlyInv'
  BY <1>1, <1>4 DEF EarlyInv
<1>7. RowInv'
  <2>1. addr' = head' + 1 + AddressBytes(modrm'.mod, modrm'.rm, modrm'.base, rex'.b)
    BY <1>1, <1>2, <1>4 DEF RowInv
  <2>2. Placed'
    BY <1>1, <1>4, <2>1 DEF RowInv, Placed
  <2> QED
    BY <1>1, <1>4, <2>2 DEF RowInv
<1>8. NextInstruction' /\ ReadsDefined'
  BY <1>1, <1>4 DEF EarlyInv, NextInstruction, ReadsDefined
<1> QED
  BY <1>5, <1>6, <1>7, <1>8 DEF DisasmInv

(* The groups of names.                                                    *)
LEMMA GroupNamesDomain == DOMAIN GroupNames = NameGroups
BY DEF GroupNames, NameGroups

(* A row that goes on to its operands is a known one, and a name is read   *)
(* behind its table only with REX.R.                                       *)
LEMMA SelectStep == DisasmInv /\ Select => DisasmInv'
<1> SUFFICES ASSUME DisasmInv, Select PROVE DisasmInv'
  OBVIOUS
<1> DEFINE index == 8 * rex.r + modrm.reg
<1>1. DisasmType /\ EarlyInv /\ RowInv /\ at = "select"
  BY DEF DisasmInv, Select
<1>2. UNCHANGED <<addr, size, rex, op, modrm, fresh, head>>
  BY DEF Select
<1>3. inst' = Selected(op, modrm.reg)
  <2>1. inst' = IF inst.group \in {"grp3", "grp4", "grp5", "grp7"}
                THEN GroupRow(inst.group, modrm.reg) ELSE inst
    BY DEF Select
  <2> QED
    BY <1>1, <2>1 DEF RowInv, Selected, RowGroups
<1>4. \/ inst'.group = "none" /\ Lookup(TRUE)
      \/ inst'.group \in {"unnamed", "esc"} /\ Lookup(FALSE)
      \/ inst'.group \in NameGroups \cup {"inst0f00"} /\ index > 7 /\ WildName
      \/ /\ inst'.group \in NameGroups \cup {"inst0f00"}
         /\ Lookup(inst'.group # "inst0f00" /\ index \in GroupNames[inst'.group])
  BY GroupNamesDomain DEF Select
<1>5. /\ at' \in {"operands", "done", "fault"}
      /\ at' = "operands" => inst'.group \in Known
      /\ at' = "done" => ~named'
      /\ wild' => index > 7 /\ inst'.group \in NameGroups \cup {"inst0f00"}
  <2>1. ~wild /\ ~named
    BY <1>1 DEF EarlyInv
  <2>2. CASE inst'.group = "none" /\ Lookup(TRUE)
    BY <2>1, <2>2 DEF Lookup, Known
  <2>3. CASE inst'.group \in {"unnamed", "esc"} /\ Lookup(FALSE)
    BY <2>1, <2>3 DEF Lookup
  <2>4. CASE inst'.group \in NameGroups \cup {"inst0f00"} /\ index > 7 /\ WildName
    BY <2>1, <2>4 DEF WildName, Known
  <2>5. CASE /\ inst'.group \in NameGroups \cup {"inst0f00"}
             /\ Lookup(inst'.group # "inst0f00" /\ index \in GroupNames[inst'.group])
    BY <2>1, <2>5 DEF Lookup, Known
  <2> QED
    BY <1>4, <2>2, <2>3, <2>4, <2>5
<1>6. DisasmType'
  BY <1>1, <1>2 DEF DisasmType
<1>7. EarlyInv'
  BY <1>5 DEF EarlyInv
<1>8. RowInv'
  <2>1. Placed'
    BY <1>1, <1>2 DEF RowInv, Placed
  <2> QED
    BY <1>1, <1>2, <1>3, <1>5, <2>1 DEF RowInv
<1>9. NextInstruction'
  BY <1>5 DEF NextInstruction
<1>10. ReadsDefined'
  <2>1. index > 7 => rex.r = 1
    BY <1>1 DEF DisasmType, ModrmByte
  <2> QED
    BY <1>2, <1>5, <2>1, GroupNamesDomain DEF ReadsDefined
<1> QED
  BY <1>6, <1>7, <1>8, <1>9, <1>10 DEF DisasmInv

(* The operands complete the length, and read nothing that is not there    *)
(* but regs in mul to idiv.                                                *)
LEMMA OperandsStep == DisasmInv /\ Operands => DisasmInv'
<1> SUFFICES ASSUME DisasmInv, Operands PROVE DisasmInv'
  OBVIOUS
<1> DEFINE isize == IF rex.on THEN size ELSE inst.size
           bad == (Uses(inst, "R") /\ isize = "NONE") \/ (Uses(inst, "E") /\ ~fresh)
<1>1. DisasmType /\ RowInv /\ ReadsDefined /\ at = "operands"
  BY DEF DisasmInv, Operands
<1>2. /\ addr' = addr + ModeBytes(inst.mode, isize)
      /\ wild' = (wild \/ bad)
      /\ at' \in {"done", "fault"}
      /\ UNCHANGED <<size, rex, op, inst, modrm, fresh, head, named>>
  BY DEF Operands, Uses
<1>3. SelectedOk(inst, op, modrm.reg)
  BY <1>1, OperandsRow
<1>4. isize = "WORD" <=> size = "WORD"
  BY <1>1, <1>3 DEF DisasmType, SelectedOk
<1>5. /\ addr \in Int /\ ModeBytes(inst.mode, isize) \in Int
      /\ addr + ModeBytes(inst.mode, isize) = head + ProcessorAddress + ProcessorImmediate
            <=> ~Misread
  BY <1>1, <1>4, Length
<1>6. DisasmType'
  BY <1>1, <1>2, <1>5 DEF DisasmType
<1>7. EarlyInv' /\ RowInv'
  BY <1>2 DEF EarlyInv, RowInv
<1>8. NextInstruction'
  <2>1. ProcessorAddress' = ProcessorAddress /\ ProcessorImmediate' = ProcessorImmediate
        /\ (Misread' <=> Misread)
    BY <1>2 DEF ProcessorAddress, ProcessorImmediate, Misread, IsTest
  <2>2. addr' = head' + ProcessorAddress' + ProcessorImmediate' <=> ~Misread'
    BY <1>2, <1>5, <2>1
  <2> QED
    BY <2>2 DEF NextInstruction
<1>9. ReadsDefined'
  <2>1. bad => op \in {\hF6, \hF7} /\ modrm.reg \in 4 .. 7 /\ ~rex.on
    <3>1. Uses(inst, "E") => fresh
      BY <1>1, <1>3 DEF SelectedOk, RowInv, Placed
    <3>2. isize = "NONE" => ~rex.on /\ inst.size # "given"
      BY <1>1 DEF DisasmType
    <3> QED
      BY <1>3, <3>1, <3>2 DEF SelectedOk
  <2> HIDE DEF bad
  <2> QED
    BY <1>1, <1>2, <2>1 DEF ReadsDefined
<1> QED
  BY <1>6, <1>7, <1>8, <1>9 DEF DisasmInv

(* The next call.                                                          *)
LEMMA AgainStep == Again => DisasmInv'
BY DEF Again, DisasmInv, DisasmType, EarlyInv, RowInv, NextInstruction, ReadsDefined,
       NoModrm, NoRex, ModrmByte

(* A step that changes nothing.                                            *)
LEMMA DisasmStutter == DisasmInv /\ UNCHANGED dvars => DisasmInv'
<1> SUFFICES ASSUME DisasmInv, UNCHANGED dvars PROVE DisasmInv'
  OBVIOUS
<1>1. /\ at' = at /\ addr' = addr /\ size' = size /\ rex' = rex /\ op' = op /\ inst' = inst
      /\ modrm' = modrm /\ fresh' = fresh /\ head' = head /\ named' = named /\ wild' = wild
  BY DEF dvars, local
<1>2. ProcessorAddress' = ProcessorAddress /\ ProcessorImmediate' = ProcessorImmediate
      /\ (Misread' <=> Misread)
  BY <1>1 DEF ProcessorAddress, ProcessorImmediate, Misread, IsTest
<1>3. NextInstruction' /\ ReadsDefined'
  BY <1>1, <1>2 DEF DisasmInv, NextInstruction, ReadsDefined
<1>4. DisasmType' /\ EarlyInv'
  BY <1>1 DEF DisasmInv, DisasmType, EarlyInv
<1>5. RowInv'
  BY <1>1 DEF DisasmInv, RowInv, Placed
<1> QED
  BY <1>3, <1>4, <1>5 DEF DisasmInv

(* Every step of disasm keeps the invariant.                               *)
LEMMA DisasmNext == DisasmInv /\ [DNext]_dvars => DisasmInv'
BY PrefixSteps, NopsStep, OpcodeStep, ModRMStep, SelectStep, OperandsStep, AgainStep, DisasmStutter
   DEF DNext

(* The invariant holds in every state of disasm, for any number of         *)
(* prefixes and of nops.                                                   *)
THEOREM DisasmInvariance == DisasmSpec => []DisasmInv
BY DisasmInit, DisasmNext, PTL DEF DisasmSpec

(* The address disasm returns is the next instruction's for a known        *)
(* instruction exactly when it is not one of Misread, however many         *)
(* prefixes are in front of it.                                            *)
THEOREM NextInstructionThm == DisasmSpec => []NextInstruction
<1>1. DisasmInv => NextInstruction
  BY DEF DisasmInv
<1> QED
  BY <1>1, DisasmInvariance, PTL

(* disasm reads nothing an earlier call left and nothing behind its tables *)
(* but for the two cases ReadsDefined names.                               *)
THEOREM ReadsDefinedThm == DisasmSpec => []ReadsDefined
<1>1. DisasmInv => ReadsDefined
  BY DEF DisasmInv
<1> QED
  BY <1>1, DisasmInvariance, PTL

=============================================================================
