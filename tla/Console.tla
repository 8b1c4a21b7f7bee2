------------------------------ MODULE Console ------------------------------
(***************************************************************************)
(* Debug output of the kernel: main's init_dbg_print, the table of         *)
(* character sinks and dbg_msg (debug/dbgio.c), with the serial port as    *)
(* one of the sinks and everything the port does in between.               *)
(***************************************************************************)
EXTENDS Serial, DbgIo, FiniteSetsExt

CONSTANTS
    Sink,      \* functions that may be registered, "serial" among them
    NSlots,    \* DBG_MAX_CHARSINKS
    Messages,  \* the messages dbg_msg is called with: [fmt, params]
    MaxCalls,  \* bound: calls after the port was registered
    MaxMsgs    \* bound: calls of dbg_msg among them

NULL == "NULL"
Wild == "wild"   \* a pointer one byte of which was overwritten

(* A format string, in pieces: [kind, src] where src is how it is spelled. *)
Kinds == {"text", "%%", "c", "s", "d", "ld", "u", "lu", "b", "x", "lx", "unknown"}

TakesParam(piece) == piece.kind \notin {"text", "%%", "unknown"}

(* The parameters the first k pieces of a format take.                     *)
Taken(f, k) == Cardinality({j \in 1 .. k : TakesParam(f[j])})

Ascii == 1 .. 127

Suits(kind, s) ==
    IF kind \in {"c", "s"} THEN s \in Seq(Ascii)
    ELSE Len(s) = 1 /\ s[1] \in 0 .. Word(LongDigits) - 1

ASSUME ConsoleAssumption ==
    /\ "serial" \in Sink /\ NULL \notin Sink /\ Wild \notin Sink
    /\ NSlots \in Nat \ {0} /\ MaxCalls \in Nat /\ MaxMsgs \in Nat

(* Messages are ASCII, and have a parameter for each directive.            *)
ASSUME MessagesAssumption ==
    /\ Ascii \subseteq Char \cup {CR, LF}
    /\ \A m \in Messages :
         /\ m.fmt \in Seq([kind : Kinds, src : Seq(Ascii) \ {<<>>}])
         /\ m.params \in Seq(Seq(Nat))
         /\ \A k \in DOMAIN m.fmt : TakesParam(m.fmt[k]) =>
              /\ Taken(m.fmt, k) <= Len(m.params)
              /\ Suits(m.fmt[k].kind, m.params[Taken(m.fmt, k)])

VARIABLES
    pc,      \* where main is
    sinks,   \* the table of sinks
    fmt,     \* what dbg_internal_print has still to read
    params,  \* its va_list: strings, and words as sequences of one
    text,    \* the rest of the string that is being printed
    slot,    \* the loop of dbg_sinkchr
    i64,     \* toI64StrBuff
    before,  \* what the build has put before toU64StrBuff
    calls,   \* calls so far
    msgs,    \* calls of dbg_msg among them
    owed,    \* history: how often each sink is registered
    wild,    \* history: a store has gone astray
    printed, \* history: characters sunk, with the sinks then registered
    log,     \* history: what each sink other than the port was called with
    sent     \* history: what the open port was called with

out  == <<fmt, params, text, slot, i64>>
hist == <<owed, wild, printed, log, sent>>
mine == <<pc, sinks, out, before, calls, msgs, hist>>
vars == <<svars, mine>>

Slots == 1 .. NSlots

Init ==
    /\ SerialInit
    /\ pc = "boot" /\ sinks = [k \in Slots |-> NULL]
    /\ fmt = <<>> /\ params = <<>> /\ text = <<>> /\ slot = 1
    /\ i64 = ZeroBuff /\ before \in {"padding", "sinks"} /\ calls = 0 /\ msgs = 0
    /\ owed = [s \in Sink |-> 0] /\ wild = FALSE
    /\ printed = <<>> /\ log = [s \in Sink |-> <<>>] /\ sent = <<>>

-----------------------------------------------------------------------------
First(s) == CHOOSE k \in Slots : sinks[k] = s /\ \A j \in 1 .. k - 1 : sinks[j] # s

(* The first free slot, or -EBUSY.                                         *)
dbg_register_sink(s) ==
    IF \E k \in Slots : sinks[k] = NULL
    THEN /\ sinks' = [sinks EXCEPT ![First(NULL)] = s]
         /\ owed' = [owed EXCEPT ![s] = @ + 1]
    ELSE UNCHANGED <<sinks, owed>>

(* One registration of the sink, if there is any.                          *)
dbg_unregister_sink(s) ==
    IF \E k \in Slots : sinks[k] = s
    THEN /\ sinks' = [sinks EXCEPT ![First(s)] = NULL]
         /\ owed' = [owed EXCEPT ![s] = @ - 1]
    ELSE UNCHANGED <<sinks, owed>>

-----------------------------------------------------------------------------
Raw(f) == FlattenSeq([k \in DOMAIN f |-> f[k].src])

(* What a piece of the format prints, for the parameter s.                 *)
Convert(piece, s) ==
    LET p == Head(s) IN
    CASE piece.kind = "text"    -> piece.src
      [] piece.kind = "%%"      -> Tail(piece.src)
      [] piece.kind = "c"       -> s
      [] piece.kind = "s"       -> s
      [] piece.kind = "d"       -> Str(s64_to_str(i64, Signed(p, IntDigits)))
      [] piece.kind = "ld"      -> Str(s64_to_str(i64, Signed(p, LongDigits)))
      [] piece.kind = "u"       -> Str(u64_to_str(ZeroBuff, p % Word(IntDigits)))
      [] piece.kind = "lu"      -> Str(u64_to_str(ZeroBuff, p))
      [] piece.kind = "b"       -> hstr(p % Word(ByteDigits), ByteDigits)
      [] piece.kind = "x"       -> hstr(p % Word(IntDigits), IntDigits)
      [] piece.kind = "lx"      -> hstr(p, LongDigits)
      [] piece.kind = "unknown" -> Raw(fmt)

Running == pc \notin {"crashed", "halted"} /\ drv = "idle"

Printing == fmt # <<>> \/ text # <<>>

(* The next piece of the format.  An unknown directive prints all the rest *)
(* as it is spelled.                                                       *)
NextPiece ==
    /\ Running /\ text = <<>> /\ fmt # <<>>
    /\ LET piece == Head(fmt)
           s     == IF TakesParam(piece) THEN Head(params) ELSE <<0>>
           p     == Head(s)
           stray == /\ piece.kind \in {"u", "lu"}
                    /\ u64_to_str(ZeroBuff, IF piece.kind = "u" THEN p % Word(IntDigits) ELSE p)[-1] # 0
       IN /\ text' = Convert(piece, s)
          /\ params' = IF TakesParam(piece) THEN Tail(params) ELSE params
          /\ fmt' = IF piece.kind = "unknown" THEN <<>> ELSE Tail(fmt)
          /\ i64' = CASE piece.kind = "d"  -> s64_to_str(i64, Signed(p, IntDigits))
                      [] piece.kind = "ld" -> s64_to_str(i64, Signed(p, LongDigits))
                      [] OTHER             -> i64
          /\ sinks' = IF stray /\ before = "sinks" THEN [sinks EXCEPT ![NSlots] = Wild] ELSE sinks
          /\ wild' = (wild \/ stray)
    /\ slot' = 1
    /\ UNCHANGED <<svars, pc, before, calls, msgs, owed, printed, log, sent>>

(* Mutant: the loop stops behind the first sink.                           *)
MutFirstOnly == IF slot = 1 THEN {k \in Slots : sinks[k] # NULL} ELSE {}

(* The slots dbg_sinkchr has still to call with the character.             *)
SlotsLeft == {k \in Slots : k >= slot /\ sinks[k] # NULL}

(* dbg_sinkchr: every slot in turn is called with the character.           *)
CallSink ==
    /\ Running /\ text # <<>> /\ SlotsLeft # {}
    /\ LET k == Min(SlotsLeft) IN
       /\ slot' = k + 1
       /\ CASE sinks[k] = Wild -> pc' = "crashed" /\ UNCHANGED <<svars, log, sent>>
            [] sinks[k] = "serial" ->
                 /\ dbg_serial_putc(Head(text))
                 /\ sent' = IF initialized THEN Append(sent, Head(text)) ELSE <<Head(text)>>
                 /\ UNCHANGED <<pc, log>>
            [] OTHER -> /\ log' = [log EXCEPT ![sinks[k]] = Append(@, Head(text))]
                        /\ UNCHANGED <<svars, pc, sent>>
    /\ UNCHANGED <<sinks, fmt, params, text, i64, before, calls, msgs, owed, wild, printed>>

CharDone ==
    /\ Running /\ text # <<>> /\ SlotsLeft = {}
    /\ text' = Tail(text) /\ slot' = 1
    /\ printed' = Append(printed, [c |-> Head(text), to |-> owed])
    /\ UNCHANGED <<svars, pc, sinks, fmt, params, i64, before, calls, msgs, owed, wild, log, sent>>

-----------------------------------------------------------------------------
(* init_dbg_print: the port is initialised, successfully or not, and made  *)
(* a sink.                                                                 *)
InitPort ==
    /\ pc = "boot" /\ pc' = "register"
    /\ dbg_serial_init
    /\ UNCHANGED <<sinks, out, before, calls, msgs, hist>>

RegisterPort ==
    /\ pc = "register" /\ drv = "idle" /\ pc' = "run"
    /\ dbg_register_sink("serial")
    /\ UNCHANGED <<svars, out, before, calls, msgs, wild, printed, log, sent>>

Ready == pc = "run" /\ ~Printing /\ drv = "idle" /\ calls < MaxCalls

dbg_msg ==
    /\ Ready /\ calls' = calls + 1 /\ msgs < MaxMsgs /\ msgs' = msgs + 1
    /\ \E m \in Messages : fmt' = m.fmt /\ params' = m.params
    /\ UNCHANGED <<svars, pc, sinks, text, slot, i64, before, hist>>

ChangeSinks ==
    /\ Ready /\ calls' = calls + 1
    /\ \E s \in Sink : dbg_register_sink(s) \/ dbg_unregister_sink(s)
    /\ UNCHANGED <<svars, pc, out, before, msgs, wild, printed, log, sent>>

ReadKey ==
    /\ Ready /\ calls' = calls + 1
    /\ dbg_serial_getc
    /\ sent' = IF initialized THEN sent ELSE <<>>
    /\ UNCHANGED <<pc, sinks, out, before, msgs, owed, wild, printed, log>>

(* main is done, or panic has printed its message: the processor halts.    *)
Exit ==
    /\ pc = "run" /\ ~Printing /\ drv = "idle" /\ pc' = "halted"
    /\ UNCHANGED <<svars, sinks, out, before, calls, msgs, hist>>

Driver == DriverStep /\ UNCHANGED mine

Kernel == \/ NextPiece \/ CallSink \/ CharDone \/ Driver
          \/ InitPort \/ RegisterPort \/ dbg_msg \/ ChangeSinks \/ ReadKey \/ Exit

Port == Uart /\ UNCHANGED mine
User == Type /\ UNCHANGED mine

(* The kernel has stopped, or waits for a user who types no more.          *)
Stopped ==
    /\ pc \in {"halted", "crashed"} \/ (drv = "read" /\ rx = <<>> /\ typed = MaxTyped)
    /\ UNCHANGED vars

Next == Kernel \/ Port \/ User \/ Stopped

Spec == Init /\ [][Next]_vars /\ WF_vars(Kernel) /\ WF_vars(Port)

-----------------------------------------------------------------------------
Stream == INSTANCE CharStream WITH
    open <- initialized,
    out  <- IF initialized THEN line \o shift \o fifo ELSE <<>>,
    in   <- IF initialized THEN rx ELSE <<>>

(* The driver makes the UART a stream of characters (CharStream): once the *)
(* port is open, whatever the failed loopback tests before that left in    *)
(* the queues and the shift register, what is put is on the line or on its *)
(* way in order, what is typed is read in order, nothing else is, apart    *)
(* from one byte of noise in each direction.                               *)
ImplementsStream == Stream!SSpec

Crlf(s) == FlattenSeq([k \in DOMAIN s |-> IF s[k] = LF THEN <<CR, LF>> ELSE <<s[k]>>])

(* The characters a sink is to be called with, up to this moment: those    *)
(* printed, each as often as the sink was registered then.                 *)
Due(s) ==
    FlattenSeq([k \in DOMAIN printed |-> [j \in 1 .. printed[k].to[s] |-> printed[k].c]])
    \o (IF text = <<>> THEN <<>>
        ELSE [j \in 1 .. Cardinality({k \in Slots : k < slot /\ sinks[k] = s}) |-> Head(text)])

(* As long as no store has hit the table of sinks: every sink gets every   *)
(* character once for each of its registrations that was accepted and not  *)
(* taken back, whatever the order of registrations, also when the table    *)
(* was full in between; the open port gets all of them from the one that   *)
(* opened it on.                                                           *)
SinksServed ==
    ~(wild /\ before = "sinks") =>
        /\ \A s \in Sink \ {"serial"} : log[s] = Due(s)
        /\ initialized => IsSuffix(sent, Due("serial"))

(* What the port was called with since it opened is what is on the line,   *)
(* with a carriage return before each line feed, apart from one byte of    *)
(* noise; no character is lost or doubled by the retries of the loopback   *)
(* test.                                                                   *)
Delivered ==
    initialized =>
        \E n \in Stream!Stray : line \o shift \o fifo \o todo = n \o Crlf(sent)

(* A directive prints the numeral of its parameter, except the smallest    *)
(* long number, which the conversion leaves with old digits of the buffer. *)
Rendered ==
    [][fmt # <<>> /\ fmt' # fmt =>
         LET kind == Head(fmt).kind
             p    == Head(Head(params))
             v    == Signed(p, IF kind = "d" THEN IntDigits ELSE LongDigits)
         IN  CASE kind \in {"d", "ld"} -> -2 * v = Word(LongDigits) \/ IsSigned(text', v)
               [] kind = "u"  -> IsDecimal(text', p % Word(IntDigits))
               [] kind = "lu" -> IsDecimal(text', p)
               [] kind = "b"  -> IsHex(text', p % Word(ByteDigits), ByteDigits)
               [] kind = "x"  -> IsHex(text', p % Word(IntDigits), IntDigits)
               [] kind = "lx" -> IsHex(text', p, LongDigits)
               [] OTHER -> TRUE]_vars

(* dbg_serial_putc returns: neither the loopback test nor the wait for the *)
(* transmitter keeps the kernel for ever.                                  *)
PutReturns == (call = "put" /\ drv # "idle") ~> drv = "idle"

=============================================================================
