------------------------------ MODULE Serial ------------------------------
(***************************************************************************)
(* The debug serial port: dbg_serial_init, dbg_serial_putc and             *)
(* dbg_serial_getc (dbg_serial.c) against a UART with transmit and receive *)
(* queues that moves bytes at its own pace, and a terminal that types at   *)
(* any time.  A call is made by setting drv; it is over when drv is "idle" *)
(* again.                                                                  *)
(***************************************************************************)
EXTENDS Integers, Sequences, SequencesExt

CONSTANTS
    Char,     \* characters, besides CR and LF
    Key,      \* the characters the user types
    CR, LF,   \* '\r' and '\n'
    Zero,     \* the character 0
    Test,     \* 0xAE, the byte of the loopback test
    Broken,   \* a byte that was cut by a change of the loopback mode
    RxCap,    \* bytes the receive queue holds
    MaxTyped  \* bound: characters typed

Noise == {Test, Broken}

ASSUME SerialAssumption ==
    /\ Noise \cap (Char \cup {CR, LF, Zero}) = {} /\ Key \subseteq Char \cup {CR}
    /\ CR # LF /\ RxCap \in Nat \ {0} /\ MaxTyped \in Nat

VARIABLES
    initialized, \* dbg_serial_initialized
    drv,         \* where the driver is: "idle" between calls
    call,        \* the call: "init", "put" or "get"
    todo,        \* what dbg_serial_putc still has to send
    got,         \* what dbg_serial_getc returned last
    loop,        \* the UART's loopback mode
    fifo,        \* its transmit queue
    shift,       \* its transmit shift register: at most one byte
    rx,          \* its receive queue
    line,        \* history: bytes on the line since the port is open
    typed        \* characters typed so far

driver == <<initialized, drv, call, todo, got>>
uart   == <<loop, fifo, shift, rx, line>>
svars  == <<driver, uart, typed>>

(* The firmware may have left a byte to send behind.                       *)
SerialInit ==
    /\ initialized = FALSE /\ drv = "idle" /\ call = "init" /\ todo = <<>>
    /\ got = Zero
    /\ loop = FALSE /\ fifo \in {<<>>, <<Broken>>} /\ shift = <<>>
    /\ rx = <<>> /\ line = <<>> /\ typed = 0

-----------------------------------------------------------------------------
(* The UART.                                                               *)
Load ==
    /\ shift = <<>> /\ fifo # <<>>
    /\ shift' = <<Head(fifo)>> /\ fifo' = Tail(fifo)
    /\ UNCHANGED <<driver, loop, rx, line, typed>>

(* A byte that finds the receive queue full is lost.                       *)
Receive(s) == IF Len(rx) < RxCap THEN rx \o s ELSE rx

Transmit ==
    /\ shift # <<>> /\ shift' = <<>>
    /\ IF loop THEN rx' = Receive(shift) /\ UNCHANGED line
       ELSE line' = (IF initialized THEN line \o shift ELSE line) /\ UNCHANGED rx
    /\ UNCHANGED <<driver, loop, fifo, typed>>

Uart == Load \/ Transmit

(* The user types; in loopback mode the line is not connected.             *)
Type ==
    /\ typed < MaxTyped /\ typed' = typed + 1
    /\ \E c \in Key : rx' = IF loop THEN rx ELSE Receive(<<c>>)
    /\ UNCHANGED <<driver, loop, fifo, shift, line>>

(* Entering or leaving the loopback mode while a byte is being shifted.    *)
Cut == {shift} \cup (IF shift = <<>> THEN {} ELSE {<<>>, <<Broken>>})

-----------------------------------------------------------------------------
(* A call that finds the port open returns, sends or reads at once.        *)
Begin(k) ==
    drv' = IF ~initialized THEN "config"
           ELSE CASE k = "init" -> "idle" [] k = "put" -> "send" [] k = "get" -> "read"

(* Mutant: the carriage return follows the line feed.                      *)
MutSwapped(c) == IF c = LF THEN <<LF, CR>> ELSE <<c>>

Expand(c) == IF c = LF THEN <<CR, LF>> ELSE <<c>>

dbg_serial_init ==
    /\ drv = "idle" /\ Begin("init") /\ call' = "init"
    /\ UNCHANGED <<initialized, todo, got, uart, typed>>

dbg_serial_putc(c) ==
    /\ drv = "idle" /\ Begin("put") /\ call' = "put" /\ todo' = Expand(c)
    /\ UNCHANGED <<initialized, got, uart, typed>>

dbg_serial_getc ==
    /\ drv = "idle" /\ Begin("get") /\ call' = "get"
    /\ UNCHANGED <<initialized, todo, got, uart, typed>>

(* Mutant: the queues are not cleared.                                     *)
MutKeepQueues ==
    /\ drv = "config" /\ drv' = "loop"
    /\ UNCHANGED <<initialized, call, todo, got, uart, typed>>

(* Interrupts off, baud rate, line format; 0xC7 clears both queues.        *)
Configure ==
    /\ drv = "config" /\ drv' = "loop"
    /\ fifo' = <<>> /\ rx' = <<>>
    /\ UNCHANGED <<initialized, call, todo, got, loop, shift, line, typed>>

EnterLoop ==
    /\ drv = "loop" /\ drv' = "probe"
    /\ loop' = TRUE
    /\ shift' \in IF loop THEN {shift} ELSE Cut
    /\ UNCHANGED <<initialized, call, todo, got, fifo, rx, line, typed>>

SendTest ==
    /\ drv = "probe" /\ drv' = "test"
    /\ fifo' = Append(fifo, Test)
    /\ UNCHANGED <<initialized, call, todo, got, loop, shift, rx, line, typed>>

Echoed == rx # <<>> /\ Head(rx) = Test

(* Mutant: a failed test is repeated until it passes.                      *)
MutRetry ==
    /\ ~Echoed
    /\ rx' = IF rx = <<>> THEN rx ELSE Tail(rx)
    /\ drv' = IF call = "init" THEN "idle" ELSE "config"
    /\ UNCHANGED <<initialized, call, todo, got, loop, fifo, shift, line>>

(* The receive buffer is read at once.  An empty one gives 0 or what was   *)
(* read before, which is not the test byte: that would have ended the test.*)
TestFails ==
    /\ ~Echoed
    /\ rx' = IF rx = <<>> THEN rx ELSE Tail(rx)
    /\ drv' = "idle" /\ todo' = <<>>
    /\ got' = IF call = "get" THEN Zero ELSE got
    /\ UNCHANGED <<initialized, call, loop, fifo, shift, line>>

TestPasses ==
    /\ Echoed
    /\ rx' = Tail(rx)
    /\ loop' = FALSE /\ shift' \in Cut
    /\ initialized' = TRUE
    /\ drv' = CASE call = "init" -> "idle" [] call = "put" -> "send"
                [] call = "get" -> "read"
    /\ UNCHANGED <<call, todo, got, fifo, line>>

LoopTest == drv = "test" /\ (TestFails \/ TestPasses) /\ UNCHANGED typed

(* dbg_serial_is_tx_empty was waited for: the transmit queue is empty.     *)
Send ==
    /\ drv = "send" /\ fifo = <<>>
    /\ fifo' = <<Head(todo)>> /\ todo' = Tail(todo)
    /\ drv' = IF Tail(todo) = <<>> THEN "idle" ELSE "send"
    /\ UNCHANGED <<initialized, call, got, loop, shift, rx, line, typed>>

(* dbg_serial_is_rx_avail was waited for.                                  *)
Read ==
    /\ drv = "read" /\ rx # <<>>
    /\ got' = Head(rx) /\ rx' = Tail(rx)
    /\ drv' = "idle"
    /\ UNCHANGED <<initialized, call, todo, loop, fifo, shift, line, typed>>

DriverStep == Configure \/ EnterLoop \/ SendTest \/ LoopTest \/ Send \/ Read

=============================================================================
