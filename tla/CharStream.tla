----------------------------- MODULE CharStream -----------------------------
(***************************************************************************)
(* What the debug serial port promises (dbg_serial.h): once it is open, a  *)
(* stream of bytes in both directions, in order and without loss but for   *)
(* what arrives while the receive queue is full.                           *)
(***************************************************************************)
EXTENDS Integers, Sequences

CONSTANTS
    Char,   \* the characters the kernel writes and the user types
    CR, LF, \* '\r' and '\n'
    Zero,   \* what reading a port that is not open returns
    Noise,  \* what may be in the queues when the port opens
    RxCap   \* bytes the receive queue holds

VARIABLES
    open, \* whether the port is open
    out,  \* bytes written since then
    in,   \* bytes that can be read
    got   \* what the last read returned

svars == <<open, out, in, got>>

SInit == open = FALSE /\ out = <<>> /\ in = <<>> /\ got = Zero

(* Each direction may start with one byte nobody sent.                     *)
Stray == {<<>>} \cup {<<b>> : b \in Noise}

SOpen ==
    /\ ~open /\ open' = TRUE
    /\ out' \in Stray /\ in' \in Stray
    /\ UNCHANGED got

(* A line feed follows a carriage return.                                  *)
SPut ==
    /\ open /\ out' # out
    /\ \E c \in Char \cup {CR, LF} :
         /\ c = LF => out # <<>> /\ out[Len(out)] = CR
         /\ out' = Append(out, c)
    /\ UNCHANGED <<open, in, got>>

SType ==
    /\ open /\ Len(in) < RxCap /\ in' # in
    /\ \E c \in Char \cup {CR, LF} : in' = Append(in, c)
    /\ UNCHANGED <<open, out, got>>

SGet ==
    /\ open /\ in # <<>>
    /\ in' = Tail(in) /\ got' = Head(in)
    /\ UNCHANGED <<open, out>>

SRefuse ==
    /\ ~open /\ got' = Zero
    /\ UNCHANGED <<open, out, in>>

SNext == SOpen \/ SPut \/ SType \/ SGet \/ SRefuse

SSpec == SInit /\ [][SNext]_svars

=============================================================================
