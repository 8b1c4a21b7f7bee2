---------------------------- MODULE MCDebugger ----------------------------
(***************************************************************************)
(* A kernel of a few instructions: the first writes a variable, and one    *)
(* may be a breakpoint().                                                  *)
(***************************************************************************)
EXTENDS Debugger

MCTouch == [c \in Code |-> IF c = 1 THEN Data ELSE {}]

=============================================================================
