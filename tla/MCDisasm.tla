------------------------------ MODULE MCDisasm ------------------------------
(***************************************************************************)
(* Every opcode and every form of the ModRM byte, with every REX prefix    *)
(* and up to two others.                                                   *)
(***************************************************************************)
EXTENDS Disasm

=============================================================================
