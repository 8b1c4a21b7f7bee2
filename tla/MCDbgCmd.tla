------------------------------ MODULE MCDbgCmd ------------------------------
(***************************************************************************)
(* A buffer of six bytes, longs of four bits, and commands with names of   *)
(* one character: x, a disasm, a reg and a hbp.                            *)
(***************************************************************************)
EXTENDS DbgCmd, TLC

MCNames == <<"x">> :> "x" @@ <<"8">> :> "disasm" @@ <<"0">> :> "reg" @@ <<"-">> :> "hbp"

MCDigits == "0" :> 0 @@ "8" :> 8 @@ "x" :> 99 @@ "-" :> 99

MCAfter == {<<"8", NUL>>, <<SP, "x", NUL>>}

=============================================================================
