----------------------------- MODULE MCBootInfo -----------------------------
(***************************************************************************)
(* Six pool blocks, one more than are needed, and no, one or two sections. *)
(***************************************************************************)
EXTENDS BootInfo

MCSectionLists == {<<>>, <<"text">>, <<"text", "data">>}

=============================================================================
