----------------------------- MODULE MCConsole -----------------------------
(***************************************************************************)
(* Two slots for two sinks, longs of eight bits and ints of four; messages *)
(* with every directive, numbers at the boundaries of their widths.        *)
(***************************************************************************)
EXTENDS Console

Piece(k, s) == [kind |-> k, src |-> s]
Num(k, src, w) == [fmt |-> <<Piece(k, src)>>, params |-> <<<<w>>>>]

D == <<37, 100>>

MCMessages ==
    {[fmt |-> <<Piece("text", <<69, 79>>)>>, params |-> <<>>],                \* "EO"
     [fmt |-> <<Piece("s", <<37, 115>>), Piece("text", <<LF>>)>>,             \* "%s\n"
      params |-> <<<<75>>>>],
     [fmt |-> <<Piece("%%", <<37, 37>>), Piece("c", <<37, 99>>)>>,            \* "%%%c"
      params |-> <<<<65>>>>],
     [fmt |-> <<Piece("unknown", <<37, 113>>), Piece("text", <<69>>)>>,       \* "%qE"
      params |-> <<>>]}
    \cup {[fmt |-> <<Piece("d", D), Piece("ld", D)>>, params |-> <<<<vw[1]>>, <<vw[2]>>>>]
          : vw \in {<<7, 9>>, <<15, 128>>}}
    \cup {Num("ld", D, 246), Num("u", D, 9), Num("lu", D, 255), Num("lx", D, 171)}
    \cup {[fmt |-> <<Piece("b", D), Piece("x", D)>>, params |-> <<<<250>>, <<171>>>>]}

MCChar == Ascii \ {CR, LF}

=============================================================================
