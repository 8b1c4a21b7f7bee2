----------------------------- MODULE MCElfLoad -----------------------------
(***************************************************************************)
(* Small binaries: two segments around a note, the same in reverse order   *)
(* of the file, a segment with the headers of the file in it, one segment  *)
(* of zeroes only, one with more cells in the file than in memory, a file  *)
(* that is cut off in its first segment, one that is cut off before its    *)
(* second, and one that is no ELF binary.                                  *)
(***************************************************************************)
EXTENDS ElfLoad

Text == [load |-> TRUE, offset |-> 4, filesz |-> 2, memsz |-> 2]
Data == [load |-> TRUE, offset |-> 6, filesz |-> 1, memsz |-> 3]
Bss  == [load |-> TRUE, offset |-> 4, filesz |-> 0, memsz |-> 1]
Note == [load |-> FALSE, offset |-> 4, filesz |-> 1, memsz |-> 1]

First == [load |-> TRUE, offset |-> 0, filesz |-> 4, memsz |-> 4]
Over == [load |-> TRUE, offset |-> 4, filesz |-> 3, memsz |-> 1]

Binary(v, h, n) == [valid |-> v, ehsize |-> 1, phoff |-> 1, phdrs |-> h, eof |-> n]

MCFiles == {Binary(TRUE, <<Text, Note, Data>>, 9), Binary(TRUE, <<Data, Text>>, 9),
            Binary(TRUE, <<First, Text>>, 7), Binary(TRUE, <<Bss>>, 9),
            Binary(TRUE, <<Over, Text>>, 9), Binary(TRUE, <<Text, Bss>>, 5),
            Binary(TRUE, <<Text, Data>>, 5), Binary(FALSE, <<Bss>>, 9)}

=============================================================================
