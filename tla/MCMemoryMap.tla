---------------------------- MODULE MCMemoryMap ----------------------------
(* A small address space: the program at 1 and 2, libcxtrace at 3 with its *)
(* anonymous data at 4, room for data at 5 and 6, libc from 7 on.          *)
EXTENDS MemoryMap

At(lo, hi, perm, path) == [lo |-> lo, hi |-> hi, perm |-> perm, path |-> path]
ElevenPages == 1 .. 11
Program == [p \in ElevenPages |->
              CASE p = 1 -> [perm |-> {"r", "x"}, path |-> "main"]
                [] p = 2 -> [perm |-> {"r", "w"}, path |-> "main"]
                [] OTHER -> Nowhere]
Library == {At(3, 4, {"r", "x"}, "cxtrace"), At(4, 5, {"r", "w"}, ""), At(7, 11, {"r", "x"}, "libc"),
            At(11, 12, {"r"}, "libc")}
Data == {At(5, 6, {"r", "w"}, ""), At(5, 7, {"r", "w"}, ""), At(6, 7, {}, "")}
Loader == Library \cup Data
DataPages == 5 .. 6
UsedPages == {1, 5, 6, 8, 10}
SymbolPages == {{7}, {7, 8}, {8}, {8, 10}, {9}, {10}, {7, 9, 10}}
DataRights == {{"r", "w"}, {"r", "x"}}
CommandLines == [code : BOOLEAN, unprotect : BOOLEAN]
=============================================================================
