------------------------------ MODULE MCBlockFs ------------------------------
(* Instance of BlockFs for TLC: blocks of two words, so an indirect block has *)
(* two pointers, and names whose entries take one word or two.                *)
EXTENDS BlockFs

MCBlocks == 4 .. 9
MCInodes == 0 .. 2
MCNames == {"a", "b"}
MCEntryLen == [name \in MCNames \cup {".", ".."} |-> IF name = "b" THEN 2 ELSE 1]
MCWrites == {<<5, 2>>, <<17, 2>>}
MCSizes == {1, 17}
MCLookalikes == {<<0, 1, <<"entry", 2, "b", "file">> >>}
=============================================================================
