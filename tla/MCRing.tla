------------------------------- MODULE MCRing -------------------------------
(* A table of four slots, commands of three lengths, positions to the end  *)
(* of the longest content and beyond it.                                   *)
EXTENDS FindEntryLoop

MCByte       == {"a", "n"}
MCCommand    == {<<"n">>, <<"a", "n">>, <<"a", "a", "n">>}
MCCharOffset == 0 .. 13
=============================================================================
