----------------------------- MODULE MCConsole -----------------------------
(* Texts for Console: one letter, commands of one and two letters.         *)
EXTENDS Console

CONSTANT a

help == <<a, a>>
clear == <<a>>
TwoLines == <<<<"h">>, <<"e">>>>
Greeting == <<<<"b", "a", "n", "n", "e", "r">>>>
Unknown == <<"c", "d">>
TextChars == Keys \cup {"h", "e", "b", "a", "n", "r", "c", "d"}
=============================================================================
