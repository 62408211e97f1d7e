---------------------------- MODULE MCTextSocket ----------------------------
(***************************************************************************)
(* Instances of TextSocket for TLC: a separator of two characters, lines   *)
(* and texts that are empty, or hold a part of it.                         *)
(***************************************************************************)
EXTENDS TextSocket

CRLF == <<"cr", "nl">>
SomeLines == {<<>>, <<"x">>, <<"x", "cr">>}
\* Each ends with a newline.
SomeTexts == {<<"x", "nl">>, <<"nl", "x", "nl">>}

ASSUME TextsAssumption == WholeTexts
=============================================================================
