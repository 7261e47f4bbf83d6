---- MODULE MCKeyboardSpool ----
(***************************************************************************)
(* KeyboardSpool for TLC: two calls of two lines each, a spool and a ring  *)
(* that are both shorter than the text.                                    *)
(***************************************************************************)
EXTENDS KeyboardSpool

TwoLines == <<"c", "r", "c", "r">>
====
