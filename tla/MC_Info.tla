------------------------------ MODULE MC_Info ------------------------------
(* Model-checking instance of Info: keys and values over the characters   *)
(* "a", "b" and the blank.                                                *)
EXTENDS Info

(* Keys and strings that are single words, and doubles with at most      *)
(* Precision significant digits.                                          *)
WordKeys     == {<<"a">>, <<"b">>, <<"a", "b">>}
WordStrings  == {<<"a">>, <<"b", "a">>}
ShortDoubles == {0, 25}

(* Strings that are empty or contain a blank, a key with a blank, and a  *)
(* double with seven significant digits.                                  *)
BlankKeys    == {<<"a">>, <<"a", " ", "b">>}
BlankStrings == {<<>>, <<"a", " ", "b">>}
LongDoubles  == {1234567}

=============================================================================
