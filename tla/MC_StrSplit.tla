----------------------------- MODULE MC_StrSplit -----------------------------
(* Strings of up to five characters over a, b and the default delimiter;  *)
(* lists of up to three words, including the empty word and a word that   *)
(* contains the delimiter; str_join with the string delimiters "//" and   *)
(* "/a".                                                                   *)
EXTENDS StrSplit

MC_Seps == {<<"/", "/">>, <<"/", "a">>}
MC_Words == {<<>>, <<"a">>, <<"a", "b">>, <<"b", "/">>}
=============================================================================
