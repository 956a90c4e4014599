------------------------------ MODULE MCNnsBuy ------------------------------
(* Two names, three texts that pass (two for one name, as "a" and "a.nock" *)
(* are) and the empty text, which does not.                                *)
EXTENDS NnsBuy

MCTexts == {"", "a", "a.nock", "b"}
MCNames == {"A", "B"}
MCCanonical == [t \in MCTexts |-> CASE t = "" -> "none" [] t = "b" -> "B" [] OTHER -> "A"]

FewSearches == 3   \* search, search for something else, register
FewFetches == 3    \* one in flight and the two a key may add
=============================================================================
