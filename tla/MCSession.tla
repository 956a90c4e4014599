----------------------------- MODULE MCSession ------------------------------
(* Two endpoints and two listen addresses, one more with spaces.           *)
EXTENDS Session

MCGrpcs == {"mainnet", "own"}
MCListens == {"8765", "9000", " 9000"}
MCSpaced == {" 9000"}
MCTrimmed == [l \in MCSpaced |-> "9000"]
=============================================================================
