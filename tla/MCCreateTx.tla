---------------------------- MODULE MCCreateTx -----------------------------
(* An amount in two spellings, nothing, zero, an address, and a list with  *)
(* a comma too many that is also too long for a memo.                      *)
EXTENDS CreateTx

MCLines == {"", "0", "5", "05", "addr", "addr,"}
MCNumbers == {"0", "5", "05"}
MCDecimal == [n \in MCNumbers |-> IF n = "05" THEN "5" ELSE n]
MCKeys == [l \in MCLines |-> IF l = "addr," THEN "addr" ELSE l]
MCBase58 == {"addr"}
MCTooLong == {"addr,"}
=============================================================================
