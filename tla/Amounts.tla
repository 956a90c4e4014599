------------------------------- MODULE Amounts -------------------------------
(***************************************************************************)
(* Amounts of money: what the wallet counts in nicks is shown, and typed,  *)
(* in NOCK.                                                                *)
(*                                                                         *)
(* A text is the number its digits spell and how many of them follow the   *)
(* point.  Numbers are exact: the code computes in f64, which is exact for *)
(* what it divides (NicksPerNock is a power of two) and off by less than   *)
(* the last decimal below 2^52 nicks.                                      *)
(***************************************************************************)
EXTENDS Naturals, FiniteSetsExt

CONSTANTS
  NicksPerNock,  \* 65536
  Decimals,      \* decimals an amount is formatted with: 8
  MaxNicks       \* the largest u64

(* What a text with p decimals counts to the NOCK: 10^p.                   *)
Scale[p \in 0 .. Decimals] == IF p = 0 THEN 1 ELSE 10 * Scale[p - 1]

ASSUME AmountsAssumption ==
  /\ NicksPerNock \in Nat \ {0} /\ Decimals \in Nat /\ MaxNicks \in Nat
  /\ NicksPerNock < Scale[Decimals]

AmountText == [num : Nat, places : 0 .. Decimals]

(* f64::round on positive numbers, and what {:.8} does to a tie.           *)
RoundUp(num, den) == (2 * num + den) \div (2 * den)
RoundEven(num, den) ==
  LET up == RoundUp(num, den)
  IN  IF (2 * num + den) % (2 * den) = 0 /\ up % 2 = 1 THEN up - 1 ELSE up

(* Mutant: zeros are taken off a text without a point, too.                *)
TrimPastPoint(t) ==
  IF t.num = 0 THEN t
  ELSE LET zeros == CHOOSE z \in 0 .. t.num :
             t.num % 10^z = 0 /\ t.num % 10^(z + 1) # 0
       IN  [num |-> t.num \div 10^zeros,
            places |-> IF zeros < t.places THEN t.places - zeros ELSE 0]

(* The zeros at the end of the decimals are taken off.                     *)
Trim(t) ==
  LET exact == {p \in 0 .. t.places : t.num % Scale[t.places - p] = 0}
  IN  [num |-> t.num \div Scale[t.places - Min(exact)], places |-> Min(exact)]

(* format_nock_from_nicks and format_nock_display.                         *)
FormatNock(nicks) ==
  Trim([num |-> RoundEven(nicks * Scale[Decimals], NicksPerNock), places |-> Decimals])

(* A typed amount is refused when it comes to nothing.                     *)
Refused == 0

(* parse_nock_amount_to_nicks: the cast to u64 saturates.                  *)
ParseNock(t) ==
  LET nicks == RoundUp(t.num * NicksPerNock, Scale[t.places])
  IN  IF nicks > MaxNicks THEN MaxNicks ELSE nicks
=============================================================================
