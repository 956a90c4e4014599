------------------------------ MODULE MCReports ------------------------------
(* Reports with 16 nicks to the NOCK and two decimals: as with 65536 and   *)
(* eight, a nick is many times the last decimal.  The balances reach past  *)
(* 100 NOCK, whose text ends in zeros before the point.                    *)
EXTENDS Reports

FewLines == 5
Hundred == 1700
=============================================================================
