---------------------------- MODULE MCSendSimple ----------------------------
(* SendSimple with two valid field texts and short behaviours.             *)
EXTENDS SendSimple

FewPlans == 3
FewJobs == 2
=============================================================================
