----------------------------- MODULE ApiContract -----------------------------
(***************************************************************************)
(* What the wallet API promises to those who call it, and no more.         *)
(*                                                                         *)
(* A request is refused, or the wallet works on it at most once and alone. *)
(* The caller hears the outcome of the work on its own request, after that *)
(* work has ended, or loses the connection; a lost connection tells it     *)
(* nothing: the work may have ended, may be under way, or may still begin. *)
(***************************************************************************)
CONSTANT Requests

VARIABLES
  caller,  \* what the caller of each request knows
  work     \* what the wallet has done about it

vars == <<caller, work>>

Init ==
  /\ caller = [r \in Requests |-> "idle"]
  /\ work = [r \in Requests |-> "none"]

Waiting == {r \in Requests : caller[r] = "waiting"}

(* The callers in S are told so.                                           *)
Told(S, news) == caller' = [r \in Requests |-> IF r \in S THEN news ELSE caller[r]]

Ask(r) ==
  /\ caller[r] = "idle"
  /\ Told({r}, "waiting")
  /\ UNCHANGED work

(* The caller is told at once that nothing will be done.                   *)
Refuse(r) ==
  /\ caller[r] = "idle"
  /\ Told({r}, "refused")
  /\ UNCHANGED work

(* Some callers lose their connections, whatever has become of their work. *)
Lose(S) ==
  /\ S # {}
  /\ S \subseteq Waiting
  /\ Told(S, "lost")
  /\ UNCHANGED work

Begin(r) ==
  /\ caller[r] \in {"waiting", "lost"}
  /\ work[r] = "none"
  /\ \A q \in Requests : work[q] # "running"
  /\ work' = [work EXCEPT ![r] = "running"]
  /\ UNCHANGED caller

End(r, outcome) ==
  /\ work[r] = "running"
  /\ work' = [work EXCEPT ![r] = outcome]
  /\ Told({r} \cap Waiting, outcome)

(* The program ends: what runs is cut off, who waits hears nothing.        *)
Close ==
  /\ work' = [r \in Requests |-> IF work[r] = "running" THEN "cut" ELSE work[r]]
  /\ Told(Waiting, "lost")

Next ==
  \/ \E r \in Requests : Ask(r) \/ Refuse(r) \/ Begin(r)
  \/ \E r \in Requests, outcome \in {"ok", "error"} : End(r, outcome)
  \/ \E S \in SUBSET Requests : Lose(S)
  \/ Close

Spec == Init /\ [][Next]_vars
=============================================================================
