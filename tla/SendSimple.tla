----------------------------- MODULE SendSimple -----------------------------
(***************************************************************************)
(* The simple send flow and the create-tx flows beside it.                 *)
(*                                                                         *)
(* The form asks the API's planner for a preview; when the answer arrives  *)
(* the user reviews it and sends.  Keys are ignored while the planner or a *)
(* command runs, but a bracketed paste goes to the focused field in every  *)
(* phase.  What is sent is what the screen holds at that moment.           *)
(*                                                                         *)
(* Abstractions.  A field's text is one of Texts or Bad, which stands for  *)
(* every text validate_send refuses; status lines, cursors and scrolling   *)
(* are left out.  A preview is the request it was planned for.  "Menu" is  *)
(* every other route, "Wizard" the step-by-step create-tx screen; commands *)
(* other than create-tx belong to HomeRefresh, behaviours start past the   *)
(* splash screen.                                                          *)
(***************************************************************************)
EXTENDS Naturals, Sequences, FiniteSets

CONSTANTS
  Texts,     \* field texts that pass validation
  Bad,       \* every other text
  MaxPlans,  \* bound on the plan requests of a behaviour
  MaxJobs    \* bound on the commands of a behaviour

ASSUME BadAssumption == Bad \notin Texts
ASSUME BoundsAssumption == MaxPlans \in Nat /\ MaxJobs \in Nat

VARIABLES
  screen,    \* the active route
  form,      \* the fields of Screen::SendSimple, EmptyForm on other routes
  plans,     \* plan requests and answers not yet handled
  job,       \* UiState.job together with its request to the API
  planned,   \* history: plan requests made
  jobs,      \* history: commands started
  pasted,    \* history: a field was pasted into since the preview was shown
  frozen     \* the one thread waits for a lock for ever (FreezeThread)

vars == <<screen, form, plans, job, planned, jobs, pasted, frozen>>

-----------------------------------------------------------------------------
Routes == {"Home", "SendSimple", "Menu", "Wizard", "Error"}
FieldText == Texts \cup {Bad}
Fields == {"Amount", "Recipient"}
Buttons == {"Cancel", "Continue"}

(* What a send is for: the (recipient, amount_nicks) pair of validate_send.*)
Payment == [amount : Texts, recipient : Texts]
NoPayment == [amount |-> Bad, recipient |-> Bad]
MaybePayment == Payment \cup {NoPayment}

Form == [amount : FieldText, recipient : FieldText, focus : Fields \cup Buttons,
         phase : {"Form", "Planning", "Review"}, preview : MaybePayment]
EmptyForm == [amount |-> Bad, recipient |-> Bad, focus |-> "Amount",
              phase |-> "Form", preview |-> NoPayment]

Plan == [of : Payment, phase : {"asked", "ok", "err"}]

(* A create-tx command goes to its own endpoint with its payment, or       *)
(* through the generic argv endpoint with nothing but the word create-tx.  *)
Job == [via : {"create-and-send", "argv"}, payment : MaybePayment,
        phase : {"none", "asked", "ok", "err"}]
NoJob == [via |-> "argv", payment |-> NoPayment, phase |-> "none"]

TypeOK ==
  /\ screen \in Routes
  /\ form \in Form
  /\ plans \in SUBSET Plan
  /\ job \in Job
  /\ planned \in Nat /\ jobs \in Nat
  /\ pasted \in BOOLEAN /\ frozen \in BOOLEAN

Init ==
  /\ screen = "Home"
  /\ form = EmptyForm
  /\ plans = {}
  /\ job = NoJob
  /\ planned = 0 /\ jobs = 0
  /\ pasted = FALSE
  /\ frozen = FALSE

-----------------------------------------------------------------------------
(* Helpers.                                                                *)

(* Every other action is the work of the one thread, while it still runs.  *)
Awake == ~frozen /\ UNCHANGED frozen

(* dispatch_key drops every key while a command runs.                      *)
KeysHeard == job.phase = "none"

OnSend(phase) == KeysHeard /\ screen = "SendSimple" /\ form.phase = phase

FormKeysAlways == KeysHeard /\ screen = "SendSimple"            \* mutant

(* The handler returns before looking at the key unless the phase is Form. *)
FormKeys == OnSend("Form")

ValidAmount(f) == f.amount # Bad                                \* mutant

(* validate_send on the screen's amount and recipient.                     *)
Typed(f) == [amount |-> f.amount, recipient |-> f.recipient]
Valid(f) == f.amount # Bad /\ f.recipient # Bad

TypingAnywhere(f) == f.phase # "Planning"                       \* mutant

(* Typed characters, Backspace and 'm' change a field in the form alone.   *)
Typing(f) == f.phase = "Form"

NextFocus(x) == CASE x = "Amount" -> "Recipient" [] x = "Recipient" -> "Cancel"
                  [] x = "Cancel" -> "Continue" [] x = "Continue" -> "Amount"

(* BackTab from Cancel goes to Continue and back: it never reaches a field.*)
PrevFocus(x) == CASE x = "Amount" -> "Continue" [] x = "Recipient" -> "Amount"
                  [] x = "Cancel" -> "Continue" [] x = "Continue" -> "Cancel"

(* Where a field holds a text the user entered.                            *)
Edited(f, text) ==
  IF f.focus = "Amount" THEN [f EXCEPT !.amount = text] ELSE [f EXCEPT !.recipient = text]

(* Every route but SendSimple drops the form.                              *)
GoTo(route) == screen' = route /\ form' = EmptyForm

StartJob(via, payment) ==
  /\ job' = [via |-> via, payment |-> payment, phase |-> "asked"]
  /\ jobs' = jobs + 1

-----------------------------------------------------------------------------
(* The form.                                                               *)

OpenSendSimple ==
  /\ Awake
  /\ KeysHeard
  /\ screen = "Home"
  /\ screen' = "SendSimple"
  /\ form' = EmptyForm
  /\ UNCHANGED <<plans, job, planned, jobs, pasted>>

(* Tab, BackTab, the arrows, and Enter on a field.                         *)
MoveFocus ==
  /\ Awake
  /\ FormKeys
  /\ \E x \in {NextFocus(form.focus), PrevFocus(form.focus)}
             \cup (IF form.focus \in Buttons THEN Buttons ELSE {})
             \cup (IF form.focus = "Recipient" THEN {"Continue"} ELSE {}) :
       form' = [form EXCEPT !.focus = x]
  /\ UNCHANGED <<screen, plans, job, planned, jobs, pasted>>

Type ==
  /\ Awake
  /\ KeysHeard
  /\ screen = "SendSimple" /\ Typing(form)
  /\ form.focus \in Fields
  /\ \E text \in FieldText : form' = Edited(form, text)
  /\ UNCHANGED <<screen, plans, job, planned, jobs, pasted>>

(* dispatch_paste looks at the focus alone: not at the phase, not at job.  *)
(* This is a paste that got the mutex of event_loop.rs:150; one that does  *)
(* not get it is FreezeThread.                                             *)
Paste ==
  /\ Awake
  /\ screen = "SendSimple"
  /\ form.focus \in Fields
  /\ \E text \in FieldText : form' = Edited(form, text)
  /\ pasted' = TRUE
  /\ UNCHANGED <<screen, plans, job, planned, jobs>>

(* Esc, 'q' or Enter on Cancel.                                            *)
LeaveForm ==
  /\ Awake
  /\ FormKeys
  /\ GoTo("Home")
  /\ UNCHANGED <<plans, job, planned, jobs, pasted>>

(* Enter on Continue: ask the planner about what is on the screen.         *)
AskPlan ==
  /\ Awake
  /\ OnSend("Form")
  /\ form.focus = "Continue"
  /\ Valid(form)
  /\ planned < MaxPlans
  /\ form' = [form EXCEPT !.phase = "Planning"]
  /\ plans' = plans \cup {[of |-> Typed(form), phase |-> "asked"]}
  /\ planned' = planned + 1
  /\ UNCHANGED <<screen, job, jobs, pasted>>

(* The executor runs the planner; the answer may be an error.              *)
ExecutePlan ==
  /\ Awake
  /\ \E p \in plans :
       /\ p.phase = "asked"
       /\ \E outcome \in {"ok", "err"} :
            plans' = (plans \ {p}) \cup {[p EXCEPT !.phase = outcome]}
  /\ UNCHANGED <<screen, form, job, planned, jobs, pasted>>

(* Mutant: an error answer is dropped, as event_loop.rs does for names.    *)
FormAfterPlanOk(p) ==
  IF p.phase = "ok"
  THEN [form EXCEPT !.focus = "Continue", !.phase = "Review", !.preview = p.of]
  ELSE form

(* apply_send_simple_plan_result: any SendSimple screen takes the answer.  *)
FormAfterPlan(p) ==
  IF p.phase = "ok"
  THEN [form EXCEPT !.focus = "Continue", !.phase = "Review", !.preview = p.of]
  ELSE [form EXCEPT !.focus = "Continue", !.phase = "Form", !.preview = NoPayment]

PlanCompleted ==
  /\ Awake
  /\ \E p \in plans :
      /\ p.phase # "asked"
      /\ plans' = plans \ {p}
      /\ IF screen = "SendSimple"
         THEN /\ form' = FormAfterPlan(p)
              /\ pasted' = IF p.phase = "ok" THEN FALSE ELSE pasted
         ELSE UNCHANGED <<form, pasted>>
      /\ UNCHANGED <<screen, job, planned, jobs>>

-----------------------------------------------------------------------------
(* The review.                                                             *)

(* Up and Down scroll the preview here; Tab, BackTab, Left, Right move.    *)
MoveReviewFocus ==
  /\ Awake
  /\ OnSend("Review")
  /\ \E x \in {NextFocus(form.focus), PrevFocus(form.focus)}
             \cup (IF form.focus \in Buttons THEN Buttons ELSE {}) :
       form' = [form EXCEPT !.focus = x]
  /\ UNCHANGED <<screen, plans, job, planned, jobs, pasted>>

(* Esc, 'q' or Enter on Cancel keeps the fields and drops the preview.     *)
BackToForm ==
  /\ Awake
  /\ OnSend("Review")
  /\ form' = [form EXCEPT !.focus = "Continue", !.phase = "Form", !.preview = NoPayment]
  /\ UNCHANGED <<screen, plans, job, planned, jobs, pasted>>

(* Enter on Continue validates the fields again and sends what they hold.  *)
Send ==
  /\ Awake
  /\ OnSend("Review")
  /\ form.focus = "Continue"
  /\ Valid(form)
  /\ jobs < MaxJobs
  /\ StartJob("create-and-send", Typed(form))
  /\ UNCHANGED <<screen, form, plans, planned, pasted>>

-----------------------------------------------------------------------------
(* The wizard, the error screen and the executor.                          *)

OpenMenu ==
  /\ Awake
  /\ KeysHeard
  /\ screen \in {"Home", "Wizard", "Error"}
  /\ GoTo("Menu")
  /\ UNCHANGED <<plans, job, planned, jobs, pasted>>

(* A new wizard, or one filled from the failed command.                    *)
OpenWizard ==
  /\ Awake
  /\ KeysHeard
  /\ screen \in {"Menu", "Error"}
  /\ GoTo("Wizard")
  /\ UNCHANGED <<plans, job, planned, jobs, pasted>>

LeaveToHome ==
  /\ Awake
  /\ KeysHeard
  /\ screen \in {"Menu", "Error"}
  /\ GoTo("Home")
  /\ UNCHANGED <<plans, job, planned, jobs, pasted>>

(* Enter on the wizard's last option runs its create-tx.                   *)
RunWizard ==
  /\ Awake
  /\ KeysHeard
  /\ screen = "Wizard"
  /\ jobs < MaxJobs
  /\ StartJob("argv", NoPayment)
  /\ UNCHANGED <<screen, form, plans, planned, pasted>>

(* Retry: home is put in place first, then the same create-tx is run.      *)
Retry ==
  /\ Awake
  /\ KeysHeard
  /\ screen = "Error"
  /\ jobs < MaxJobs
  /\ GoTo("Home")
  /\ StartJob("argv", NoPayment)
  /\ UNCHANGED <<plans, planned, pasted>>

ExecuteJob ==
  /\ Awake
  /\ job.phase = "asked"
  /\ \E outcome \in {"ok", "err"} : job' = [job EXCEPT !.phase = outcome]
  /\ UNCHANGED <<screen, form, plans, planned, jobs, pasted>>

(* Mutant: a failed command leaves the user where they were.               *)
RouteAfterJobKept ==
  CASE job.phase = "err" -> screen
    [] job.phase = "ok" /\ screen = "SendSimple" -> "Home"
    [] OTHER -> "Menu"

(* apply_job_completed chooses the next route from the one on the screen.  *)
RouteAfterJob ==
  CASE job.phase = "err" -> "Error"
    [] job.phase = "ok" /\ screen = "SendSimple" -> "Home"
    [] OTHER -> "Menu"

JobCompleted ==
  /\ Awake
  /\ job.phase \in {"ok", "err"}
  /\ job' = NoJob
  /\ screen' = RouteAfterJob
  /\ form' = IF RouteAfterJob = "SendSimple" THEN form ELSE EmptyForm
  /\ UNCHANGED <<plans, planned, jobs, pasted>>

-----------------------------------------------------------------------------
SendKeys == Send \/ MoveReviewFocus \/ BackToForm
FormActions == OpenSendSimple \/ MoveFocus \/ Type \/ Paste \/ LeaveForm \/ AskPlan
OtherKeys == OpenMenu \/ OpenWizard \/ LeaveToHome \/ RunWizard \/ Retry
PlanSteps == ExecutePlan \/ PlanCompleted
JobSteps == ExecuteJob \/ JobCompleted

(* On any route a paste first locks the std mutex rt.connection, on the    *)
(* one thread on which a wallet command may hold its guard across an await *)
(* (command_runner.rs:111): then neither goes on.  The planner leaves that *)
(* mutex alone, but the command of this flow, a fetch of the home view or  *)
(* a command of another client may hold it, so this may happen any time.   *)
FreezeThread ==
  /\ ~frozen
  /\ frozen' = TRUE
  /\ UNCHANGED <<screen, form, plans, job, planned, jobs, pasted>>

Next == FormActions \/ SendKeys \/ OtherKeys \/ PlanSteps \/ JobSteps \/ FreezeThread

Spec == Init /\ [][Next]_vars

(* While the thread runs, the API executor serves every request and the    *)
(* event loop every message; frozen, it serves nothing (Awake).  Nothing   *)
(* makes the user press a key.                                             *)
FairSpec ==
  Spec /\ WF_vars(ExecutePlan) /\ WF_vars(PlanCompleted)
       /\ WF_vars(ExecuteJob) /\ WF_vars(JobCompleted)

-----------------------------------------------------------------------------
(* Properties.                                                             *)

(* The Planning phase, which ignores every key, stands exactly while one   *)
(* plan request is unanswered, and that request is for the values still on *)
(* the screen: no answer is lost, none comes back to another form.         *)
PlanningBacked ==
  IF screen = "SendSimple" /\ form.phase = "Planning"
  THEN \E p \in plans : plans = {p} /\ p.of = Typed(form)
  ELSE plans = {}

(* A payment being sent is the one whose preview the user reviewed, unless *)
(* a paste changed a field under the preview (which the code lets happen); *)
(* and the review is still on the screen, where apply_job_completed reads  *)
(* which flow the command belongs to.                                      *)
SentAsReviewed ==
  job.phase # "none" /\ job.via = "create-and-send" =>
    /\ screen = "SendSimple" /\ form.phase = "Review"
    /\ pasted \/ job.payment = form.preview

(* The flow keeps the promise of ReviewedPayment: what is paid was offered *)
(* for review, and no review is paid twice, however often commands fail,   *)
(* are retried or edited; to pay again the user goes through the planner.  *)
Reviewing == screen = "SendSimple" /\ form.phase = "Review"
Paying == job.phase # "none" /\ job.via = "create-and-send"
Promise == INSTANCE ReviewedPayment WITH
  Payments <- Payment,
  Nothing <- NoPayment,
  offer <- IF Reviewing THEN form.preview ELSE NoPayment,
  amended <- Reviewing /\ pasted,
  paying <- IF Paying THEN job.payment ELSE NoPayment
PaysAsReviewed == Promise!Spec

(* The form is never left locked in the Planning phase, unless a paste     *)
(* freezes the thread.                                                     *)
PlanningEnds == (screen = "SendSimple" /\ form.phase = "Planning")
                  ~> (screen # "SendSimple" \/ form.phase # "Planning" \/ frozen)

(* client.rs:318 says of create-tx that it is "never routed through        *)
(* generic argv"; the wizard and Retry do route it there.                  *)
NeverGenericArgv == job.phase # "none" => job.via # "argv"
=============================================================================
