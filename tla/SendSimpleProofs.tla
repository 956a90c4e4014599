-------------------------- MODULE SendSimpleProofs --------------------------
(* Theorems about the simple send flow, for any set of field texts and any *)
(* bounds.                                                                 *)
EXTENDS SendSimple, TLAPS

(* The review on the screen: its fields still read as in the preview until *)
(* something is pasted into them.                                          *)
ReviewTruthful ==
  screen = "SendSimple" /\ form.phase = "Review" /\ ~pasted => form.preview = Typed(form)

(* What is reviewed is a payment.                                          *)
ReviewShown == screen = "SendSimple" /\ form.phase = "Review" => form.preview \in Payment

(* While the planner runs the focus stays on Continue, so a paste finds no *)
(* field to change.                                                        *)
PlanningOnContinue == form.phase = "Planning" => form.focus = "Continue"

(* The planner and a command never run for this screen at the same time.   *)
JobAlone == job.phase # "none" => plans = {}

Inv == TypeOK /\ PlanningBacked /\ PlanningOnContinue /\ JobAlone /\ ReviewTruthful
              /\ ReviewShown /\ SentAsReviewed

LEMMA FormFacts ==
  /\ EmptyForm \in Form
  /\ NoJob \in Job
  /\ NoPayment \notin Payment
  BY BadAssumption DEF EmptyForm, Form, NoJob, Job, MaybePayment, NoPayment, FieldText, Fields, Payment

LEMMA EditedFacts ==
  ASSUME NEW f \in Form, NEW text \in FieldText
  PROVE  /\ Edited(f, text) \in Form
         /\ Edited(f, text).phase = f.phase
         /\ Edited(f, text).focus = f.focus
         /\ Edited(f, text).preview = f.preview
  BY DEF Edited, Form

LEMMA FocusFacts ==
  ASSUME NEW x \in Fields \cup Buttons
  PROVE  NextFocus(x) \in Fields \cup Buttons /\ PrevFocus(x) \in Fields \cup Buttons
  BY DEF NextFocus, PrevFocus, Fields, Buttons

(* Moving the focus changes nothing a payment depends on.                  *)
LEMMA RefocusFacts ==
  ASSUME NEW f \in Form, NEW x \in Fields \cup Buttons
  PROVE  LET g == [f EXCEPT !.focus = x] IN
           /\ g \in Form /\ Typed(g) = Typed(f)
           /\ g.phase = f.phase /\ g.preview = f.preview
  BY DEF Form, Typed

LEMMA PaymentFacts ==
  ASSUME NEW f \in Form, Valid(f) PROVE Typed(f) \in Payment
  BY DEF Valid, Typed, Form, Payment, FieldText

LEMMA InvInit == Init => Inv
<1> SUFFICES ASSUME Init PROVE Inv
  OBVIOUS
<1>1. form.phase = "Form" /\ job.phase = "none"
  BY DEF Init, EmptyForm, NoJob
<1>2. TypeOK
  BY FormFacts DEF Init, TypeOK, Routes
<1>3. QED
  BY <1>1, <1>2 DEF Init, Inv, PlanningBacked, PlanningOnContinue, JobAlone, ReviewTruthful,
     ReviewShown, SentAsReviewed

-----------------------------------------------------------------------------
(* A step that changes neither the previews nor the sends, and leaves the  *)
(* review or keeps it as it was, only has to keep the form's own facts.    *)
LEMMA FormStep == Inv /\ FormActions => Inv'
<1> SUFFICES ASSUME Inv, FormActions PROVE Inv'
  OBVIOUS
<1> USE DEF Inv, PlanningBacked, PlanningOnContinue, JobAlone, ReviewTruthful, ReviewShown,
            SentAsReviewed, Awake
<1>1. CASE OpenSendSimple
  BY <1>1, FormFacts DEF OpenSendSimple, KeysHeard, TypeOK, Routes, EmptyForm
<1>2. CASE MoveFocus
  <2>1. PICK x \in Fields \cup Buttons : form' = [form EXCEPT !.focus = x]
    <3>1. form.focus \in Fields \cup Buttons
      BY DEF TypeOK, Form
    <3>2. QED
      BY <1>2, <3>1, FocusFacts DEF MoveFocus, Fields, Buttons
  <2>2. form' \in Form /\ Typed(form') = Typed(form) /\ form'.phase = form.phase
        /\ form'.preview = form.preview
    BY <2>1, RefocusFacts DEF TypeOK
  <2>3. QED
    BY <1>2, <2>2 DEF MoveFocus, FormKeys, OnSend, KeysHeard, TypeOK
<1>3. CASE Type
  <2>1. form' \in Form /\ form'.phase = "Form"
    BY <1>3, EditedFacts DEF Type, Typing, TypeOK
  <2>2. QED
    BY <1>3, <2>1 DEF Type, Typing, KeysHeard, TypeOK
<1>4. CASE Paste
  <2>1. form' \in Form /\ form'.phase = form.phase /\ form'.preview = form.preview
    BY <1>4, EditedFacts DEF Paste, TypeOK
  <2>2. form.phase # "Planning"
    BY <1>4 DEF Paste, Fields
  <2>3. QED
    BY <1>4, <2>1, <2>2 DEF Paste, TypeOK
<1>5. CASE LeaveForm
  BY <1>5, FormFacts DEF LeaveForm, FormKeys, OnSend, KeysHeard, GoTo, TypeOK, Routes, EmptyForm
<1>6. CASE AskPlan
  <2>1. Typed(form) \in Payment /\ Typed(form') = Typed(form) /\ form' \in Form
        /\ form'.phase = "Planning" /\ form'.focus = "Continue"
    BY <1>6, PaymentFacts DEF AskPlan, TypeOK, Form, Typed
  <2>2. plans' = {[of |-> Typed(form'), phase |-> "asked"]}
    BY <1>6, <2>1 DEF AskPlan, OnSend
  <2>3. plans' \in SUBSET Plan /\ \E p \in plans' : plans' = {p} /\ p.of = Typed(form')
    BY <2>1, <2>2 DEF Plan
  <2>4. TypeOK'
    BY <1>6, <2>1, <2>3 DEF AskPlan, TypeOK
  <2>5. job.phase = "none" /\ UNCHANGED <<screen, job, jobs, pasted>>
    BY <1>6 DEF AskPlan, OnSend, KeysHeard
  <2>6. screen = "SendSimple"
    BY <1>6 DEF AskPlan, OnSend
  <2>7. QED
    BY <2>1, <2>3, <2>4, <2>5, <2>6
<1>7. QED
  BY <1>1, <1>2, <1>3, <1>4, <1>5, <1>6 DEF FormActions

LEMMA SendStep == Inv /\ SendKeys => Inv'
<1> SUFFICES ASSUME Inv, SendKeys PROVE Inv'
  OBVIOUS
<1> USE DEF Inv, PlanningBacked, PlanningOnContinue, JobAlone, ReviewTruthful, ReviewShown,
            SentAsReviewed, Awake
<1>1. CASE Send
  <2>1. Typed(form) \in Payment
    BY <1>1, PaymentFacts DEF Send, TypeOK
  <2>2. job' \in Job /\ job'.phase = "asked" /\ job'.payment = Typed(form)
    BY <1>1, <2>1 DEF Send, StartJob, Job, MaybePayment
  <2>3. jobs' = jobs + 1
    BY <1>1 DEF Send, StartJob
  <2>4. QED
    BY <1>1, <2>2, <2>3 DEF Send, OnSend, TypeOK
<1>2. CASE MoveReviewFocus
  <2>1. PICK x \in Fields \cup Buttons : form' = [form EXCEPT !.focus = x]
    <3>1. form.focus \in Fields \cup Buttons
      BY DEF TypeOK, Form
    <3>2. QED
      BY <1>2, <3>1, FocusFacts DEF MoveReviewFocus, Buttons
  <2>2. form' \in Form /\ Typed(form') = Typed(form) /\ form'.phase = form.phase
        /\ form'.preview = form.preview
    BY <2>1, RefocusFacts DEF TypeOK
  <2>3. QED
    BY <1>2, <2>2 DEF MoveReviewFocus, OnSend, KeysHeard, TypeOK
<1>3. CASE BackToForm
  <2>1. form' \in Form /\ form'.phase = "Form"
    BY <1>3 DEF BackToForm, TypeOK, Form, MaybePayment, Buttons
  <2>2. QED
    BY <1>3, <2>1 DEF BackToForm, OnSend, KeysHeard, TypeOK
<1>4. QED
  BY <1>1, <1>2, <1>3 DEF SendKeys

LEMMA OtherStep == Inv /\ OtherKeys => Inv'
<1> SUFFICES ASSUME Inv, OtherKeys PROVE Inv'
  OBVIOUS
<1> USE DEF Inv, PlanningBacked, PlanningOnContinue, JobAlone, ReviewTruthful, ReviewShown,
            SentAsReviewed, Awake
<1>1. CASE OpenMenu
  BY <1>1, FormFacts DEF OpenMenu, KeysHeard, GoTo, TypeOK, Routes, EmptyForm
<1>2. CASE OpenWizard
  BY <1>2, FormFacts DEF OpenWizard, KeysHeard, GoTo, TypeOK, Routes, EmptyForm
<1>3. CASE LeaveToHome
  BY <1>3, FormFacts DEF LeaveToHome, KeysHeard, GoTo, TypeOK, Routes, EmptyForm
<1>4. [via |-> "argv", payment |-> NoPayment, phase |-> "asked"] \in Job
  BY DEF Job, MaybePayment
<1>5. CASE RunWizard
  BY <1>5, <1>4 DEF RunWizard, StartJob, KeysHeard, TypeOK
<1>6. CASE Retry
  BY <1>6, <1>4, FormFacts DEF Retry, StartJob, KeysHeard, GoTo, TypeOK, Routes, EmptyForm
<1>7. QED
  BY <1>1, <1>2, <1>3, <1>5, <1>6 DEF OtherKeys

LEMMA PlanStep == Inv /\ PlanSteps => Inv'
<1> SUFFICES ASSUME Inv, PlanSteps PROVE Inv'
  OBVIOUS
<1> USE DEF Inv, PlanningBacked, PlanningOnContinue, JobAlone, ReviewTruthful, ReviewShown,
            SentAsReviewed, Awake
<1>1. CASE ExecutePlan
  <2>1. PICK p \in plans, outcome \in {"ok", "err"} :
          plans' = (plans \ {p}) \cup {[p EXCEPT !.phase = outcome]}
    BY <1>1 DEF ExecutePlan
  <2>2. plans = {p} /\ p.of = Typed(form) /\ p \in Plan
    BY <2>1 DEF TypeOK
  <2>3. DEFINE q == [p EXCEPT !.phase = outcome]
  <2>4. plans' = {q} /\ q \in Plan /\ q.of = Typed(form)
    BY <2>1, <2>2 DEF Plan
  <2>5. QED
    BY <1>1, <2>2, <2>4 DEF ExecutePlan, TypeOK
<1>2. CASE PlanCompleted
  <2>1. PICK p \in plans : /\ plans' = plans \ {p}
                           /\ UNCHANGED <<screen, job, planned, jobs, frozen>>
                           /\ IF screen = "SendSimple"
                              THEN /\ form' = FormAfterPlan(p)
                                   /\ pasted' = IF p.phase = "ok" THEN FALSE ELSE pasted
                              ELSE UNCHANGED <<form, pasted>>
    BY <1>2 DEF PlanCompleted
  <2>2. screen = "SendSimple" /\ form.phase = "Planning" /\ plans' = {}
        /\ p.of = Typed(form) /\ p \in Plan
    BY <2>1 DEF TypeOK
  <2>3. form' = FormAfterPlan(p) /\ form \in Form /\ p.of \in Payment
    BY <2>1, <2>2 DEF TypeOK, Plan
  <2>4. CASE p.phase = "ok"
    <3>1. form' \in Form /\ form'.phase = "Review" /\ form'.preview = Typed(form')
          /\ form'.preview \in Payment
      BY <2>2, <2>3, <2>4 DEF FormAfterPlan, Form, Typed, MaybePayment, Buttons
    <3>2. pasted' = FALSE
      BY <2>1, <2>2, <2>4
    <3>3. job.phase = "none" /\ UNCHANGED <<screen, job, planned, jobs, frozen>>
      BY <2>1
    <3>4. TypeOK'
      BY <2>2, <3>1, <3>2, <3>3 DEF TypeOK
    <3>5. PlanningBacked' /\ JobAlone' /\ PlanningOnContinue'
      BY <2>2, <3>1, <3>3
    <3>6. ReviewTruthful' /\ ReviewShown' /\ SentAsReviewed'
      BY <3>1, <3>3
    <3>7. QED
      BY <3>4, <3>5, <3>6
  <2>5. CASE p.phase # "ok"
    <3>1. form' \in Form /\ form'.phase = "Form"
      BY <2>3, <2>5 DEF FormAfterPlan, Form, MaybePayment, Buttons
    <3>2. QED
      BY <2>1, <2>2, <2>5, <3>1 DEF TypeOK
  <2>6. QED
    BY <2>4, <2>5
<1>3. QED
  BY <1>1, <1>2 DEF PlanSteps

LEMMA JobStep == Inv /\ JobSteps => Inv'
<1> SUFFICES ASSUME Inv, JobSteps PROVE Inv'
  OBVIOUS
<1> USE DEF Inv, PlanningBacked, PlanningOnContinue, JobAlone, ReviewTruthful, ReviewShown,
            SentAsReviewed, Awake
<1>1. CASE ExecuteJob
  <2>1. job' \in Job /\ job'.phase # "none" /\ job'.via = job.via /\ job'.payment = job.payment
    BY <1>1 DEF ExecuteJob, TypeOK, Job
  <2>2. QED
    BY <1>1, <2>1 DEF ExecuteJob, TypeOK
<1>2. CASE JobCompleted
  <2>1. RouteAfterJob \in {"Error", "Home", "Menu"}
    BY <1>2 DEF RouteAfterJob, JobCompleted
  <2>2. screen' \in {"Error", "Home", "Menu"} /\ form' = EmptyForm /\ job' = NoJob
        /\ UNCHANGED <<plans, planned, jobs, pasted, frozen>>
    BY <1>2, <2>1 DEF JobCompleted
  <2>3. plans = {}
    BY <1>2 DEF JobCompleted
  <2>4. QED
    BY <2>2, <2>3, FormFacts DEF TypeOK, Routes, NoJob, EmptyForm
<1>3. QED
  BY <1>1, <1>2 DEF JobSteps

LEMMA InvStep == Inv /\ [Next]_vars => Inv'
<1>1. Inv /\ UNCHANGED vars => Inv'
  BY DEF Inv, TypeOK, PlanningBacked, PlanningOnContinue, JobAlone, ReviewTruthful, ReviewShown, SentAsReviewed, vars, Typed
<1>2. Inv /\ FreezeThread => Inv'
  BY DEF Inv, TypeOK, PlanningBacked, PlanningOnContinue, JobAlone, ReviewTruthful, ReviewShown,
         SentAsReviewed, FreezeThread, Typed
<1>3. QED
  BY <1>1, <1>2, FormStep, SendStep, OtherStep, PlanStep, JobStep DEF Next

(* The invariant of the form, its one plan request and its commands.       *)
THEOREM InvHolds == Spec => []Inv
  BY InvInit, InvStep, PTL DEF Spec

-----------------------------------------------------------------------------
(* What users and handlers rely on.                                        *)

(* Every variable keeps its type.                                          *)
THEOREM TypeCorrect == Spec => []TypeOK
<1>1. Inv => TypeOK
  BY DEF Inv
<1>2. QED
  BY <1>1, InvHolds, PTL

(* The Planning phase always has its one request, for the screen's values. *)
THEOREM PlanningCorrect == Spec => []PlanningBacked
<1>1. Inv => PlanningBacked
  BY DEF Inv
<1>2. QED
  BY <1>1, InvHolds, PTL

(* What is sent is what was reviewed, unless a paste changed it since.     *)
THEOREM SendCorrect == Spec => []SentAsReviewed
<1>1. Inv => SentAsReviewed
  BY DEF Inv
<1>2. QED
  BY <1>1, InvHolds, PTL

-----------------------------------------------------------------------------
(* The flow implements ReviewedPayment.                                    *)

LEMMA PromiseInit == Init => Promise!Init
  BY DEF Init, Promise!Init, Reviewing, Paying, EmptyForm, NoJob

(* The form's actions: a paste into a reviewed field amends the offer, the *)
(* others are not for a review.                                            *)
LEMMA PromiseForm == Inv /\ FormActions => [Promise!Next]_Promise!vars
<1> SUFFICES ASSUME Inv, FormActions PROVE [Promise!Next]_Promise!vars
  OBVIOUS
<1> USE DEF Promise!Next, Promise!vars, Reviewing, Paying
<1>1. CASE OpenSendSimple
  BY <1>1 DEF OpenSendSimple, KeysHeard, EmptyForm
<1>2. CASE MoveFocus
  BY <1>2 DEF MoveFocus, FormKeys, OnSend, KeysHeard, Inv, TypeOK, Form
<1>3. CASE Type
  <2>1. form'.phase = form.phase
    BY <1>3, EditedFacts DEF Type, Inv, TypeOK
  <2>2. QED
    BY <1>3, <2>1 DEF Type, Typing, KeysHeard
<1>4. CASE Paste
  <2>1. form'.phase = form.phase /\ form'.preview = form.preview
    BY <1>4, EditedFacts DEF Paste, Inv, TypeOK
  <2>2. CASE Reviewing
    <3>1. form.preview # NoPayment
      BY <2>2, FormFacts DEF Inv, ReviewShown
    <3>2. Promise!Amend
      BY <1>4, <2>1, <2>2, <3>1 DEF Paste, Promise!Amend
    <3>3. QED
      BY <3>2
  <2>3. CASE ~Reviewing
    BY <1>4, <2>1, <2>3 DEF Paste
  <2>4. QED
    BY <2>2, <2>3
<1>5. CASE LeaveForm
  BY <1>5 DEF LeaveForm, FormKeys, OnSend, KeysHeard, GoTo
<1>6. CASE AskPlan
  BY <1>6 DEF AskPlan, OnSend, KeysHeard, Inv, TypeOK, Form
<1>7. QED
  BY <1>1, <1>2, <1>3, <1>4, <1>5, <1>6 DEF FormActions

(* The review: sending pays the offer, or what it has been amended to.     *)
LEMMA PromiseSend == Inv /\ SendKeys => [Promise!Next]_Promise!vars
<1> SUFFICES ASSUME Inv, SendKeys PROVE [Promise!Next]_Promise!vars
  OBVIOUS
<1> USE DEF Promise!Next, Promise!vars, Reviewing, Paying
<1>1. CASE Send
  <2>1. Typed(form) \in Payment /\ Reviewing /\ ~Paying /\ form.preview # NoPayment
    BY <1>1, PaymentFacts, FormFacts DEF Send, OnSend, KeysHeard, Inv, TypeOK, ReviewShown
  <2>2. Paying' /\ job'.payment = Typed(form) /\ UNCHANGED <<screen, form, pasted>>
    BY <1>1 DEF Send, StartJob
  <2>3. pasted \/ Typed(form) = form.preview
    BY <2>1 DEF Inv, ReviewTruthful
  <2>4. Promise!Pay(Typed(form))
    BY <2>1, <2>2, <2>3 DEF Promise!Pay
  <2>5. QED
    BY <2>1, <2>4
<1>2. CASE MoveReviewFocus
  <2>1. form'.phase = form.phase /\ form'.preview = form.preview
    BY <1>2 DEF MoveReviewFocus, Inv, TypeOK, Form
  <2>2. QED
    BY <1>2, <2>1 DEF MoveReviewFocus
<1>3. CASE BackToForm
  <2>1. ~Reviewing' /\ ~Paying /\ ~Paying'
    BY <1>3 DEF BackToForm, OnSend, KeysHeard, Inv, TypeOK, Form
  <2>2. Promise!Withdraw
    BY <2>1 DEF Promise!Withdraw
  <2>3. QED
    BY <2>2
<1>4. QED
  BY <1>1, <1>2, <1>3 DEF SendKeys

(* Other routes have no review, and their commands are not sends.          *)
LEMMA PromiseOther == Inv /\ OtherKeys => [Promise!Next]_Promise!vars
<1> SUFFICES ASSUME Inv, OtherKeys PROVE [Promise!Next]_Promise!vars
  OBVIOUS
<1>1. ~Reviewing /\ ~Paying /\ ~Reviewing' /\ ~Paying'
  BY DEF OtherKeys, OpenMenu, OpenWizard, LeaveToHome, RunWizard, Retry, KeysHeard, GoTo,
     StartJob, Reviewing, Paying
<1>2. QED
  BY <1>1 DEF Promise!vars

(* An answer of the planner is the offer.                                  *)
LEMMA PromisePlan == Inv /\ PlanSteps => [Promise!Next]_Promise!vars
<1> SUFFICES ASSUME Inv, PlanSteps PROVE [Promise!Next]_Promise!vars
  OBVIOUS
<1> USE DEF Promise!Next, Promise!vars
<1>1. CASE ExecutePlan
  BY <1>1 DEF ExecutePlan, Reviewing, Paying
<1>2. CASE PlanCompleted
  <2>1. PICK p \in plans : /\ screen = "SendSimple" =>
                                /\ form' = FormAfterPlan(p)
                                /\ pasted' = IF p.phase = "ok" THEN FALSE ELSE pasted
                           /\ UNCHANGED <<screen, job>>
    BY <1>2 DEF PlanCompleted
  <2>2. screen = "SendSimple" /\ form.phase = "Planning" /\ p \in Plan /\ job.phase = "none"
    BY <2>1 DEF Inv, PlanningBacked, JobAlone, TypeOK
  <2>3. ~Reviewing /\ ~Paying /\ ~Paying'
    BY <2>1, <2>2 DEF Reviewing, Paying
  <2>4. form \in Form /\ form' = FormAfterPlan(p)
    BY <2>1, <2>2 DEF Inv, TypeOK
  <2>5. CASE p.phase = "ok"
    <3>1. form'.phase = "Review" /\ form'.preview = p.of
      BY <2>4, <2>5 DEF FormAfterPlan, Form
    <3>2. Reviewing' /\ ~pasted'
      BY <2>1, <2>2, <2>5, <3>1 DEF Reviewing
    <3>3. Promise!Offer(p.of)
      BY <2>3, <3>1, <3>2 DEF Promise!Offer
    <3>4. QED
      BY <2>2, <3>3 DEF Plan
  <2>6. CASE p.phase # "ok"
    <3>1. ~Reviewing'
      BY <2>4, <2>6 DEF FormAfterPlan, Form, Reviewing
    <3>2. QED
      BY <2>3, <3>1
  <2>7. QED
    BY <2>5, <2>6
<1>3. QED
  BY <1>1, <1>2 DEF PlanSteps

(* The end of a send settles it and takes the review off the screen.       *)
LEMMA PromiseJob == Inv /\ JobSteps => [Promise!Next]_Promise!vars
<1> SUFFICES ASSUME Inv, JobSteps PROVE [Promise!Next]_Promise!vars
  OBVIOUS
<1> USE DEF Promise!Next, Promise!vars
<1>1. CASE ExecuteJob
  <2>1. Paying' = Paying /\ job'.payment = job.payment
    BY <1>1 DEF ExecuteJob, Inv, TypeOK, Job, Paying
  <2>2. QED
    BY <1>1, <2>1 DEF ExecuteJob, Reviewing
<1>2. CASE JobCompleted
  <2>1. RouteAfterJob \in {"Error", "Home", "Menu"}
    BY <1>2 DEF RouteAfterJob, JobCompleted
  <2>2. ~Reviewing' /\ ~Paying'
    BY <1>2, <2>1 DEF JobCompleted, Reviewing, Paying, NoJob
  <2>3. CASE ~Paying
    BY <2>2, <2>3 DEF Promise!Withdraw
  <2>4. CASE Paying /\ job.payment # NoPayment
    BY <2>2, <2>4 DEF Promise!Settle
  <2>5. CASE Paying /\ job.payment = NoPayment
    BY <2>2, <2>5 DEF Promise!Withdraw
  <2>6. QED
    BY <2>3, <2>4, <2>5
<1>3. QED
  BY <1>1, <1>2 DEF JobSteps

LEMMA PromiseStep == Inv /\ [Next]_vars => [Promise!Next]_Promise!vars
<1>1. Inv /\ (FreezeThread \/ UNCHANGED vars) => UNCHANGED Promise!vars
  BY DEF vars, FreezeThread, Promise!vars, Reviewing, Paying
<1>2. QED
  BY <1>1, PromiseForm, PromiseSend, PromiseOther, PromisePlan, PromiseJob DEF Next

(* What is paid was offered for review, and no review is paid twice.       *)
THEOREM KeepsPromise == Spec => PaysAsReviewed
  BY PromiseInit, PromiseStep, InvHolds, PTL DEF Spec, PaysAsReviewed, Promise!Spec
=============================================================================
