---------------------------- MODULE NnsBuyProofs ----------------------------
(* Theorems about the purchase of names, for any set of texts and names,   *)
(* any normalisation and any bounds.                                       *)
EXTENDS NnsBuy, TLAPS

(* A new screen begins from nothing: other routes keep no form.            *)
FormOnScreen == screen # "NnsBuy" => form = EmptyForm

(* The verified name on the screen is the one the last search found free,  *)
(* whatever the field reads since: no answer comes late to another form.   *)
VerifiedWasFound == form.verified # NoName => form.verified = found

(* Why RegisteredWasFound holds: Register copies the verified name, and    *)
(* BusyBacked keeps every search out while the command runs.               *)
Inv == TypeOK /\ FormOnScreen /\ BusyBacked /\ VerifiedWasFound /\ RegisteredWasFound

-----------------------------------------------------------------------------
LEMMA FormFacts == EmptyForm \in Form /\ NoJob \in Job
  BY TextsAssumption DEF EmptyForm, Form, Focuses, NoJob, Job, MaybeName

(* Starting an owned-names fetch touches its flag and nothing else.        *)
LEMMA FetchFacts ==
  ASSUME NEW f \in Form
  PROVE  /\ WithFetch(f) \in Form
         /\ WithFetch(f).busy = f.busy
         /\ WithFetch(f).verified = f.verified
         /\ WithFetch(f).value = f.value
         /\ Fetches(f) \in Nat
  BY DEF WithFetch, Fetches, Form

(* So a handled key leaves the handler's screen, up to that flag.          *)
LEMMA KeyFacts ==
  ASSUME TypeOK, NEW f \in Form, KeyLeaves(f)
  PROVE  /\ screen' = "NnsBuy"
         /\ form' \in Form
         /\ form'.busy = f.busy
         /\ form'.verified = f.verified
         /\ ownedFetches' \in Nat
<1> DEFINE g == [f EXCEPT !.ownedLoading = FALSE]
<1>1. g \in Form /\ g.busy = f.busy /\ g.verified = f.verified
  BY DEF Form
<1>2. Fetches(form) \in Nat /\ Fetches(g) \in Nat
  BY <1>1, FetchFacts DEF TypeOK
<1>3. ownedFetches' \in Nat
  BY <1>2 DEF KeyLeaves, TypeOK
<1>4. form' = WithFetch(g) /\ screen' = "NnsBuy"
  BY DEF KeyLeaves
<1>5. QED
  BY <1>1, <1>3, <1>4, FetchFacts

LEMMA FocusFacts ==
  ASSUME NEW x \in Focuses
  PROVE  NextFocus(x) \in Focuses /\ PrevFocus(x) \in Focuses
  BY DEF NextFocus, PrevFocus, Focuses

LEMMA TextFacts ==
  ASSUME NEW f \in Form, NEW text \in Texts
  PROVE  /\ WithText(f, text) \in Form
         /\ WithText(f, text).busy = f.busy
         /\ WithText(f, text).verified = NoName
  BY DEF WithText, Form, MaybeName

LEMMA CanonicalFacts ==
  ASSUME NEW text \in Texts PROVE Canonical[text] \in MaybeName
  BY CanonicalAssumption DEF MaybeName

LEMMA InvInit == Init => Inv
<1> SUFFICES ASSUME Init PROVE Inv
  OBVIOUS
<1>1. TypeOK
  BY FormFacts DEF Init, TypeOK, Routes, MaybeName
<1>2. QED
  BY <1>1 DEF Init, Inv, FormOnScreen, BusyBacked, VerifiedWasFound, RegisteredWasFound,
              EmptyForm, NoJob

-----------------------------------------------------------------------------
(* A key heard on the screen finds it idle: no search and no command.      *)
LEMMA IdleScreen ==
  Inv /\ OnScreen => /\ ~form.busy /\ lookups = {} /\ job.phase = "none"
                     /\ form \in Form /\ screen = "NnsBuy"
  BY DEF Inv, OnScreen, KeyTaken, KeysHeard, BusyBacked, TypeOK

LEMMA KeyStep == Inv /\ ScreenKeys => Inv'
<1> SUFFICES ASSUME Inv, ScreenKeys PROVE Inv'
  OBVIOUS
<1> USE DEF Inv, FormOnScreen, BusyBacked, VerifiedWasFound, RegisteredWasFound, Awake
<1>1. CASE MoveFocus
  <2>1. PICK x \in Focuses : KeyLeaves([form EXCEPT !.focus = x])
    <3>1. form.focus \in Focuses
      BY DEF TypeOK, Form
    <3>2. QED
      BY <1>1, <3>1, FocusFacts DEF MoveFocus, Focuses
  <2>2. DEFINE f == [form EXCEPT !.focus = x]
  <2>3. f \in Form /\ f.busy = form.busy /\ f.verified = form.verified
    BY DEF TypeOK, Form
  <2>4. /\ screen' = "NnsBuy" /\ form' \in Form /\ ownedFetches' \in Nat
        /\ form'.busy = form.busy /\ form'.verified = form.verified
    BY <2>1, <2>3, KeyFacts
  <2>5. QED
    BY <1>1, <2>4, IdleScreen DEF MoveFocus, TypeOK, Routes
<1>2. CASE Type
  <2>1. PICK text \in Texts : KeyLeaves(WithText(form, text))
    BY <1>2 DEF Type
  <2>2. /\ screen' = "NnsBuy" /\ form' \in Form /\ ownedFetches' \in Nat
        /\ form'.busy = form.busy /\ form'.verified = NoName
    BY <2>1, TextFacts, KeyFacts DEF TypeOK
  <2>3. QED
    BY <1>2, <2>2, IdleScreen DEF Type, TypeOK, Routes
<1>3. CASE KeyWhileBusy
  <2>1. /\ form' \in Form /\ form'.busy = form.busy /\ form'.verified = form.verified
        /\ Fetches(form) \in Nat
    BY <1>3, FetchFacts DEF KeyWhileBusy, TypeOK
  <2>2. QED
    BY <1>3, <2>1 DEF KeyWhileBusy, TypeOK
<1>4. CASE StartLookup
  <2>1. DEFINE f == [form EXCEPT !.busy = TRUE, !.verified = NoName]
               l == [of |-> form.value, phase |-> "asked"]
  <2>2. f \in Form /\ f.busy /\ f.verified = NoName /\ l \in Lookup
    BY DEF TypeOK, Form, MaybeName, Lookup
  <2>3. KeyLeaves(f) /\ OnScreen /\ lookups' = lookups \cup {l}
    BY <1>4 DEF StartLookup
  <2>4. /\ screen' = "NnsBuy" /\ form' \in Form /\ ownedFetches' \in Nat
        /\ form'.busy /\ form'.verified = NoName
    BY <2>2, <2>3, KeyFacts
  <2>5. lookups' = {l} /\ job'.phase = "none"
    BY <1>4, <2>3, IdleScreen DEF StartLookup
  <2>6. TypeOK'
    BY <1>4, <2>2, <2>4, <2>5 DEF StartLookup, TypeOK, Routes
  <2>7. QED
    BY <2>4, <2>5, <2>6
<1>5. CASE RefuseRegister
  <2>1. DEFINE f == [form EXCEPT !.verified = IF Canonical[form.value] = NoName THEN NoName ELSE @]
  <2>2. f \in Form /\ f.busy = form.busy /\ f.verified \in {NoName, form.verified}
    BY DEF TypeOK, Form, MaybeName
  <2>3. KeyLeaves(f) /\ OnScreen
    BY <1>5 DEF RefuseRegister
  <2>4. /\ screen' = "NnsBuy" /\ form' \in Form /\ ownedFetches' \in Nat
        /\ form'.busy = form.busy /\ form'.verified \in {NoName, form.verified}
    BY <2>2, <2>3, KeyFacts
  <2>5. QED
    BY <1>5, <2>3, <2>4, IdleScreen DEF RefuseRegister, TypeOK, Routes
<1>6. CASE Register
  <2>1. DEFINE f == [form EXCEPT !.busy = TRUE]
  <2>2. f \in Form /\ f.busy /\ f.verified = form.verified
    BY DEF TypeOK, Form
  <2>3. KeyLeaves(f) /\ OnScreen
    BY <1>6 DEF Register
  <2>4. /\ screen' = "NnsBuy" /\ form' \in Form /\ ownedFetches' \in Nat
        /\ form'.busy /\ form'.verified = form.verified
    BY <2>2, <2>3, KeyFacts
  <2>5. /\ Canonical[form.value] \in MaybeName
        /\ Canonical[form.value] # NoName /\ Canonical[form.value] = form.verified
    BY <1>6, CanonicalFacts DEF Register, NameVerified, TypeOK, Form
  <2>6. job' \in Job /\ job'.phase = "asked" /\ job'.name = form.verified
    BY <1>6, <2>5 DEF Register, Job
  <2>7. lookups' = {} /\ found' = found /\ found = form.verified
    BY <1>6, <2>3, <2>5, IdleScreen DEF Register
  <2>8. TypeOK'
    BY <1>6, <2>4, <2>6 DEF Register, TypeOK, Routes
  <2>9. BusyBacked'
    BY <2>4, <2>6, <2>7
  <2>10. QED
    BY <2>4, <2>5, <2>6, <2>7, <2>8, <2>9
<1>7. CASE LeaveNnsBuy
  <2>1. Fetches(form) \in Nat
    BY FetchFacts DEF TypeOK
  <2>2. ownedFetches' \in Nat
    BY <1>7, <2>1 DEF LeaveNnsBuy, TypeOK
  <2>3. QED
    BY <1>7, <2>2, IdleScreen, FormFacts DEF LeaveNnsBuy, TypeOK, Routes, EmptyForm
<1>8. QED
  BY <1>1, <1>2, <1>3, <1>4, <1>5, <1>6, <1>7 DEF ScreenKeys

LEMMA OtherStep == Inv /\ OtherInput => Inv'
<1> SUFFICES ASSUME Inv, OtherInput PROVE Inv'
  OBVIOUS
<1> USE DEF Inv, FormOnScreen, BusyBacked, VerifiedWasFound, RegisteredWasFound, Awake
<1>1. CASE OpenNnsBuy
  <2>1. /\ form' \in Form /\ ~form'.busy /\ form'.verified = NoName
        /\ Fetches(EmptyForm) \in Nat
    BY <1>1, FormFacts, FetchFacts DEF OpenNnsBuy, EmptyForm
  <2>2. ownedFetches' \in Nat
    BY <1>1, <2>1 DEF OpenNnsBuy, TypeOK
  <2>3. QED
    BY <1>1, <2>1, <2>2 DEF OpenNnsBuy, KeysHeard, TypeOK, Routes
<1>2. CASE Paste
  <2>1. form' \in Form /\ form'.busy = form.busy /\ form'.verified = NoName
    BY <1>2, TextFacts DEF Paste, TypeOK
  <2>2. QED
    BY <1>2, <2>1 DEF Paste, TypeOK
<1>3. CASE MoveElsewhere
  BY <1>3 DEF MoveElsewhere, TypeOK, Routes
<1>4. CASE LearnAddress
  BY <1>4 DEF LearnAddress, TypeOK
<1>5. QED
  BY <1>1, <1>2, <1>3, <1>4 DEF OtherInput

-----------------------------------------------------------------------------
LEMMA LookupStep == Inv /\ LookupSteps => Inv'
<1> SUFFICES ASSUME Inv, LookupSteps PROVE Inv'
  OBVIOUS
<1> USE DEF Inv, FormOnScreen, BusyBacked, VerifiedWasFound, RegisteredWasFound, Awake
<1>1. CASE AnswerLookup
  <2>1. PICK l \in lookups, verdict \in {"ok", "err"} :
          lookups' = (lookups \ {l}) \cup {[l EXCEPT !.phase = verdict]}
    BY <1>1 DEF AnswerLookup
  <2>2. lookups = {l} /\ l \in Lookup
    BY <2>1 DEF TypeOK
  <2>3. DEFINE m == [l EXCEPT !.phase = verdict]
  <2>4. lookups' = {m} /\ m \in Lookup
    BY <2>1, <2>2 DEF Lookup
  <2>5. QED
    BY <1>1, <2>2, <2>4 DEF AnswerLookup, TypeOK
<1>2. CASE LookupCompleted
  <2>1. PICK l \in lookups :
          /\ lookups' = lookups \ {l}
          /\ form' = IF screen = "NnsBuy" THEN FormAfterLookup(l) ELSE form
          /\ found' = IF l.phase = "ok" THEN Canonical[l.of] ELSE NoName
          /\ UNCHANGED <<screen, ownedFetches, address, job, started, frozen>>
    BY <1>2 DEF LookupCompleted
  <2>2. /\ screen = "NnsBuy" /\ lookups' = {} /\ job.phase = "none"
        /\ l \in Lookup /\ form \in Form
    BY <2>1 DEF TypeOK
  <2>3. Canonical[l.of] \in MaybeName /\ NoName \in MaybeName
    BY <2>2, CanonicalFacts DEF Lookup, MaybeName
  <2>4. form' = FormAfterLookup(l)
    BY <2>1, <2>2
  <2>5. form' \in Form /\ ~form'.busy /\ form'.verified = found' /\ found' \in MaybeName
    BY <2>1, <2>2, <2>3, <2>4 DEF FormAfterLookup, Form
  <2>6. QED
    BY <2>1, <2>2, <2>5 DEF TypeOK
<1>3. QED
  BY <1>1, <1>2 DEF LookupSteps

LEMMA OwnedStep == Inv /\ OwnedNamesLoaded => Inv'
<1> SUFFICES ASSUME Inv, OwnedNamesLoaded PROVE Inv'
  OBVIOUS
<1> USE DEF Inv, FormOnScreen, BusyBacked, VerifiedWasFound, RegisteredWasFound, Awake
<1>1. form' \in Form /\ form'.busy = form.busy /\ form'.verified = form.verified
      /\ (screen # "NnsBuy" => form' = form)
  BY DEF OwnedNamesLoaded, TypeOK, Form
<1>2. ownedFetches' \in Nat
  <2>1. ownedFetches \in Nat /\ ownedFetches > 0 /\ ownedFetches' = ownedFetches - 1
    BY DEF OwnedNamesLoaded, TypeOK
  <2>2. QED
    BY <2>1
<1>3. QED
  BY <1>1, <1>2 DEF OwnedNamesLoaded, TypeOK

LEMMA JobStep == Inv /\ JobSteps => Inv'
<1> SUFFICES ASSUME Inv, JobSteps PROVE Inv'
  OBVIOUS
<1> USE DEF Inv, FormOnScreen, BusyBacked, VerifiedWasFound, RegisteredWasFound, Awake
<1>1. CASE ExecuteJob
  <2>1. job' \in Job /\ job'.phase # "none" /\ job'.name = job.name /\ job.phase # "none"
    BY <1>1 DEF ExecuteJob, TypeOK, Job
  <2>2. QED
    BY <1>1, <2>1 DEF ExecuteJob, TypeOK
<1>2. CASE JobCompleted
  <2>1. screen = "NnsBuy" /\ form.busy /\ lookups = {}
    BY <1>2 DEF JobCompleted
  <2>2. screen' \in {"Home", "Error"} /\ form' = EmptyForm /\ job' = NoJob
    BY <1>2, <2>1 DEF JobCompleted
  <2>3. QED
    BY <1>2, <2>1, <2>2, FormFacts DEF JobCompleted, TypeOK, Routes, NoJob, EmptyForm
<1>3. QED
  BY <1>1, <1>2 DEF JobSteps

LEMMA InvStep == Inv /\ [Next]_vars => Inv'
<1>1. Inv /\ UNCHANGED vars => Inv'
  BY DEF Inv, TypeOK, FormOnScreen, BusyBacked, VerifiedWasFound, RegisteredWasFound, vars
<1>2. Inv /\ FreezeThread => Inv'
  BY DEF Inv, TypeOK, FormOnScreen, BusyBacked, VerifiedWasFound, RegisteredWasFound, FreezeThread
<1>3. QED
  BY <1>1, <1>2, KeyStep, OtherStep, LookupStep, OwnedStep, JobStep DEF Next

(* The invariant of the screen, its form, and the two requests behind it.  *)
THEOREM InvHolds == Spec => []Inv
  BY InvInit, InvStep, PTL DEF Spec

-----------------------------------------------------------------------------
(* What the screen and the buyer rely on.                                  *)

(* Every variable keeps its type.                                          *)
THEOREM TypeCorrect == Spec => []TypeOK
<1>1. Inv => TypeOK
  BY DEF Inv
<1>2. QED
  BY <1>1, InvHolds, PTL

(* The lock on the screen always has its one request behind it.            *)
THEOREM BusyCorrect == Spec => []BusyBacked
<1>1. Inv => BusyBacked
  BY DEF Inv
<1>2. QED
  BY <1>1, InvHolds, PTL

(* Only a name the last search found free is ever registered.              *)
THEOREM RegisterCorrect == Spec => []RegisteredWasFound
<1>1. Inv => RegisteredWasFound
  BY DEF Inv
<1>2. QED
  BY <1>1, InvHolds, PTL
=============================================================================
