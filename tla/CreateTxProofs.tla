--------------------------- MODULE CreateTxProofs ---------------------------
(* The create-tx wizard, for any set of texts and any bounds: what it      *)
(* submits can be paid, was confirmed, and survives a failure.             *)
EXTENDS CreateTx, TLAPS

Payable(c) == \A i \in DOMAIN c.recipients : CanBePaid(c.recipients[i])

(* Outside the wizard nothing is half entered; an error screen has its     *)
(* command, which a wizard entered anew does not; a command that was       *)
(* submitted leaves the wizard at its last question.                       *)
Routed ==
  /\ screen # "Wizard" => /\ step = "Address" /\ line = Empty /\ ~first
                          /\ draft = NoRecipient /\ tx = NoCommand
  /\ screen = "Error" => failed # NoCommand /\ ~Running
  /\ screen = "Away" /\ ~Running => failed = NoCommand
  /\ screen = "Wizard" /\ failed # NoCommand => step \in Options
  /\ screen = "Wizard" /\ Running => step = "NoteSelection"

(* Between two recipients the draft is blank, and the list is asked to end *)
(* only with somebody in it.                                               *)
Drafted ==
  /\ step \in {"Address", "AddAnother"} => draft = NoRecipient
  /\ step = "AddAnother" => tx.recipients # <<>>

(* What has been asked of the draft, and everybody taken up, passed.       *)
Checked ==
  /\ step \in {"Memo", "Blob"} => draft.Amount \in Numbers \ {Zero}
  /\ step = "Blob" => draft.Memo \notin TooLong
  /\ Payable(tx) /\ Payable(job) /\ Payable(failed)
  /\ Running => job.recipients # <<>>
  /\ failed # NoCommand => failed.recipients # <<>>

(* The options asked before each of them.                                  *)
Before(s) ==
  CASE s = "Names" -> {}
    [] s = "Fee" -> {"Names"}
    [] s = "AllowLowFee" -> {"Names", "Fee"}
    [] s = "Refund" -> {"Names", "Fee", "AllowLowFee"}
    [] s = "Index" -> {"Names", "Fee", "AllowLowFee", "Refund"}
    [] s = "Hardened" -> {"Names", "Fee", "AllowLowFee", "Refund", "Index"}
    [] s = "IncludeData" -> {"Names", "Fee", "AllowLowFee", "Refund", "Index", "Hardened"}
    [] s = "SignKeys" -> {"Names", "Fee", "AllowLowFee", "Refund", "Index", "Hardened",
                          "IncludeData"}
    [] s = "SaveRaw" -> {"Names", "Fee", "AllowLowFee", "Refund", "Index", "Hardened",
                         "IncludeData", "SignKeys"}
    [] s = "NoteSelection" -> {"Names", "Fee", "AllowLowFee", "Refund", "Index", "Hardened",
                               "IncludeData", "SignKeys", "SaveRaw"}

(* The options have been asked in turn, and the wizard heeds every answer  *)
(* it was given so far.                                                    *)
Confirms ==
  /\ step \in Options /\ ~Running => DOMAIN answers = Before(step)
  /\ step \in Options => \A o \in DOMAIN answers : Heeds(tx, o, answers[o])
  /\ Running /\ screen = "Wizard" => job = tx /\ DOMAIN answers = Options

(* The question shows the option that is asked.                            *)
Showing ==
  /\ step = "Names" => line = tx.names
  /\ step = "Fee" => line = tx.fee
  /\ step = "AllowLowFee" => first = tx.allow_low_fee
  /\ step = "Refund" => line = tx.refund_pkh
  /\ step = "Index" => line = tx.index
  /\ step = "Hardened" => first = tx.hardened
  /\ step = "IncludeData" => first = tx.include_data
  /\ step = "SignKeys" => line = tx.sign_keys
  /\ step = "SaveRaw" => first = tx.save_raw_tx
  /\ step = "NoteSelection" => first

(* A command taken back and not changed is still there, and shown.         *)
TakenBack == screen = "Wizard" /\ failed # NoCommand /\ asItWas
Unchanged ==
  TakenBack =>
    /\ Showing
    /\ ~Running => tx = failed
    /\ Running => tx = [failed EXCEPT !.note_selection_strategy = "ascending"]

Types == TypeOK /\ Routed /\ Drafted
Inv == Types /\ Checked /\ Confirms /\ Unchanged
-----------------------------------------------------------------------------
(* Commands as records.                                                    *)

LEMMA Conversions ==
  /\ Empty \in KeyLists /\ Empty \notin Numbers
  /\ Amounts \subseteq Lines /\ KeyLists \subseteq Lines
  /\ \A l \in Numbers \cup {Empty} : Number(l) \in Amounts \cup {Empty}
  /\ \A v \in Amounts \cup {Empty} : v \in Numbers \cup {Empty} /\ Number(v) = v
  /\ \A l \in Lines : Keys[l] \in KeyLists
  /\ \A v \in KeyLists : Keys[v] = v
  BY LinesAssumption, ConversionsAssumption DEF Number, Amounts, KeyLists

LEMMA DefaultsFit ==
  ASSUME NEW list \in Seq(Recipient)
  PROVE  WithDefaults(list) \in Command /\ WithDefaults(list).recipients = list
  BY Conversions, LinesAssumption DEF WithDefaults, Command

LEMMA NoCommandFacts == NoCommand \in Command /\ NoCommand.recipients = <<>>
<1>1. <<>> \in Seq(Recipient)
  OBVIOUS
<1>2. QED
  BY <1>1, DefaultsFit DEF NoCommand

LEMMA RecipientAdded ==
  ASSUME NEW c \in Command, NEW r \in Recipient
  PROVE  LET d == [c EXCEPT !.recipients = Append(@, r)] IN
         /\ d \in Command
         /\ d.recipients = Append(c.recipients, r)
         /\ d.recipients # <<>>
<1>1. c.recipients \in Seq(Recipient)
  BY DEF Command
<1>2. Append(c.recipients, r) \in Seq(Recipient) /\ Append(c.recipients, r) # <<>>
  BY <1>1
<1>3. \A list \in Seq(Recipient) :
        /\ [c EXCEPT !.recipients = list] \in Command
        /\ [c EXCEPT !.recipients = list].recipients = list
  BY DEF Command
<1>4. [c EXCEPT !.recipients = Append(@, r)] = [c EXCEPT !.recipients = Append(c.recipients, r)]
  BY DEF Command
<1>5. QED
  BY <1>2, <1>3, <1>4

-----------------------------------------------------------------------------
(* Questions.                                                              *)

LEMMA StepFacts ==
  /\ Options \cap RecipientSteps = {} /\ Asked \subseteq LineSteps
  /\ Asked \cap Toggles = {} /\ (Toggles \cup {"NoteSelection"}) \cap LineSteps = {}
  /\ Asked \subseteq Options /\ Toggles \subseteq Options
<1>1. Options \cap RecipientSteps = {} /\ Asked \subseteq LineSteps
  BY DEF Asked, Toggles, Options, RecipientSteps, LineSteps
<1>2. Asked \cap Toggles = {} /\ (Toggles \cup {"NoteSelection"}) \cap LineSteps = {}
  BY DEF Asked, Toggles, RecipientSteps, LineSteps
<1>3. QED
  BY <1>1, <1>2 DEF Options

LEMMA NoRecipientFits == NoRecipient \in Recipient
  BY LinesAssumption DEF NoRecipient, Recipient

LEMMA EditedFacts ==
  ASSUME TypeOK, Edited
  PROVE  edits' \in 0..MaxEdits /\ asItWas' = FALSE
  BY BoundsAssumption DEF TypeOK, Edited

(* A wizard that is entered, left or done with: no command runs, and the   *)
(* error screen has the one that just failed.                              *)
LEMMA RestartKeepsInv ==
  ASSUME Inv, NEW route \in {"Wizard", "Error", "Away"}, Restarted(route),
         job' = NoCommand,
         \/ failed' = NoCommand /\ route # "Error"
         \/ failed' = job /\ Running /\ route = "Error",
         UNCHANGED <<edits, asItWas>>
  PROVE  Inv'
<1>1. /\ screen' = route /\ step' = "Address" /\ line' = Empty /\ first' = FALSE
      /\ draft' = NoRecipient /\ tx' = NoCommand /\ answers' = NoAnswers
  BY DEF Restarted, Ask
<1>2. /\ "Address" \in RecipientSteps /\ "Address" \notin Options
      /\ \A i \in DOMAIN <<>> : CanBePaid(<<>>[i])
      /\ DOMAIN NoAnswers \subseteq Options
  BY DEF RecipientSteps, Options, Asked, Toggles, NoAnswers
<1>3. TypeOK'
  BY <1>1, <1>2, NoCommandFacts, NoRecipientFits, LinesAssumption DEF Inv, Types, TypeOK
<1>4. Routed' /\ Drafted'
  BY <1>1, <1>2 DEF Routed, Drafted, Running
<1>5. Checked'
  BY <1>1, <1>2, NoCommandFacts DEF Inv, Checked, Payable, Running
<1>6. Confirms' /\ Unchanged'
  BY <1>1, <1>2 DEF Confirms, Unchanged, TakenBack, Running
<1>7. QED
  BY <1>3, <1>4, <1>5, <1>6 DEF Inv, Types

LEMMA RestartsKeepInv ==
  Inv /\ (StartFresh \/ LeaveWizard \/ JobSucceeds \/ JobFails \/ LeaveError) => Inv'
<1>1. Inv /\ StartFresh => Inv'
  BY RestartKeepsInv DEF StartFresh, Inv, Types, Routed, Running
<1>2. Inv /\ LeaveWizard => Inv'
  BY RestartKeepsInv DEF LeaveWizard, Running
<1>3. Inv /\ JobSucceeds => Inv'
  BY RestartKeepsInv DEF JobSucceeds
<1>4. Inv /\ JobFails => Inv'
  BY RestartKeepsInv DEF JobFails
<1>5. Inv /\ LeaveError => Inv'
  BY RestartKeepsInv DEF LeaveError, Inv, Types, Routed, Running
<1>6. QED
  BY <1>1, <1>2, <1>3, <1>4, <1>5

-----------------------------------------------------------------------------
(* Recipients: no command runs and none has been taken back.               *)

LEMMA AmongRecipients ==
  ASSUME Inv, NEW s \in RecipientSteps, OnStep(s)
  PROVE  /\ screen = "Wizard" /\ ~Running /\ step = s /\ s \notin Options
         /\ failed = NoCommand
  BY StepFacts DEF Inv, Types, Routed, OnStep

LEMMA EditLineKeepsInv == Inv /\ EditLine => Inv'
<1> SUFFICES ASSUME Inv, EditLine PROVE Inv'
  OBVIOUS
<1>1. /\ screen = "Wizard" /\ step \in LineSteps /\ line' \in Lines
      /\ UNCHANGED <<screen, step, first, draft, tx, job, failed, answers>>
      /\ edits' \in 0..MaxEdits /\ asItWas' = FALSE
  BY EditedFacts DEF EditLine, Inv, Types
<1>2. Types'
  BY <1>1 DEF Inv, Types, TypeOK, Routed, Drafted, Running
<1>3. Checked' /\ Confirms' /\ Unchanged'
  BY <1>1 DEF Inv, Checked, Payable, Confirms, Unchanged, TakenBack, Running
<1>4. QED
  BY <1>2, <1>3 DEF Inv

LEMMA MoveHighlightKeepsInv == Inv /\ MoveHighlight => Inv'
<1> SUFFICES ASSUME Inv, MoveHighlight PROVE Inv'
  OBVIOUS
<1>1. /\ screen = "Wizard" /\ step \notin LineSteps /\ first' \in BOOLEAN
      /\ UNCHANGED <<screen, step, line, draft, tx, job, failed, answers>>
      /\ edits' \in 0..MaxEdits /\ asItWas' = FALSE
  BY EditedFacts DEF MoveHighlight, Inv, Types, TypeOK
<1>2. Types'
  BY <1>1 DEF Inv, Types, TypeOK, Routed, Drafted, Running
<1>3. Checked' /\ Confirms' /\ Unchanged'
  BY <1>1 DEF Inv, Checked, Payable, Confirms, Unchanged, TakenBack, Running
<1>4. QED
  BY <1>2, <1>3 DEF Inv

LEMMA AnswerRecipientKeepsInv == Inv /\ AnswerRecipient => Inv'
<1> SUFFICES ASSUME Inv, AnswerRecipient PROVE Inv'
  OBVIOUS
<1>1. PICK s \in {"Address", "Amount", "Memo"} :
        /\ OnStep(s) /\ Accepted(s)
        /\ draft' = [draft EXCEPT ![s] = IF s = "Amount" THEN Decimal[line] ELSE line]
        /\ step' = NextField(s) /\ line' = Empty /\ first' = FALSE
  BY DEF AnswerRecipient, Ask
<1>2. UNCHANGED <<screen, tx, job, failed, answers, edits, asItWas>>
  BY DEF AnswerRecipient
<1> DEFINE a == IF s = "Amount" THEN Decimal[line] ELSE line
<1>a. /\ a \in Lines
      /\ s = "Amount" => a \in Numbers \ {Zero}
      /\ s = "Memo" => a \notin TooLong
  BY <1>1, LinesAssumption, ConversionsAssumption DEF Accepted, Inv, Types, TypeOK
<1> HIDE DEF a
<1>3. screen = "Wizard" /\ ~Running /\ step = s /\ failed = NoCommand
  BY <1>1, AmongRecipients DEF RecipientSteps
<1>4. /\ draft' \in Recipient /\ draft'[s] = a
      /\ \A f \in {"Address", "Amount", "Memo", "Blob"} \ {s} : draft'[f] = draft[f]
  <2>1. draft' = [draft EXCEPT ![s] = a]
    BY <1>1 DEF a
  <2>2. QED
    BY <1>a, <2>1 DEF Inv, Types, TypeOK, Recipient
<1>5. step' \in {"Amount", "Memo", "Blob"} /\ step' \in RecipientSteps \ Options
  BY <1>1 DEF NextField, RecipientSteps, Options, Asked, Toggles
<1>6. TypeOK'
  BY <1>1, <1>2, <1>4, <1>5, LinesAssumption DEF Inv, Types, TypeOK
<1>7. Routed' /\ Drafted'
  BY <1>2, <1>3, <1>5 DEF Inv, Types, Routed, Drafted, Running
<1>8. /\ step' \in {"Memo", "Blob"} => draft'.Amount \in Numbers \ {Zero}
      /\ step' = "Blob" => draft'.Memo \notin TooLong
  <2>1. CASE s = "Address"
    BY <1>1, <2>1 DEF NextField
  <2>2. CASE s = "Amount"
    BY <1>1, <1>4, <1>a, <2>2 DEF NextField
  <2>3. CASE s = "Memo"
    BY <1>1, <1>3, <1>4, <1>a, <2>3 DEF NextField, Inv, Checked
  <2>4. QED
    BY <2>1, <2>2, <2>3
<1>9. Checked'
  BY <1>2, <1>3, <1>8 DEF Inv, Checked, Payable, Running
<1>10. Confirms' /\ Unchanged'
  BY <1>2, <1>3, <1>5 DEF Confirms, Unchanged, TakenBack, Running
<1>11. QED
  BY <1>6, <1>7, <1>9, <1>10 DEF Inv, Types

LEMMA NoFurtherKeepsInv == Inv /\ NoFurther => Inv'
<1> SUFFICES ASSUME Inv, NoFurther PROVE Inv'
  OBVIOUS
<1>1. /\ step' = "AddAnother" /\ tx.recipients # <<>> /\ OnStep("Address")
      /\ UNCHANGED <<screen, draft, tx, job, failed, answers, edits, asItWas>>
      /\ line' = Empty /\ first' = FALSE
  BY DEF NoFurther, MayEnd, Offer
<1>2. screen = "Wizard" /\ ~Running /\ step = "Address" /\ failed = NoCommand
  BY <1>1, AmongRecipients DEF RecipientSteps
<1>3. "AddAnother" \in RecipientSteps \ Options
  BY DEF RecipientSteps, Options, Asked, Toggles
<1>4. Types'
  BY <1>1, <1>2, <1>3, LinesAssumption DEF Inv, Types, TypeOK, Routed, Drafted, Running
<1>5. Checked' /\ Confirms' /\ Unchanged'
  BY <1>1, <1>2, <1>3 DEF Inv, Checked, Payable, Confirms, Unchanged, TakenBack, Running
<1>6. QED
  BY <1>4, <1>5 DEF Inv

LEMMA AddAnotherKeepsInv == Inv /\ AddAnother => Inv'
<1> SUFFICES ASSUME Inv, AddAnother PROVE Inv'
  OBVIOUS
<1>1. /\ step' = "Address" /\ OnStep("AddAnother") /\ line' = Empty /\ first' = FALSE
      /\ UNCHANGED <<screen, draft, tx, job, failed, answers, edits, asItWas>>
  BY DEF AddAnother, Ask
<1>2. screen = "Wizard" /\ ~Running /\ step = "AddAnother" /\ failed = NoCommand
  BY <1>1, AmongRecipients DEF RecipientSteps
<1>3. "Address" \in (RecipientSteps \cap LineSteps) \ Options
  BY DEF RecipientSteps, LineSteps, Options, Asked, Toggles
<1>4. Types'
  BY <1>1, <1>2, <1>3, LinesAssumption DEF Inv, Types, TypeOK, Routed, Drafted, Running
<1>5. Checked' /\ Confirms' /\ Unchanged'
  BY <1>1, <1>2, <1>3 DEF Inv, Checked, Payable, Confirms, Unchanged, TakenBack, Running
<1>6. QED
  BY <1>4, <1>5 DEF Inv

(* Three answers later the address is checked too.                         *)
LEMMA AddRecipientKeepsInv == Inv /\ AddRecipient => Inv'
<1> SUFFICES ASSUME Inv, AddRecipient PROVE Inv'
  OBVIOUS
<1> DEFINE r == [draft EXCEPT !.Blob = line]
<1>1. /\ OnStep("Blob") /\ Accepted("Blob")
      /\ draft' = NoRecipient /\ step' = "AddAnother" /\ line' = Empty /\ first' = FALSE
      /\ UNCHANGED <<screen, job, failed, answers, edits, asItWas>>
  BY DEF AddRecipient, Offer
<1>2. tx' = [tx EXCEPT !.recipients = Append(@, r)]
  BY DEF AddRecipient
<1>3. screen = "Wizard" /\ ~Running /\ step = "Blob" /\ failed = NoCommand
  BY <1>1, AmongRecipients DEF RecipientSteps
<1>4. r \in Recipient /\ CanBePaid(r)
  <2>1. /\ r \in Recipient /\ r.Blob = line
        /\ r.Address = draft.Address /\ r.Amount = draft.Amount /\ r.Memo = draft.Memo
    BY DEF Inv, Types, TypeOK, Recipient
  <2>2. QED
    BY <1>1, <1>3, <2>1 DEF CanBePaid, Accepted, Inv, Checked
<1> HIDE DEF r
<1>5. tx' \in Command /\ tx'.recipients = Append(tx.recipients, r) /\ tx'.recipients # <<>>
  BY <1>2, <1>4, RecipientAdded DEF Inv, Types, TypeOK
<1>6. tx.recipients \in Seq(Recipient)
  BY DEF Inv, Types, TypeOK, Command
<1>7. Payable(tx')
  <2>1. ASSUME NEW i \in DOMAIN tx'.recipients PROVE CanBePaid(tx'.recipients[i])
    <3>1. \/ i \in DOMAIN tx.recipients /\ tx'.recipients[i] = tx.recipients[i]
          \/ tx'.recipients[i] = r
      BY <1>4, <1>5, <1>6
    <3>2. QED
      BY <1>4, <3>1 DEF Inv, Checked, Payable
  <2>2. QED
    BY <2>1 DEF Payable
<1>8. "AddAnother" \in RecipientSteps \ Options
  BY DEF RecipientSteps, Options, Asked, Toggles
<1>9. Types'
  BY <1>1, <1>3, <1>5, <1>8, NoRecipientFits, LinesAssumption
  DEF Inv, Types, TypeOK, Routed, Drafted, Running
<1>10. Checked'
  BY <1>1, <1>3, <1>7 DEF Inv, Checked, Payable, Running
<1>11. Confirms' /\ Unchanged'
  BY <1>1, <1>3, <1>8 DEF Confirms, Unchanged, TakenBack, Running
<1>12. QED
  BY <1>9, <1>10, <1>11 DEF Inv

LEMMA BeginOptionsKeepsInv == Inv /\ BeginOptions => Inv'
<1> SUFFICES ASSUME Inv, BeginOptions PROVE Inv'
  OBVIOUS
<1>1. /\ OnStep("AddAnother") /\ tx' = WithDefaults(tx.recipients) /\ answers' = NoAnswers
      /\ step' = "Names" /\ line' = Empty /\ first' = FALSE
      /\ UNCHANGED <<screen, draft, job, failed, edits, asItWas>>
  BY DEF BeginOptions, Ask
<1>2. screen = "Wizard" /\ ~Running /\ step = "AddAnother" /\ failed = NoCommand
  BY <1>1, AmongRecipients DEF RecipientSteps
<1>3. tx' \in Command /\ tx'.recipients = tx.recipients
  BY <1>1, DefaultsFit DEF Inv, Types, TypeOK, Command
<1>4. "Names" \in Asked /\ "Names" \in Options /\ DOMAIN NoAnswers = {} /\ Before("Names") = {}
  BY DEF Options, Asked, NoAnswers, Before
<1>5. draft = NoRecipient /\ tx.recipients # <<>>
  BY <1>2 DEF Inv, Types, Drafted
<1>6. TypeOK'
  BY <1>1, <1>3, <1>4, <1>5, LinesAssumption DEF Inv, Types, TypeOK
<1>7. Routed' /\ Drafted'
  BY <1>1, <1>2, <1>3, <1>4, <1>5 DEF Inv, Types, Routed, Drafted, Running
<1>8. Checked'
  BY <1>1, <1>2, <1>3 DEF Inv, Checked, Payable, Running
<1>9. Confirms' /\ Unchanged'
  BY <1>1, <1>2, <1>4 DEF Confirms, Unchanged, TakenBack, Running
<1>10. QED
  BY <1>6, <1>7, <1>8, <1>9 DEF Inv, Types

-----------------------------------------------------------------------------
(* Options.                                                                *)

(* What an answer adds to the answers given.                               *)
LEMMA NotedFacts ==
  ASSUME NEW a, Noted(a)
  PROVE  /\ DOMAIN answers' = DOMAIN answers \cup {step}
         /\ answers'[step] = a
         /\ \A o \in DOMAIN answers \ {step} : answers'[o] = answers[o]
  BY DEF Noted

(* An arm that stores what it asked, touches nothing else, and shows the   *)
(* next question as its option is.                                         *)
Arm(s, a, next) ==
  /\ tx' \in Command /\ tx'.recipients = tx.recipients
  /\ Heeds(tx', s, a)
  /\ \A o \in Options \ {s} : \A b : Heeds(tx, o, b) => Heeds(tx', o, b)
  /\ step' = next /\ next \in Options /\ Before(next) = Before(s) \cup {s}
  /\ line' \in Lines /\ (line' # Empty => next \in LineSteps)
  /\ first' \in BOOLEAN /\ (first' => next \notin LineSteps)
  /\ TakenBack => tx' = tx /\ Showing'

LEMMA ArmKeepsInv ==
  ASSUME Inv, NEW s \in Asked \cup Toggles, OnStep(s), NEW a, NEW next, Arm(s, a, next),
         Noted(a), UNCHANGED <<screen, draft, job, failed, edits, asItWas>>
  PROVE  Inv'
<1>1. screen = "Wizard" /\ ~Running /\ step = s /\ s \in Options
  BY StepFacts DEF OnStep
<1>2. /\ tx' \in Command /\ tx'.recipients = tx.recipients
      /\ Heeds(tx', s, a)
      /\ \A o \in Options \ {s} : \A b : Heeds(tx, o, b) => Heeds(tx', o, b)
      /\ step' = next /\ next \in Options /\ next \notin RecipientSteps
      /\ Before(next) = Before(s) \cup {s}
      /\ line' \in Lines /\ (line' # Empty => next \in LineSteps)
      /\ first' \in BOOLEAN /\ (first' => next \notin LineSteps)
      /\ TakenBack => tx' = tx /\ Showing'
  BY StepFacts DEF Arm
<1>3. /\ DOMAIN answers' = DOMAIN answers \cup {s} /\ answers'[s] = a
      /\ \A o \in DOMAIN answers \ {s} : answers'[o] = answers[o]
  BY <1>1, NotedFacts
<1>4. Types'
  <2>1. TypeOK'
    BY <1>1, <1>2, <1>3 DEF Inv, Types, TypeOK
  <2>2. Routed' /\ Drafted'
    BY <1>1, <1>2 DEF Inv, Types, Routed, Drafted, Running, RecipientSteps
  <2>3. QED
    BY <2>1, <2>2 DEF Types
<1>5. Checked'
  BY <1>1, <1>2 DEF Inv, Checked, Payable, Running, RecipientSteps
<1>6. Confirms'
  <2>1. DOMAIN answers' = Before(next)
    BY <1>1, <1>2, <1>3 DEF Inv, Confirms
  <2>2. ASSUME NEW o \in DOMAIN answers' PROVE Heeds(tx', o, answers'[o])
    <3>1. CASE o = s
      BY <1>2, <1>3, <3>1
    <3>2. CASE o # s
      <4>1. o \in DOMAIN answers /\ o \in Options /\ answers'[o] = answers[o]
        BY <1>3, <3>2 DEF Inv, Types, TypeOK
      <4>2. Heeds(tx, o, answers[o])
        BY <1>1, <4>1 DEF Inv, Confirms
      <4>3. QED
        BY <1>2, <3>2, <4>1, <4>2
    <3>3. QED
      BY <3>1, <3>2
  <2>3. ~Running'
    BY <1>1 DEF Running
  <2>4. QED
    BY <1>2, <2>1, <2>2, <2>3 DEF Confirms
<1>7. Unchanged'
  <2>1. TakenBack' => TakenBack
    BY DEF TakenBack
  <2>2. QED
    BY <1>1, <1>2, <2>1 DEF Inv, Unchanged, Running
<1>8. QED
  BY <1>4, <1>5, <1>6, <1>7 DEF Inv

(* A field stored, and the others as they were.                            *)
LEMMA NamesArm ==
  ASSUME Inv, OnStep("Names"), StoreNames
  PROVE  Arm("Names", line, "Fee")
<1>1. /\ tx' = [tx EXCEPT !.names = line]
      /\ step' = "Fee" /\ line' = tx.fee /\ first' = FALSE
  BY DEF StoreNames, Ask
<1>2. line \in Lines
  BY Conversions DEF Inv, Types, TypeOK
<1>3. tx' \in Command /\ tx'.names = line
  BY <1>1, <1>2 DEF Inv, Types, TypeOK, Command
<1>4. /\ tx'.recipients = tx.recipients /\ tx'.fee = tx.fee
      /\ tx'.allow_low_fee = tx.allow_low_fee /\ tx'.refund_pkh = tx.refund_pkh
      /\ tx'.index = tx.index
      /\ tx'.hardened = tx.hardened /\ tx'.include_data = tx.include_data
      /\ tx'.sign_keys = tx.sign_keys /\ tx'.save_raw_tx = tx.save_raw_tx
      /\ tx'.note_selection_strategy = tx.note_selection_strategy
  BY <1>1 DEF Inv, Types, TypeOK, Command
<1>5. /\ Heeds(tx', "Names", line)
      /\ \A o \in Options \ {"Names"} : \A b : Heeds(tx, o, b) => Heeds(tx', o, b)
  BY <1>3, <1>4 DEF Heeds, Options, Asked, Toggles
<1>6. /\ "Fee" \in Options /\ Before("Fee") = Before("Names") \cup {"Names"}
      /\ "Fee" \in LineSteps
  BY DEF Options, Asked, Toggles, LineSteps, RecipientSteps, Before
<1>7. line' \in Lines /\ first' \in BOOLEAN
  BY <1>1, Conversions, LinesAssumption DEF Inv, Types, TypeOK, Command
<1>8. ASSUME TakenBack PROVE tx' = tx /\ Showing'
  <2>1. line = tx.names
    BY <1>8, Conversions DEF OnStep, Inv, Unchanged, Showing
  <2>2. tx' = tx
    BY <1>1, <2>1 DEF Inv, Types, TypeOK, Command
  <2>3. QED
    BY <1>1, <2>2 DEF Showing
<1>9. QED
  BY <1>1, <1>3, <1>4, <1>5, <1>6, <1>7, <1>8 DEF Arm

LEMMA FeeArm ==
  ASSUME Inv, OnStep("Fee"), StoreFee
  PROVE  Arm("Fee", line, "AllowLowFee")
<1>1. /\ tx' = [tx EXCEPT !.fee = Number(line)]
      /\ step' = "AllowLowFee" /\ line' = Empty /\ first' = tx.allow_low_fee
  BY DEF StoreFee, Offer
<1>2. Number(line) \in Amounts \cup {Empty}
  BY Conversions DEF Inv, Types, TypeOK, StoreFee
<1>3. tx' \in Command /\ tx'.fee = Number(line)
  BY <1>1, <1>2 DEF Inv, Types, TypeOK, Command
<1>4. /\ tx'.recipients = tx.recipients /\ tx'.names = tx.names
      /\ tx'.allow_low_fee = tx.allow_low_fee /\ tx'.refund_pkh = tx.refund_pkh
      /\ tx'.index = tx.index
      /\ tx'.hardened = tx.hardened /\ tx'.include_data = tx.include_data
      /\ tx'.sign_keys = tx.sign_keys /\ tx'.save_raw_tx = tx.save_raw_tx
      /\ tx'.note_selection_strategy = tx.note_selection_strategy
  BY <1>1 DEF Inv, Types, TypeOK, Command
<1>5. /\ Heeds(tx', "Fee", line)
      /\ \A o \in Options \ {"Fee"} : \A b : Heeds(tx, o, b) => Heeds(tx', o, b)
  BY <1>3, <1>4 DEF Heeds, Options, Asked, Toggles
<1>6. /\ "AllowLowFee" \in Options /\ Before("AllowLowFee") = Before("Fee") \cup {"Fee"}
      /\ "AllowLowFee" \notin LineSteps
  BY DEF Options, Asked, Toggles, LineSteps, RecipientSteps, Before
<1>7. line' \in Lines /\ first' \in BOOLEAN
  BY <1>1, Conversions, LinesAssumption DEF Inv, Types, TypeOK, Command
<1>8. ASSUME TakenBack PROVE tx' = tx /\ Showing'
  <2>1. Number(line) = tx.fee
    BY <1>8, Conversions DEF OnStep, Inv, Unchanged, Showing, Types, TypeOK, Command
  <2>2. tx' = tx
    BY <1>1, <2>1 DEF Inv, Types, TypeOK, Command
  <2>3. QED
    BY <1>1, <2>2 DEF Showing
<1>9. QED
  BY <1>1, <1>3, <1>4, <1>5, <1>6, <1>7, <1>8 DEF Arm

LEMMA AllowLowFeeArm ==
  ASSUME Inv, OnStep("AllowLowFee"), StoreAllowLowFee
  PROVE  Arm("AllowLowFee", first, "Refund")
<1>1. /\ tx' = [tx EXCEPT !.allow_low_fee = first]
      /\ step' = "Refund" /\ line' = tx.refund_pkh /\ first' = FALSE
  BY DEF StoreAllowLowFee, Ask
<1>2. first \in BOOLEAN
  BY Conversions DEF Inv, Types, TypeOK
<1>3. tx' \in Command /\ tx'.allow_low_fee = first
  BY <1>1, <1>2 DEF Inv, Types, TypeOK, Command
<1>4. /\ tx'.recipients = tx.recipients /\ tx'.names = tx.names /\ tx'.fee = tx.fee
      /\ tx'.refund_pkh = tx.refund_pkh /\ tx'.index = tx.index
      /\ tx'.hardened = tx.hardened /\ tx'.include_data = tx.include_data
      /\ tx'.sign_keys = tx.sign_keys /\ tx'.save_raw_tx = tx.save_raw_tx
      /\ tx'.note_selection_strategy = tx.note_selection_strategy
  BY <1>1 DEF Inv, Types, TypeOK, Command
<1>5. /\ Heeds(tx', "AllowLowFee", first)
      /\ \A o \in Options \ {"AllowLowFee"} : \A b : Heeds(tx, o, b) => Heeds(tx', o, b)
  BY <1>3, <1>4 DEF Heeds, Options, Asked, Toggles
<1>6. /\ "Refund" \in Options /\ Before("Refund") = Before("AllowLowFee") \cup {"AllowLowFee"}
      /\ "Refund" \in LineSteps
  BY DEF Options, Asked, Toggles, LineSteps, RecipientSteps, Before
<1>7. line' \in Lines /\ first' \in BOOLEAN
  BY <1>1, Conversions, LinesAssumption DEF Inv, Types, TypeOK, Command
<1>8. ASSUME TakenBack PROVE tx' = tx /\ Showing'
  <2>1. first = tx.allow_low_fee
    BY <1>8, Conversions DEF OnStep, Inv, Unchanged, Showing
  <2>2. tx' = tx
    BY <1>1, <2>1 DEF Inv, Types, TypeOK, Command
  <2>3. QED
    BY <1>1, <2>2 DEF Showing
<1>9. QED
  BY <1>1, <1>3, <1>4, <1>5, <1>6, <1>7, <1>8 DEF Arm

LEMMA RefundArm ==
  ASSUME Inv, OnStep("Refund"), StoreRefund
  PROVE  Arm("Refund", line, "Index")
<1>1. /\ tx' = [tx EXCEPT !.refund_pkh = line]
      /\ step' = "Index" /\ line' = tx.index /\ first' = FALSE
  BY DEF StoreRefund, Ask
<1>2. line \in Lines
  BY Conversions DEF Inv, Types, TypeOK
<1>3. tx' \in Command /\ tx'.refund_pkh = line
  BY <1>1, <1>2 DEF Inv, Types, TypeOK, Command
<1>4. /\ tx'.recipients = tx.recipients /\ tx'.names = tx.names /\ tx'.fee = tx.fee
      /\ tx'.allow_low_fee = tx.allow_low_fee /\ tx'.index = tx.index
      /\ tx'.hardened = tx.hardened /\ tx'.include_data = tx.include_data
      /\ tx'.sign_keys = tx.sign_keys /\ tx'.save_raw_tx = tx.save_raw_tx
      /\ tx'.note_selection_strategy = tx.note_selection_strategy
  BY <1>1 DEF Inv, Types, TypeOK, Command
<1>5. /\ Heeds(tx', "Refund", line)
      /\ \A o \in Options \ {"Refund"} : \A b : Heeds(tx, o, b) => Heeds(tx', o, b)
  BY <1>3, <1>4 DEF Heeds, Options, Asked, Toggles
<1>6. /\ "Index" \in Options /\ Before("Index") = Before("Refund") \cup {"Refund"}
      /\ "Index" \in LineSteps
  BY DEF Options, Asked, Toggles, LineSteps, RecipientSteps, Before
<1>7. line' \in Lines /\ first' \in BOOLEAN
  BY <1>1, Conversions, LinesAssumption DEF Inv, Types, TypeOK, Command
<1>8. ASSUME TakenBack PROVE tx' = tx /\ Showing'
  <2>1. line = tx.refund_pkh
    BY <1>8, Conversions DEF OnStep, Inv, Unchanged, Showing
  <2>2. tx' = tx
    BY <1>1, <2>1 DEF Inv, Types, TypeOK, Command
  <2>3. QED
    BY <1>1, <2>2 DEF Showing
<1>9. QED
  BY <1>1, <1>3, <1>4, <1>5, <1>6, <1>7, <1>8 DEF Arm

LEMMA IndexArm ==
  ASSUME Inv, OnStep("Index"), StoreIndex
  PROVE  Arm("Index", line, "Hardened")
<1>1. /\ tx' = [tx EXCEPT !.index = Number(line)]
      /\ step' = "Hardened" /\ line' = Empty /\ first' = tx.hardened
  BY DEF StoreIndex, Offer
<1>2. Number(line) \in Amounts \cup {Empty}
  BY Conversions DEF Inv, Types, TypeOK, StoreIndex
<1>3. tx' \in Command /\ tx'.index = Number(line)
  BY <1>1, <1>2 DEF Inv, Types, TypeOK, Command
<1>4. /\ tx'.recipients = tx.recipients /\ tx'.names = tx.names /\ tx'.fee = tx.fee
      /\ tx'.allow_low_fee = tx.allow_low_fee /\ tx'.refund_pkh = tx.refund_pkh
      /\ tx'.hardened = tx.hardened /\ tx'.include_data = tx.include_data
      /\ tx'.sign_keys = tx.sign_keys /\ tx'.save_raw_tx = tx.save_raw_tx
      /\ tx'.note_selection_strategy = tx.note_selection_strategy
  BY <1>1 DEF Inv, Types, TypeOK, Command
<1>5. /\ Heeds(tx', "Index", line)
      /\ \A o \in Options \ {"Index"} : \A b : Heeds(tx, o, b) => Heeds(tx', o, b)
  BY <1>3, <1>4 DEF Heeds, Options, Asked, Toggles
<1>6. /\ "Hardened" \in Options /\ Before("Hardened") = Before("Index") \cup {"Index"}
      /\ "Hardened" \notin LineSteps
  BY DEF Options, Asked, Toggles, LineSteps, RecipientSteps, Before
<1>7. line' \in Lines /\ first' \in BOOLEAN
  BY <1>1, Conversions, LinesAssumption DEF Inv, Types, TypeOK, Command
<1>8. ASSUME TakenBack PROVE tx' = tx /\ Showing'
  <2>1. Number(line) = tx.index
    BY <1>8, Conversions DEF OnStep, Inv, Unchanged, Showing, Types, TypeOK, Command
  <2>2. tx' = tx
    BY <1>1, <2>1 DEF Inv, Types, TypeOK, Command
  <2>3. QED
    BY <1>1, <2>2 DEF Showing
<1>9. QED
  BY <1>1, <1>3, <1>4, <1>5, <1>6, <1>7, <1>8 DEF Arm

LEMMA HardenedArm ==
  ASSUME Inv, OnStep("Hardened"), StoreHardened
  PROVE  Arm("Hardened", first, "IncludeData")
<1>1. /\ tx' = [tx EXCEPT !.hardened = first]
      /\ step' = "IncludeData" /\ line' = Empty /\ first' = tx.include_data
  BY DEF StoreHardened, Offer
<1>2. first \in BOOLEAN
  BY Conversions DEF Inv, Types, TypeOK
<1>3. tx' \in Command /\ tx'.hardened = first
  BY <1>1, <1>2 DEF Inv, Types, TypeOK, Command
<1>4. /\ tx'.recipients = tx.recipients /\ tx'.names = tx.names /\ tx'.fee = tx.fee
      /\ tx'.allow_low_fee = tx.allow_low_fee /\ tx'.refund_pkh = tx.refund_pkh
      /\ tx'.index = tx.index
      /\ tx'.include_data = tx.include_data /\ tx'.sign_keys = tx.sign_keys
      /\ tx'.save_raw_tx = tx.save_raw_tx
      /\ tx'.note_selection_strategy = tx.note_selection_strategy
  BY <1>1 DEF Inv, Types, TypeOK, Command
<1>5. /\ Heeds(tx', "Hardened", first)
      /\ \A o \in Options \ {"Hardened"} : \A b : Heeds(tx, o, b) => Heeds(tx', o, b)
  BY <1>3, <1>4 DEF Heeds, Options, Asked, Toggles
<1>6. /\ "IncludeData" \in Options /\ Before("IncludeData") = Before("Hardened") \cup {"Hardened"}
      /\ "IncludeData" \notin LineSteps
  BY DEF Options, Asked, Toggles, LineSteps, RecipientSteps, Before
<1>7. line' \in Lines /\ first' \in BOOLEAN
  BY <1>1, Conversions, LinesAssumption DEF Inv, Types, TypeOK, Command
<1>8. ASSUME TakenBack PROVE tx' = tx /\ Showing'
  <2>1. first = tx.hardened
    BY <1>8, Conversions DEF OnStep, Inv, Unchanged, Showing
  <2>2. tx' = tx
    BY <1>1, <2>1 DEF Inv, Types, TypeOK, Command
  <2>3. QED
    BY <1>1, <2>2 DEF Showing
<1>9. QED
  BY <1>1, <1>3, <1>4, <1>5, <1>6, <1>7, <1>8 DEF Arm

LEMMA IncludeDataArm ==
  ASSUME Inv, OnStep("IncludeData"), StoreIncludeData
  PROVE  Arm("IncludeData", first, "SignKeys")
<1>1. /\ tx' = [tx EXCEPT !.include_data = first]
      /\ step' = "SignKeys" /\ line' = tx.sign_keys /\ first' = FALSE
  BY DEF StoreIncludeData, Ask
<1>2. first \in BOOLEAN
  BY Conversions DEF Inv, Types, TypeOK
<1>3. tx' \in Command /\ tx'.include_data = first
  BY <1>1, <1>2 DEF Inv, Types, TypeOK, Command
<1>4. /\ tx'.recipients = tx.recipients /\ tx'.names = tx.names /\ tx'.fee = tx.fee
      /\ tx'.allow_low_fee = tx.allow_low_fee /\ tx'.refund_pkh = tx.refund_pkh
      /\ tx'.index = tx.index
      /\ tx'.hardened = tx.hardened /\ tx'.sign_keys = tx.sign_keys
      /\ tx'.save_raw_tx = tx.save_raw_tx
      /\ tx'.note_selection_strategy = tx.note_selection_strategy
  BY <1>1 DEF Inv, Types, TypeOK, Command
<1>5. /\ Heeds(tx', "IncludeData", first)
      /\ \A o \in Options \ {"IncludeData"} : \A b : Heeds(tx, o, b) => Heeds(tx', o, b)
  BY <1>3, <1>4 DEF Heeds, Options, Asked, Toggles
<1>6. /\ "SignKeys" \in Options /\ Before("SignKeys") = Before("IncludeData") \cup {"IncludeData"}
      /\ "SignKeys" \in LineSteps
  BY DEF Options, Asked, Toggles, LineSteps, RecipientSteps, Before
<1>7. line' \in Lines /\ first' \in BOOLEAN
  BY <1>1, Conversions, LinesAssumption DEF Inv, Types, TypeOK, Command
<1>8. ASSUME TakenBack PROVE tx' = tx /\ Showing'
  <2>1. first = tx.include_data
    BY <1>8, Conversions DEF OnStep, Inv, Unchanged, Showing
  <2>2. tx' = tx
    BY <1>1, <2>1 DEF Inv, Types, TypeOK, Command
  <2>3. QED
    BY <1>1, <2>2 DEF Showing
<1>9. QED
  BY <1>1, <1>3, <1>4, <1>5, <1>6, <1>7, <1>8 DEF Arm

LEMMA SignKeysArm ==
  ASSUME Inv, OnStep("SignKeys"), StoreSignKeys
  PROVE  Arm("SignKeys", line, "SaveRaw")
<1>1. /\ tx' = [tx EXCEPT !.sign_keys = Keys[line]]
      /\ step' = "SaveRaw" /\ line' = Empty /\ first' = tx.save_raw_tx
  BY DEF StoreSignKeys, Offer
<1>2. Keys[line] \in KeyLists
  BY Conversions DEF Inv, Types, TypeOK
<1>3. tx' \in Command /\ tx'.sign_keys = Keys[line]
  BY <1>1, <1>2 DEF Inv, Types, TypeOK, Command
<1>4. /\ tx'.recipients = tx.recipients /\ tx'.names = tx.names /\ tx'.fee = tx.fee
      /\ tx'.allow_low_fee = tx.allow_low_fee /\ tx'.refund_pkh = tx.refund_pkh
      /\ tx'.index = tx.index
      /\ tx'.hardened = tx.hardened /\ tx'.include_data = tx.include_data
      /\ tx'.save_raw_tx = tx.save_raw_tx
      /\ tx'.note_selection_strategy = tx.note_selection_strategy
  BY <1>1 DEF Inv, Types, TypeOK, Command
<1>5. /\ Heeds(tx', "SignKeys", line)
      /\ \A o \in Options \ {"SignKeys"} : \A b : Heeds(tx, o, b) => Heeds(tx', o, b)
  BY <1>3, <1>4 DEF Heeds, Options, Asked, Toggles
<1>6. /\ "SaveRaw" \in Options /\ Before("SaveRaw") = Before("SignKeys") \cup {"SignKeys"}
      /\ "SaveRaw" \notin LineSteps
  BY DEF Options, Asked, Toggles, LineSteps, RecipientSteps, Before
<1>7. line' \in Lines /\ first' \in BOOLEAN
  BY <1>1, Conversions, LinesAssumption DEF Inv, Types, TypeOK, Command
<1>8. ASSUME TakenBack PROVE tx' = tx /\ Showing'
  <2>1. Keys[line] = tx.sign_keys
    BY <1>8, Conversions DEF OnStep, Inv, Unchanged, Showing, Types, TypeOK, Command
  <2>2. tx' = tx
    BY <1>1, <2>1 DEF Inv, Types, TypeOK, Command
  <2>3. QED
    BY <1>1, <2>2 DEF Showing
<1>9. QED
  BY <1>1, <1>3, <1>4, <1>5, <1>6, <1>7, <1>8 DEF Arm

LEMMA SaveRawArm ==
  ASSUME Inv, OnStep("SaveRaw"), StoreSaveRaw
  PROVE  Arm("SaveRaw", first, "NoteSelection")
<1>1. /\ tx' = [tx EXCEPT !.save_raw_tx = first]
      /\ step' = "NoteSelection" /\ line' = Empty /\ first' = TRUE
  BY DEF StoreSaveRaw, Offer
<1>2. first \in BOOLEAN
  BY Conversions DEF Inv, Types, TypeOK
<1>3. tx' \in Command /\ tx'.save_raw_tx = first
  BY <1>1, <1>2 DEF Inv, Types, TypeOK, Command
<1>4. /\ tx'.recipients = tx.recipients /\ tx'.names = tx.names /\ tx'.fee = tx.fee
      /\ tx'.allow_low_fee = tx.allow_low_fee /\ tx'.refund_pkh = tx.refund_pkh
      /\ tx'.index = tx.index
      /\ tx'.hardened = tx.hardened /\ tx'.include_data = tx.include_data
      /\ tx'.sign_keys = tx.sign_keys
      /\ tx'.note_selection_strategy = tx.note_selection_strategy
  BY <1>1 DEF Inv, Types, TypeOK, Command
<1>5. /\ Heeds(tx', "SaveRaw", first)
      /\ \A o \in Options \ {"SaveRaw"} : \A b : Heeds(tx, o, b) => Heeds(tx', o, b)
  BY <1>3, <1>4 DEF Heeds, Options, Asked, Toggles
<1>6. /\ "NoteSelection" \in Options /\ Before("NoteSelection") = Before("SaveRaw") \cup {"SaveRaw"}
      /\ "NoteSelection" \notin LineSteps
  BY DEF Options, Asked, Toggles, LineSteps, RecipientSteps, Before
<1>7. line' \in Lines /\ first' \in BOOLEAN
  BY <1>1, Conversions, LinesAssumption DEF Inv, Types, TypeOK, Command
<1>8. ASSUME TakenBack PROVE tx' = tx /\ Showing'
  <2>1. first = tx.save_raw_tx
    BY <1>8, Conversions DEF OnStep, Inv, Unchanged, Showing
  <2>2. tx' = tx
    BY <1>1, <2>1 DEF Inv, Types, TypeOK, Command
  <2>3. QED
    BY <1>1, <2>2 DEF Showing
<1>9. QED
  BY <1>1, <1>3, <1>4, <1>5, <1>6, <1>7, <1>8 DEF Arm

LEMMA AnswerOptionKeepsInv == Inv /\ AnswerOption => Inv'
<1> SUFFICES ASSUME Inv, AnswerOption PROVE Inv'
  OBVIOUS
<1>1. Noted(line) /\ UNCHANGED <<screen, draft, job, failed, edits, asItWas>>
  BY DEF AnswerOption
<1>2. "Names" \in Asked /\ "Fee" \in Asked /\ "Refund" \in Asked /\ "Index" \in Asked
      /\ "SignKeys" \in Asked
  BY DEF Asked
<1>3. CASE OnStep("Names") /\ StoreNames
  BY <1>1, <1>2, <1>3, NamesArm, ArmKeepsInv
<1>4. CASE OnStep("Fee") /\ StoreFee
  BY <1>1, <1>2, <1>4, FeeArm, ArmKeepsInv
<1>5. CASE OnStep("Refund") /\ StoreRefund
  BY <1>1, <1>2, <1>5, RefundArm, ArmKeepsInv
<1>6. CASE OnStep("Index") /\ StoreIndex
  BY <1>1, <1>2, <1>6, IndexArm, ArmKeepsInv
<1>7. CASE OnStep("SignKeys") /\ StoreSignKeys
  BY <1>1, <1>2, <1>7, SignKeysArm, ArmKeepsInv
<1>8. QED
  BY <1>3, <1>4, <1>5, <1>6, <1>7 DEF AnswerOption

LEMMA AnswerToggleKeepsInv == Inv /\ AnswerToggle => Inv'
<1> SUFFICES ASSUME Inv, AnswerToggle PROVE Inv'
  OBVIOUS
<1>1. Noted(first) /\ UNCHANGED <<screen, draft, job, failed, edits, asItWas>>
  BY DEF AnswerToggle
<1>2. "AllowLowFee" \in Toggles /\ "Hardened" \in Toggles /\ "IncludeData" \in Toggles
      /\ "SaveRaw" \in Toggles
  BY DEF Toggles
<1>3. CASE OnStep("AllowLowFee") /\ StoreAllowLowFee
  BY <1>1, <1>2, <1>3, AllowLowFeeArm, ArmKeepsInv
<1>4. CASE OnStep("Hardened") /\ StoreHardened
  BY <1>1, <1>2, <1>4, HardenedArm, ArmKeepsInv
<1>5. CASE OnStep("IncludeData") /\ StoreIncludeData
  BY <1>1, <1>2, <1>5, IncludeDataArm, ArmKeepsInv
<1>6. CASE OnStep("SaveRaw") /\ StoreSaveRaw
  BY <1>1, <1>2, <1>6, SaveRawArm, ArmKeepsInv
<1>7. QED
  BY <1>3, <1>4, <1>5, <1>6 DEF AnswerToggle

LEMMA SubmitKeepsInv == Inv /\ Submit => Inv'
<1> SUFFICES ASSUME Inv, Submit PROVE Inv'
  OBVIOUS
<1> DEFINE s == "NoteSelection"
           v == IF first THEN "ascending" ELSE "descending"
<1>1. /\ OnStep(s) /\ tx' = [tx EXCEPT !.note_selection_strategy = v]
      /\ Noted(first) /\ job' = tx'
      /\ UNCHANGED <<screen, step, line, first, draft, failed, edits, asItWas>>
  BY DEF Submit
<1>2. /\ s \in Options /\ s \notin Asked \cup RecipientSteps
      /\ Before(s) \cup {s} = Options
  BY DEF Options, Asked, Toggles, RecipientSteps, Before
<1>3. screen = "Wizard" /\ ~Running /\ step = s /\ DOMAIN answers = Before(s)
  BY <1>1, <1>2 DEF OnStep, Inv, Confirms
<1>4. /\ tx' \in Command /\ tx'.note_selection_strategy = v
      /\ tx'.recipients = tx.recipients /\ tx.recipients # <<>>
      /\ tx'.names = tx.names /\ tx'.fee = tx.fee /\ tx'.allow_low_fee = tx.allow_low_fee
      /\ tx'.refund_pkh = tx.refund_pkh /\ tx'.index = tx.index /\ tx'.hardened = tx.hardened
      /\ tx'.include_data = tx.include_data /\ tx'.sign_keys = tx.sign_keys
      /\ tx'.save_raw_tx = tx.save_raw_tx
  BY <1>1, <1>2, <1>3 DEF Inv, Types, TypeOK, Command
<1>5. /\ DOMAIN answers' = Options /\ answers'[s] = first
      /\ \A o \in Options \ {s} : answers'[o] = answers[o]
  BY <1>1, <1>2, <1>3, NotedFacts
<1>6. Types'
  <2>1. TypeOK'
    BY <1>1, <1>3, <1>4, <1>5 DEF Inv, Types, TypeOK
  <2>2. Routed' /\ Drafted'
    BY <1>1, <1>2, <1>3 DEF Inv, Types, Routed, Drafted, Running
  <2>3. QED
    BY <2>1, <2>2 DEF Types
<1>7. Checked'
  BY <1>1, <1>3, <1>4 DEF Inv, Checked, Payable, Running
<1>8. Confirms'
  <2>1. ASSUME NEW o \in Options PROVE Heeds(tx', o, answers'[o])
    <3>1. CASE o = s
      BY <1>4, <1>5, <3>1 DEF Heeds, Inv, Types, TypeOK
    <3>2. CASE o # s
      <4>1. Heeds(tx, o, answers[o])
        BY <1>2, <1>3, <3>2 DEF Inv, Confirms
      <4>2. Heeds(tx', o, answers[o])
        BY <1>4, <3>2, <4>1 DEF Heeds, Options, Asked, Toggles
      <4>3. QED
        BY <1>5, <3>2, <4>2
    <3>3. QED
      BY <3>1, <3>2
  <2>2. Running' => job' = tx'
    BY <1>1
  <2>3. Running'
    BY <1>1, <1>4, NoCommandFacts DEF Running
  <2>4. \A o \in DOMAIN answers' : Heeds(tx', o, answers'[o])
    BY <1>5, <2>1
  <2>5. QED
    BY <1>5, <2>2, <2>3, <2>4 DEF Confirms
<1>9. Unchanged'
  <2>1. SUFFICES ASSUME TakenBack' PROVE
          /\ Showing' /\ tx' = [failed EXCEPT !.note_selection_strategy = "ascending"]
          /\ Running'
    BY <1>1 DEF Unchanged
  <2>2. TakenBack
    BY <1>1, <2>1 DEF TakenBack
  <2>3. tx = failed /\ first
    BY <1>3, <2>2 DEF Inv, Unchanged, Showing
  <2>4. Showing'
    BY <1>1, <1>3, <2>3 DEF Showing
  <2>5. Running'
    BY <1>1, <1>4, NoCommandFacts DEF Running
  <2>6. QED
    BY <1>1, <2>3, <2>4, <2>5
<1>10. QED
  BY <1>6, <1>7, <1>8, <1>9 DEF Inv

-----------------------------------------------------------------------------
(* The error screen.                                                       *)

LEMMA RetryKeepsInv == Inv /\ Retry => Inv'
<1> SUFFICES ASSUME Inv, Retry PROVE Inv'
  OBVIOUS
<1>1. /\ screen = "Error" /\ screen' = "Away" /\ job' = failed
      /\ UNCHANGED <<step, line, first, draft, tx, failed, answers, edits, asItWas>>
  BY DEF Retry
<1>2. failed # NoCommand /\ step = "Address"
  BY <1>1 DEF Inv, Types, Routed
<1>3. Types'
  BY <1>1, <1>2 DEF Inv, Types, TypeOK, Routed, Drafted, Running
<1>4. "Address" \notin Options
  BY DEF Options, Asked, Toggles
<1>5. Checked' /\ Confirms' /\ Unchanged'
  BY <1>1, <1>2, <1>4 DEF Inv, Checked, Payable, Confirms, Unchanged, TakenBack, Running
<1>6. QED
  BY <1>3, <1>5 DEF Inv

LEMMA EditOptionsKeepsInv == Inv /\ EditOptions => Inv'
<1> SUFFICES ASSUME Inv, EditOptions PROVE Inv'
  OBVIOUS
<1>1. /\ "Names" \in Options /\ "Names" \in Asked /\ "Names" \notin RecipientSteps
      /\ DOMAIN NoAnswers = {} /\ Before("Names") = {}
  BY DEF Options, Asked, RecipientSteps, NoAnswers, Before
<1>2. /\ screen = "Error" /\ screen' = "Wizard"
      /\ tx' = failed /\ answers' = NoAnswers /\ step' = "Names"
      /\ line' = failed.names /\ first' = FALSE /\ asItWas' = TRUE
      /\ UNCHANGED <<draft, job, failed, edits>>
  BY DEF EditOptions, FromCommand, Ask
<1>3. failed # NoCommand /\ ~Running /\ draft = NoRecipient
  BY <1>2 DEF Inv, Types, Routed
<1>4. failed.recipients # <<>>
  BY <1>3 DEF Inv, Checked
<1>5. line' \in Lines /\ step' \in LineSteps
  BY <1>1, <1>2, StepFacts DEF Inv, Types, TypeOK, Command
<1>6. Types'
  <2>1. TypeOK'
    BY <1>1, <1>2, <1>3, <1>4, <1>5 DEF Inv, Types, TypeOK
  <2>2. Routed' /\ Drafted'
    BY <1>1, <1>2, <1>3 DEF Inv, Types, Routed, Drafted, Running, RecipientSteps
  <2>3. QED
    BY <2>1, <2>2 DEF Types
<1>7. Checked' /\ Confirms'
  BY <1>1, <1>2, <1>3 DEF Inv, Checked, Payable, Confirms, Running, RecipientSteps
<1>8. Unchanged'
  BY <1>2, <1>3 DEF Unchanged, Showing, Running
<1>9. QED
  BY <1>6, <1>7, <1>8 DEF Inv

-----------------------------------------------------------------------------

LEMMA InvInit == Init => Inv
<1> SUFFICES ASSUME Init PROVE Inv
  OBVIOUS
<1>1. /\ "Address" \in RecipientSteps /\ "Address" \notin Options
      /\ DOMAIN NoAnswers \subseteq Options /\ 0 \in 0..MaxEdits
  BY BoundsAssumption DEF RecipientSteps, Options, Asked, Toggles, NoAnswers
<1>2. TypeOK
  BY <1>1, NoCommandFacts, NoRecipientFits, LinesAssumption DEF Init, TypeOK
<1>3. Routed /\ Drafted /\ Confirms /\ Unchanged
  BY <1>1 DEF Init, Routed, Drafted, Confirms, Unchanged, TakenBack, Running
<1>4. Checked
  BY NoCommandFacts DEF Init, Checked, Payable, Running
<1>5. QED
  BY <1>2, <1>3, <1>4 DEF Inv, Types

LEMMA InvStep == Inv /\ [Next]_vars => Inv'
<1>1. Inv /\ UNCHANGED vars => Inv'
  BY DEF vars, Inv, Types, TypeOK, Routed, Drafted, Checked, Payable, Confirms, Unchanged,
     TakenBack, Showing, Running
<1>2. QED
  BY <1>1, RestartsKeepInv, EditLineKeepsInv, MoveHighlightKeepsInv,
     AnswerRecipientKeepsInv, NoFurtherKeepsInv,
     AddRecipientKeepsInv, AddAnotherKeepsInv, BeginOptionsKeepsInv, AnswerOptionKeepsInv,
     AnswerToggleKeepsInv, SubmitKeepsInv, RetryKeepsInv, EditOptionsKeepsInv
  DEF Next

LEMMA InvHolds == Spec => []Inv
  BY InvInit, InvStep, PTL DEF Spec

(* A line shows something only where the step has one, and the options     *)
(* come when somebody is to be paid and no recipient is half collected.    *)
THEOREM TypeCorrect == Spec => []TypeOK
<1>1. Inv => TypeOK
  BY DEF Inv, Types
<1>2. QED
  BY <1>1, InvHolds, PTL

(* Whoever a command pays passed every check, answers ago or in a command  *)
(* that failed and was retried or taken back.                              *)
THEOREM PayCorrect == Spec => []CommandPays
<1>1. Inv => CommandPays
  BY DEF Inv, Checked, Payable, CommandPays
<1>2. QED
  BY <1>1, InvHolds, PTL

(* A command that is submitted follows an answer to each of the ten        *)
(* questions: ten arms store, and none undoes another's.                   *)
THEOREM SubmitCorrect == Spec => []SubmitsWhatWasShown
<1>1. Inv => SubmitsWhatWasShown
  <2> SUFFICES ASSUME Inv, Running, screen = "Wizard"
               PROVE  /\ DOMAIN answers = Options
                      /\ \A o \in Options : Heeds(job, o, answers[o])
    BY DEF SubmitsWhatWasShown
  <2>1. step \in Options
    BY DEF Options, Inv, Types, Routed
  <2>2. QED
    BY <2>1 DEF Inv, Confirms
<1>2. QED
  BY <1>1, InvHolds, PTL

(* A failed command taken back and confirmed as it stands is the same      *)
(* command, but for note selection.                                        *)
THEOREM EditCorrect == Spec => []EditKeepsCommand
<1>1. Inv => EditKeepsCommand
  BY DEF Inv, Confirms, Unchanged, TakenBack, EditKeepsCommand
<1>2. QED
  BY <1>1, InvHolds, PTL
=============================================================================
