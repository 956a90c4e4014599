------------------------------ MODULE CreateTx ------------------------------
(***************************************************************************)
(* The create-tx wizard: recipients one by one, each in four answers, then *)
(* ten options in a row, each shown with the value it has; the last answer *)
(* builds the command and starts it.  A failed command can be retried, or  *)
(* taken back into the wizard at its first option.                         *)
(*                                                                         *)
(* Abstractions.  A line is one of Lines, already trimmed.  A value is      *)
(* written as the wizard shows it: a number as to_string prints it, a list *)
(* of keys joined by commas, Empty for None and the empty list.  A list of *)
(* two rows is the row highlighted, the note selection "ascending" or      *)
(* "descending".  "Away" is every screen but the wizard and the error      *)
(* screen; the commands of other screens that fail are left out.           *)
(***************************************************************************)
EXTENDS Naturals, Sequences

CONSTANTS
  Lines,         \* texts of a line, Empty included
  Empty,
  Numbers,       \* the ones that parse as u64
  Decimal,       \* what to_string makes of each of them
  Keys,          \* a line split at its commas, and joined again
  Zero,          \* the number nobody can be paid
  Base58,        \* the ones that are addresses
  TooLong,       \* the ones refused as a memo or a blob
  MaxRecipients, \* bound on the recipients of a transaction
  MaxEdits       \* bound on the keys that change what is shown

ASSUME LinesAssumption ==
  /\ Empty \in Lines /\ Zero \in Numbers
  /\ Numbers \subseteq Lines \ {Empty} /\ Base58 \subseteq Lines \ {Empty}
  /\ TooLong \subseteq Lines \ {Empty}
ASSUME ConversionsAssumption ==
  /\ Decimal \in [Numbers -> Numbers] /\ \A n \in Numbers : Decimal[Decimal[n]] = Decimal[n]
  /\ Keys \in [Lines -> Lines] /\ \A l \in Lines : Keys[Keys[l]] = Keys[l]
  /\ Keys[Empty] = Empty
ASSUME BoundsAssumption == MaxRecipients \in Nat \ {0} /\ MaxEdits \in Nat

VARIABLES
  screen,  \* "Wizard", "Error" or "Away"
  step,    \* the question shown: the sub of the wizard's phase
  line,    \* the text in its line
  first,   \* the highlight is on the first of its two rows
  draft,   \* the recipient being collected
  tx,      \* recipients and options so far
  job,     \* the create-tx command that runs
  failed,  \* the command of the error screen, the last one retaken
  answers, \* history: what was on the screen as each option was confirmed
  edits,   \* history: keys that changed what was shown
  asItWas  \* history: none of them since a failed command was taken back

vars == <<screen, step, line, first, draft, tx, job, failed, answers, edits, asItWas>>

-----------------------------------------------------------------------------
RecipientSteps == {"Address", "Amount", "Memo", "Blob", "AddAnother"}
Toggles == {"AllowLowFee", "Hardened", "IncludeData", "SaveRaw"}
Asked == {"Names", "Fee", "Refund", "Index", "SignKeys"}
Options == Asked \cup Toggles \cup {"NoteSelection"}
LineSteps == (RecipientSteps \ {"AddAnother"}) \cup Asked

Recipient == [Address : Lines, Amount : Lines, Memo : Lines, Blob : Lines]
NoRecipient == [Address |-> Empty, Amount |-> Empty, Memo |-> Empty, Blob |-> Empty]

(* An optional number, and a list of keys.                                 *)
Number(l) == IF l = Empty THEN Empty ELSE Decimal[l]
Amounts == {n \in Numbers : Decimal[n] = n}
KeyLists == {l \in Lines : Keys[l] = l}

Command ==
  [recipients : Seq(Recipient),
   names : Lines, fee : Amounts \cup {Empty}, allow_low_fee : BOOLEAN,
   refund_pkh : Lines, index : Amounts \cup {Empty}, hardened : BOOLEAN,
   include_data : BOOLEAN, sign_keys : KeyLists, save_raw_tx : BOOLEAN,
   note_selection_strategy : {"ascending", "descending"}]

(* Phase::Options as it starts, after the recipients.                      *)
WithDefaults(list) ==
  [recipients |-> list,
   names |-> Empty, fee |-> Empty, allow_low_fee |-> FALSE,
   refund_pkh |-> Empty, index |-> Empty, hardened |-> FALSE,
   include_data |-> TRUE, sign_keys |-> Empty, save_raw_tx |-> FALSE,
   note_selection_strategy |-> "ascending"]
NoCommand == WithDefaults(<<>>)
NoAnswers == [o \in {} |-> Empty]

(* A line shows something only where the step has one; the options come    *)
(* when somebody is to be paid and no recipient is half collected.         *)
TypeOK ==
  /\ screen \in {"Wizard", "Error", "Away"}
  /\ step \in RecipientSteps \cup Options
  /\ line \in Lines /\ (line # Empty => step \in LineSteps)
  /\ first \in BOOLEAN /\ (first => step \notin LineSteps)
  /\ draft \in Recipient
  /\ tx \in Command /\ job \in Command /\ failed \in Command
  /\ DOMAIN answers \subseteq Options
  /\ step \in Options => draft = NoRecipient /\ tx.recipients # <<>>
  /\ edits \in 0..MaxEdits /\ asItWas \in BOOLEAN

Init ==
  /\ screen = "Away" /\ step = "Address" /\ line = Empty /\ first = FALSE
  /\ draft = NoRecipient /\ tx = NoCommand
  /\ job = NoCommand /\ failed = NoCommand /\ answers = NoAnswers
  /\ edits = 0 /\ asItWas = FALSE

-----------------------------------------------------------------------------
Running == job # NoCommand
OnStep(s) == screen = "Wizard" /\ ~Running /\ step = s

(* The next question, with a line or with two rows.                        *)
Ask(s, l) == step' = s /\ line' = l /\ first' = FALSE
Offer(s, onFirst) == step' = s /\ line' = Empty /\ first' = onFirst

(* A new wizard, and one that has been left.                               *)
Restarted(route) ==
  /\ screen' = route
  /\ Ask("Address", Empty)
  /\ draft' = NoRecipient /\ tx' = NoCommand /\ answers' = NoAnswers

StartFresh ==
  /\ screen = "Away" /\ ~Running
  /\ Restarted("Wizard")
  /\ UNCHANGED <<job, failed, edits, asItWas>>

(* Esc and 'q', on every step.                                             *)
LeaveWizard ==
  /\ screen = "Wizard" /\ ~Running
  /\ Restarted("Away")
  /\ failed' = NoCommand
  /\ UNCHANGED <<job, edits, asItWas>>

Edited ==
  /\ edits < MaxEdits /\ edits' = edits + 1
  /\ asItWas' = FALSE

(* Typing, Backspace and a paste.                                          *)
EditLine ==
  /\ screen = "Wizard" /\ step \in LineSteps
  /\ \E l \in Lines \ {line} : line' = l
  /\ Edited
  /\ UNCHANGED <<screen, step, first, draft, tx, job, failed, answers>>

(* Up and Down between the two rows.                                       *)
MoveHighlight ==
  /\ screen = "Wizard" /\ ~Running /\ step \notin LineSteps
  /\ first' = ~first
  /\ Edited
  /\ UNCHANGED <<screen, step, line, draft, tx, job, failed, answers>>

-----------------------------------------------------------------------------
(* Recipients.                                                             *)

AnyLine(s) == s = "Amount" => line \in Numbers                  \* mutant

(* What Enter accepts: the address is looked at only with the blob.        *)
Accepted(s) ==
  CASE s = "Address" -> line # Empty
    [] s = "Amount" -> line \in Numbers /\ Decimal[line] # Zero
    [] s = "Memo" -> line \notin TooLong
    [] s = "Blob" -> draft.Address \in Base58 /\ line \notin TooLong

NextField(s) == CASE s = "Address" -> "Amount" [] s = "Amount" -> "Memo" [] s = "Memo" -> "Blob"

AnswerRecipient ==
  /\ \E s \in {"Address", "Amount", "Memo"} :
       /\ OnStep(s) /\ Accepted(s)
       /\ draft' = [draft EXCEPT ![s] = IF s = "Amount" THEN Decimal[line] ELSE line]
       /\ Ask(NextField(s), Empty)
  /\ UNCHANGED <<screen, tx, job, failed, answers, edits, asItWas>>

EndsAnytime(list) == TRUE                                       \* mutant

(* An empty address ends the list, unless there is nobody in it.           *)
MayEnd(list) == list # <<>>

NoFurther ==
  /\ OnStep("Address") /\ line = Empty /\ MayEnd(tx.recipients)
  /\ Offer("AddAnother", FALSE)
  /\ UNCHANGED <<screen, draft, tx, job, failed, answers, edits, asItWas>>

AddRecipient ==
  /\ OnStep("Blob") /\ Accepted("Blob")
  /\ tx' = [tx EXCEPT !.recipients = Append(@, [draft EXCEPT !.Blob = line])]
  /\ draft' = NoRecipient
  /\ Offer("AddAnother", FALSE)
  /\ UNCHANGED <<screen, job, failed, answers, edits, asItWas>>

AddAnother ==
  /\ OnStep("AddAnother") /\ first /\ Len(tx.recipients) < MaxRecipients
  /\ Ask("Address", Empty)
  /\ UNCHANGED <<screen, draft, tx, job, failed, answers, edits, asItWas>>

BeginOptions ==
  /\ OnStep("AddAnother") /\ ~first
  /\ tx' = WithDefaults(tx.recipients)
  /\ answers' = NoAnswers
  /\ Ask("Names", Empty)
  /\ UNCHANGED <<screen, draft, job, failed, edits, asItWas>>

-----------------------------------------------------------------------------
(* Options: each answer is stored, and the next question shows what its    *)
(* own option has.                                                         *)

StoreNames == tx' = [tx EXCEPT !.names = line] /\ Ask("Fee", tx.fee)

StoreFee ==
  /\ line \in Numbers \cup {Empty}
  /\ tx' = [tx EXCEPT !.fee = Number(line)]
  /\ Offer("AllowLowFee", tx.allow_low_fee)

StoreAllowLowFee == tx' = [tx EXCEPT !.allow_low_fee = first] /\ Ask("Refund", tx.refund_pkh)

StoreRefund == tx' = [tx EXCEPT !.refund_pkh = line] /\ Ask("Index", tx.index)

StoreIndex ==
  /\ line \in Numbers \cup {Empty}
  /\ tx' = [tx EXCEPT !.index = Number(line)]
  /\ Offer("Hardened", tx.hardened)

StoreHardened == tx' = [tx EXCEPT !.hardened = first] /\ Offer("IncludeData", tx.include_data)

AsksNoKeys == tx' = [tx EXCEPT !.include_data = first] /\ Ask("SignKeys", Empty) \* mutant

StoreIncludeData == tx' = [tx EXCEPT !.include_data = first] /\ Ask("SignKeys", tx.sign_keys)

StoreSignKeys == tx' = [tx EXCEPT !.sign_keys = Keys[line]] /\ Offer("SaveRaw", tx.save_raw_tx)

SavesHardened == tx' = [tx EXCEPT !.hardened = first] /\ Offer("NoteSelection", TRUE) \* mutant

StoreSaveRaw == tx' = [tx EXCEPT !.save_raw_tx = first] /\ Offer("NoteSelection", TRUE)

Noted(answer) ==
  answers' = [o \in DOMAIN answers \cup {step} |-> IF o = step THEN answer ELSE answers[o]]

(* advance_options_line.                                                   *)
AnswerOption ==
  /\ \/ OnStep("Names") /\ StoreNames
     \/ OnStep("Fee") /\ StoreFee
     \/ OnStep("Refund") /\ StoreRefund
     \/ OnStep("Index") /\ StoreIndex
     \/ OnStep("SignKeys") /\ StoreSignKeys
  /\ Noted(line)
  /\ UNCHANGED <<screen, draft, job, failed, edits, asItWas>>

(* advance_options_toggle.                                                 *)
AnswerToggle ==
  /\ \/ OnStep("AllowLowFee") /\ StoreAllowLowFee
     \/ OnStep("Hardened") /\ StoreHardened
     \/ OnStep("IncludeData") /\ StoreIncludeData
     \/ OnStep("SaveRaw") /\ StoreSaveRaw
  /\ Noted(first)
  /\ UNCHANGED <<screen, draft, job, failed, edits, asItWas>>

(* The last answer is stored like the others, and the command is built.    *)
Submit ==
  /\ OnStep("NoteSelection")
  /\ tx' = [tx EXCEPT !.note_selection_strategy = IF first THEN "ascending" ELSE "descending"]
  /\ Noted(first)
  /\ job' = tx'
  /\ UNCHANGED <<screen, step, line, first, draft, failed, edits, asItWas>>

JobSucceeds ==
  /\ Running
  /\ Restarted("Away")
  /\ job' = NoCommand /\ failed' = NoCommand
  /\ UNCHANGED <<edits, asItWas>>

JobFails ==
  /\ Running
  /\ Restarted("Error")
  /\ failed' = job /\ job' = NoCommand
  /\ UNCHANGED <<edits, asItWas>>

-----------------------------------------------------------------------------
(* The error screen of a create-tx command.                                *)

Retry ==
  /\ screen = "Error"
  /\ screen' = "Away"
  /\ job' = failed
  /\ UNCHANGED <<step, line, first, draft, tx, failed, answers, edits, asItWas>>

(* CreateTxWizard::from_command: every field, shown again from the first.  *)
FromCommand(c) == tx' = c /\ Ask("Names", c.names)

EditOptions ==
  /\ screen = "Error"
  /\ screen' = "Wizard"
  /\ FromCommand(failed)
  /\ answers' = NoAnswers
  /\ asItWas' = TRUE
  /\ UNCHANGED <<draft, job, failed, edits>>

(* New recipients, or away: the menu of transactions or home.              *)
LeaveError ==
  /\ screen = "Error"
  /\ \E route \in {"Wizard", "Away"} : Restarted(route)
  /\ failed' = NoCommand
  /\ UNCHANGED <<job, edits, asItWas>>

Next ==
  \/ StartFresh \/ LeaveWizard \/ EditLine \/ MoveHighlight
  \/ AnswerRecipient \/ NoFurther \/ AddRecipient \/ AddAnother \/ BeginOptions
  \/ AnswerOption \/ AnswerToggle \/ Submit
  \/ JobSucceeds \/ JobFails
  \/ Retry \/ EditOptions \/ LeaveError

Spec == Init /\ [][Next]_vars

-----------------------------------------------------------------------------
(* Properties.                                                             *)

CanBePaid(r) ==
  /\ r.Address \in Base58 /\ r.Amount \in Numbers \ {Zero}
  /\ r.Memo \notin TooLong /\ r.Blob \notin TooLong

(* A command pays somebody, and everybody it pays passed every check,      *)
(* though the address is checked three answers after it was given.         *)
CommandPays ==
  Running => /\ job.recipients # <<>>
             /\ \A i \in DOMAIN job.recipients : CanBePaid(job.recipients[i])

(* The panel's wording of the ten questions: what an answer means for the  *)
(* command, "Yes" and "Ascending" being the first rows.                    *)
Heeds(c, o, answer) ==
  /\ o = "Names" => c.names = answer
  /\ o = "Fee" => c.fee = Number(answer)
  /\ o = "AllowLowFee" => c.allow_low_fee = answer
  /\ o = "Refund" => c.refund_pkh = answer
  /\ o = "Index" => c.index = Number(answer)
  /\ o = "Hardened" => c.hardened = answer
  /\ o = "IncludeData" => c.include_data = answer
  /\ o = "SignKeys" => c.sign_keys = Keys[answer]
  /\ o = "SaveRaw" => c.save_raw_tx = answer
  /\ o = "NoteSelection" => c.note_selection_strategy = IF answer THEN "ascending" ELSE "descending"

(* A command that is submitted follows an answer to each of the ten        *)
(* questions, given in this pass: none is skipped, and no later arm writes *)
(* over what an earlier one stored.                                        *)
SubmitsWhatWasShown ==
  Running /\ screen = "Wizard" =>
     /\ DOMAIN answers = Options
     /\ \A o \in Options : Heeds(job, o, answers[o])

(* Taking a failed command back and confirming every question as it stands *)
(* gives that command again, through the texts of its numbers and keys,    *)
(* except that note selection starts over.                                 *)
EditKeepsCommand ==
  (Running /\ screen = "Wizard" /\ failed # NoCommand /\ asItWas) =>
     job = [failed EXCEPT !.note_selection_strategy = "ascending"]
=============================================================================
