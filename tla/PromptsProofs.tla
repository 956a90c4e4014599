---------------------------- MODULE PromptsProofs ----------------------------
(* Theorems about the menus and prompts, for any set of texts.             *)
EXTENDS Prompts, TLAPS

(* A running command has consumed its prompt: nothing waits under the      *)
(* spinner for a key (store/apply.rs).                                     *)
JobHasNoOverlay == job # NoCommand => overlay = NoOverlay

(* A command starts by consuming its prompt; a paste, which asks neither   *)
(* the toast nor the command, needs a prompt to be there.                  *)
LEMMA OverlayStep == JobHasNoOverlay /\ [Next]_vars => JobHasNoOverlay'
<1> SUFFICES ASSUME JobHasNoOverlay, [Next]_vars PROVE JobHasNoOverlay'
  OBVIOUS
<1> USE DEF JobHasNoOverlay
<1>1. ASSUME NEW name, NEW args, Start(name, args) PROVE JobHasNoOverlay'
  BY <1>1 DEF Start
<1>2. CASE \/ OpenMenu \/ OpenReceive \/ RunItem \/ GotoItem \/ LeaveScreen \/ ShowInfo
           \/ DismissPanel \/ CopyAddress \/ TakeToast \/ RunForm
  BY <1>1, <1>2
  DEF OpenMenu, OpenReceive, RunItem, GotoItem, LeaveScreen, ShowInfo, DismissPanel,
      CopyAddress, TakeToast, RunForm
<1>3. CASE AskExit \/ OpenPrompt \/ OpenConfirm \/ Edit \/ Cancel
  BY <1>3 DEF AskExit, OpenPrompt, OpenConfirm, Edit, Cancel, OnScreen, OnOverlay, Heard
<1>4. CASE QuickEnter
  BY <1>1, <1>4 DEF QuickEnter
<1>5. CASE ErrorAction
  BY <1>1, <1>5 DEF ErrorAction
<1>6. CASE Paste
  <2>1. overlay # NoOverlay
    BY <1>6 DEF Paste, NoOverlay
  <2>2. QED
    BY <1>6, <2>1 DEF Paste
<1>7. CASE Answer
  <2>1. job = NoCommand
    BY <1>7 DEF Answer, OnOverlay, Heard
  <2>2. job' = job \/ Start(ThenRun[overlay.then], overlay.args \o <<overlay.value>>)
    BY <1>7 DEF Answer
  <2>3. QED
    BY <1>1, <2>1, <2>2
<1>8. CASE Choose
  <2>1. job = NoCommand
    BY <1>8 DEF Choose, OnOverlay, Heard
  <2>2. PICK choice \in Choices :
          job' = job \/ Start(ConfirmRun[overlay.then], overlay.args \o <<choice>>)
    BY <1>8 DEF Choose
  <2>3. QED
    BY <1>1, <2>1, <2>2
<1>9. CASE JobSucceeds \/ JobFails
  BY <1>9 DEF JobSucceeds, JobFails
<1>10. CASE UNCHANGED vars
  BY <1>10 DEF vars
<1>11. QED
  BY <1>2, <1>3, <1>4, <1>5, <1>6, <1>7, <1>8, <1>9, <1>10 DEF Next

(* While a command runs no prompt, confirmation or exit question is open.  *)
THEOREM OverlayCorrect == Spec => []JobHasNoOverlay
<1>1. Init => JobHasNoOverlay
  BY DEF Init, JobHasNoOverlay
<1>2. QED
  BY <1>1, OverlayStep, PTL DEF Spec

-----------------------------------------------------------------------------
(* A toast comes up only where no panel is shown, or in its place; help is *)
(* shown only where no panel is, and so no header.                         *)
LEMMA ConfirmationStep == OneConfirmation /\ [Next]_vars => OneConfirmation'
<1> SUFFICES ASSUME OneConfirmation, [Next]_vars PROVE OneConfirmation'
  OBVIOUS
<1> USE DEF OneConfirmation
<1>1. CASE UNCHANGED <<output, header, toast>>
  BY <1>1
<1>2. CASE ShowInfo
  <2>1. output = "none" /\ (header' = FALSE \/ header' = header) /\ toast' = toast
    BY <1>2 DEF ShowInfo, OnScreen
  <2>2. ~header
    BY <2>1
  <2>3. ~header'
    BY <2>1, <2>2
  <2>4. QED
    BY <2>3
<1>3. CASE DismissPanel \/ TakeToast
  BY <1>3 DEF DismissPanel, TakeToast
<1>4. CASE CopyAddress
  BY <1>4 DEF CopyAddress, OnScreen
<1>5. CASE QuickEnter
  BY <1>5 DEF QuickEnter
<1>6. CASE JobSucceeds
  <2>1. PICK text \in BOOLEAN :
          /\ output' = IF text /\ ~ReceiveFetch THEN "result" ELSE "none"
          /\ header' = (text /\ ~ReceiveFetch)
          /\ toast' = (~ReceiveFetch /\ ~text)
    BY <1>6 DEF JobSucceeds
  <2>2. CASE text /\ ~ReceiveFetch
    BY <2>1, <2>2
  <2>3. CASE ~(text /\ ~ReceiveFetch)
    BY <2>1, <2>3
  <2>4. QED
    BY <2>2, <2>3
<1>7. CASE JobFails
  BY <1>7 DEF JobFails
<1>8. CASE UNCHANGED vars
  BY <1>8 DEF vars
<1>9. CASE \/ OpenMenu \/ OpenReceive \/ AskExit \/ RunItem \/ OpenPrompt \/ OpenConfirm
           \/ GotoItem \/ LeaveScreen \/ RunForm \/ ErrorAction
  BY <1>1, <1>9
  DEF OpenMenu, OpenReceive, AskExit, RunItem, OpenPrompt, OpenConfirm, GotoItem, LeaveScreen,
      RunForm, ErrorAction
<1>10. CASE Edit \/ Paste \/ Cancel \/ Answer \/ Choose
  BY <1>1, <1>10 DEF Edit, Paste, Cancel, Answer, Choose
<1>11. QED
  BY <1>2, <1>3, <1>4, <1>5, <1>6, <1>7, <1>8, <1>9, <1>10 DEF Next

(* A command's end is confirmed in one place.                              *)
THEOREM ConfirmationCorrect == Spec => []OneConfirmation
<1>1. Init => OneConfirmation
  BY DEF Init, OneConfirmation
<1>2. QED
  BY <1>1, ConfirmationStep, PTL DEF Spec

-----------------------------------------------------------------------------
(* What a prompt carries of the answers before it: the fields of the       *)
(* command it leads to that come first.                                    *)
OneNumber == {<<n>> : n \in Numbers}
Carried(then) ==
  CASE then \in {"KeysImportSeedVersion", "TxSignMultisigKeys", "SignMsgStepIndex",
                 "SignHashIndex", "VerifyMsgS", "VerifyHashSig"} -> Texts
    [] then \in {"TxMultisigParticipants", "KeysDeriveAfterIndex"} -> OneNumber
    [] then = "KeysDeriveRun" -> Followed(OneNumber, Choices)
    [] then \in {"VerifyMsgP", "VerifyHashPk"} -> Followed(Texts, Values)
    [] then \in {"SignMsgHardened", "SignHashHardened"} -> Followed(Texts, OptNumbers)
    [] OTHER -> {<<>>}

PromptCarries == overlay.kind \in {"prompt", "confirm"} => overlay.args \in Carried(overlay.then)
FailedComplete == failed # NoCommand => failed.args \in Arguments(failed.name)

(* On the error screen of a command no other runs and nothing is asked.    *)
ErrorIdle == screen = "Error" => job = NoCommand /\ overlay = NoOverlay

PromptInv == TypeOK /\ ErrorIdle /\ PromptCarries /\ FailedComplete /\ CommandTyped

(* The answers are texts and choices.                                      *)
Answers == Values \cup Choices

LEMMA Joined ==
  /\ \A v : <<>> \o <<v>> = <<v>>
  /\ \A args \in Seq(Answers), v \in Answers : args \o <<v>> \in Seq(Answers)
OBVIOUS

(* An accepted answer completes what the next prompt carries, or the       *)
(* command.                                                                *)
LEMMA FirstAnswer ==
  ASSUME NEW v
  PROVE  /\ v \in Values => <<>> \o <<v>> \in Texts
         /\ v \in Numbers => <<>> \o <<v>> \in OneNumber
         /\ v \in Choices => <<>> \o <<v>> \in {<<c>> : c \in Choices}
  BY Joined DEF Texts, OneNumber

LEMMA NextAnswer ==
  ASSUME NEW A, NEW X, NEW args \in A, NEW v \in X
  PROVE  args \o <<v>> \in Followed(A, X)
<1>1. <<args, v>> \in A \X X /\ <<args, v>>[1] = args /\ <<args, v>>[2] = v
  OBVIOUS
<1>2. QED
  BY <1>1 DEF Followed

LEMMA PromptAnswered ==
  ASSUME NEW then \in DOMAIN ThenPrompt, NEW args \in Carried(then), NEW v \in Values,
         Accepts(then, v)
  PROVE  args \o <<v>> \in Carried(ThenPrompt[then])
<1>1. CASE then \in {"KeysImportSeed", "TxSignMultisigTxFile", "SignMsgStepMessage", "VerifyMsgM",
                   "SignHashGetHash", "VerifyHashFirst"}
  <2>1. args = <<>> /\ Carried(ThenPrompt[then]) = Texts
    BY <1>1 DEF Carried, ThenPrompt
  <2>2. QED
    BY <2>1, FirstAnswer
<1>2. CASE then = "TxMultisigThreshold"
  <2>1. args = <<>> /\ Carried(ThenPrompt[then]) = OneNumber /\ v \in Numbers
    BY <1>2 DEF Carried, ThenPrompt, Accepts, NeedsNumber
  <2>2. QED
    BY <2>1, FirstAnswer
<1>3. CASE then \in {"VerifyMsgS", "VerifyHashSig"}
  <2>1. args \in Texts /\ Carried(ThenPrompt[then]) = Followed(Texts, Values)
    BY <1>3 DEF Carried, ThenPrompt
  <2>2. QED
    BY <2>1, NextAnswer
<1>4. QED
  BY <1>1, <1>2, <1>3 DEF ThenPrompt

LEMMA ConfirmAnswered ==
  ASSUME NEW then \in DOMAIN ThenConfirm, NEW args \in Carried(then), NEW v \in Values,
         Accepts(then, v)
  PROVE  args \o <<v>> \in Carried(ThenConfirm[then])
<1>1. CASE then = "KeysDeriveIndex"
  <2>1. args = <<>> /\ Carried(ThenConfirm[then]) = OneNumber /\ v \in Numbers
    BY <1>1 DEF Carried, ThenConfirm, Accepts, NeedsNumber
  <2>2. QED
    BY <2>1, FirstAnswer
<1>2. CASE then \in {"SignMsgStepIndex", "SignHashIndex"}
  <2>1. args \in Texts /\ Carried(ThenConfirm[then]) = Followed(Texts, OptNumbers)
    BY <1>2 DEF Carried, ThenConfirm
  <2>2. v \in OptNumbers
    BY <1>2 DEF Accepts, OptionalNumber, OptNumbers
  <2>3. QED
    BY <2>1, <2>2, NextAnswer
<1>3. QED
  BY <1>1, <1>2 DEF ThenConfirm

LEMMA RunAnswered ==
  ASSUME NEW then \in DOMAIN ThenRun, NEW args \in Carried(then), NEW v \in Values,
         Accepts(then, v)
  PROVE  args \o <<v>> \in Arguments(ThenRun[then])
<1>1. CASE then \in {"KeysImportFile", "KeysImportExtended", "KeysSetActive", "KeysImportMaster",
                   "NotesListByAddr", "NotesListCsv", "TxSendPath", "TxShowPath",
                   "TxMigrateDest", "WatchAddr", "WatchPubkey"}
  <2>1. args = <<>> /\ Arguments(ThenRun[then]) = Texts
    BY <1>1 DEF Carried, ThenRun, Arguments
  <2>2. QED
    BY <2>1, FirstAnswer
<1>2. CASE then = "KeysDeriveRun"
  <2>1. /\ args \in Followed(OneNumber, Choices)
        /\ Arguments(ThenRun[then]) = Followed(Followed(OneNumber, Choices), Values)
    BY <1>2 DEF Carried, ThenRun, Arguments, OneNumber
  <2>2. QED
    BY <2>1, NextAnswer
<1>3. CASE then = "KeysImportSeedVersion"
  <2>1. args \in Texts /\ Arguments(ThenRun[then]) = Followed(Texts, OptNumbers)
    BY <1>3 DEF Carried, ThenRun, Arguments
  <2>2. v \in OptNumbers
    BY <1>3 DEF Accepts, OptionalNumber, OptNumbers
  <2>3. QED
    BY <2>1, <2>2, NextAnswer
<1>4. CASE then = "TxSignMultisigKeys"
  <2>1. args \in Texts /\ Arguments(ThenRun[then]) = Followed(Texts, Values)
    BY <1>4 DEF Carried, ThenRun, Arguments
  <2>2. QED
    BY <2>1, NextAnswer
<1>5. CASE then = "TxMultisigParticipants"
  <2>1. args \in OneNumber /\ Arguments(ThenRun[then]) = Followed(OneNumber, Values)
    BY <1>5 DEF Carried, ThenRun, Arguments, OneNumber
  <2>2. QED
    BY <2>1, NextAnswer
<1>6. CASE then \in {"VerifyMsgP", "VerifyHashPk"}
  <2>1. /\ args \in Followed(Texts, Values)
        /\ Arguments(ThenRun[then]) = Followed(Followed(Texts, Values), Values)
    BY <1>6 DEF Carried, ThenRun, Arguments
  <2>2. QED
    BY <2>1, NextAnswer
<1>7. QED
  BY <1>1, <1>2, <1>3, <1>4, <1>5, <1>6 DEF ThenRun

LEMMA ChoiceMade ==
  ASSUME NEW then \in ConfirmThen, NEW args \in Carried(then), NEW c \in Choices
  PROVE  /\ then = "KeysDeriveAfterIndex" => args \o <<c>> \in Carried("KeysDeriveRun")
         /\ then \in DOMAIN ConfirmRun => args \o <<c>> \in Arguments(ConfirmRun[then])
<1>1. CASE then = "KeysDeriveAfterIndex"
  <2>1. args \in OneNumber /\ Carried("KeysDeriveRun") = Followed(OneNumber, Choices)
        /\ then \notin DOMAIN ConfirmRun
    BY <1>1 DEF Carried, ConfirmRun
  <2>2. QED
    BY <2>1, NextAnswer
<1>2. CASE then = "KeysKeyTree"
  <2>1. args = <<>> /\ Arguments(ConfirmRun[then]) = {<<d>> : d \in Choices}
    BY <1>2 DEF Carried, ConfirmRun, Arguments
  <2>2. QED
    BY <1>2, <2>1, FirstAnswer
<1>3. CASE then \in {"SignMsgHardened", "SignHashHardened"}
  <2>1. /\ args \in Followed(Texts, OptNumbers)
        /\ Arguments(ConfirmRun[then]) = Followed(Followed(Texts, OptNumbers), Choices)
    BY <1>3 DEF Carried, ConfirmRun, Arguments
  <2>2. QED
    BY <1>3, <2>1, NextAnswer
<1>4. QED
  BY <1>1, <1>2, <1>3 DEF ConfirmThen, ConfirmRun

(* The tables: every name in them is in the catalogue, and what a menu     *)
(* opens or runs carries nothing yet.                                      *)
LEMMA MenuFacts ==
  ASSUME NEW m \in Lists
  PROVE  /\ GotoItems[m] \subseteq Routes \ {"Error"}
         /\ ConfirmItems[m] \subseteq {"KeysKeyTree"}
  BY DEF Lists, Routes, GotoItems, ConfirmItems

LEMMA PlainFacts ==
  ASSUME NEW name \in Plain
  PROVE  name \in Names /\ <<>> \in Arguments(name)
<1> DEFINE all == {"Keygen", "ExportKeys", "ShowSeedphrase", "ShowMasterZPub", "ShowMasterZPrv",
                   "ListActiveAddresses", "ListMasterAddresses", "ExportMasterPubkey",
                   "ListNotes", "ShowBalance", "CreateTx"}
<1>1. name \in all
  <2>1. CASE name \in {"CreateTx"}
    BY <2>1
  <2>2. ASSUME NEW m \in Lists, name \in RunItems[m] PROVE name \in all
    <3>1. CASE m = "Keys"
      BY <2>2, <3>1 DEF RunItems
    <3>2. CASE m = "Notes"
      BY <2>2, <3>2 DEF RunItems
    <3>3. CASE m \in Lists \ {"Keys", "Notes"}
      <4>1. RunItems[m] = {}
        BY <3>3 DEF Lists, RunItems
      <4>2. QED
        BY <2>2, <4>1
    <3>4. QED
      BY <3>1, <3>2, <3>3
  <2>3. name \in {"CreateTx"} \/ \E m \in Lists : name \in RunItems[m]
    BY DEF Plain
  <2>4. QED
    BY <2>1, <2>2, <2>3
<1>2. Arguments(name) = {<<>>}
  BY <1>1 DEF Arguments
<1>3. QED
  BY <1>2 DEF Names

(* Whatever the fields of a command are, they are texts and choices.       *)
LEMMA FollowedAnswers ==
  ASSUME NEW A, A \subseteq Seq(Answers), NEW X, X \subseteq Answers
  PROVE  Followed(A, X) \subseteq Seq(Answers)
<1>1. ASSUME NEW args \in A, NEW v \in X PROVE args \o <<v>> \in Seq(Answers)
  BY <1>1, Joined
<1>2. QED
  BY <1>1 DEF Followed

LEMMA ArgumentsAnswers ==
  ASSUME NEW name
  PROVE  Arguments(name) \subseteq Seq(Answers)
<1>1. Numbers \subseteq Answers /\ OptNumbers \subseteq Answers /\ Values \subseteq Answers
      /\ Choices \subseteq Answers
  BY ValuesAssumption DEF Answers, OptNumbers
<1>3. /\ Texts \subseteq Seq(Answers) /\ {<<n>> : n \in Numbers} \subseteq Seq(Answers)
      /\ {<<c>> : c \in Choices} \subseteq Seq(Answers)
  <2>0. ASSUME NEW v \in Answers PROVE <<v>> \in Seq(Answers)
    BY Joined
  <2>1. {<<v>> : v \in Values} \subseteq Seq(Answers)
    BY <1>1, <2>0, Zenon
  <2>2. {<<n>> : n \in Numbers} \subseteq Seq(Answers)
    BY <1>1, <2>0, Zenon
  <2>3. {<<c>> : c \in Choices} \subseteq Seq(Answers)
    BY <1>1, <2>0, Zenon
  <2>4. QED
    BY <2>1, <2>2, <2>3 DEF Texts
<1>4. /\ Followed({<<n>> : n \in Numbers}, Choices) \subseteq Seq(Answers)
      /\ Followed(Texts, OptNumbers) \subseteq Seq(Answers)
      /\ Followed(Texts, Values) \subseteq Seq(Answers)
      /\ Followed({<<n>> : n \in Numbers}, Values) \subseteq Seq(Answers)
  <2>1. Followed({<<n>> : n \in Numbers}, Choices) \subseteq Seq(Answers)
    BY <1>1, <1>3, FollowedAnswers
  <2>2. Followed(Texts, OptNumbers) \subseteq Seq(Answers)
    BY <1>1, <1>3, FollowedAnswers
  <2>3. Followed(Texts, Values) \subseteq Seq(Answers)
    BY <1>1, <1>3, FollowedAnswers
  <2>4. Followed({<<n>> : n \in Numbers}, Values) \subseteq Seq(Answers)
    BY <1>1, <1>3, FollowedAnswers
  <2>5. QED
    BY <2>1, <2>2, <2>3, <2>4
<1>5. /\ Followed(Followed({<<n>> : n \in Numbers}, Choices), Values) \subseteq Seq(Answers)
      /\ Followed(Followed(Texts, OptNumbers), Choices) \subseteq Seq(Answers)
      /\ Followed(Followed(Texts, Values), Values) \subseteq Seq(Answers)
  <2>1. Followed(Followed({<<n>> : n \in Numbers}, Choices), Values) \subseteq Seq(Answers)
    BY <1>1, <1>4, FollowedAnswers
  <2>2. Followed(Followed(Texts, OptNumbers), Choices) \subseteq Seq(Answers)
    BY <1>1, <1>4, FollowedAnswers
  <2>3. Followed(Followed(Texts, Values), Values) \subseteq Seq(Answers)
    BY <1>1, <1>4, FollowedAnswers
  <2>4. QED
    BY <2>1, <2>2, <2>3
<1>6. {<<>>} \subseteq Seq(Answers)
  OBVIOUS
<1>7. QED
  BY <1>3, <1>4, <1>5, <1>6 DEF Arguments

LEMMA OpenedFacts ==
  ASSUME NEW m \in Lists \cup {"Settings"}, NEW then \in PromptItems[m]
  PROVE  then \in TextThen /\ Carried(then) = {<<>>}
<1>1. then \in {"KeysDeriveIndex", "KeysSetActive", "KeysImportMaster", "KeysImportFile",
               "KeysImportExtended", "KeysImportSeed", "NotesListByAddr", "NotesListCsv",
               "TxSendPath", "TxShowPath", "TxSignMultisigTxFile", "TxMigrateDest", "WatchAddr",
               "WatchPubkey", "TxMultisigThreshold", "SignMsgStepMessage", "VerifyMsgM",
               "SignHashGetHash", "VerifyHashFirst", "SettingsGrpcEndpoint", "SettingsApiListen"}
  BY DEF Lists, PromptItems
<1>2. then \in TextThen
  BY <1>1 DEF TextThen, ThenPrompt, ThenConfirm, ThenRun, SettingsPrompts, PromptItems
<1>3. QED
  BY <1>1, <1>2 DEF Carried

LEMMA ChainFacts ==
  /\ \A then \in DOMAIN ThenPrompt : ThenPrompt[then] \in TextThen
  /\ \A then \in DOMAIN ThenConfirm : ThenConfirm[then] \in ConfirmThen
  /\ "KeysDeriveRun" \in TextThen /\ "KeysKeyTree" \in ConfirmThen
  /\ \A then \in DOMAIN ThenRun : ThenRun[then] \in Names
  /\ \A then \in DOMAIN ConfirmRun : ConfirmRun[then] \in Names
<1>1. \A then \in DOMAIN ThenPrompt : ThenPrompt[then] \in TextThen
  <2>1. ASSUME NEW then \in DOMAIN ThenPrompt
        PROVE  \/ ThenPrompt[then] \in {"VerifyMsgS", "VerifyHashSig"}
               \/ ThenPrompt[then] \in {"KeysImportSeedVersion", "TxSignMultisigKeys",
                                       "TxMultisigParticipants", "VerifyMsgP", "VerifyHashPk"}
               \/ ThenPrompt[then] \in {"SignMsgStepIndex", "SignHashIndex"}
    BY DEF ThenPrompt
  <2>2. {"VerifyMsgS", "VerifyHashSig"} \subseteq DOMAIN ThenPrompt
    BY DEF ThenPrompt
  <2>3. {"KeysImportSeedVersion", "TxSignMultisigKeys", "TxMultisigParticipants", "VerifyMsgP",
         "VerifyHashPk"} \subseteq DOMAIN ThenRun
    BY DEF ThenRun
  <2>4. {"SignMsgStepIndex", "SignHashIndex"} \subseteq DOMAIN ThenConfirm
    BY DEF ThenConfirm
  <2>5. QED
    BY <2>1, <2>2, <2>3, <2>4 DEF TextThen
<1>2. \A then \in DOMAIN ThenConfirm : ThenConfirm[then] \in ConfirmThen
  BY DEF ThenConfirm, ConfirmRun, ConfirmThen
<1>3. "KeysDeriveRun" \in TextThen /\ "KeysKeyTree" \in ConfirmThen
  BY DEF ThenRun, TextThen, ConfirmRun, ConfirmThen
<1>4. QED
  BY <1>1, <1>2, <1>3 DEF Names

-----------------------------------------------------------------------------
(* Every step keeps types, what prompts carry, and complete commands.      *)

PanelTypes == output \in {"none", "info", "result"} /\ header \in BOOLEAN /\ toast \in BOOLEAN

(* A step that starts no command and opens no prompt: at most it closes    *)
(* one and leaves the screen, and its error with it.                       *)
LEMMA QuietKeepsInv ==
  ASSUME PromptInv, job' = job \/ job' = NoCommand, overlay' = overlay \/ overlay' = NoOverlay,
         \/ UNCHANGED <<screen, failed>>
         \/ screen' \in Routes \ {"Error"} /\ failed' = NoCommand,
         PanelTypes'
  PROVE  PromptInv'
<1>1. NoOverlay.kind = "none"
  BY DEF NoOverlay
<1>2. TypeOK'
  BY <1>1 DEF PromptInv, TypeOK, PanelTypes
<1>3. ErrorIdle' /\ PromptCarries' /\ FailedComplete' /\ CommandTyped'
  BY <1>1 DEF PromptInv, ErrorIdle, PromptCarries, FailedComplete, CommandTyped
<1>4. QED
  BY <1>2, <1>3 DEF PromptInv

(* A prompt or a confirmation that carries what it should.                 *)
LEMMA OpenKeepsInv ==
  ASSUME PromptInv, NEW then, NEW args, NEW value, NEW kind,
         overlay' = [kind |-> kind, then |-> then, args |-> args, value |-> value],
         \/ kind = "prompt" /\ then \in TextThen
         \/ kind = "confirm" /\ then \in ConfirmThen,
         args \in Seq(Answers), args \in Carried(then), value \in Values,
         screen # "Error", UNCHANGED <<screen, job, failed, output, header, toast>>
  PROVE  PromptInv'
<1>1. /\ overlay' \in Overlay /\ overlay'.kind = kind /\ overlay'.then = then
      /\ overlay'.args = args
  BY DEF Overlay, Answers
<1>2. TypeOK'
  BY <1>1 DEF PromptInv, TypeOK
<1>3. ErrorIdle' /\ PromptCarries' /\ FailedComplete' /\ CommandTyped'
  BY <1>1 DEF PromptInv, ErrorIdle, PromptCarries, FailedComplete, CommandTyped
<1>4. QED
  BY <1>2, <1>3 DEF PromptInv

(* A complete command that starts away from the error screen.              *)
LEMMA StartKeepsInv ==
  ASSUME PromptInv, NEW name \in Names, NEW args \in Seq(Answers), args \in Arguments(name),
         Start(name, args),
         \/ UNCHANGED <<screen, failed>> /\ screen # "Error"
         \/ screen' \in Routes \ {"Error"} /\ failed' = NoCommand,
         UNCHANGED <<output, header, toast>>
  PROVE  PromptInv'
<1>1. job' = [name |-> name, args |-> args] /\ overlay' = NoOverlay
  BY DEF Start
<1>2. job' \in Command /\ job'.name = name /\ job'.args = args
  BY <1>1 DEF Command, Answers
<1>3. NoOverlay.kind = "none"
  BY DEF NoOverlay
<1>4. TypeOK'
  BY <1>1, <1>2, <1>3 DEF PromptInv, TypeOK
<1>5. ErrorIdle' /\ PromptCarries' /\ FailedComplete' /\ CommandTyped'
  BY <1>1, <1>2, <1>3 DEF PromptInv, ErrorIdle, PromptCarries, FailedComplete, CommandTyped
<1>6. QED
  BY <1>4, <1>5 DEF PromptInv

LEMMA StartPlainKeepsInv ==
  ASSUME PromptInv, NEW name \in Plain, Start(name, <<>>),
         \/ UNCHANGED <<screen, failed>> /\ screen # "Error"
         \/ screen' \in Routes \ {"Error"} /\ failed' = NoCommand,
         UNCHANGED <<output, header, toast>>
  PROVE  PromptInv'
<1>1. name \in Names /\ <<>> \in Arguments(name) /\ <<>> \in Seq(Answers)
  BY PlainFacts
<1>2. QED
  BY <1>1, StartKeepsInv

LEMMA ScreensKeepInv ==
  PromptInv /\ (\/ OpenMenu \/ OpenReceive \/ AskExit \/ RunItem \/ OpenPrompt \/ OpenConfirm
                \/ GotoItem \/ LeaveScreen) => PromptInv'
<1> SUFFICES ASSUME PromptInv, \/ OpenMenu \/ OpenReceive \/ AskExit \/ RunItem \/ OpenPrompt
                                 \/ OpenConfirm \/ GotoItem \/ LeaveScreen
             PROVE  PromptInv'
  OBVIOUS
<1>0. PanelTypes
  BY DEF PromptInv, TypeOK, PanelTypes
<1>1. CASE OpenMenu
  <2>1. /\ screen' \in Routes \ {"Error"} /\ failed' = NoCommand
        /\ UNCHANGED <<overlay, job, output, header, toast>>
    BY <1>1 DEF OpenMenu, GoTo
  <2>2. QED
    BY <1>0, <2>1, QuietKeepsInv DEF PanelTypes
<1>2. CASE OpenReceive
  <2>1. /\ screen' = "Receive" /\ failed' = NoCommand /\ Start("ListActiveAddresses", <<>>)
        /\ UNCHANGED <<output, header, toast>>
    BY <1>2 DEF OpenReceive, GoTo
  <2>2. "ListActiveAddresses" \in RunItems["Keys"] /\ "Keys" \in Lists
    BY DEF RunItems, Lists
  <2>3. "ListActiveAddresses" \in Plain /\ "Receive" \in Routes \ {"Error"}
    BY <2>2 DEF Plain, Routes
  <2>4. QED
    BY <2>1, <2>3, StartPlainKeepsInv
<1>3. CASE AskExit
  <2>1. /\ overlay' = [NoOverlay EXCEPT !.kind = "exit"]
        /\ UNCHANGED <<screen, job, failed, output, header, toast>> /\ screen = "Home"
    BY <1>3 DEF AskExit
  <2>2. overlay' = [kind |-> "exit", then |-> "none", args |-> <<>>, value |-> Empty]
    BY <2>1 DEF NoOverlay
  <2>3. overlay' \in Overlay /\ overlay'.kind = "exit"
    BY <2>2, ValuesAssumption DEF Overlay
  <2>4. TypeOK'
    BY <2>1, <2>3 DEF PromptInv, TypeOK
  <2>5. ErrorIdle' /\ PromptCarries' /\ FailedComplete' /\ CommandTyped'
    BY <2>1, <2>3 DEF PromptInv, ErrorIdle, PromptCarries, FailedComplete, CommandTyped
  <2>6. QED
    BY <2>4, <2>5 DEF PromptInv
<1>4. CASE RunItem
  <2>1. PICK name \in RunItems[screen] : Start(name, <<>>)
    BY <1>4 DEF RunItem
  <2>2. screen \in Lists /\ screen # "Error" /\ UNCHANGED <<screen, failed, output, header, toast>>
    BY <1>4 DEF RunItem, Lists
  <2>3. name \in Plain
    BY <2>1, <2>2 DEF Plain
  <2>4. QED
    BY <2>1, <2>2, <2>3, StartPlainKeepsInv
<1>5. CASE OpenPrompt
  <2>1. PICK then \in PromptItems[screen] : overlay' = Prompt(then, <<>>)
    BY <1>5 DEF OpenPrompt
  <2>2. /\ screen \in Lists \cup {"Settings"} /\ screen # "Error"
        /\ UNCHANGED <<screen, job, failed, output, header, toast>>
    BY <1>5 DEF OpenPrompt, Lists
  <2>3. then \in TextThen /\ <<>> \in Carried(then) /\ <<>> \in Seq(Answers)
    BY <2>1, <2>2, OpenedFacts
  <2>4. overlay' = [kind |-> "prompt", then |-> then, args |-> <<>>, value |-> Empty]
    BY <2>1 DEF Prompt
  <2>5. QED
    BY <2>2, <2>3, <2>4, OpenKeepsInv, ValuesAssumption
<1>6. CASE OpenConfirm
  <2>1. PICK then \in ConfirmItems[screen] : overlay' = Confirm(then, <<>>)
    BY <1>6 DEF OpenConfirm
  <2>2. /\ screen \in Lists /\ screen # "Error"
        /\ UNCHANGED <<screen, job, failed, output, header, toast>>
    BY <1>6 DEF OpenConfirm, Lists
  <2>3. then = "KeysKeyTree"
    BY <2>1, <2>2, MenuFacts
  <2>4. then \in ConfirmThen /\ <<>> \in Carried(then) /\ <<>> \in Seq(Answers)
    BY <2>3, ChainFacts DEF Carried
  <2>5. overlay' = [kind |-> "confirm", then |-> then, args |-> <<>>, value |-> Empty]
    BY <2>1 DEF Confirm
  <2>6. QED
    BY <2>2, <2>4, <2>5, OpenKeepsInv, ValuesAssumption
<1>7. CASE GotoItem
  <2>1. /\ screen' \in Routes \ {"Error"} /\ failed' = NoCommand
        /\ UNCHANGED <<overlay, job, output, header, toast>>
    BY <1>7, MenuFacts DEF GotoItem, GoTo
  <2>2. QED
    BY <1>0, <2>1, QuietKeepsInv DEF PanelTypes
<1>8. CASE LeaveScreen
  <2>1. Back(screen) \subseteq Routes \ {"Error"}
    BY DEF Back, Routes, Lists
  <2>2. /\ screen' \in Routes \ {"Error"} /\ failed' = NoCommand
        /\ UNCHANGED <<overlay, job, output, header, toast>>
    BY <1>8, <2>1 DEF LeaveScreen, GoTo
  <2>3. QED
    BY <1>0, <2>2, QuietKeepsInv DEF PanelTypes
<1>9. QED
  BY <1>1, <1>2, <1>3, <1>4, <1>5, <1>6, <1>7, <1>8

LEMMA PanelsKeepInv ==
  PromptInv /\ (\/ ShowInfo \/ DismissPanel \/ CopyAddress \/ TakeToast \/ QuickEnter \/ RunForm
                \/ ErrorAction) => PromptInv'
<1> SUFFICES ASSUME PromptInv, \/ ShowInfo \/ DismissPanel \/ CopyAddress \/ TakeToast
                                 \/ QuickEnter \/ RunForm \/ ErrorAction
             PROVE  PromptInv'
  OBVIOUS
<1>0. PanelTypes
  BY DEF PromptInv, TypeOK, PanelTypes
<1>1. CASE ShowInfo \/ DismissPanel \/ CopyAddress \/ TakeToast
  <2>1. UNCHANGED <<screen, overlay, job, failed>>
    BY <1>1 DEF ShowInfo, DismissPanel, CopyAddress, TakeToast
  <2>2. output' \in {"none", "info", "result"}
    BY <1>0, <1>1 DEF PanelTypes, ShowInfo, DismissPanel, CopyAddress, TakeToast
  <2>3. header' \in BOOLEAN
    BY <1>0, <1>1 DEF PanelTypes, ShowInfo, DismissPanel, CopyAddress, TakeToast
  <2>4. toast' \in BOOLEAN
    BY <1>0, <1>1 DEF PanelTypes, ShowInfo, DismissPanel, CopyAddress, TakeToast
  <2>5. QED
    BY <2>1, <2>2, <2>3, <2>4, QuietKeepsInv DEF PanelTypes
<1>2. CASE QuickEnter
  <2>1. screen = "Quick" /\ "Home" \in Routes \ {"Error"} /\ toast' = toast
    BY <1>2 DEF QuickEnter, OnScreen, Routes
  <2>2. ASSUME NEW name \in Names, NEW args \in Parsed(name), Start(name, args),
               UNCHANGED <<screen, failed, output, header>>
        PROVE  PromptInv'
    <3>1. args \in Arguments(name) /\ args \in Seq(Answers)
      BY ArgumentsAnswers DEF Parsed
    <3>2. QED
      BY <2>1, <2>2, <3>1, StartKeepsInv
  <2>3. ASSUME output' = "info", header' = FALSE, UNCHANGED <<screen, overlay, job, failed>>
        PROVE  PromptInv'
    BY <1>0, <2>1, <2>3, QuietKeepsInv DEF PanelTypes
  <2>4. ASSUME GoTo("Home"), UNCHANGED <<overlay, job, output, header>>
        PROVE  PromptInv'
    BY <1>0, <2>1, <2>4, QuietKeepsInv DEF PanelTypes, GoTo
  <2>5. QED
    BY <1>2, <2>2, <2>3, <2>4 DEF QuickEnter
<1>3. CASE RunForm
  <2>1. /\ screen = "Form" /\ Start("CreateTx", <<>>)
        /\ UNCHANGED <<screen, failed, output, header, toast>>
    BY <1>3 DEF RunForm
  <2>2. "CreateTx" \in Plain
    BY DEF Plain
  <2>3. QED
    BY <2>1, <2>2, StartPlainKeepsInv
<1>4. CASE ErrorAction
  <2>1. /\ screen = "Error" /\ failed # NoCommand /\ failed \in Command
        /\ failed.args \in Arguments(failed.name) /\ UNCHANGED <<output, header, toast>>
    BY <1>4 DEF ErrorAction, PromptInv, TypeOK, FailedComplete
  <2>2. {"Home", "Form", "Transactions"} \subseteq Routes \ {"Error"}
    BY DEF Routes, Lists
  <2>3. ASSUME GoTo("Home"), Start(failed.name, failed.args)
        PROVE  PromptInv'
    <3>1. failed.name \in Names /\ failed.args \in Seq(Answers)
      BY <2>1 DEF Command, Answers
    <3>2. QED
      BY <2>1, <2>2, <2>3, <3>1, StartKeepsInv DEF GoTo
  <2>4. ASSUME NEW route \in {"Home", "Form", "Transactions"}, GoTo(route), UNCHANGED <<overlay, job>>
        PROVE  PromptInv'
    BY <1>0, <2>1, <2>2, <2>4, QuietKeepsInv DEF PanelTypes, GoTo
  <2>5. QED
    BY <1>4, <2>3, <2>4 DEF ErrorAction
<1>5. QED
  BY <1>1, <1>2, <1>3, <1>4

LEMMA PromptsKeepInv == PromptInv /\ (Edit \/ Paste \/ Cancel \/ Answer \/ Choose) => PromptInv'
<1> SUFFICES ASSUME PromptInv, Edit \/ Paste \/ Cancel \/ Answer \/ Choose PROVE PromptInv'
  OBVIOUS
<1>0. PanelTypes
  BY DEF PromptInv, TypeOK, PanelTypes
<1>1. ASSUME overlay.kind \in {"prompt", "confirm"}
      PROVE  /\ overlay = [kind |-> overlay.kind, then |-> overlay.then, args |-> overlay.args,
                          value |-> overlay.value]
             /\ overlay.args \in Seq(Answers) /\ overlay.args \in Carried(overlay.then)
             /\ overlay.value \in Values
             /\ overlay.kind = "prompt" => overlay.then \in TextThen
             /\ overlay.kind = "confirm" => overlay.then \in ConfirmThen
             /\ screen # "Error"
  <2>1. NoOverlay.kind = "none"
    BY DEF NoOverlay
  <2>2. overlay \in Overlay
    BY <1>1, <2>1 DEF PromptInv, TypeOK
  <2>3. QED
    BY <1>1, <2>1, <2>2 DEF PromptInv, TypeOK, PromptCarries, ErrorIdle, Overlay, Answers
<1>2. CASE Edit \/ Paste
  <2>1. PICK v \in Values : overlay' = [overlay EXCEPT !.value = v]
    BY <1>2 DEF Edit, Paste
  <2>2. overlay.kind = "prompt" /\ UNCHANGED <<screen, job, failed, output, header, toast>>
    BY <1>2 DEF Edit, Paste, OnOverlay
  <2>3. overlay' = [kind |-> "prompt", then |-> overlay.then, args |-> overlay.args, value |-> v]
    BY <1>1, <2>1, <2>2
  <2>4. QED
    BY <1>1, <2>2, <2>3, OpenKeepsInv
<1>3. CASE Cancel
  BY <1>0, <1>3, QuietKeepsInv DEF Cancel, PanelTypes
<1>4. CASE Answer
  <2> DEFINE then == overlay.then
             args == overlay.args \o <<overlay.value>>
  <2>1. /\ overlay.kind = "prompt" /\ UNCHANGED <<screen, failed, output, header, toast>>
        /\ job = NoCommand
    BY <1>4 DEF Answer, OnOverlay, Heard
  <2>2. args \in Seq(Answers)
    BY <1>1, <2>1, Joined DEF Answers
  <2>3. CASE UNCHANGED <<overlay, job>>
    BY <1>0, <2>1, <2>3, QuietKeepsInv DEF PanelTypes
  <2>4. CASE Accepts(then, overlay.value) /\ then \in DOMAIN ThenPrompt
             /\ overlay' = Prompt(ThenPrompt[then], args) /\ job' = job
    <3>1. args \in Carried(ThenPrompt[then]) /\ ThenPrompt[then] \in TextThen
      BY <1>1, <2>1, <2>4, PromptAnswered, ChainFacts
    <3>2. QED
      BY <1>1, <2>1, <2>2, <2>4, <3>1, OpenKeepsInv, ValuesAssumption DEF Prompt
  <2>5. CASE Accepts(then, overlay.value) /\ then \in DOMAIN ThenConfirm
             /\ overlay' = Confirm(ThenConfirm[then], args) /\ job' = job
    <3>1. args \in Carried(ThenConfirm[then]) /\ ThenConfirm[then] \in ConfirmThen
      BY <1>1, <2>1, <2>5, ConfirmAnswered, ChainFacts
    <3>2. QED
      BY <1>1, <2>1, <2>2, <2>5, <3>1, OpenKeepsInv, ValuesAssumption DEF Confirm
  <2>6. CASE Accepts(then, overlay.value) /\ then \in DOMAIN ThenRun /\ Start(ThenRun[then], args)
    <3>1. args \in Arguments(ThenRun[then]) /\ ThenRun[then] \in Names
      BY <1>1, <2>1, <2>6, RunAnswered, ChainFacts
    <3>2. QED
      BY <1>1, <2>1, <2>2, <2>6, <3>1, StartKeepsInv
  <2>7. CASE overlay' \in {NoOverlay, overlay} /\ job' = job
    BY <1>0, <2>1, <2>7, QuietKeepsInv DEF PanelTypes
  <2>8. QED
    BY <1>4, <2>3, <2>4, <2>5, <2>6, <2>7 DEF Answer
<1>5. CASE Choose
  <2>1. PICK c \in Choices :
          \/ /\ overlay.then = "KeysDeriveAfterIndex"
             /\ overlay' = Prompt("KeysDeriveRun", overlay.args \o <<c>>) /\ job' = job
          \/ /\ overlay.then \in DOMAIN ConfirmRun
             /\ Start(ConfirmRun[overlay.then], overlay.args \o <<c>>)
    BY <1>5 DEF Choose
  <2> DEFINE then == overlay.then
             args == overlay.args \o <<c>>
  <2>2. overlay.kind = "confirm" /\ UNCHANGED <<screen, failed, output, header, toast>>
    BY <1>5 DEF Choose, OnOverlay
  <2>3. args \in Seq(Answers)
    BY <1>1, <2>2, Joined DEF Answers
  <2>4. CASE then = "KeysDeriveAfterIndex" /\ overlay' = Prompt("KeysDeriveRun", args) /\ job' = job
    <3>1. args \in Carried("KeysDeriveRun") /\ "KeysDeriveRun" \in TextThen
      BY <1>1, <2>2, <2>4, ChoiceMade, ChainFacts
    <3>2. QED
      BY <1>1, <2>2, <2>3, <2>4, <3>1, OpenKeepsInv, ValuesAssumption DEF Prompt
  <2>5. CASE then \in DOMAIN ConfirmRun /\ Start(ConfirmRun[then], args)
    <3>1. args \in Arguments(ConfirmRun[then]) /\ ConfirmRun[then] \in Names
      BY <1>1, <2>2, <2>5, ChoiceMade, ChainFacts
    <3>2. QED
      BY <1>1, <2>2, <2>3, <2>5, <3>1, StartKeepsInv
  <2>6. QED
    BY <2>1, <2>4, <2>5
<1>6. QED
  BY <1>2, <1>3, <1>4, <1>5

LEMMA SuccessKeepsInv == PromptInv /\ JobSucceeds => PromptInv'
<1> SUFFICES ASSUME PromptInv, JobSucceeds PROVE PromptInv'
  OBVIOUS
<1>1. job # NoCommand /\ job' = NoCommand /\ UNCHANGED <<overlay, failed>>
  BY DEF JobSucceeds
<1>2. screen # "Error" /\ failed = NoCommand
  BY <1>1 DEF PromptInv, TypeOK, ErrorIdle
<1>3. screen' \in Routes \ {"Error"} /\ failed' = NoCommand
  <2>1. RouteAfter \subseteq {screen, "Home", "Transactions"}
    BY DEF RouteAfter
  <2>2. {"Home", "Transactions"} \subseteq Routes \ {"Error"}
    BY DEF Routes, Lists
  <2>3. screen' \in RouteAfter
    BY DEF JobSucceeds
  <2>4. QED
    BY <1>1, <1>2, <2>1, <2>2, <2>3 DEF PromptInv, TypeOK
<1>4. PICK text \in BOOLEAN :
        /\ output' = IF text /\ ~ReceiveFetch THEN "result" ELSE "none"
        /\ header' = (text /\ ~ReceiveFetch)
        /\ toast' = (~ReceiveFetch /\ ~text)
  BY DEF JobSucceeds
<1>5. PanelTypes'
  <2>1. output' \in {"none", "info", "result"}
    BY <1>4
  <2>2. header' \in BOOLEAN
    BY <1>4
  <2>3. toast' \in BOOLEAN
    BY <1>4
  <2>4. QED
    BY <2>1, <2>2, <2>3 DEF PanelTypes
<1>6. QED
  BY <1>1, <1>3, <1>5, QuietKeepsInv

(* The command on the error screen is the one that failed, whole.          *)
LEMMA FailureKeepsInv == PromptInv /\ JobHasNoOverlay /\ JobFails => PromptInv'
<1> SUFFICES ASSUME PromptInv, JobHasNoOverlay, JobFails PROVE PromptInv'
  OBVIOUS
<1>1. /\ job # NoCommand /\ job' = NoCommand /\ overlay = NoOverlay /\ overlay' = NoOverlay
      /\ header' = FALSE /\ toast' = FALSE /\ output' \in {"none", "result"}
  BY DEF JobFails, JobHasNoOverlay
<1>2. PanelTypes'
  BY <1>1 DEF PanelTypes
<1>3. CASE UNCHANGED <<screen, failed>>
  BY <1>1, <1>2, <1>3, QuietKeepsInv
<1>4. CASE screen' = "Error" /\ failed' = job
  <2>1. NoOverlay.kind = "none" /\ "Error" \in Routes
    BY DEF NoOverlay, Routes
  <2>2. TypeOK'
    BY <1>1, <1>2, <1>4, <2>1 DEF PromptInv, TypeOK, PanelTypes
  <2>3. ErrorIdle' /\ PromptCarries' /\ FailedComplete' /\ CommandTyped'
    BY <1>1, <1>4, <2>1 DEF PromptInv, ErrorIdle, PromptCarries, FailedComplete, CommandTyped
  <2>4. QED
    BY <2>2, <2>3 DEF PromptInv
<1>5. QED
  BY <1>3, <1>4 DEF JobFails

LEMMA PromptInvInit == Init => PromptInv
<1> SUFFICES ASSUME Init PROVE PromptInv
  OBVIOUS
<1>1. NoOverlay.kind = "none" /\ "Home" \in Routes
  BY DEF NoOverlay, Routes
<1>2. header \in BOOLEAN /\ toast \in BOOLEAN
  BY DEF Init
<1>3. screen = "Home" /\ overlay = NoOverlay /\ job = NoCommand /\ failed = NoCommand /\ output = "none"
  BY DEF Init
<1>4. TypeOK
  BY <1>1, <1>2, <1>3 DEF TypeOK
<1>5. QED
  BY <1>1, <1>3, <1>4
  DEF PromptInv, ErrorIdle, PromptCarries, FailedComplete, CommandTyped

LEMMA PromptInvStep == PromptInv /\ JobHasNoOverlay /\ [Next]_vars => PromptInv'
<1>1. PromptInv /\ UNCHANGED vars => PromptInv'
  BY DEF vars, PromptInv, TypeOK, ErrorIdle, PromptCarries, FailedComplete, CommandTyped
<1>2. QED
  BY <1>1, ScreensKeepInv, PanelsKeepInv, PromptsKeepInv, SuccessKeepsInv, FailureKeepsInv DEF Next

LEMMA PromptInvHolds == Spec => []PromptInv
  BY PromptInvInit, PromptInvStep, OverlayCorrect, PTL DEF Spec

(* Types; the error screen is up exactly while it has a command.           *)
THEOREM TypeCorrect == Spec => []TypeOK
<1>1. PromptInv => TypeOK
  BY DEF PromptInv
<1>2. QED
  BY <1>1, PromptInvHolds, PTL

(* Whatever way through the menus, prompts, the quick line and the error   *)
(* screen, a command that runs has an answer to each of its prompts, in    *)
(* order, and a number where it declares one; its texts may be empty.      *)
THEOREM TypedCorrect == Spec => []CommandTyped
<1>1. PromptInv => CommandTyped
  BY DEF PromptInv
<1>2. QED
  BY <1>1, PromptInvHolds, PTL
=============================================================================
