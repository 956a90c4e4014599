------------------------------ MODULE Prompts -------------------------------
(***************************************************************************)
(* Menus, the prompts laid over them, the quick line, the output panel and *)
(* the confirmation toast: everything between a key and the wallet command *)
(* it starts.                                                              *)
(*                                                                         *)
(* A menu item runs a command, goes to a screen or opens a prompt; an      *)
(* answer goes on to the next prompt or to the command, carrying the       *)
(* earlier answers along.  While a command runs every key is dropped, and  *)
(* so is the key that dismisses a toast; the output panel lets only Esc    *)
(* through to the screen below it.                                         *)
(*                                                                         *)
(* Abstractions.  A text is one of Values; highlights and scrolling are    *)
(* left out, so any item of a menu can be chosen at any moment.  "Form" is *)
(* the send, NNS and create-tx screens, which have modules of their own.   *)
(***************************************************************************)
EXTENDS Naturals, Sequences, FiniteSets

CONSTANTS
  Values,   \* texts, Empty included
  Empty,
  Numbers   \* the texts that parse as u64

ASSUME ValuesAssumption == Empty \in Values /\ Numbers \subseteq Values \ {Empty}

VARIABLES
  screen,  \* the active route
  overlay, \* UiState.overlay
  job,     \* the running command
  failed,  \* the command the error screen is about
  output,  \* what the output panel shows
  header,  \* last_command_status: the panel has its success header
  toast    \* a toast is shown

vars == <<screen, overlay, job, failed, output, header, toast>>

-----------------------------------------------------------------------------
(* The catalogue of menus.                                                 *)

Lists == {"Keys", "KeysImport", "Notes", "Transactions", "Watch", "SignVerify"}
Routes == Lists \cup {"Home", "Settings", "Quick", "Receive", "Form", "Error"}

RunItems ==
  [Keys |-> {"Keygen", "ExportKeys", "ShowSeedphrase", "ShowMasterZPub", "ShowMasterZPrv",
             "ListActiveAddresses", "ListMasterAddresses", "ExportMasterPubkey"},
   KeysImport |-> {}, Notes |-> {"ListNotes", "ShowBalance"},
   Transactions |-> {}, Watch |-> {}, SignVerify |-> {}]

PromptItems ==
  [Keys |-> {"KeysDeriveIndex", "KeysSetActive", "KeysImportMaster"},
   KeysImport |-> {"KeysImportFile", "KeysImportExtended", "KeysImportSeed"},
   Notes |-> {"NotesListByAddr", "NotesListCsv"},
   Transactions |-> {"TxSendPath", "TxShowPath", "TxSignMultisigTxFile", "TxMigrateDest"},
   Watch |-> {"WatchAddr", "WatchPubkey", "TxMultisigThreshold"},
   SignVerify |-> {"SignMsgStepMessage", "VerifyMsgM", "SignHashGetHash", "VerifyHashFirst"},
   Settings |-> {"SettingsGrpcEndpoint", "SettingsApiListen"}]

ConfirmItems == [x \in Lists |-> IF x = "Keys" THEN {"KeysKeyTree"} ELSE {}]

(* The screens a menu leads to, its Back item among them, and the screen   *)
(* Esc goes back to: from the create-tx wizard that is Transactions.       *)
GotoItems ==
  [Keys |-> {"KeysImport", "Home"}, KeysImport |-> {"Keys"}, Notes |-> {"Home"},
   Transactions |-> {"Form", "Home"}, Watch |-> {"Home"}, SignVerify |-> {"Home"}]
Back(route) == CASE route = "KeysImport" -> {"Keys"}
                 [] route = "Form" -> {"Home", "Transactions"}
                 [] OTHER -> {"Home"}

-----------------------------------------------------------------------------
(* Where an answer leads: TextThen and ConfirmThen.                        *)

ThenPrompt ==
  [KeysImportSeed |-> "KeysImportSeedVersion", TxSignMultisigTxFile |-> "TxSignMultisigKeys",
   TxMultisigThreshold |-> "TxMultisigParticipants", SignMsgStepMessage |-> "SignMsgStepIndex",
   VerifyMsgM |-> "VerifyMsgS", VerifyMsgS |-> "VerifyMsgP", SignHashGetHash |-> "SignHashIndex",
   VerifyHashFirst |-> "VerifyHashSig", VerifyHashSig |-> "VerifyHashPk"]

ThenConfirm ==
  [KeysDeriveIndex |-> "KeysDeriveAfterIndex", SignMsgStepIndex |-> "SignMsgHardened",
   SignHashIndex |-> "SignHashHardened"]

ThenRun ==
  [KeysDeriveRun |-> "DeriveChild", KeysImportFile |-> "ImportKeysFile",
   KeysImportExtended |-> "ImportKeysExtended", KeysImportSeedVersion |-> "ImportKeysSeed",
   KeysSetActive |-> "SetActiveMasterAddress", KeysImportMaster |-> "ImportMasterPubkey",
   NotesListByAddr |-> "ListNotesByAddress", NotesListCsv |-> "ListNotesByAddressCsv",
   TxSendPath |-> "SendTx", TxShowPath |-> "ShowTx", TxSignMultisigKeys |-> "SignMultisigTx",
   TxMultisigParticipants |-> "WatchMultisig", TxMigrateDest |-> "MigrateV0Notes",
   WatchAddr |-> "WatchAddress", WatchPubkey |-> "WatchPubkey",
   VerifyMsgP |-> "VerifyMessage", VerifyHashPk |-> "VerifyHash"]

ConfirmRun == [KeysKeyTree |-> "ShowKeyTree", SignMsgHardened |-> "SignMessage",
               SignHashHardened |-> "SignHash"]

NeedsNumber == {"KeysDeriveIndex", "TxMultisigThreshold"}
OptionalNumber == {"KeysImportSeedVersion", "SignMsgStepIndex", "SignHashIndex"}
SettingsPrompts == PromptItems["Settings"]
Choices == {"yes", "no"}

TextThen == DOMAIN ThenPrompt \cup DOMAIN ThenConfirm \cup DOMAIN ThenRun \cup SettingsPrompts
ConfirmThen == {"KeysDeriveAfterIndex"} \cup DOMAIN ConfirmRun

AcceptsAnything(then, v) == TRUE                                \* mutant

Accepts(then, v) ==
  /\ then \in NeedsNumber => v \in Numbers
  /\ then \in OptionalNumber => v \in Numbers \cup {Empty}

-----------------------------------------------------------------------------
(* The fields of each command, as Commands declares them.  No prompt asks  *)
(* for a text that is there: an empty one is an Option's None, or is run   *)
(* as it is.                                                               *)

Texts == {<<v>> : v \in Values}
Followed(args, set) == {p[1] \o <<p[2]>> : p \in args \X set}
OptNumbers == Numbers \cup {Empty}

Arguments(name) ==
  CASE name = "DeriveChild" -> Followed(Followed({<<n>> : n \in Numbers}, Choices), Values)
    [] name = "ImportKeysSeed" -> Followed(Texts, OptNumbers)
    [] name \in {"SignMessage", "SignHash"} -> Followed(Followed(Texts, OptNumbers), Choices)
    [] name \in {"VerifyMessage", "VerifyHash"} -> Followed(Followed(Texts, Values), Values)
    [] name = "SignMultisigTx" -> Followed(Texts, Values)
    [] name = "WatchMultisig" -> Followed({<<n>> : n \in Numbers}, Values)
    [] name = "ShowKeyTree" -> {<<c>> : c \in Choices}
    [] name \in {"ImportKeysFile", "ImportKeysExtended", "SetActiveMasterAddress", "ImportMasterPubkey",
                 "ListNotesByAddress", "ListNotesByAddressCsv", "SendTx", "ShowTx",
                 "MigrateV0Notes", "WatchAddress", "WatchPubkey"} -> Texts
    [] OTHER -> {<<>>}

(* What clap makes of a line: a text it requires is never empty.           *)
Optional == {<<"DeriveChild", 3>>, <<"ImportKeysSeed", 2>>, <<"SignMessage", 2>>,
             <<"SignHash", 2>>, <<"SignMultisigTx", 2>>, <<"ListNotesByAddress", 1>>}
Parsed(name) ==
  {args \in Arguments(name) : \A i \in DOMAIN args : args[i] = Empty => <<name, i>> \in Optional}

Plain == (UNION {RunItems[m] : m \in Lists}) \cup {"CreateTx"}
Names == Plain \cup {ThenRun[t] : t \in DOMAIN ThenRun} \cup {ConfirmRun[t] : t \in DOMAIN ConfirmRun}
Command == [name : Names, args : Seq(Values \cup Choices)]
NoCommand == [name |-> "none", args |-> <<>>]

NoOverlay == [kind |-> "none", then |-> "none", args |-> <<>>, value |-> Empty]
Overlay == [kind : {"prompt", "confirm", "exit"}, then : TextThen \cup ConfirmThen \cup {"none"},
            args : Seq(Values \cup Choices), value : Values]

TypeOK ==
  /\ screen \in Routes
  /\ overlay \in Overlay \cup {NoOverlay}
  /\ overlay.kind = "prompt" => overlay.then \in TextThen
  /\ overlay.kind = "confirm" => overlay.then \in ConfirmThen
  /\ job \in Command \cup {NoCommand}
  /\ failed \in Command \cup {NoCommand}
  /\ (screen = "Error") <=> (failed # NoCommand)
  /\ output \in {"none", "info", "result"}
  /\ header \in BOOLEAN /\ toast \in BOOLEAN

Init ==
  /\ screen = "Home" /\ overlay = NoOverlay
  /\ job = NoCommand /\ failed = NoCommand
  /\ output = "none" /\ header = FALSE /\ toast = FALSE

-----------------------------------------------------------------------------
(* Keys.                                                                   *)

(* dispatch_key: a toast or a running command takes every key, the overlay *)
(* comes next; the panel leaves the screen below it Esc and 'q' alone.     *)
Heard == ~toast /\ job = NoCommand
OnOverlay(kind) == Heard /\ overlay.kind = kind
PanelIgnored == Heard /\ overlay = NoOverlay                    \* mutant
OnScreen == Heard /\ overlay = NoOverlay /\ output = "none"
EscOnScreen == Heard /\ overlay = NoOverlay

GoToKeeping(route) == screen' = route /\ failed' = failed       \* mutant

GoTo(route) == screen' = route /\ failed' = NoCommand
Prompt(then, args) == [kind |-> "prompt", then |-> then, args |-> args, value |-> Empty]
Confirm(then, args) == [kind |-> "confirm", then |-> then, args |-> args, value |-> Empty]

(* EnterRunningWalletJob: the prompt is consumed, the route stays put.     *)
Start(name, args) ==
  /\ job' = [name |-> name, args |-> args]
  /\ overlay' = NoOverlay

OpenMenu ==
  /\ OnScreen /\ screen = "Home"
  /\ \E route \in Routes \ {"Home", "Receive", "Error", "KeysImport"} : GoTo(route)
  /\ UNCHANGED <<overlay, job, output, header, toast>>

OpenReceive ==
  /\ OnScreen /\ screen = "Home"
  /\ GoTo("Receive")
  /\ Start("ListActiveAddresses", <<>>)
  /\ UNCHANGED <<output, header, toast>>

AskExit ==
  /\ OnScreen /\ screen = "Home"
  /\ overlay' = [NoOverlay EXCEPT !.kind = "exit"]
  /\ UNCHANGED <<screen, job, failed, output, header, toast>>

RunItem ==
  /\ OnScreen /\ screen \in Lists
  /\ \E name \in RunItems[screen] : Start(name, <<>>)
  /\ UNCHANGED <<screen, failed, output, header, toast>>

OpenPrompt ==
  /\ OnScreen /\ screen \in Lists \cup {"Settings"}
  /\ \E then \in PromptItems[screen] : overlay' = Prompt(then, <<>>)
  /\ UNCHANGED <<screen, job, failed, output, header, toast>>

OpenConfirm ==
  /\ OnScreen /\ screen \in Lists
  /\ \E then \in ConfirmItems[screen] : overlay' = Confirm(then, <<>>)
  /\ UNCHANGED <<screen, job, failed, output, header, toast>>

GotoItem ==
  /\ OnScreen /\ screen \in Lists
  /\ \E route \in GotoItems[screen] : GoTo(route)
  /\ UNCHANGED <<overlay, job, output, header, toast>>

(* Esc and 'q' leave a screen even under the output panel, which stays.    *)
LeaveScreen ==
  /\ EscOnScreen /\ screen # "Home"
  /\ \E route \in Back(screen) : GoTo(route)
  /\ UNCHANGED <<overlay, job, output, header, toast>>

(* The session's curl lines reset the header, help and verbose do not.     *)
ShowInfo ==
  /\ OnScreen /\ screen = "Settings"
  /\ output' = "info"
  /\ header' \in {FALSE, header}
  /\ UNCHANGED <<screen, overlay, job, failed, toast>>

DismissPanel ==
  /\ EscOnScreen /\ output # "none"
  /\ output' = "none" /\ header' = FALSE
  /\ UNCHANGED <<screen, overlay, job, failed, toast>>

CopyAddress ==
  /\ OnScreen /\ screen = "Receive"
  /\ toast' = TRUE
  /\ UNCHANGED <<screen, overlay, job, failed, output, header>>

TakeToast ==
  /\ toast
  /\ toast' = FALSE
  /\ UNCHANGED <<screen, overlay, job, failed, output, header>>

(* The quick line: a command clap accepts, a text it shows, or "menu".     *)
QuickEnter ==
  /\ OnScreen /\ screen = "Quick"
  /\ \/ /\ \E name \in Names : \E args \in Parsed(name) : Start(name, args)
        /\ UNCHANGED <<screen, failed, output, header>>
     \/ /\ output' = "info" /\ header' = FALSE
        /\ UNCHANGED <<screen, overlay, job, failed>>
     \/ /\ GoTo("Home")
        /\ UNCHANGED <<overlay, job, output, header>>
  /\ UNCHANGED toast

(* The screens with modules of their own start create-tx alone.            *)
RunForm ==
  /\ OnScreen /\ screen = "Form"
  /\ Start("CreateTx", <<>>)
  /\ UNCHANGED <<screen, failed, output, header, toast>>

(* The error screen has become Home by the time Retry starts the command.  *)
ErrorAction ==
  /\ OnScreen /\ screen = "Error"
  /\ \/ GoTo("Home") /\ Start(failed.name, failed.args)
     \/ /\ GoTo("Home") /\ failed.name # "CreateTx"
        /\ UNCHANGED <<overlay, job>>
     \/ /\ failed.name = "CreateTx"
        /\ \E route \in {"Form", "Transactions"} : GoTo(route)
        /\ UNCHANGED <<overlay, job>>
  /\ UNCHANGED <<output, header, toast>>

-----------------------------------------------------------------------------
(* Prompts.                                                                *)

(* A character that is not 'q', Backspace or a paste.                      *)
Edit ==
  /\ OnOverlay("prompt")
  /\ \E v \in Values : overlay' = [overlay EXCEPT !.value = v]
  /\ UNCHANGED <<screen, job, failed, output, header, toast>>

(* A paste is not a key: it reaches the prompt under a toast as well.      *)
Paste ==
  /\ overlay.kind = "prompt"
  /\ \E v \in Values : overlay' = [overlay EXCEPT !.value = v]
  /\ UNCHANGED <<screen, job, failed, output, header, toast>>

(* Esc, and 'q' even where a text could be typed.                          *)
Cancel ==
  /\ \E kind \in {"prompt", "confirm", "exit"} : OnOverlay(kind)
  /\ overlay' = NoOverlay
  /\ UNCHANGED <<screen, job, failed, output, header, toast>>

(* A text that does not parse leaves the prompt, and what it carries, open.*)
Answer ==
  /\ OnOverlay("prompt")
  /\ LET then == overlay.then
         args == overlay.args \o <<overlay.value>>
     IN IF ~Accepts(then, overlay.value)
          THEN UNCHANGED <<overlay, job>>
          ELSE \/ then \in DOMAIN ThenPrompt /\ overlay' = Prompt(ThenPrompt[then], args) /\ job' = job
               \/ then \in DOMAIN ThenConfirm /\ overlay' = Confirm(ThenConfirm[then], args) /\ job' = job
               \/ then \in DOMAIN ThenRun /\ Start(ThenRun[then], args)
               \/ /\ then \in SettingsPrompts
                  /\ overlay' \in {NoOverlay, overlay} /\ job' = job
  /\ UNCHANGED <<screen, failed, output, header, toast>>

Choose ==
  /\ OnOverlay("confirm")
  /\ \E choice \in Choices :
       LET then == overlay.then
           args == overlay.args \o <<choice>>
       IN \/ then = "KeysDeriveAfterIndex" /\ overlay' = Prompt("KeysDeriveRun", args) /\ job' = job
          \/ then \in DOMAIN ConfirmRun /\ Start(ConfirmRun[then], args)
  /\ UNCHANGED <<screen, failed, output, header, toast>>

-----------------------------------------------------------------------------
(* apply_job_completed.                                                    *)

ReceiveFetch == job.name = "ListActiveAddresses" /\ screen = "Receive"

RouteAfter == IF job.name # "CreateTx" THEN {screen}
              ELSE IF screen = "Form" THEN {"Home", "Transactions"} ELSE {"Transactions"}

(* One confirmation: the header when there is output, a toast otherwise.   *)
JobSucceeds ==
  /\ job # NoCommand
  /\ \E text \in BOOLEAN :
       /\ output' = IF text /\ ~ReceiveFetch THEN "result" ELSE "none"
       /\ header' = (text /\ ~ReceiveFetch)
       /\ toast' = (~ReceiveFetch /\ ~text)
  /\ \E route \in RouteAfter : screen' = route
  /\ job' = NoCommand
  /\ UNCHANGED <<overlay, failed>>

(* The error's text is never empty.                                        *)
JobFails ==
  /\ job # NoCommand
  /\ header' = FALSE /\ toast' = FALSE
  /\ IF ReceiveFetch
       THEN output' = "none" /\ UNCHANGED <<screen, failed>>
       ELSE output' = "result" /\ screen' = "Error" /\ failed' = job
  /\ job' = NoCommand
  /\ UNCHANGED overlay

Next ==
  \/ OpenMenu \/ OpenReceive \/ AskExit
  \/ RunItem \/ OpenPrompt \/ OpenConfirm \/ GotoItem \/ LeaveScreen
  \/ ShowInfo \/ DismissPanel \/ CopyAddress \/ TakeToast
  \/ QuickEnter \/ RunForm \/ ErrorAction
  \/ Edit \/ Paste \/ Cancel \/ Answer \/ Choose
  \/ JobSucceeds \/ JobFails

Spec == Init /\ [][Next]_vars

-----------------------------------------------------------------------------
(* Properties.                                                             *)

(* Whatever way through menus, chains of prompts, cancels, failures and    *)
(* retries a command was started, every one of its prompts has been        *)
(* answered, in order, and a number is a number.  That a text was typed at *)
(* all is not promised: the code runs commands with empty texts.           *)
CommandTyped == job # NoCommand => job.args \in Arguments(job.name)

(* One confirmation of a command, the header of the panel or a toast,      *)
(* never both; and no header without its panel.                            *)
OneConfirmation == ~(header /\ toast) /\ (header => output = "result")
=============================================================================
