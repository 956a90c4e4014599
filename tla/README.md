# Verification of nockchain-wallet-tui

TLA+ models of the terminal wallet under `src/`: what its screens, its background fetches, its
loopback API and its settings file may do in any order of keys, answers, failures and crashes;
what its server turns the wallet's output into; and that the screens and the server keep abstract promises.
TLC checks small instances; TLAPS proves every invariant and every step property of the passing runs, and
both refinements, for all values of the constants. Only liveness rests on TLC alone. Where the code does not do
what a comment or a label says, a run shows it or section 3 says so.

`PROJECT.json` lists components, runs, theorems, hazards and, definition by definition, the source
lines each one models. Paths below are relative to `src/src/`.

## 1. The system

One process, two threads that matter.

* The **TUI thread** runs a Tokio `LocalSet` with the event loop (`event_loop.rs`), every spawned
  wallet task (`command_runner.rs`) and the API job loop (`wallet_api/executor.rs`). Only one of them
  runs at a time, and each keeps running until it awaits: a key handler or a message handler is one
  atomic step, unless it awaits in the middle (the commit of a setting does).
* The **server thread** runs axum (`wallet_api/server.rs`). It turns requests into jobs on a channel to
  the job loop and waits for their answers; session settings it reads and writes itself.

The screens talk to the wallet through the program's own HTTP API: a handler changes the state and
spawns a task, the task posts a request, the executor answers some time later, and the answer comes back
as a `Msg` to whatever screen is up by then. That gap is where most of this project looks.

| Component | State | Operations | Talks to |
|---|---|---|---|
| Home view (`store/apply.rs`, `command_runner.rs`, `handlers/home.rs`, `handlers/mod.rs`) | `balance_panel`, `balance_job_nonce`, `master_picker`, `job` | refresh the balance, fetch identity and masters, open the picker, switch wallets, run commands | API through tasks; answers `Msg::Balance`, `Identity`, `MasterAddresses`, `Job` |
| Send wizard (`handlers/send_simple.rs`, `send_simple.rs`) | `Screen::SendSimple`: fields, focus, phase Form / Planning / Review | type, plan, review, send, go back | `/tx/plan`, `/tx/create-and-send`; `Msg::Plan`, `Msg::Job` |
| Name purchase (`handlers/nns_buy.rs`, `nns/mod.rs`) | `Screen::NnsBuy`: field, `lookup_busy`, `verified_name`, owned names | search, register, fetch owned names | name registry and API; `Msg::NnsLookup`, `OwnedNnsNames`, `Job` |
| Menus and prompts (`actions.rs`, `handlers/menus.rs`, `handlers/prompts.rs`, `screens.rs`) | `screen`, `overlay`, output panel, toast | choose an item, answer a chain of prompts, confirm, run a command | command runner |
| Create-tx wizard (`ct_dispatch.rs`, `create_tx.rs`) | `CreateTxWizard`: phase, sub-step, values so far | five questions a recipient, ten options, submit | command runner, error screen |
| Error screen (`handlers/error.rs`) | the failed command | retry, edit, dismiss | all of the above |
| Session settings (`session.rs`, `session_client.rs`, `wallet_api/state.rs`, `server.rs`) | `session.json`, `session_config`, `connection`, the bound listener | load, commit from Settings, POST of another client, rebind | both threads, disk, other clients |
| API server and executor (`wallet_api/server.rs`, `executor.rs`, `auth.rs`, `command_runner.rs`) | job channel (32), listener, bearer token, the event sink all commands share, transaction files | accept or refuse, queue, execute one by one, create and send, answer, restart, shut down | wallet kernel |
| Reports (`wallet_api/normalize.rs`, `report.rs`) | the buffers of two line-by-line parsers | kernel markdown and events to reports, reports to text, text to the list of masters | between executor and screens |
| Amounts (`format.rs`, `send_simple.rs`) | none | nicks to NOCK and back, Max | send form, balance |
| Drawing, themes, price, clipboard, token file, start-up | animation counters, a price | rendering and I/O | reads the state |

### What is hard, and what makes each part correct

* **Home view.** Three kinds of fetch and the user's commands are in flight together. Correct means: no
  answer asked for before a command replaces what is shown, a spinner always has a request behind it and stops,
  the picker is only open over a choice that still exists, coming home or switching leads to a fresh view.
* **Send wizard.** The planner's answer is applied to the form that is up when it arrives, and what is sent
  is built from the fields, not from the preview. Correct means: what is sent is what was reviewed, once.
* **Name purchase.** A lock deaf to every key, pastes that do not ask the lock, screens rebuilt with requests
  in flight. Correct means: the lock always has a request behind it, only a name just found free is bought.
* **Prompts and wizard.** Long chains of legal answers. Correct means: a command runs with the answers of its
  chain, each in its place; one that pays is payable, follows every answer the screen showed, and comes back from an
  error unchanged. That a required text is not empty the code does not check.
* **API.** Callers on two threads, one executor, a channel that fills up, listeners that are replaced under their
  callers, drivers that write into a shared sink after their command is over. Correct means: a request is worked
  on at most once and alone, who hears an answer hears that to its own request, a payment's answer fits what was
  broadcast, and nothing stays in hand.
* **Reports and amounts.** Output is parsed with lines held back in buffers, and the master list twice. Correct
  means: no line is lost or moved, addresses keep their versions, Max sends the whole of the balance it is told.
* **Settings.** Two threads save one file, in place, without a lock common to both; a crash may tear it.
  Correct means: file, memory, connection and listener agree when nothing is under way, a change ends, and what
  does not validate is not stored. The file is not validated when it is read.
* **All of it.** One thread serves keys, messages and wallet commands, and locks a std mutex that a command may
  hold over an await: a paste at the wrong moment stops everything for ever (`event_loop.rs:150`).

## 2. Modules

Each module starts from the routes and fields it keeps, has one action per handler or completion, and
states its abstractions in its header. `MC*` modules extend it with small constants. In every module a
handler's work in one turn of the thread is one action: `JobCompleted` is all of `apply_job_completed`.

| Module | Models | Correspondence |
|---|---|---|
| `HomeRefresh` | home view, its fetches, picker, switch, commands | `panel`, `picker`, `nonce`, `job` are the fields of `UiState`; `balanceReqs`, `identityAsked`, `identityLookups`, `masterReqs` are spawned tasks with their requests and answers; `wallet` is the kernel's list of masters; `frozen` is the thread waiting for a lock for ever. `Execute*` is the API's answer, `*Completed` / `*Loaded` its message |
| `SendSimple` | send wizard, the two commands that pay, Retry | `form` is `Screen::SendSimple`; `plans` and `job` are requests; `planned`, `pasted` are history; `frozen` as above |
| `ReviewedPayment` | the promise of a send wizard, abstractly: offer, amend, withdraw, pay, settle | an offer is used up by the payment made on it, and the payment is the one offered unless the user amended it; `SendSimple` implements it with `offer` the preview in Review, `paying` the payment of the running command |
| `NnsBuy` | search, register, owned names | `form` is `Screen::NnsBuy`; `Canonical` is `normalize_nns_name`; `found` is history; `frozen` as above |
| `Prompts` | all menus, prompt and confirm chains, quick line, output panel, toast, error screen | `overlay` carries kind, step and answers so far; the menu tables are `actions.rs`, the chains are `TextThen` / `ConfirmThen`; the quick line runs any command with arguments clap accepts |
| `CreateTx` | the wizard, its error screen | `step` is the sub-step, `line` or `first` what it shows, `tx` the fields of the command so far, written by one `Store*` per arm of `advance_options_line` and `advance_options_toggle`; `answers` is history, what was on the screen at each Enter |
| `Session` | settings on two threads, disk, listener, connection guard, crash; start-up from any file | `tui.at` is the await or step of the commit, `srv` the post in the server's hands; a save is truncate, then fill |
| `WalletApi` | server, job channel, executor, shared event sink, create-and-send, listener restart, paste, shutdown | `call` is what a caller (a task of the TUI, another client) does or has heard, `queue` the `mpsc` channel, `job.at` the await at which `execute_tui_api_command` is suspended, `sink` is `wallet_event_sink`, `drivers` events still to be written, `written` and `sent` the files under `txs/` and the broadcasts |
| `ApiContract` | the promise of the API, abstractly: ask, refuse, begin, end, lose, close | `WalletApi` implements it: a caller in `sending` or `waiting` waits, the job in hand is the running work, `outcome` the ended one |
| `Amounts` | `format.rs`, `max_amount_string` | exact integers for the f64 the code computes with; a text is its digits and how many follow the point |
| `Reports` | both markdown parsers, synthesised events, reports, their text and what the TUI reads back | one action per line of markdown (`KernelPrints`), with `text`, `table`, `rows`, `pending` the parsers' buffers; `Return` is the rest of the pipeline, with a late event of another command in the sink or not |

`HomeRefresh`, `SendSimple`, `NnsBuy` and `Prompts` share `job` and the way `apply_job_completed` routes;
each keeps the commands and routes its own state tells apart and takes the rest as "Menu" or "Other".
No module declares a recursive operator: `Scale` in `Amounts`, the powers of ten, is a recursive function.

Each of the eight components has its theorems in a module that extends it: `HomeRefreshProofs`,
`SendSimpleProofs`, `NnsBuyProofs`, `PromptsProofs`, `CreateTxProofs`, `SessionProofs`, `WalletApiProofs` and
`ReportsProofs` (which speaks of `Amounts` too).

## 3. Runs

The bounds are constants of the modules, used only in guards of what the user starts; no answer, message
or server step is ever bounded. When a bound is reached the user has nothing left to do, so the runs
with such bounds say `CHECK_DEADLOCK FALSE`; `Prompts` and `CreateTx` always have a key to press and
their runs check deadlock.

### Passing

| Run | Shows | Bounds, and why they are enough |
|---|---|---|
| `home_view` | `SpinnerBacked`, `CurrentNotOvertaken`, `MasterFetchTracked`, `PickerOnlyOverChoice` (invariants), `CommandSupersedesFetches`, `HomeByKeyRefreshes`, `SwitchRefreshes` (steps), `CommandsComplete`, `SpinnersStop` (liveness) | two masters, so a switch leaves something stale and the picker's list shrinks under it; nonce 3: a fetch overtaken by a command overtaken by a fetch |
| `send_review` | `PlanningBacked`, `SentAsReviewed`; the refinement `PaysAsReviewed`; `PlanningEnds` | two valid texts and one bad: a pasted value differs from the reviewed one; three plans and two commands: fail, plan again, send again |
| `nns_buy` | `BusyBacked`, `RegisteredWasFound`; `BusyEnds` | two names, one in two spellings, and an empty text; three searches or registrations: search, search another, register |
| `prompts_safety` | `CommandTyped`, `OneConfirmation` | unbounded but for the texts: empty, a number, another |
| `create_tx_safety` | `CommandPays`, `SubmitsWhatWasShown`, `EditKeepsCommand` | two recipients; a number and a list of keys in two spellings each; six keys that change what a question shows: a payment takes two, which leaves four for options before and after a failure |
| `session_shared` | `SettingsAgree`; `NeverStoresInvalid` (step); `CommitEndsUnlessHeld` | two changes and a post, any number of crashes, any initial file (absent, torn, or any record, with an endpoint, a listen address or a schema version that does not validate), with timeouts, failing saves and binds, and commands: a post meets a change before, between and after its two saves |
| `wallet_api` | `NothingForeign`, `PaymentAnswerTrue`; the refinement `KeepsContract`; `RequestsEnd` | three requests over a channel of one: one runs, one fills the channel, one waits for room (with 32 the same needs 34); two may pay, so that a late driver of one meets the files of the other; two files, so that a send-tx can fail after another went through; one restart |
| `reports` | `LinesKept`, `AddressesPaired`, `MasterListArrives`, `MaxSendsAll` | every text of up to five lines of every form: a table between two texts with a rule, two addresses with a version in any place. 16 nicks to the NOCK and two decimals for 65536 and eight: what `MaxSendsAll` needs is that a nick is more than twice the rounding of the last decimal, and that balances reach amounts whose digits end in zeros on either side of the point; they run from nothing to past 100 NOCK |

`TypeOK` is an invariant of every run. Every property has a mutant in `PROJECT.json`: a variant of one
mapped definition with a plausible mistake, under which the same run finds the property violated.

### Disagreements between code and comments

Each of these runs checks what a comment says, and TLC shows a behaviour of the code that breaks it.

| Run | The comment | The behaviour |
|---|---|---|
| `home_identity_stuck` | guards drop redundant or in-flight fetches (`handlers/mod.rs:231`) | an identity answer off the home screen leaves the guard up with nothing in flight |
| `home_address_stale` | a switch re-derives the view for the new wallet (`event_loop.rs:54`) | the cached address of the old wallet is resolved again under the new balance |
| `send_generic_argv` | create-tx is never routed through generic argv (`wallet_api/client.rs:318`) | the wizard's last Enter does, and the arguments are lost |
| `session_file_split` | settings are persisted in `session.json` (`command_runner.rs:81`) | the TUI's second save and another client's post interleave |

Others are behaviours of the models that no run singles out:

* `handlers/mod.rs:120` says that returning to home from any other route re-derives the wallet view; the end of a
  payment puts Home on the screen (`store/apply.rs:259`) with the old balance and no fetch (`JobCompleted` in
  `HomeRefresh`). `HomeByKeyRefreshes` and `SwitchRefreshes` say which ways do, the second with a retried switch
  excepted.
* `event_loop.rs:54` says that a completed switch re-derives the view for the new wallet. Retry of a failed switch shows
  Home first, which starts a balance fetch beside the switch (`handlers/mod.rs:232`); answered first, it brings the old
  balance, and the refresh after the switch is dropped because `loading` is up (`command_runner.rs:211`).
  `SwitchRefreshes` excepts a retried switch, and nothing else: without the exception TLC finds this behaviour.
* `view/mod.rs:73` says the total is from the latest balance event; the code returns the first, and a late event of
  an earlier command comes before the own. `MaxSendsAll` says which one Max fills in.
* The TUI thread blocks for good when a change of settings is to be applied (`session.rs:15`) or text is pasted
  (`event_loop.rs:150`) while a command of the same thread is suspended with the connection's guard
  (`command_runner.rs:112`). Every liveness property holds with that exception and, for a request, the end of the
  program: `Session` and `WalletApi` know who holds the guard; the screens' modules, where any command of any client
  may, let the thread freeze at any moment (`FreezeThread`).
* A `session.json` that parses is put in force as it stands (`state.rs:55`, `session.rs:61`), all but an endpoint that
  does not parse: with a listen address that does not validate the process has no listener, so that its own
  Settings cannot mend it. `TypeOK`, `SettingsAgree` and `NeverStoresInvalid` of `Session` are stated for such starts too.
* `actions.rs:169` calls an item "List notes by address (required)"; an empty answer runs it without an address
  (`handlers/prompts.rs:183`). Prompts check numbers only: SendTx, SetActiveMasterAddress, VerifyMessage and others run
  with empty texts too (`handlers/prompts.rs:159` and below). `Arguments` in `Prompts` admits both, and `CommandTyped`
  promises no text that is not empty.
* `command_runner.rs:74` says the serial API takes the place of isolated sinks. A driver that writes after its
  command has returned, into the sink of the next, can make a payment send the files of an earlier create-tx, or
  take the list away from the wallet picker (`normalize.rs:23` prefers any event to the markdown):
  `NothingForeign`, `PaymentAnswerTrue` and `MasterListArrives` say what holds without, or with, such a driver.
* A create-and-send that fails at a later file reports an error and has broadcast the earlier ones;
  `PaymentAnswerTrue` says that it is no worse.
* `command_runner.rs:319` says the master-address fetch "never overlaps the direct balance refresh"; leaving and
  re-entering Home while it is in flight starts the next refresh beside it (`HomeRefresh`).
* `screens.rs:61` says `verified_name` is for the current normalized name; a paste during the search leaves the
  old one (`NnsBuy`). Register still refuses it: `RegisteredWasFound` is what is true instead.
* `screens.rs:65` says `owned_names_loading` is true while the lookup is in flight; a failed fetch never clears
  it (`event_loop.rs:72`) and every rebuilt screen does too early (`NnsBuy`).
* `components/root.rs:117` hints that Enter submits and Esc cancels; a typed `q` closes the prompt too
  (`handlers/prompts.rs:53`, `Cancel` in `Prompts`).
* `wallet_api/executor.rs:152` says a POST that changes `api_listen` rebinds; only the Settings prompt does
  (`PostByOther` and `StorePost` in `Session` leave `bound` alone).

### Fairness

User keys, pastes, changes, posts, timeouts and exits have none. In `HomeRefresh`, `SendSimple` and `NnsBuy` every
action asks that the thread is not `frozen`; weak fairness therefore says nothing of a frozen thread, and the
liveness properties of these modules end in `\/ frozen`. While the thread runs, weak fairness is given to

* requests to the executor (`Execute*`): its loop takes one job after the other and answers each, and the
  wallet kernel is taken to return (external);
* registry requests (`AnswerLookup`): the client has an eight-second timeout (`nns/mod.rs:225`);
* in `WalletApi`, the executor's steps as a whole, and `send` on the channel for some waiting caller: tokio wakes
  the first of them when a job is received; nothing is assumed about drivers or callers;
* messages (`*Completed`, `*Loaded`): `tokio::select!` in `event_loop.rs` is biased to the channel;
* in `Session`, the steps of the TUI thread, of the server thread, and the release of the guard, which is
  enabled only where that thread awaits.

`CommitEndsUnlessHeld` excepts one state, the TUI thread about to apply a change while a command holds the
connection: pastes are not in `Session`, and this is the only place of a commit where a change stops.

## 4. Proofs

Assumptions are those the modules name (`NumMastersAssumption`, `BadAssumption`, `CanonicalAssumption`,
...): non-empty sets, bounds in `Nat`, the verdict for a bad text distinct from names. No theorem
assumes a bound's value. Two assumptions say more than a type: `AmountsAssumption` that a nick is worth more
than the last decimal shown (65536 against 10^8 in the code), `ReportsAssumption` that balances fit the type
they are kept in and that the kernel may print a line.

* **`HomeRefreshProofs`.** `TypeInv` is type correctness with three facts about masters that its steps need
  (a switch names a master, rows fit the wallet's, an open picker has a choice). `FetchInv` is `SpinnerBacked`
  with `CurrentNotOvertaken`: together inductive, since a new request takes the next nonce and a command
  bumps it and lowers the flag in one step. `CommandSupersedesFetches` follows: an answer is taken only with
  the current nonce, which `CurrentNotOvertaken` dates after the last command. `MasterFetchTracked` is
  inductive on the types; `PickerHome` (an open picker is on Home with no command) gives
  `PickerOnlyOverChoice`. The steps `HomeByKeyRefreshes` and `SwitchRefreshes` use `FetchInv` where a refresh
  is not started because one is already loading; the second also `QuietJob`, that beside a command the spinner turns
  only after a Retry. Whether the thread freezes changes none of these: `FreezeThread` touches nothing they speak of.
* **`SendSimpleProofs`.** `Inv` adds to the checked properties: the focus stays on Continue while planning (so a
  paste cannot change the fields of the request in flight), the planner and a command never run together,
  the preview reads as the fields unless pasted over (`ReviewTruthful`), and what is under review is a
  payment (`ReviewShown`). From it `PlanningBacked` and `SentAsReviewed`, and, one step of `Next` after the other,
  that each maps to a step of `ReviewedPayment` or a stutter: `KeepsPromise`. That a review pays once is part of
  it, since a payment that ends, well or not, takes the offer with it.
* **`NnsBuyProofs`.** `Inv` adds that other routes keep no form and that the verified name is the last one
  found (`VerifiedWasFound`), which is weaker than what the comment in `screens.rs` says, and true. With
  `BusyBacked`, which keeps searches out while a command runs, `RegisteredWasFound` follows.
* **`WalletApiProofs`.** `ContractKept`: every step maps to a step of `ApiContract` or a stutter. `Begin` needs the
  received request not to have been begun before, so `Inv` says where a request can be: the ones in the channel
  are there once, past `send` (`InService`), not ended, and not the executor's (`QueueOnce`, `InHandOnce`); what has
  ended was past `send` (`Ended`), so a new post or a loss of callers disturbs none of it; and a running job is one
  that runs commands (`Known`), so that `Settle` has a case for it. `PayInv` continues with what the contract does
  not see, files and events. `JobFiles` says what a job knows at each of its awaits: until its
  command returns its request has written nothing and no event is its own (`Fresh`); afterwards the files written
  since it began are its own, all of them, and what its events name (`Returned`). `Answers` says, for as long as no driver has written late, that the sink is the job's own
  (`SinkOwn`), that what is sent and what is left are the two ends of its files in order (`Progress`), and that a
  request once answered was answered as it deserves and gains no file afterwards (`Settled`); `PaymentAnswerTrue`
  and `NothingForeign` are parts of it.
* **`PromptsProofs`.** `JobHasNoOverlay` (no prompt is open while a command runs) and `OneConfirmation` are each inductive as they stand: the first since every
  command starts by consuming its prompt and nothing that opens one is heard while it runs, the second since
  help and toasts come up only where no panel is. `CommandTyped` (`TypedCorrect`) needs `PromptInv`: what a prompt carries is
  complete but for the answer it asks (`PromptCarries`), so that the last answer makes a command, and the command
  on the error screen has its answers too (`FailedComplete`), so that Retry does.
* **`CreateTxProofs`.** The draft is checked field by field over four keys and the recipient may sit in `tx` through a
  failure and an edit. `Checked` says at each sub-step what has passed so far and that everybody taken up can be
  paid, in the wizard, in the job and in the failed command. `Confirms` says that the
  questions before the current one, and no others, have been answered, and that `tx` heeds each answer; `Unchanged`
  ties `tx` to the failed command while nothing is changed, with the current question showing its own option
  (`Showing`). `Arm` is what both need of an arm: it stores its answer, disturbs no other option and shows the next one;
  each of the nine arms has a lemma that it does. `Routed` and `Drafted` say which fields are blank where.
* **`SessionProofs`.** `SettingsAgree` speaks of the end of a change; `Places` says, for each await of the commit, how far
  the file, the connection and the listener have come, and in `AwaitingAnswer` how that depends on what the
  server has done with the post by then. It holds as long as the TUI is `alone`. `OwnRequest` (a post of the TUI is
  the one it waits for, once, and validates once accepted) and `Gone` (a dead process leaves its file and nothing else) hold always, and are what
  a restart, where `alone` begins again, starts from. `NeverStoresInvalid` follows: a save writes what a step before it
  has validated, and only the start reads the file.
* **`ReportsProofs`.** `ReportsInv` is the parsers' loop invariant. `Parsing`: lines are kept, text is buffered in the one
  buffer and rows in the other (`Buffers`), and reading masters from the sections gives what reading them from the
  markdown does (`MastersPassed`). `Collecting`: the rows so far with the address in hand are the pairs printed, in
  order, and an address in hand is the last thing printed of its kind (`Collected`). The rest of the pipeline is one
  step, so `Answered` follows from these and from what the operators do to a list at its end. `FlattenSeq`,
  `SelectSeq` and the folds among them have lemmas for `Append` and concatenation, proved by induction over a set
  of numbers: `SetInduction` takes the least member of the set of counterexamples, so no operator is a
  parameter. `LinesKept` adds the two final flushes to the loop
  invariant: the buffers are never both full, so their order does not matter. `MaxSendsAll` rests on `TotalTold`, which
  balance is the first of a reply, and on `RoundTrip`, that reading a formatted amount gives the amount back, for every
  balance in `0 .. MaxNicks`: rounding to the last decimal and back errs by less than half a nick (`DivBounds`,
  `RoundEvenBounds`), and the zeros `Trim` cuts off are put back by the power of ten `ParseNock` scales with
  (`TrimKeeps`, `ScaleSum`).

Only model-checked, since the prover knows neither fairness nor ENABLED: the six liveness properties
(`CommandsComplete`, `SpinnersStop`, `PlanningEnds`, `BusyEnds`, `CommitEndsUnlessHeld`, `RequestsEnd`). The refinements
are proved for the safety part of the specifications, which is all the abstract ones have. That the f64 of the code
is the exact rational of `Amounts` is an abstraction of the model (section 6), not a theorem.

## 5. Plan

Done, in this order: `HomeRefresh` (the heart of the program) with proofs, `SendSimple` with proofs, `NnsBuy`
with proofs, `Session`, `Prompts`, `CreateTx`, `WalletApi` with `ApiContract` and the
proof that it is implemented, `ReviewedPayment` likewise, `Amounts` and `Reports`.

Then the proofs the models were written for: `CommandTyped` and `CommandPays` from what each prompt and each
sub-step carries, `PaymentAnswerTrue` and `NothingForeign` from where the files of the job in hand lie, `SettingsAgree`
from the places of the commit, and the theorems on `Reports` and `Amounts`, which had been thought to need an
induction the provers lack.

Left:

1. `WalletApi`: `NothingForeign` and `PaymentAnswerTrue` promise nothing once any driver has written late; which
   requests a single late driver can mislead would say more.
2. Abstract promises of other screens: a name registered at most once per confirmation (`NnsBuy`), a setting applied or
   refused as a whole (`Session`), stated like `ReviewedPayment` and implemented.
3. Where two of the screens' models share `job`, one module for it that each instantiates, so that what is proved of
   the routing in `apply_job_completed` is proved once.

## 6. Not modelled

* Drawing (`components/`, `view/`), themes, the splash animation: functions of the state. Scrolling and menu
  highlights, but for the wizard's: any item can be chosen at any moment instead.
* The argv a command is encoded as (`client.rs:113`): what the server's parser makes of it is decided by the
  argument definitions of the wallet, outside the repository. The one encoding that loses arguments whatever
  they are, create-tx, is in `SendSimple` (`send_generic_argv`).
* The sections of the reports on notes, key trees and migrations: one per event, without a parser. The comma
  grouping of the balance, the fee tiers and spelling rules of `nns/mod.rs` (`NnsBuy` takes a table of spellings).
* `wallet_api/auth.rs` (but for the refusal in `WalletApi`), `main.rs`, `lib.rs`, hooks, clipboard, price: start-up
  and I/O without later state.
* The wallet kernel, the registry and the chain: external; any answer, at any time.
* In `CreateTx`, commands of other screens that fail: the error screen can take a create-tx of the send form, of
  the quick line or of a Retry back into the wizard too (`store/apply.rs:351`); the drafts it starts from are the wizard's own.
* Who holds the connection, in the modules of the screens: `FreezeThread` may come at any moment.
* Assumed: transaction files are on disk when create-tx returns, send-tx emits no event that names files and one that
  fails has broadcast nothing;
  commands of the kernel return; amounts stay below 2^52 nicks, where f64 has decimals to spare; the registry's
  `status.contains("available")` is taken as its verdict.
