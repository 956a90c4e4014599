---------------------------- MODULE HomeRefresh ----------------------------
(***************************************************************************)
(* The home view of the wallet TUI and the background work that keeps it   *)
(* current.                                                                *)
(*                                                                         *)
(* One thread (the LocalSet of event_loop.rs) handles keys and completions *)
(* one at a time; every wallet command, balance refresh, identity fetch    *)
(* and master-address fetch is a task that posts to the loopback HTTP API, *)
(* whose executor runs requests one at a time in an order nobody fixes,    *)
(* and comes back later as a message.  Between the request and the message *)
(* the user may leave the home screen, queue a command or switch wallets.  *)
(*                                                                         *)
(* Abstractions.  A master address is its row number; a balance text, an   *)
(* address and a .nock name are the master they were computed for; all     *)
(* list-menu routes, Settings, Quick and the create-tx wizard are the one  *)
(* route "Menu".  Overlays, toasts and the output panel only delay keys:   *)
(* a key the user may press at any time already may come late.             *)
(***************************************************************************)
EXTENDS Naturals, FiniteSets

CONSTANTS
  NumMasters,   \* how many master addresses the wallet can come to know
  MaxNonce      \* bound: no user action starts work past this nonce

ASSUME NumMastersAssumption == NumMasters \in Nat \ {0}
ASSUME MaxNonceAssumption == MaxNonce \in Nat

VARIABLES
  screen,         \* UiState.screen, the active route
  job,            \* UiState.job together with its request to the API
  failed,         \* the command kept by Screen::ErrorScreen's ctx
  panel,          \* UiState.balance_panel
  picker,         \* UiState.master_picker
  nonce,          \* UiState.balance_job_nonce
  balanceReqs,    \* sidebar balance requests and answers not yet handled
  identityAsked,  \* list-active-addresses requests of the identity fetch
  identityLookups,\* name lookups under way, counted by address
  masterReqs,     \* list-master-addresses requests and answers not handled
  wallet,         \* the wallet kernel: masters known and the active one
  queued,         \* history: how many commands have been queued so far
  frozen          \* the one thread waits for a lock for ever (FreezeThread)

vars == <<screen, job, failed, panel, picker, nonce, balanceReqs,
          identityAsked, identityLookups, masterReqs, wallet, queued, frozen>>

-----------------------------------------------------------------------------
Masters == 1..NumMasters
NoMaster == 0
MaybeMaster == 0..NumMasters

Routes == {"Splash", "Home", "Receive", "SendSimple", "NnsBuy", "Menu", "Error"}
FlowRoutes == {"SendSimple", "NnsBuy"}

(* ListActiveAddresses, SetActiveMasterAddress, ShowBalance, CreateTx,     *)
(* ImportKeys, and "Other" for every command the home view ignores.        *)
MenuCommands == {"ListActive", "SetActive", "ShowBalance", "CreateTx", "ImportKeys", "Other"}
Command == [cmd : MenuCommands \cup {"none"}, target : MaybeMaster]
NoCommand == [cmd |-> "none", target |-> NoMaster]

Phases == {"asked", "ok", "err"}
Job == [cmd : MenuCommands \cup {"none"}, target : MaybeMaster,
        phase : Phases, of : MaybeMaster, retried : BOOLEAN]
NoJob == [cmd |-> "none", target |-> NoMaster, phase |-> "ok", of |-> NoMaster,
          retried |-> FALSE]

BalanceReq == [nonce : Nat, asked : Nat, phase : Phases, of : MaybeMaster]

(* The parsed rows: how many there are and which is flagged active.        *)
Rows == [len : MaybeMaster, active : MaybeMaster]
NoRows == [len |-> 0, active |-> NoMaster]
MasterReq == [phase : {"asked", "done"}, rows : Rows]

Panel == [text : MaybeMaster, loading : BOOLEAN, error : BOOLEAN,
          identity_loading : BOOLEAN, address : MaybeMaster, nockname : MaybeMaster]
Picker == [rows : Rows, loading : BOOLEAN, open : BOOLEAN, sel : Masters]
Wallet == [known : Masters, active : Masters]

TypeOK ==
  /\ screen \in Routes
  /\ job \in Job
  /\ failed \in Command
  /\ panel \in Panel
  /\ picker \in Picker
  /\ nonce \in Nat
  /\ balanceReqs \in SUBSET BalanceReq
  /\ identityAsked \in Nat
  /\ identityLookups \in [MaybeMaster -> Nat]
  /\ masterReqs \in SUBSET MasterReq
  /\ wallet \in Wallet
  /\ queued \in Nat
  /\ frozen \in BOOLEAN

Init ==
  /\ screen = "Splash"
  /\ job = NoJob
  /\ failed = NoCommand
  /\ panel = [text |-> NoMaster, loading |-> FALSE, error |-> FALSE,
              identity_loading |-> FALSE, address |-> NoMaster, nockname |-> NoMaster]
  /\ picker = [rows |-> NoRows, loading |-> FALSE, open |-> FALSE, sel |-> 1]
  /\ nonce = 0
  /\ balanceReqs = {}
  /\ identityAsked = 0
  /\ identityLookups = [a \in MaybeMaster |-> 0]
  /\ masterReqs = {}
  /\ wallet \in {w \in Wallet : w.active <= w.known}
  /\ queued = 0
  /\ frozen = FALSE

-----------------------------------------------------------------------------
(* The pieces handlers are made of.  Each takes the state it starts from,  *)
(* because a handler may run several of them in one step.                  *)

(* Every other action is the work of the one thread, while it still runs.  *)
Awake == ~frozen /\ UNCHANGED frozen

(* Keys reach a route handler only when no command runs.                   *)
KeysHeard == job = NoJob

(* A user action starts new work only below the bound on the nonce.        *)
MayStart == nonce < MaxNonce

PanelAtJobStartKept(p) == p                                     \* mutant

(* UiAction::EnterRunningWalletJob on the panel: a sidebar fetch under way *)
(* no longer counts, so its spinner is taken down with it.                 *)
PanelAtJobStart(p) == [p EXCEPT !.loading = FALSE]

NonceAtJobStartKept(n) == n                                     \* mutant

NonceAtJobStart(n) == n + 1

Queue(c, retried) ==
  /\ job' = [cmd |-> c.cmd, target |-> c.target, phase |-> "asked", of |-> NoMaster,
             retried |-> retried]
  /\ queued' = queued + 1

EnterRunningWalletJob(c) ==
  /\ Queue(c, FALSE)
  /\ panel' = PanelAtJobStart(panel)
  /\ nonce' = NonceAtJobStart(nonce)

(* schedule_balance_sidebar_refresh, on the home screen, starting from     *)
(* panel p and nonce n: nothing if a fetch is already shown as loading.    *)
RefreshBlocked(p) == p.loading

ScheduleBalanceRefresh(p, n) ==
  IF RefreshBlocked(p)
  THEN panel' = p /\ nonce' = n /\ UNCHANGED balanceReqs
  ELSE /\ panel' = [p EXCEPT !.loading = TRUE, !.error = FALSE]
       /\ nonce' = n + 1
       /\ balanceReqs' = balanceReqs \cup
            {[nonce |-> n + 1, asked |-> queued', phase |-> "asked", of |-> NoMaster]}

(* schedule_home_identity_fetch runs on the home screen unless an identity *)
(* fetch is shown as loading; it resolves the address already on the panel *)
(* if there is one and asks the wallet for it otherwise.                   *)
IdentityFetchDue(p) == screen = "Home" /\ ~p.identity_loading

ScheduleIdentityFetch(p) ==
  IF p.address # NoMaster
  THEN /\ identityLookups' = [identityLookups EXCEPT ![p.address] = @ + 1]
       /\ UNCHANGED identityAsked
  ELSE /\ identityAsked' = identityAsked + 1
       /\ UNCHANGED identityLookups

MasterFetchDueAlways == screen = "Home"                         \* mutant

(* schedule_master_addresses_fetch runs on the home screen unless one is   *)
(* already loading.                                                        *)
MasterFetchDue == screen = "Home" /\ ~picker.loading

HasChoice(rows) == rows.len > 1

(* Where the highlight is parked: the active row, or the first.            *)
ActiveRow(rows) == IF rows.active # NoMaster THEN rows.active ELSE 1

-----------------------------------------------------------------------------
(* Keys.                                                                   *)

(* Any key or paste on the splash screen.                                  *)
EnterMainFromSplash ==
  /\ Awake
  /\ screen = "Splash"
  /\ MayStart
  /\ screen' = "Home"
  /\ UNCHANGED <<job, failed, picker, identityAsked, identityLookups, masterReqs, wallet, queued>>
  /\ ScheduleBalanceRefresh(panel, nonce)

(* From home to one of the send flows or to a menu; the open wallet picker *)
(* captures every key.  The Transactions menu also leads to NnsBuy.        *)
LeaveHome(to) ==
  /\ Awake
  /\ KeysHeard
  /\ \/ screen = "Home" /\ ~picker.open /\ to \in FlowRoutes \cup {"Menu"}
     \/ screen = "Menu" /\ to = "NnsBuy"
  /\ screen' = to
  /\ UNCHANGED <<job, failed, panel, picker, nonce, balanceReqs, identityAsked,
                 identityLookups, masterReqs, wallet, queued>>

(* Mutant: the route handler changes the screen and nothing follows.       *)
ReturnHomeQuietly ==
  /\ Awake
  /\ KeysHeard
  /\ screen \in Routes \ {"Splash", "Home"}
  /\ screen' = "Home"
  /\ UNCHANGED <<job, failed, panel, picker, nonce, balanceReqs, identityAsked,
                 identityLookups, masterReqs, wallet, queued>>

(* A key that leads back home re-derives the wallet view (dispatch_key).   *)
ReturnHome ==
  /\ Awake
  /\ KeysHeard
  /\ MayStart
  /\ screen \in Routes \ {"Splash", "Home"}
  /\ screen' = "Home"
  /\ UNCHANGED <<job, failed, picker, identityAsked, identityLookups, masterReqs, wallet, queued>>
  /\ ScheduleBalanceRefresh(panel, nonce)

(* 'r' and the Receive button: show the Receive screen, fetch the address. *)
OpenReceive ==
  /\ Awake
  /\ KeysHeard
  /\ MayStart
  /\ screen = "Home" /\ ~picker.open
  /\ screen' = "Receive"
  /\ EnterRunningWalletJob([cmd |-> "ListActive", target |-> NoMaster])
  /\ UNCHANGED <<failed, picker, balanceReqs, identityAsked, identityLookups, masterReqs, wallet>>

PickerKeys == KeysHeard /\ screen = "Home"

(* 'w' on the wallet tab.                                                  *)
OpenPicker ==
  /\ Awake
  /\ PickerKeys
  /\ ~picker.open
  /\ HasChoice(picker.rows)
  /\ picker' = [picker EXCEPT !.open = TRUE, !.sel = ActiveRow(picker.rows)]
  /\ UNCHANGED <<screen, job, failed, panel, nonce, balanceReqs, identityAsked,
                 identityLookups, masterReqs, wallet, queued>>

MovePickerSelNoWrap ==                                          \* mutant
  /\ Awake
  /\ PickerKeys
  /\ picker.open
  /\ picker' = [picker EXCEPT !.sel = @ + 1]
  /\ UNCHANGED <<screen, job, failed, panel, nonce, balanceReqs, identityAsked,
                 identityLookups, masterReqs, wallet, queued>>

(* Up and down wrap around; rows are counted from 1 here, from 0 in code.  *)
MovePickerSel ==
  /\ Awake
  /\ PickerKeys
  /\ picker.open
  /\ \E down \in BOOLEAN :
       picker' = [picker EXCEPT !.sel =
         IF down THEN (IF @ = picker.rows.len THEN 1 ELSE @ + 1)
                 ELSE (IF @ = 1 THEN picker.rows.len ELSE @ - 1)]
  /\ UNCHANGED <<screen, job, failed, panel, nonce, balanceReqs, identityAsked,
                 identityLookups, masterReqs, wallet, queued>>

ClosePicker ==
  /\ Awake
  /\ PickerKeys
  /\ picker.open
  /\ picker' = [picker EXCEPT !.open = FALSE]
  /\ UNCHANGED <<screen, job, failed, panel, nonce, balanceReqs, identityAsked,
                 identityLookups, masterReqs, wallet, queued>>

(* Enter in the picker: switch wallets if the row is not flagged active.   *)
SelectActiveMaster ==
  /\ Awake
  /\ PickerKeys
  /\ picker.open
  /\ picker' = [picker EXCEPT !.open = FALSE]
  /\ IF picker.sel # picker.rows.active
     THEN /\ MayStart
          /\ EnterRunningWalletJob([cmd |-> "SetActive", target |-> picker.sel])
     ELSE UNCHANGED <<job, panel, nonce, queued>>
  /\ UNCHANGED <<screen, failed, balanceReqs, identityAsked, identityLookups, masterReqs, wallet>>

(* A command started from a menu, a prompt, the quick line or the wizard.  *)
RunMenuCommand ==
  /\ Awake
  /\ KeysHeard
  /\ MayStart
  /\ screen = "Menu"
  /\ \E c \in MenuCommands, t \in Masters :
       /\ c # "SetActive" => t = 1
       /\ EnterRunningWalletJob([cmd |-> c, target |-> t])
  /\ UNCHANGED <<screen, failed, picker, balanceReqs, identityAsked, identityLookups,
                 masterReqs, wallet>>

(* Send or Register: create and send from one of the flows.                *)
RunCreateAndSend ==
  /\ Awake
  /\ KeysHeard
  /\ MayStart
  /\ screen \in FlowRoutes
  /\ EnterRunningWalletJob([cmd |-> "CreateTx", target |-> NoMaster])
  /\ UNCHANGED <<screen, failed, picker, balanceReqs, identityAsked, identityLookups,
                 masterReqs, wallet>>

(* Retry on the error screen: error_screen has already put Home in place,  *)
(* so dispatch_key also starts a balance refresh beside the running job.   *)
RetryFailed ==
  /\ Awake
  /\ KeysHeard
  /\ MayStart
  /\ screen = "Error"
  /\ screen' = "Home"
  /\ Queue(failed, TRUE)
  /\ ScheduleBalanceRefresh(PanelAtJobStart(panel), NonceAtJobStart(nonce))
  /\ UNCHANGED <<failed, picker, identityAsked, identityLookups, masterReqs, wallet>>

(* A failed create-tx may also be edited, started over or given up.        *)
RecoverCreateTx ==
  /\ Awake
  /\ KeysHeard
  /\ screen = "Error" /\ failed.cmd = "CreateTx"
  /\ screen' = "Menu"
  /\ UNCHANGED <<job, failed, panel, picker, nonce, balanceReqs, identityAsked,
                 identityLookups, masterReqs, wallet, queued>>

-----------------------------------------------------------------------------
(* The API executor takes one request at a time; a command may fail.       *)

(* The wallet a successful answer speaks of; an answer to list-active-     *)
(* addresses may hold no address.                                          *)
AnsweredFor == {wallet.active} \cup (IF job.cmd = "ListActive" THEN {NoMaster} ELSE {})

ExecuteJob ==
  /\ Awake
  /\ job # NoJob /\ job.phase = "asked"
  /\ \/ /\ job' = [job EXCEPT !.phase = "err"]
        /\ UNCHANGED wallet
     \/ /\ job.cmd # "SetActive" \/ job.target <= wallet.known
        /\ \E of \in AnsweredFor : job' = [job EXCEPT !.phase = "ok", !.of = of]
        /\ wallet' = CASE job.cmd = "SetActive" -> [wallet EXCEPT !.active = job.target]
                       [] job.cmd = "ImportKeys" /\ wallet.known < NumMasters
                            -> [wallet EXCEPT !.known = @ + 1]
                       [] OTHER -> wallet
  /\ UNCHANGED <<screen, failed, panel, picker, nonce, balanceReqs, identityAsked,
                 identityLookups, masterReqs, queued>>

ExecuteBalance ==
  /\ Awake
  /\ \E r \in balanceReqs :
       /\ r.phase = "asked"
       /\ \E answer \in {[r EXCEPT !.phase = "ok", !.of = wallet.active],
                         [r EXCEPT !.phase = "err"]} :
            balanceReqs' = (balanceReqs \ {r}) \cup {answer}
  /\ UNCHANGED <<screen, job, failed, panel, picker, nonce, identityAsked,
                 identityLookups, masterReqs, wallet, queued>>

(* The identity fetch goes on to the registry with the address it got.     *)
ExecuteListActive ==
  /\ Awake
  /\ identityAsked > 0
  /\ identityAsked' = identityAsked - 1
  /\ \E a \in {wallet.active, NoMaster} :
       identityLookups' = [identityLookups EXCEPT ![a] = @ + 1]
  /\ UNCHANGED <<screen, job, failed, panel, picker, nonce, balanceReqs,
                 masterReqs, wallet, queued>>

(* A failed list-master-addresses comes back as no rows at all.            *)
ExecuteListMasters ==
  /\ Awake
  /\ \E r \in masterReqs :
       /\ r.phase = "asked"
       /\ \E rows \in {[len |-> wallet.known, active |-> wallet.active], NoRows} :
            masterReqs' = (masterReqs \ {r}) \cup {[phase |-> "done", rows |-> rows]}
  /\ UNCHANGED <<screen, job, failed, panel, picker, nonce, balanceReqs, identityAsked,
                 identityLookups, wallet, queued>>

-----------------------------------------------------------------------------
(* Completions (handle_msg).                                               *)

StaleNever(r) == FALSE                                          \* mutant

(* apply_balance_sidebar_completed: the spinner goes whatever the nonce    *)
(* says; a stale answer, or one beside a running command, changes no more. *)
Stale(r) == r.nonce # nonce \/ job # NoJob

(* Mutant: off the home screen the answer is dropped, as for the identity. *)
PanelAfterBalanceAtHome(r) ==
  IF screen # "Home" \/ Stale(r) THEN panel
  ELSE [panel EXCEPT !.loading = FALSE, !.text = r.of, !.error = r.phase = "err"]

PanelAfterBalance(r) ==
  LET cleared == [panel EXCEPT !.loading = FALSE]
  IN IF Stale(r) THEN cleared
     ELSE IF r.phase = "ok" THEN [cleared EXCEPT !.text = r.of, !.error = FALSE]
     ELSE [cleared EXCEPT !.error = TRUE]

(* Msg::Balance: a successful answer, stale or not, goes on to the         *)
(* identity fetch and the master-address fetch.                            *)
BalanceCompleted ==
  /\ Awake
  /\ \E r \in balanceReqs :
       /\ r.phase # "asked"
       /\ balanceReqs' = balanceReqs \ {r}
       /\ LET p == PanelAfterBalance(r) IN
          IF r.phase = "ok" /\ IdentityFetchDue(p)
          THEN /\ panel' = [p EXCEPT !.identity_loading = TRUE]
               /\ ScheduleIdentityFetch(p)
          ELSE /\ panel' = p
               /\ UNCHANGED <<identityAsked, identityLookups>>
       /\ IF r.phase = "ok" /\ MasterFetchDue
          THEN /\ picker' = [picker EXCEPT !.loading = TRUE]
               /\ masterReqs' = masterReqs \cup {[phase |-> "asked", rows |-> NoRows]}
          ELSE UNCHANGED <<picker, masterReqs>>
  /\ UNCHANGED <<screen, job, failed, nonce, wallet, queued>>

(* Msg::Identity: dropped off the home screen, spinner and all.            *)
IdentityCompleted ==
  /\ Awake
  /\ \E a \in MaybeMaster :
       /\ identityLookups[a] > 0
       /\ identityLookups' = [identityLookups EXCEPT ![a] = @ - 1]
       /\ IF screen # "Home" THEN UNCHANGED panel
          ELSE \E name \in {a, NoMaster} :
                 panel' = [panel EXCEPT !.identity_loading = FALSE, !.nockname = name,
                                        !.address = IF a # NoMaster THEN a ELSE @]
  /\ UNCHANGED <<screen, job, failed, picker, nonce, balanceReqs, identityAsked,
                 masterReqs, wallet, queued>>

PickerOpenAfterKept(rows) == picker.open                        \* mutant

(* Msg::MasterAddresses: park the highlight, close a picker without choice.*)
PickerOpenAfter(rows) == picker.open /\ HasChoice(rows)

MasterAddressesLoaded ==
  /\ Awake
  /\ \E r \in masterReqs :
       /\ r.phase = "done"
       /\ masterReqs' = masterReqs \ {r}
       /\ picker' = [rows |-> r.rows, loading |-> FALSE,
                     open |-> PickerOpenAfter(r.rows), sel |-> ActiveRow(r.rows)]
  /\ UNCHANGED <<screen, job, failed, panel, nonce, balanceReqs, identityAsked,
                 identityLookups, wallet, queued>>

JobLeft ==                                                      \* mutant
  /\ Awake
  /\ job # NoJob /\ job.phase # "asked"
  /\ UNCHANGED <<job, picker, identityAsked, masterReqs, wallet, queued>>

(* Msg::Job, by what the command was and where the user is.                *)
JobTaken ==
  /\ Awake
  /\ job # NoJob /\ job.phase # "asked"
  /\ job' = NoJob
  /\ UNCHANGED <<picker, identityAsked, masterReqs, wallet, queued>>

ReceiveFetch == job.cmd = "ListActive" /\ screen = "Receive"

(* The Receive screen got its address: the panel takes it as well, and its *)
(* name is looked up without raising identity_loading.                     *)
ReceiveAddressFetched ==
  /\ JobTaken
  /\ ReceiveFetch /\ job.phase = "ok"
  /\ panel' = [panel EXCEPT !.address = job.of, !.identity_loading = FALSE]
  /\ identityLookups' = IF job.of # NoMaster
                        THEN [identityLookups EXCEPT ![job.of] = @ + 1]
                        ELSE identityLookups
  /\ UNCHANGED <<screen, failed, nonce, balanceReqs>>

(* A failed fetch is shown on the Receive screen itself.                   *)
ReceiveAddressFailed ==
  /\ JobTaken
  /\ ReceiveFetch /\ job.phase = "err"
  /\ UNCHANGED <<screen, failed, panel, nonce, balanceReqs, identityLookups>>

RouteAfterCreateTx == IF screen \in FlowRoutes THEN "Home" ELSE "Menu"

RefreshAfterSwitchForgotten == FALSE                            \* mutant

(* After a wallet switch the home view is derived again, balance first.    *)
RefreshAfterSwitch == screen = "Home" /\ job.cmd = "SetActive"

CommandSucceeded ==
  /\ JobTaken
  /\ ~ReceiveFetch /\ job.phase = "ok"
  /\ screen' = IF job.cmd = "CreateTx" THEN RouteAfterCreateTx ELSE screen
  /\ IF RefreshAfterSwitch
     THEN ScheduleBalanceRefresh(panel, nonce)
     ELSE /\ panel' = IF job.cmd = "ShowBalance"
                      THEN [panel EXCEPT !.text = job.of, !.error = FALSE]
                      ELSE panel
          /\ UNCHANGED <<nonce, balanceReqs>>
  /\ UNCHANGED <<failed, identityLookups>>

CommandFailed ==
  /\ JobTaken
  /\ ~ReceiveFetch /\ job.phase = "err"
  /\ screen' = "Error"
  /\ failed' = [cmd |-> job.cmd, target |-> job.target]
  /\ panel' = IF job.cmd = "ShowBalance" THEN [panel EXCEPT !.error = TRUE] ELSE panel
  /\ UNCHANGED <<nonce, balanceReqs, identityLookups>>

JobCompleted ==
  ReceiveAddressFetched \/ ReceiveAddressFailed \/ CommandSucceeded \/ CommandFailed

-----------------------------------------------------------------------------
UserKey ==
  \/ EnterMainFromSplash
  \/ \E to \in Routes : LeaveHome(to)
  \/ ReturnHome
  \/ OpenReceive
  \/ OpenPicker \/ MovePickerSel \/ ClosePicker \/ SelectActiveMaster
  \/ RunMenuCommand
  \/ RunCreateAndSend
  \/ RetryFailed
  \/ RecoverCreateTx

Execute == ExecuteJob \/ ExecuteBalance \/ ExecuteListActive \/ ExecuteListMasters

Message == BalanceCompleted \/ IdentityCompleted \/ MasterAddressesLoaded \/ JobCompleted

(* A paste (event_loop.rs:150) and a change of the connection in Settings  *)
(* (session.rs:15) lock the std mutex rt.connection on the one thread.  A  *)
(* wallet command, of this view or of another client of the API, holds its *)
(* guard across an await of the same thread (command_runner.rs:111): then  *)
(* neither goes on.  Whether one holds it is not known here, so the thread *)
(* may freeze at any moment.                                               *)
FreezeThread ==
  /\ ~frozen
  /\ frozen' = TRUE
  /\ UNCHANGED <<screen, job, failed, panel, picker, nonce, balanceReqs, identityAsked,
                 identityLookups, masterReqs, wallet, queued>>

Next == UserKey \/ Execute \/ Message \/ FreezeThread

Spec == Init /\ [][Next]_vars

(* While the thread runs, the executor's loop and the message channel are  *)
(* served: select! is biased to messages, and the executor takes requests  *)
(* one by one.  Frozen, it serves nothing: every action asks for Awake.    *)
Fairness ==
  /\ WF_vars(ExecuteJob) /\ WF_vars(ExecuteBalance)
  /\ WF_vars(ExecuteListActive) /\ WF_vars(ExecuteListMasters)
  /\ WF_vars(BalanceCompleted) /\ WF_vars(IdentityCompleted)
  /\ WF_vars(MasterAddressesLoaded) /\ WF_vars(JobCompleted)

FairSpec == Spec /\ Fairness

-----------------------------------------------------------------------------
(* Safety.                                                                 *)

(* The spinner over the balance is backed by a request whose answer will   *)
(* be taken: while loading is shown, a fetch with the current nonce is on  *)
(* its way.  A command, a stale answer or a switch never leaves it turning.*)
SpinnerBacked ==
  panel.loading => \E r \in balanceReqs : r.nonce = nonce

(* balance_job_nonce only grows and no request is ahead of it; a request   *)
(* that still has the current nonce was made after every command queued.   *)
CurrentNotOvertaken ==
  \A r \in balanceReqs : r.nonce <= nonce /\ (r.nonce = nonce => r.asked = queued)

(* master_picker.loading says exactly whether a list-master-addresses      *)
(* fetch is in flight, and there is never a second one.                    *)
MasterFetchTracked ==
  /\ picker.loading <=> masterReqs # {}
  /\ \A r, s \in masterReqs : r = s

(* An open wallet picker is on the home screen, with no command running, a *)
(* real choice to make and the highlight on a row; rows may be reloaded    *)
(* under it, and shrink, at any moment.                                    *)
PickerOnlyOverChoice ==
  picker.open =>
    /\ screen = "Home"
    /\ job = NoJob
    /\ picker.rows.len > 1
    /\ picker.sel <= picker.rows.len

(* A balance on display is never replaced by one that was asked for before *)
(* the last command was queued.  A fetch asked for beside a command, as    *)
(* Retry does, may be answered first, and then shows what was before it.   *)
CommandSupersedesFetches ==
  [][panel'.text # panel.text /\ job' = job
       => \E r \in balanceReqs \ balanceReqs' : r.asked = queued]_vars

(* Whoever comes home by a key finds a current fetch on its way.           *)
HomeByKeyRefreshes ==
  [][screen # "Home" /\ screen' = "Home" /\ job = NoJob
       => panel'.loading /\ \E r \in balanceReqs' : r.nonce = nonce']_vars

(* A wallet switch completes on the home screen.                           *)
SwitchCompletes ==
  job.cmd = "SetActive" /\ job.phase = "ok" /\ job' = NoJob /\ screen = "Home"

(* A current fetch whose answer cannot show another wallet: the wallet has *)
(* yet to answer it, has failed to, or has answered for the active one.    *)
OnItsWay(r) ==
  r.nonce = nonce' /\ (r.phase = "asked" \/ r.phase = "err" \/ r.of = wallet.active)

(* When a wallet switch completes on the home screen the spinner turns for *)
(* a fetch under the current nonce, and its answer is the new wallet's,    *)
(* unless the switch is a Retry.  There error.rs shows Home first, so that *)
(* dispatch_key starts a fetch beside the switch; answered first, it is    *)
(* for the old wallet, and since it keeps loading up the refresh that      *)
(* event_loop.rs:54 promises for the new wallet is dropped.                *)
SwitchRefreshes ==
  [][SwitchCompletes =>
       /\ panel'.loading
       /\ \E r \in balanceReqs' : r.nonce = nonce' /\ (OnItsWay(r) \/ job.retried)]_vars

-----------------------------------------------------------------------------
(* Liveness.                                                               *)

(* A command always comes back and frees the keyboard, and a shown balance *)
(* or master-address fetch always ends, unless the thread freezes.         *)
CommandsComplete == job # NoJob ~> job = NoJob \/ frozen
SpinnersStop ==
  /\ panel.loading ~> ~panel.loading \/ frozen
  /\ picker.loading ~> ~picker.loading \/ frozen

-----------------------------------------------------------------------------
(* What comments in the code say and the code does not keep.               *)

(* handlers/mod.rs:231: the guards drop redundant and in-flight fetches;   *)
(* identity_loading, the guard, stays up when no fetch is in flight.       *)
IdentityGuardBacked ==
  panel.identity_loading =>
    identityAsked > 0 \/ \E a \in MaybeMaster : identityLookups[a] > 0

(* event_loop.rs:54: after a switch the home view is derived again for the *)
(* new active wallet.  With the new wallet's balance on display and no     *)
(* command running, the identity fetch that follows still resolves the     *)
(* address of the old one, which stays cached on the panel.                *)
IdentityFetchedForActive ==
  [][~panel.identity_loading /\ panel'.identity_loading /\ panel.address # NoMaster
       /\ job = NoJob /\ panel'.text = wallet.active
       => panel.address = wallet.active]_vars
=============================================================================
