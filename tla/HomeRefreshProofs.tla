------------------------- MODULE HomeRefreshProofs -------------------------
(* Theorems about the home view, for any number of master addresses and    *)
(* any bound on the session.                                               *)
EXTENDS HomeRefresh, TLAPS

(* Row numbers: none is not a master, and there is at least one master.    *)
LEMMA MasterFacts ==
  /\ NoMaster \in MaybeMaster
  /\ Masters \subseteq MaybeMaster
  /\ 1 \in Masters
  /\ \A m \in MaybeMaster : m # NoMaster => m \in Masters
  BY NumMastersAssumption DEF NoMaster, MaybeMaster, Masters

LEMMA TypeInit == Init => TypeOK
<1> SUFFICES ASSUME Init PROVE TypeOK
  OBVIOUS
<1>1. job \in Job /\ failed \in Command
  BY MasterFacts DEF Init, Job, NoJob, Command, NoCommand, MenuCommands, Phases
<1>2. panel \in Panel
  BY MasterFacts DEF Init, Panel
<1>3. picker \in Picker
  BY MasterFacts DEF Init, Picker, Rows, NoRows, NoMaster
<1>4. wallet \in Wallet
  BY DEF Init
<1>5. identityLookups \in [MaybeMaster -> Nat]
  BY DEF Init
<1>6. QED
  BY <1>1, <1>2, <1>3, <1>4, <1>5 DEF Init, TypeOK, Routes

-----------------------------------------------------------------------------
(* The pieces handlers are made of keep the types.                         *)

LEMMA QueueType ==
  ASSUME TypeOK, NEW c \in Command, NEW again \in BOOLEAN, Queue(c, again)
  PROVE  job' \in Job /\ queued' \in Nat
  BY MasterFacts DEF TypeOK, Queue, Job, Command, Phases

LEMMA RefreshType ==
  ASSUME TypeOK, queued' \in Nat, NEW p \in Panel, NEW n \in Nat,
         ScheduleBalanceRefresh(p, n)
  PROVE  panel' \in Panel /\ nonce' \in Nat /\ balanceReqs' \in SUBSET BalanceReq
<1>1. [p EXCEPT !.loading = TRUE, !.error = FALSE] \in Panel
  BY DEF Panel
<1>2. [nonce |-> n + 1, asked |-> queued', phase |-> "asked", of |-> NoMaster] \in BalanceReq
  BY MasterFacts DEF BalanceReq, Phases
<1>3. QED
  BY <1>1, <1>2 DEF TypeOK, ScheduleBalanceRefresh

LEMMA JobStartType ==
  ASSUME NEW p \in Panel, NEW n \in Nat
  PROVE  PanelAtJobStart(p) \in Panel /\ NonceAtJobStart(n) \in Nat
<1>1. [p EXCEPT !.loading = FALSE] \in Panel
  BY DEF Panel
<1>2. QED
  BY <1>1 DEF PanelAtJobStart, NonceAtJobStart

LEMMA EnterJobType ==
  ASSUME TypeOK, NEW c \in Command, EnterRunningWalletJob(c)
  PROVE  /\ job' \in Job /\ queued' \in Nat
         /\ panel' \in Panel /\ nonce' \in Nat
<1>1. Queue(c, FALSE) /\ panel' = PanelAtJobStart(panel) /\ nonce' = NonceAtJobStart(nonce)
  BY DEF EnterRunningWalletJob
<1>2. panel \in Panel /\ nonce \in Nat
  BY DEF TypeOK
<1>3. QED
  BY <1>1, <1>2, QueueType, JobStartType

LEMMA ActiveRowType ==
  ASSUME NEW rows \in Rows PROVE ActiveRow(rows) \in Masters
  BY MasterFacts DEF ActiveRow, Rows

-----------------------------------------------------------------------------
(* A command to switch wallets names a master, wherever it is kept.        *)
SwitchNamesMaster ==
  /\ job.cmd = "SetActive" => job.target \in Masters
  /\ failed.cmd = "SetActive" => failed.target \in Masters

(* The row flagged active is one of the rows, from the wallet to the panel.*)
RowsFit ==
  /\ wallet.active <= wallet.known
  /\ \A r \in masterReqs : r.rows.active <= r.rows.len
  /\ picker.rows.active <= picker.rows.len

(* The highlight of an open picker is on a row; moving it keeps it there.  *)
ChoiceOpen ==
  picker.open => picker.rows.len > 1 /\ picker.sel <= picker.rows.len

TypeInv == TypeOK /\ SwitchNamesMaster /\ RowsFit /\ ChoiceOpen

LEMMA TypeStepKeys == TypeInv /\ UserKey => TypeInv'
<1> SUFFICES ASSUME TypeInv, UserKey PROVE TypeInv'
  OBVIOUS
<1> USE DEF TypeInv, SwitchNamesMaster, RowsFit, ChoiceOpen, Awake
<1>1. CASE EnterMainFromSplash
  BY <1>1, RefreshType DEF TypeOK, EnterMainFromSplash, Routes
<1>2. ASSUME NEW to \in Routes, LeaveHome(to) PROVE TypeInv'
  BY <1>2 DEF TypeOK, LeaveHome
<1>3. CASE ReturnHome
  BY <1>3, RefreshType DEF TypeOK, ReturnHome, Routes
<1>4. CASE OpenReceive
  <2>1. [cmd |-> "ListActive", target |-> NoMaster] \in Command
    BY MasterFacts DEF Command, MenuCommands
  <2>2. job'.cmd = "ListActive"
    BY <1>4 DEF OpenReceive, EnterRunningWalletJob, Queue
  <2>3. QED
    BY <1>4, <2>1, <2>2, EnterJobType DEF TypeOK, OpenReceive, Routes
<1>5. CASE OpenPicker
  <2>1. ActiveRow(picker.rows) \in Masters
    BY ActiveRowType DEF TypeOK, Picker
  <2>2. picker' \in Picker
    BY <1>5, <2>1 DEF TypeOK, OpenPicker, Picker
  <2>3. picker.rows.len > 1 /\ picker' = [picker EXCEPT !.open = TRUE, !.sel = ActiveRow(picker.rows)]
    BY <1>5 DEF OpenPicker, HasChoice
  <2>4. picker'.rows = picker.rows /\ picker'.sel <= picker.rows.len
    BY <2>3 DEF ActiveRow, TypeOK, Picker, Rows, MaybeMaster
  <2>5. QED
    BY <1>5, <2>2, <2>3, <2>4 DEF TypeOK, OpenPicker
<1>6. CASE MovePickerSel
  <2>1. PICK down \in BOOLEAN : picker' = [picker EXCEPT !.sel =
               IF down THEN (IF @ = picker.rows.len THEN 1 ELSE @ + 1)
                       ELSE (IF @ = 1 THEN picker.rows.len ELSE @ - 1)]
    BY <1>6 DEF MovePickerSel
  <2>2. picker.rows.len \in 2..NumMasters /\ picker.sel \in 1..picker.rows.len
    BY <1>6, NumMastersAssumption DEF TypeOK, MovePickerSel, Picker, Rows, Masters, MaybeMaster
  <2>3. picker'.sel \in 1..picker.rows.len
    BY <2>1, <2>2, NumMastersAssumption DEF TypeOK, Picker
  <2>4. picker' \in Picker
    BY <2>1, <2>2, <2>3, NumMastersAssumption DEF TypeOK, Picker, Masters
  <2>5. picker'.rows = picker.rows
    BY <2>1 DEF TypeOK, Picker
  <2>6. QED
    BY <1>6, <2>2, <2>3, <2>4, <2>5, NumMastersAssumption DEF TypeOK, MovePickerSel
<1>7. CASE ClosePicker
  BY <1>7 DEF TypeOK, ClosePicker, Picker
<1>8. CASE SelectActiveMaster
  <2>1. picker' \in Picker
    BY <1>8 DEF TypeOK, SelectActiveMaster, Picker
  <2>2. CASE picker.sel # picker.rows.active
    <3>1. [cmd |-> "SetActive", target |-> picker.sel] \in Command
      BY MasterFacts DEF Command, MenuCommands, TypeOK, Picker
    <3>2. job'.cmd = "SetActive" /\ job'.target = picker.sel
      BY <1>8, <2>2 DEF SelectActiveMaster, EnterRunningWalletJob, Queue
    <3>3. picker.sel \in Masters
      BY DEF TypeOK, Picker
    <3>4. QED
      BY <1>8, <2>1, <2>2, <3>1, <3>2, <3>3, EnterJobType DEF TypeOK, SelectActiveMaster
  <2>3. CASE picker.sel = picker.rows.active
    BY <1>8, <2>1, <2>3 DEF TypeOK, SelectActiveMaster
  <2>4. QED
    BY <2>2, <2>3
<1>9. CASE RunMenuCommand
  <2>1. PICK c \in MenuCommands, t \in Masters :
          EnterRunningWalletJob([cmd |-> c, target |-> t])
    BY <1>9 DEF RunMenuCommand
  <2>2. [cmd |-> c, target |-> t] \in Command
    BY MasterFacts DEF Command
  <2>3. job'.target = t
    BY <2>1 DEF EnterRunningWalletJob, Queue
  <2>4. QED
    BY <1>9, <2>1, <2>2, <2>3, EnterJobType DEF TypeOK, RunMenuCommand
<1>10. CASE RunCreateAndSend
  <2>1. [cmd |-> "CreateTx", target |-> NoMaster] \in Command
    BY MasterFacts DEF Command, MenuCommands
  <2>2. job'.cmd = "CreateTx"
    BY <1>10 DEF RunCreateAndSend, EnterRunningWalletJob, Queue
  <2>3. QED
    BY <1>10, <2>1, <2>2, EnterJobType DEF TypeOK, RunCreateAndSend
<1>11. CASE RetryFailed
  <2>1. job' \in Job /\ queued' \in Nat
    BY <1>11, QueueType DEF TypeOK, RetryFailed
  <2>2. panel' \in Panel /\ nonce' \in Nat /\ balanceReqs' \in SUBSET BalanceReq
    <3>1. PanelAtJobStart(panel) \in Panel /\ NonceAtJobStart(nonce) \in Nat
      BY JobStartType DEF TypeOK
    <3>2. QED
      BY <1>11, <2>1, <3>1, RefreshType DEF RetryFailed
  <2>3. job'.cmd = failed.cmd /\ job'.target = failed.target
    BY <1>11 DEF RetryFailed, Queue
  <2>4. QED
    BY <1>11, <2>1, <2>2, <2>3 DEF TypeOK, RetryFailed, Routes
<1>12. CASE RecoverCreateTx
  BY <1>12 DEF TypeOK, RecoverCreateTx, Routes
<1>13. QED
  BY <1>1, <1>2, <1>3, <1>4, <1>5, <1>6, <1>7, <1>8, <1>9, <1>10, <1>11, <1>12
  DEF UserKey

LEMMA TypeStepExecute == TypeInv /\ Execute => TypeInv'
<1> SUFFICES ASSUME TypeInv, Execute PROVE TypeInv'
  OBVIOUS
<1> USE DEF TypeInv, SwitchNamesMaster, RowsFit, ChoiceOpen, Awake
<1>1. CASE ExecuteJob
  <2>1. job' \in Job /\ job'.cmd = job.cmd /\ job'.target = job.target
    BY <1>1, MasterFacts DEF ExecuteJob, AnsweredFor, TypeOK, Job, Phases, Wallet
  <2>2. wallet' \in Wallet /\ wallet'.active <= wallet'.known
    <3>1. CASE UNCHANGED wallet
      BY <3>1 DEF TypeOK
    <3>2. CASE job.cmd = "SetActive" /\ job.target <= wallet.known
               /\ wallet' = [wallet EXCEPT !.active = job.target]
      BY <3>2 DEF TypeOK, Wallet
    <3>3. CASE wallet.known < NumMasters /\ wallet' = [wallet EXCEPT !.known = @ + 1]
      BY <3>3, NumMastersAssumption DEF TypeOK, Wallet, Masters
    <3>4. QED
      BY <1>1, <3>1, <3>2, <3>3 DEF ExecuteJob
  <2>3. QED
    BY <1>1, <2>1, <2>2 DEF ExecuteJob, TypeOK
<1>2. CASE ExecuteBalance
  <2>1. \A r \in BalanceReq :
          /\ [r EXCEPT !.phase = "ok", !.of = wallet.active] \in BalanceReq
          /\ [r EXCEPT !.phase = "err"] \in BalanceReq
    BY MasterFacts DEF TypeOK, BalanceReq, Phases, Wallet
  <2>2. balanceReqs' \in SUBSET BalanceReq
    BY <1>2, <2>1 DEF ExecuteBalance, TypeOK
  <2>3. QED
    BY <1>2, <2>2 DEF ExecuteBalance, TypeOK
<1>3. CASE ExecuteListActive
  <2>1. wallet.active \in MaybeMaster /\ NoMaster \in MaybeMaster
    BY MasterFacts DEF TypeOK, Wallet
  <2>2. identityLookups' \in [MaybeMaster -> Nat]
    BY <1>3, <2>1 DEF ExecuteListActive, TypeOK
  <2>3. QED
    BY <1>3, <2>2 DEF ExecuteListActive, TypeOK
<1>4. CASE ExecuteListMasters
  <2>1. \A rows \in {[len |-> wallet.known, active |-> wallet.active], NoRows} :
          /\ rows \in Rows
          /\ rows.active <= rows.len
    BY MasterFacts, NumMastersAssumption
    DEF TypeOK, Rows, NoRows, Wallet, NoMaster, MaybeMaster, Masters
  <2>2. \A rows \in Rows : [phase |-> "done", rows |-> rows] \in MasterReq
    BY DEF MasterReq
  <2>3. masterReqs' \in SUBSET MasterReq /\ \A r \in masterReqs' : r.rows.active <= r.rows.len
    BY <1>4, <2>1, <2>2 DEF ExecuteListMasters, TypeOK
  <2>4. QED
    BY <1>4, <2>3 DEF ExecuteListMasters, TypeOK
<1>5. QED
  BY <1>1, <1>2, <1>3, <1>4 DEF Execute

LEMMA PanelAfterBalanceType ==
  ASSUME TypeOK, NEW r \in BalanceReq
  PROVE  PanelAfterBalance(r) \in Panel
<1>1. [panel EXCEPT !.loading = FALSE] \in Panel
  BY DEF TypeOK, Panel
<1>2. \A p \in Panel : /\ [p EXCEPT !.text = r.of, !.error = FALSE] \in Panel
                       /\ [p EXCEPT !.error = TRUE] \in Panel
  BY DEF Panel, BalanceReq
<1>3. QED
  BY <1>1, <1>2 DEF PanelAfterBalance

LEMMA TypeStepMessage == TypeInv /\ Message => TypeInv'
<1> SUFFICES ASSUME TypeInv, Message PROVE TypeInv'
  OBVIOUS
<1> USE DEF TypeInv, SwitchNamesMaster, RowsFit, ChoiceOpen, Awake
<1>1. CASE BalanceCompleted
  <2>1. PICK r \in balanceReqs :
          /\ balanceReqs' = balanceReqs \ {r}
          /\ \/ /\ panel' = [PanelAfterBalance(r) EXCEPT !.identity_loading = TRUE]
                /\ ScheduleIdentityFetch(PanelAfterBalance(r))
             \/ /\ panel' = PanelAfterBalance(r)
                /\ UNCHANGED <<identityAsked, identityLookups>>
          /\ \/ /\ picker' = [picker EXCEPT !.loading = TRUE]
                /\ masterReqs' = masterReqs \cup {[phase |-> "asked", rows |-> NoRows]}
             \/ UNCHANGED <<picker, masterReqs>>
    BY <1>1 DEF BalanceCompleted
  <2>2. PanelAfterBalance(r) \in Panel
    BY PanelAfterBalanceType DEF TypeOK
  <2>3. panel' \in Panel
    BY <2>1, <2>2 DEF Panel
  <2>4. identityAsked' \in Nat /\ identityLookups' \in [MaybeMaster -> Nat]
    <3>1. PanelAfterBalance(r).address \in MaybeMaster
      BY <2>2 DEF Panel
    <3>2. QED
      BY <2>1, <3>1 DEF ScheduleIdentityFetch, TypeOK
  <2>5. picker' \in Picker /\ picker'.rows = picker.rows
        /\ picker'.open = picker.open /\ picker'.sel = picker.sel
    BY <2>1 DEF TypeOK, Picker
  <2>6. masterReqs' \in SUBSET MasterReq /\ \A q \in masterReqs' : q.rows.active <= q.rows.len
    <3>1. NoRows \in Rows /\ NoRows.active <= NoRows.len
      BY MasterFacts DEF NoRows, Rows, NoMaster
    <3>2. [phase |-> "asked", rows |-> NoRows] \in MasterReq
      BY <3>1 DEF MasterReq
    <3>3. QED
      BY <2>1, <3>1, <3>2 DEF TypeOK
  <2>7. QED
    BY <1>1, <2>1, <2>3, <2>4, <2>5, <2>6 DEF BalanceCompleted, TypeOK
<1>2. CASE IdentityCompleted
  <2>1. PICK a \in MaybeMaster :
          /\ identityLookups[a] > 0
          /\ identityLookups' = [identityLookups EXCEPT ![a] = @ - 1]
          /\ \/ UNCHANGED panel
             \/ \E name \in {a, NoMaster} :
                  panel' = [panel EXCEPT !.identity_loading = FALSE, !.nockname = name,
                                         !.address = IF a # NoMaster THEN a ELSE @]
    BY <1>2 DEF IdentityCompleted
  <2>2. panel' \in Panel
    BY <2>1, MasterFacts DEF TypeOK, Panel
  <2>3. identityLookups' \in [MaybeMaster -> Nat]
    BY <2>1 DEF TypeOK
  <2>4. QED
    BY <1>2, <2>2, <2>3 DEF IdentityCompleted, TypeOK
<1>3. CASE MasterAddressesLoaded
  <2>1. PICK r \in masterReqs :
          /\ masterReqs' = masterReqs \ {r}
          /\ picker' = [rows |-> r.rows, loading |-> FALSE,
                        open |-> PickerOpenAfter(r.rows), sel |-> ActiveRow(r.rows)]
    BY <1>3 DEF MasterAddressesLoaded
  <2>2. r.rows \in Rows /\ r.rows.active <= r.rows.len
    BY DEF TypeOK, MasterReq
  <2>3. PickerOpenAfter(r.rows) \in BOOLEAN
    BY <2>2 DEF PickerOpenAfter, HasChoice
  <2>4. picker' \in Picker
    BY <2>1, <2>2, <2>3, ActiveRowType DEF Picker
  <2>5. PickerOpenAfter(r.rows) => r.rows.len > 1 /\ ActiveRow(r.rows) <= r.rows.len
    BY <2>2, NumMastersAssumption DEF PickerOpenAfter, HasChoice, ActiveRow, Rows, MaybeMaster
  <2>6. QED
    BY <1>3, <2>1, <2>2, <2>4, <2>5 DEF MasterAddressesLoaded, TypeOK
<1>4. CASE ReceiveAddressFetched
  <2>1. job.of \in MaybeMaster
    BY DEF TypeOK, Job
  <2>2. panel' \in Panel
    BY <1>4, <2>1 DEF ReceiveAddressFetched, TypeOK, Panel
  <2>3. identityLookups' \in [MaybeMaster -> Nat]
    BY <1>4, <2>1 DEF ReceiveAddressFetched, TypeOK
  <2>4. job' \in Job /\ job'.cmd = "none"
    BY <1>4, MasterFacts DEF ReceiveAddressFetched, JobTaken, NoJob, Job, Phases
  <2>5. QED
    BY <1>4, <2>2, <2>3, <2>4 DEF ReceiveAddressFetched, JobTaken, TypeOK
<1>5. CASE ReceiveAddressFailed
  <2>1. job' \in Job /\ job'.cmd = "none"
    BY <1>5, MasterFacts DEF ReceiveAddressFailed, JobTaken, NoJob, Job, Phases
  <2>2. QED
    BY <1>5, <2>1 DEF ReceiveAddressFailed, JobTaken, TypeOK
<1>6. CASE CommandSucceeded
  <2>1. job' \in Job /\ job'.cmd = "none"
    BY <1>6, MasterFacts DEF CommandSucceeded, JobTaken, NoJob, Job, Phases
  <2>2. screen' \in Routes
    BY <1>6 DEF CommandSucceeded, RouteAfterCreateTx, Routes, TypeOK
  <2>3. panel' \in Panel /\ nonce' \in Nat /\ balanceReqs' \in SUBSET BalanceReq
    <3>1. CASE RefreshAfterSwitch
      <4>1. queued' \in Nat /\ panel \in Panel /\ nonce \in Nat
        BY <1>6 DEF CommandSucceeded, JobTaken, TypeOK
      <4>2. QED
        BY <1>6, <3>1, <4>1, RefreshType DEF CommandSucceeded
    <3>2. CASE ~RefreshAfterSwitch
      <4>1. job.of \in MaybeMaster
        BY DEF TypeOK, Job
      <4>2. [panel EXCEPT !.text = job.of, !.error = FALSE] \in Panel
        BY <4>1 DEF TypeOK, Panel
      <4>3. QED
        BY <1>6, <3>2, <4>2 DEF CommandSucceeded, TypeOK
    <3>3. QED
      BY <3>1, <3>2
  <2>4. QED
    BY <1>6, <2>1, <2>2, <2>3 DEF CommandSucceeded, JobTaken, TypeOK
<1>7. CASE CommandFailed
  <2>1. job' \in Job /\ job'.cmd = "none"
    BY <1>7, MasterFacts DEF CommandFailed, JobTaken, NoJob, Job, Phases
  <2>2. failed' \in Command /\ failed'.cmd = job.cmd /\ failed'.target = job.target
    BY <1>7 DEF CommandFailed, TypeOK, Job, Command
  <2>3. panel' \in Panel
    BY <1>7 DEF CommandFailed, TypeOK, Panel
  <2>4. QED
    BY <1>7, <2>1, <2>2, <2>3 DEF CommandFailed, JobTaken, TypeOK, Routes
<1>8. QED
  BY <1>1, <1>2, <1>3, <1>4, <1>5, <1>6, <1>7 DEF Message, JobCompleted

(* Type correctness, with the row facts it rests on: every route, panel,   *)
(* picker and request is well formed whatever the order of completions.    *)
THEOREM TypeInvariant == Spec => []TypeInv
<1>1. Init => TypeInv
  <2> SUFFICES ASSUME Init PROVE TypeInv
    OBVIOUS
  <2>1. TypeOK
    BY TypeInit
  <2>2. SwitchNamesMaster
    BY DEF Init, NoJob, NoCommand, SwitchNamesMaster
  <2>3. RowsFit
    BY DEF Init, RowsFit, NoRows, NoMaster
  <2>4. ChoiceOpen
    BY DEF Init, ChoiceOpen
  <2>5. QED
    BY <2>1, <2>2, <2>3, <2>4 DEF TypeInv
<1>2. TypeInv /\ [Next]_vars => TypeInv'
  <2>1. TypeInv /\ UNCHANGED vars => TypeInv'
    BY DEF TypeInv, TypeOK, SwitchNamesMaster, RowsFit, ChoiceOpen, vars
  <2>2. TypeInv /\ FreezeThread => TypeInv'
    BY DEF TypeInv, TypeOK, SwitchNamesMaster, RowsFit, ChoiceOpen, FreezeThread
  <2>3. QED
    BY <2>1, <2>2, TypeStepKeys, TypeStepExecute, TypeStepMessage DEF Next
<1>3. QED
  BY <1>1, <1>2, PTL DEF Spec

(* Type correctness for every number of masters: each handler leaves every *)
(* route, panel, picker and request well formed.                           *)
THEOREM TypeCorrect == Spec => []TypeOK
<1>1. TypeInv => TypeOK
  BY DEF TypeInv
<1>2. QED
  BY <1>1, TypeInvariant, PTL

-----------------------------------------------------------------------------
(* Balance fetches.  Both facts are needed together: a new fetch takes the *)
(* next nonce, which no request can have yet because none is ahead.        *)
FetchInv == SpinnerBacked /\ CurrentNotOvertaken

(* schedule_balance_sidebar_refresh, wherever a handler runs it: from a    *)
(* panel p and a nonce n that are the current ones, or those of a command  *)
(* queued in the same step.                                                *)
LEMMA RefreshKeepsFetchInv ==
  ASSUME TypeOK, FetchInv, NEW p \in Panel, NEW n \in Nat,
         ScheduleBalanceRefresh(p, n),
         \/ p = panel /\ n = nonce /\ queued' = queued
         \/ p.loading = FALSE /\ n > nonce /\ queued' \in Nat
  PROVE  /\ FetchInv'
         /\ panel'.loading
         /\ \E r \in balanceReqs' : r.nonce = nonce'
         /\ p.loading \/ \E r \in balanceReqs' : r.nonce = nonce' /\ r.phase = "asked"
<1> DEFINE new == [nonce |-> n + 1, asked |-> queued', phase |-> "asked", of |-> NoMaster]
<1>1. CASE p.loading
  <2>1. UNCHANGED <<panel, nonce, balanceReqs, queued>>
    BY <1>1 DEF ScheduleBalanceRefresh, RefreshBlocked
  <2>2. QED
    BY <1>1, <2>1 DEF FetchInv, SpinnerBacked, CurrentNotOvertaken
<1>2. CASE ~p.loading
  <2>1. /\ panel' = [p EXCEPT !.loading = TRUE, !.error = FALSE]
        /\ nonce' = n + 1
        /\ balanceReqs' = balanceReqs \cup {new}
    BY <1>2 DEF ScheduleBalanceRefresh, RefreshBlocked
  <2>2. panel'.loading
    BY <2>1 DEF Panel
  <2>3. new \in balanceReqs' /\ new.nonce = nonce' /\ new.asked = queued' /\ new.phase = "asked"
    BY <2>1
  <2>4. \A r \in balanceReqs : r.nonce <= nonce /\ r.nonce \in Nat
    BY DEF FetchInv, CurrentNotOvertaken, TypeOK, BalanceReq
  <2>5. n >= nonce /\ nonce \in Nat
    BY DEF TypeOK
  <2>6. CurrentNotOvertaken'
    BY <2>1, <2>3, <2>4, <2>5 DEF CurrentNotOvertaken
  <2>7. QED
    BY <2>2, <2>3, <2>6 DEF FetchInv, SpinnerBacked
<1>3. QED
  BY <1>1, <1>2

(* Queuing a command takes the spinner down and leaves every request in    *)
(* flight behind the nonce.                                                *)
LEMMA EnterJobKeepsFetchInv ==
  ASSUME TypeOK, FetchInv, NEW c \in Command, EnterRunningWalletJob(c), UNCHANGED balanceReqs
  PROVE  FetchInv'
<1>1. panel'.loading = FALSE /\ nonce' = nonce + 1
  BY DEF EnterRunningWalletJob, PanelAtJobStart, NonceAtJobStart, TypeOK, Panel
<1>2. \A r \in balanceReqs : r.nonce <= nonce /\ r.nonce \in Nat
  BY DEF FetchInv, CurrentNotOvertaken, TypeOK, BalanceReq
<1>3. QED
  BY <1>1, <1>2 DEF FetchInv, SpinnerBacked, CurrentNotOvertaken, TypeOK

(* A step that touches neither the nonce nor the requests keeps the facts  *)
(* if it leaves the spinner as it is.                                      *)
LEMMA QuietKeepsFetchInv ==
  ASSUME FetchInv, UNCHANGED <<nonce, balanceReqs, queued>>, panel'.loading = panel.loading
  PROVE  FetchInv'
  BY DEF FetchInv, SpinnerBacked, CurrentNotOvertaken

LEMMA FetchStep == TypeInv /\ FetchInv /\ [Next]_vars => FetchInv'
<1> SUFFICES ASSUME TypeInv, FetchInv, [Next]_vars PROVE FetchInv'
  OBVIOUS
<1> USE DEF TypeInv
<1>0. panel \in Panel /\ nonce \in Nat /\ queued \in Nat
  BY DEF TypeOK
<1>1. CASE EnterMainFromSplash
  BY <1>0, <1>1, RefreshKeepsFetchInv DEF EnterMainFromSplash
<1>2. ASSUME NEW to \in Routes, LeaveHome(to) PROVE FetchInv'
  BY <1>2, QuietKeepsFetchInv DEF LeaveHome
<1>3. CASE ReturnHome
  BY <1>0, <1>3, RefreshKeepsFetchInv DEF ReturnHome
<1>4. CASE OpenReceive
  <2>1. [cmd |-> "ListActive", target |-> NoMaster] \in Command
    BY MasterFacts DEF Command, MenuCommands
  <2>2. QED
    BY <1>4, <2>1, EnterJobKeepsFetchInv DEF OpenReceive
<1>5. CASE OpenPicker \/ MovePickerSel \/ ClosePicker
  BY <1>5, QuietKeepsFetchInv DEF OpenPicker, MovePickerSel, ClosePicker
<1>6. CASE SelectActiveMaster
  <2>1. CASE picker.sel # picker.rows.active
    <3>1. [cmd |-> "SetActive", target |-> picker.sel] \in Command
      BY MasterFacts DEF Command, MenuCommands, TypeOK, Picker
    <3>2. QED
      BY <1>6, <2>1, <3>1, EnterJobKeepsFetchInv DEF SelectActiveMaster
  <2>2. CASE picker.sel = picker.rows.active
    BY <1>6, <2>2, QuietKeepsFetchInv DEF SelectActiveMaster
  <2>3. QED
    BY <2>1, <2>2
<1>7. CASE RunMenuCommand
  <2>1. PICK c \in MenuCommands, t \in Masters :
          EnterRunningWalletJob([cmd |-> c, target |-> t])
    BY <1>7 DEF RunMenuCommand
  <2>2. [cmd |-> c, target |-> t] \in Command
    BY MasterFacts DEF Command
  <2>3. QED
    BY <1>7, <2>1, <2>2, EnterJobKeepsFetchInv DEF RunMenuCommand
<1>8. CASE RunCreateAndSend
  <2>1. [cmd |-> "CreateTx", target |-> NoMaster] \in Command
    BY MasterFacts DEF Command, MenuCommands
  <2>2. QED
    BY <1>8, <2>1, EnterJobKeepsFetchInv DEF RunCreateAndSend
<1>9. CASE RetryFailed
  <2>1. PanelAtJobStart(panel) \in Panel /\ PanelAtJobStart(panel).loading = FALSE
    BY <1>0, JobStartType DEF PanelAtJobStart, Panel
  <2>2. NonceAtJobStart(nonce) \in Nat /\ NonceAtJobStart(nonce) > nonce
    BY <1>0 DEF NonceAtJobStart
  <2>3. queued' \in Nat
    BY <1>0, <1>9 DEF RetryFailed, Queue
  <2>4. ScheduleBalanceRefresh(PanelAtJobStart(panel), NonceAtJobStart(nonce))
    BY <1>9 DEF RetryFailed
  <2>5. QED
    BY <2>1, <2>2, <2>3, <2>4, RefreshKeepsFetchInv
<1>10. CASE RecoverCreateTx
  BY <1>10, QuietKeepsFetchInv DEF RecoverCreateTx
<1>11. CASE ExecuteJob \/ ExecuteListActive \/ ExecuteListMasters
  BY <1>11, QuietKeepsFetchInv DEF ExecuteJob, ExecuteListActive, ExecuteListMasters
<1>12. CASE ExecuteBalance
  <2>1. PICK r \in balanceReqs :
          \E answer \in {[r EXCEPT !.phase = "ok", !.of = wallet.active],
                         [r EXCEPT !.phase = "err"]} :
            balanceReqs' = (balanceReqs \ {r}) \cup {answer}
    BY <1>12 DEF ExecuteBalance
  <2> PICK answer \in {[r EXCEPT !.phase = "ok", !.of = wallet.active],
                       [r EXCEPT !.phase = "err"]} :
        balanceReqs' = (balanceReqs \ {r}) \cup {answer}
    BY <2>1
  <2>2. answer.nonce = r.nonce /\ answer.asked = r.asked
    BY <2>1 DEF TypeOK, BalanceReq
  <2>3. UNCHANGED <<panel, nonce, queued>>
    BY <1>12 DEF ExecuteBalance
  <2>4. QED
    BY <2>2, <2>3 DEF FetchInv, SpinnerBacked, CurrentNotOvertaken
<1>13. CASE BalanceCompleted
  <2>1. PICK r \in balanceReqs :
          /\ balanceReqs' = balanceReqs \ {r}
          /\ \/ panel' = [PanelAfterBalance(r) EXCEPT !.identity_loading = TRUE]
             \/ panel' = PanelAfterBalance(r)
    BY <1>13 DEF BalanceCompleted
  <2>2. PanelAfterBalance(r) \in Panel /\ PanelAfterBalance(r).loading = FALSE
    <3>1. r \in BalanceReq
      BY DEF TypeOK
    <3>2. QED
      BY <1>0, <3>1, PanelAfterBalanceType DEF PanelAfterBalance, Panel
  <2>3. panel'.loading = FALSE
    BY <2>1, <2>2 DEF Panel
  <2>4. UNCHANGED <<nonce, queued>>
    BY <1>13 DEF BalanceCompleted
  <2>5. QED
    BY <2>1, <2>3, <2>4 DEF FetchInv, SpinnerBacked, CurrentNotOvertaken
<1>14. CASE IdentityCompleted \/ MasterAddressesLoaded
  BY <1>0, <1>14, QuietKeepsFetchInv DEF IdentityCompleted, MasterAddressesLoaded, Panel
<1>15. CASE ReceiveAddressFetched \/ ReceiveAddressFailed \/ CommandFailed
  BY <1>0, <1>15, QuietKeepsFetchInv
  DEF ReceiveAddressFetched, ReceiveAddressFailed, CommandFailed, JobTaken, Panel
<1>16. CASE CommandSucceeded
  <2>1. CASE RefreshAfterSwitch
    BY <1>0, <1>16, <2>1, RefreshKeepsFetchInv DEF CommandSucceeded, JobTaken
  <2>2. CASE ~RefreshAfterSwitch
    <3>1. panel'.loading = panel.loading
      BY <1>0, <1>16, <2>2 DEF CommandSucceeded, Panel
    <3>2. QED
      BY <1>16, <2>2, <3>1, QuietKeepsFetchInv DEF CommandSucceeded, JobTaken
  <2>3. QED
    BY <2>1, <2>2
<1>17. CASE FreezeThread \/ UNCHANGED vars
  BY <1>17, QuietKeepsFetchInv DEF vars, FreezeThread
<1>18. QED
  BY <1>1, <1>2, <1>3, <1>4, <1>5, <1>6, <1>7, <1>8, <1>9, <1>10, <1>11, <1>12, <1>13,
     <1>14, <1>15, <1>16, <1>17
  DEF Next, UserKey, Execute, Message, JobCompleted

(* A turning spinner has a current request behind it, and no request of a  *)
(* current nonce is older than the last command.                           *)
THEOREM FetchCorrect == Spec => [](SpinnerBacked /\ CurrentNotOvertaken)
<1>1. Init => FetchInv
  BY DEF Init, FetchInv, SpinnerBacked, CurrentNotOvertaken
<1>2. TypeInv /\ FetchInv /\ [Next]_vars => FetchInv'
  BY FetchStep
<1>3. FetchInv => SpinnerBacked /\ CurrentNotOvertaken
  BY DEF FetchInv
<1>4. QED
  BY <1>1, <1>2, <1>3, TypeInvariant, PTL DEF Spec

(* A balance asked for under the current nonce was asked for after the     *)
(* last command.                                                           *)
THEOREM CurrentCorrect == Spec => []CurrentNotOvertaken
  BY FetchCorrect, PTL

-----------------------------------------------------------------------------
(* The master-address fetch: the flag and the request go up and down       *)
(* together, and the flag keeps a second request from being made.          *)
LEMMA MasterFetchStep == TypeInv /\ MasterFetchTracked /\ [Next]_vars => MasterFetchTracked'
<1> SUFFICES ASSUME TypeInv, MasterFetchTracked, [Next]_vars PROVE MasterFetchTracked'
  OBVIOUS
<1> USE DEF TypeInv
<1>0. picker \in Picker
  BY DEF TypeOK
<1>1. CASE /\ UNCHANGED masterReqs
           /\ picker'.loading = picker.loading
  BY <1>1 DEF MasterFetchTracked
<1>2. CASE UserKey
  <2>1. UNCHANGED masterReqs
    BY <1>2 DEF UserKey, EnterMainFromSplash, LeaveHome, ReturnHome, OpenReceive, OpenPicker,
                MovePickerSel, ClosePicker, SelectActiveMaster, RunMenuCommand,
                RunCreateAndSend, RetryFailed, RecoverCreateTx
  <2>2. picker'.loading = picker.loading
    BY <1>0, <1>2
    DEF UserKey, EnterMainFromSplash, LeaveHome, ReturnHome, OpenReceive, OpenPicker,
        MovePickerSel, ClosePicker, SelectActiveMaster, RunMenuCommand,
        RunCreateAndSend, RetryFailed, RecoverCreateTx, Picker
  <2>3. QED
    BY <1>1, <2>1, <2>2
<1>3. CASE ExecuteListMasters
  <2>1. PICK r \in masterReqs :
          \E rows \in {[len |-> wallet.known, active |-> wallet.active], NoRows} :
            masterReqs' = (masterReqs \ {r}) \cup {[phase |-> "done", rows |-> rows]}
    BY <1>3 DEF ExecuteListMasters
  <2>2. masterReqs = {r}
    BY DEF MasterFetchTracked
  <2>3. UNCHANGED picker
    BY <1>3 DEF ExecuteListMasters
  <2>4. QED
    BY <2>1, <2>2, <2>3 DEF MasterFetchTracked
<1>4. CASE BalanceCompleted
  <2>1. CASE UNCHANGED <<picker, masterReqs>>
    BY <1>1, <2>1
  <2>2. CASE /\ MasterFetchDue
             /\ picker' = [picker EXCEPT !.loading = TRUE]
             /\ masterReqs' = masterReqs \cup {[phase |-> "asked", rows |-> NoRows]}
    <3>1. masterReqs = {}
      BY <2>2 DEF MasterFetchDue, MasterFetchTracked
    <3>2. picker'.loading = TRUE
      BY <1>0, <2>2 DEF Picker
    <3>3. QED
      BY <2>2, <3>1, <3>2 DEF MasterFetchTracked
  <2>3. QED
    BY <1>4, <2>1, <2>2 DEF BalanceCompleted
<1>5. CASE MasterAddressesLoaded
  <2>1. PICK r \in masterReqs : masterReqs' = masterReqs \ {r} /\ picker'.loading = FALSE
    BY <1>5 DEF MasterAddressesLoaded
  <2>2. masterReqs' = {}
    BY <2>1 DEF MasterFetchTracked
  <2>3. QED
    BY <2>1, <2>2 DEF MasterFetchTracked
<1>6. CASE ExecuteJob \/ ExecuteBalance \/ ExecuteListActive \/ IdentityCompleted
  BY <1>1, <1>6 DEF ExecuteJob, ExecuteBalance, ExecuteListActive, IdentityCompleted
<1>7. CASE JobCompleted
  BY <1>1, <1>7 DEF JobCompleted, ReceiveAddressFetched, ReceiveAddressFailed,
                    CommandSucceeded, CommandFailed, JobTaken
<1>8. CASE FreezeThread \/ UNCHANGED vars
  BY <1>1, <1>8 DEF vars, FreezeThread
<1>9. QED
  BY <1>2, <1>3, <1>4, <1>5, <1>6, <1>7, <1>8 DEF Next, Execute, Message

(* The picker's flag says whether its one fetch is in flight.              *)
THEOREM MasterFetchCorrect == Spec => []MasterFetchTracked
<1>1. Init => MasterFetchTracked
  BY DEF Init, MasterFetchTracked
<1>2. TypeInv /\ MasterFetchTracked /\ [Next]_vars => MasterFetchTracked'
  BY MasterFetchStep
<1>3. QED
  BY <1>1, <1>2, TypeInvariant, PTL DEF Spec

(* The open picker: that it is over a choice is part of TypeInv; what is   *)
(* left is that no step leaves the home screen, or starts a command, with  *)
(* the picker open.                                                        *)
PickerHome == picker.open => screen = "Home" /\ job = NoJob

LEMMA PickerStep == TypeInv /\ PickerHome /\ [Next]_vars => PickerHome'
<1> SUFFICES ASSUME TypeInv, PickerHome, [Next]_vars PROVE PickerHome'
  OBVIOUS
<1> USE DEF TypeInv, PickerHome
<1>0. picker \in Picker
  BY DEF TypeOK
<1>1. CASE EnterMainFromSplash \/ ReturnHome \/ OpenReceive \/ RunMenuCommand
           \/ RunCreateAndSend \/ RetryFailed \/ RecoverCreateTx
  BY <1>1 DEF EnterMainFromSplash, ReturnHome, OpenReceive, RunMenuCommand, RunCreateAndSend,
              RetryFailed, RecoverCreateTx, FlowRoutes
<1>2. ASSUME NEW to \in Routes, LeaveHome(to) PROVE PickerHome'
  BY <1>2 DEF LeaveHome
<1>3. CASE OpenPicker \/ MovePickerSel
  BY <1>0, <1>3 DEF OpenPicker, MovePickerSel, PickerKeys, KeysHeard
<1>4. CASE ClosePicker \/ SelectActiveMaster
  BY <1>0, <1>4 DEF ClosePicker, SelectActiveMaster, Picker
<1>5. CASE Execute
  BY <1>5 DEF Execute, ExecuteJob, ExecuteBalance, ExecuteListActive, ExecuteListMasters
<1>6. CASE BalanceCompleted
  <2>1. picker'.open = picker.open /\ UNCHANGED <<screen, job>>
    BY <1>0, <1>6 DEF BalanceCompleted, Picker
  <2>2. QED
    BY <2>1
<1>7. CASE IdentityCompleted
  BY <1>7 DEF IdentityCompleted
<1>8. CASE MasterAddressesLoaded
  <2>1. picker'.open => picker.open
    <3>1. PICK r \in masterReqs : picker'.open = PickerOpenAfter(r.rows)
      BY <1>8 DEF MasterAddressesLoaded
    <3>2. QED
      BY <3>1 DEF PickerOpenAfter
  <2>2. QED
    BY <1>8, <2>1 DEF MasterAddressesLoaded
<1>9. CASE JobCompleted
  BY <1>9 DEF JobCompleted, ReceiveAddressFetched, ReceiveAddressFailed,
              CommandSucceeded, CommandFailed, JobTaken
<1>10. CASE FreezeThread \/ UNCHANGED vars
  BY <1>10 DEF vars, FreezeThread
<1>11. QED
  BY <1>1, <1>2, <1>3, <1>4, <1>5, <1>6, <1>7, <1>8, <1>9, <1>10 DEF Next, UserKey, Message

(* An open picker is over a choice, with its highlight on a row.           *)
THEOREM PickerCorrect == Spec => []PickerOnlyOverChoice
<1>1. Init => PickerHome
  BY DEF Init, PickerHome
<1>2. TypeInv /\ PickerHome /\ [Next]_vars => PickerHome'
  BY PickerStep
<1>3. TypeInv /\ PickerHome => PickerOnlyOverChoice
  BY DEF TypeInv, ChoiceOpen, PickerHome, PickerOnlyOverChoice
<1>4. QED
  BY <1>1, <1>2, <1>3, TypeInvariant, PTL DEF Spec

-----------------------------------------------------------------------------
(* Action properties.                                                      *)

(* A balance on display is only replaced by an answer asked for after the  *)
(* last command was queued: such an answer has the current nonce, and a    *)
(* request with the current nonce is not overtaken.                        *)
THEOREM FetchesSuperseded == Spec => CommandSupersedesFetches
<1> DEFINE Replaced == panel'.text # panel.text /\ job' = job
           Fresh == \E r \in balanceReqs \ balanceReqs' : r.asked = queued
<1>1. TypeInv /\ FetchInv /\ [Next]_vars => [Replaced => Fresh]_vars
  <2> SUFFICES ASSUME TypeInv, FetchInv, Next, Replaced PROVE Fresh
    OBVIOUS
  <2> USE DEF TypeInv
  <2>0. panel \in Panel
    BY DEF TypeOK
  <2>1. ASSUME NEW p \in Panel, NEW n \in Nat, ScheduleBalanceRefresh(p, n), p.text = panel.text
        PROVE  FALSE
    BY <2>1 DEF ScheduleBalanceRefresh, Panel
  <2>2. \A c : EnterRunningWalletJob(c) => FALSE
    BY <2>0 DEF EnterRunningWalletJob, PanelAtJobStart, Panel
  <2>3. CASE UserKey
    <3>1. CASE EnterMainFromSplash \/ ReturnHome
      BY <2>0, <2>1, <3>1 DEF EnterMainFromSplash, ReturnHome, TypeOK
    <3>2. CASE RetryFailed
      <4>1. PanelAtJobStart(panel) \in Panel /\ NonceAtJobStart(nonce) \in Nat
            /\ PanelAtJobStart(panel).text = panel.text
        BY <2>0, JobStartType DEF PanelAtJobStart, Panel, TypeOK
      <4>2. QED
        BY <2>1, <3>2, <4>1 DEF RetryFailed
    <3>3. CASE OpenReceive \/ RunMenuCommand \/ RunCreateAndSend
      BY <2>2, <3>3 DEF OpenReceive, RunMenuCommand, RunCreateAndSend
    <3>4. CASE SelectActiveMaster
      BY <2>2, <3>4 DEF SelectActiveMaster
    <3>5. CASE UNCHANGED panel
      BY <3>5
    <3>6. QED
      BY <2>3, <3>1, <3>2, <3>3, <3>4, <3>5
      DEF UserKey, LeaveHome, OpenPicker, MovePickerSel, ClosePicker, RecoverCreateTx
  <2>4. CASE Execute
    BY <2>4 DEF Execute, ExecuteJob, ExecuteBalance, ExecuteListActive, ExecuteListMasters
  <2>5. CASE BalanceCompleted
    <3>1. PICK r \in balanceReqs :
            /\ balanceReqs' = balanceReqs \ {r}
            /\ \/ panel' = [PanelAfterBalance(r) EXCEPT !.identity_loading = TRUE]
               \/ panel' = PanelAfterBalance(r)
      BY <2>5 DEF BalanceCompleted
    <3>2. PanelAfterBalance(r) \in Panel
      BY PanelAfterBalanceType DEF TypeOK
    <3>3. panel'.text = PanelAfterBalance(r).text
      BY <3>1, <3>2 DEF Panel
    <3>4. ~Stale(r)
      BY <2>0, <3>3 DEF PanelAfterBalance, Panel
    <3>5. r.asked = queued
      BY <3>4 DEF Stale, FetchInv, CurrentNotOvertaken
    <3>6. r \in balanceReqs \ balanceReqs'
      BY <3>1
    <3>7. QED
      BY <3>5, <3>6
  <2>6. CASE IdentityCompleted
    BY <2>0, <2>6 DEF IdentityCompleted, Panel
  <2>7. CASE MasterAddressesLoaded
    BY <2>7 DEF MasterAddressesLoaded
  <2>8. CASE JobCompleted
    BY <2>8 DEF JobCompleted, ReceiveAddressFetched, ReceiveAddressFailed,
                CommandSucceeded, CommandFailed, JobTaken
  <2>9. CASE FreezeThread
    BY <2>9 DEF FreezeThread
  <2>10. QED
    BY <2>3, <2>4, <2>5, <2>6, <2>7, <2>8, <2>9 DEF Next, Message
<1>2. Spec => [](TypeInv /\ FetchInv)
  BY TypeInvariant, FetchCorrect, PTL DEF FetchInv
<1>3. QED
  BY <1>1, <1>2, PTL DEF Spec, CommandSupersedesFetches

(* Beside a running command the spinner turns only after a Retry, and no   *)
(* command runs before the splash screen is left.                          *)
QuietJob ==
  /\ job # NoJob /\ panel.loading => job.retried
  /\ screen = "Splash" => job = NoJob

LEMMA QuietJobStep == TypeInv /\ QuietJob /\ [Next]_vars => QuietJob'
<1> SUFFICES ASSUME TypeInv, QuietJob, [Next]_vars PROVE QuietJob'
  OBVIOUS
<1> USE DEF TypeInv, QuietJob
<1>0. panel \in Panel
  BY DEF TypeOK
<1>1. ASSUME NEW c, EnterRunningWalletJob(c) PROVE panel'.loading = FALSE
  BY <1>0, <1>1 DEF EnterRunningWalletJob, PanelAtJobStart, Panel
<1>2. CASE EnterMainFromSplash \/ ReturnHome
  BY <1>2 DEF EnterMainFromSplash, ReturnHome, KeysHeard
<1>3. ASSUME NEW to \in Routes, LeaveHome(to) PROVE QuietJob'
  BY <1>3 DEF LeaveHome, FlowRoutes, KeysHeard
<1>4. CASE OpenReceive \/ RunMenuCommand \/ RunCreateAndSend
  BY <1>1, <1>4 DEF OpenReceive, RunMenuCommand, RunCreateAndSend, FlowRoutes
<1>5. CASE SelectActiveMaster
  BY <1>1, <1>5 DEF SelectActiveMaster, PickerKeys, KeysHeard
<1>6. CASE OpenPicker \/ MovePickerSel \/ ClosePicker
  BY <1>6 DEF OpenPicker, MovePickerSel, ClosePicker, PickerKeys
<1>7. CASE RetryFailed
  BY <1>7 DEF RetryFailed, Queue
<1>8. CASE RecoverCreateTx
  BY <1>8 DEF RecoverCreateTx
<1>9. CASE ExecuteJob
  <2>1. job'.retried = job.retried /\ job # NoJob /\ UNCHANGED <<panel, screen>>
    BY <1>9 DEF ExecuteJob, TypeOK, Job
  <2>2. QED
    BY <2>1
<1>10. CASE ExecuteBalance \/ ExecuteListActive \/ ExecuteListMasters
  BY <1>10 DEF ExecuteBalance, ExecuteListActive, ExecuteListMasters
<1>11. CASE BalanceCompleted
  <2>1. PICK r \in balanceReqs :
          \/ panel' = [PanelAfterBalance(r) EXCEPT !.identity_loading = TRUE]
          \/ panel' = PanelAfterBalance(r)
    BY <1>11 DEF BalanceCompleted
  <2>2. PanelAfterBalance(r) \in Panel /\ PanelAfterBalance(r).loading = FALSE
    <3>1. r \in BalanceReq
      BY DEF TypeOK
    <3>2. QED
      BY <1>0, <3>1, PanelAfterBalanceType DEF PanelAfterBalance, Panel
  <2>3. panel'.loading = FALSE
    BY <2>1, <2>2 DEF Panel
  <2>4. QED
    BY <1>11, <2>3 DEF BalanceCompleted
<1>12. CASE IdentityCompleted
  BY <1>0, <1>12 DEF IdentityCompleted, Panel
<1>13. CASE MasterAddressesLoaded
  BY <1>13 DEF MasterAddressesLoaded
<1>14. CASE JobCompleted
  BY <1>14 DEF JobCompleted, ReceiveAddressFetched, ReceiveAddressFailed, CommandSucceeded,
               CommandFailed, JobTaken
<1>15. CASE FreezeThread \/ UNCHANGED vars
  BY <1>15 DEF FreezeThread, vars
<1>16. QED
  BY <1>2, <1>3, <1>4, <1>5, <1>6, <1>7, <1>8, <1>9, <1>10, <1>11, <1>12, <1>13, <1>14, <1>15
  DEF Next, UserKey, Execute, Message

(* A wallet switch that completes on the home screen starts a fetch, which *)
(* the wallet answers after the switch; only a retried switch may find one *)
(* already under way.                                                      *)
THEOREM SwitchRefreshed == Spec => SwitchRefreshes
<1> DEFINE Refreshing == /\ panel'.loading
                         /\ \E r \in balanceReqs' :
                              r.nonce = nonce' /\ (OnItsWay(r) \/ job.retried)
<1>1. TypeInv /\ FetchInv /\ QuietJob /\ [Next]_vars => [SwitchCompletes => Refreshing]_vars
  <2> SUFFICES ASSUME TypeInv, FetchInv, QuietJob, Next, SwitchCompletes PROVE Refreshing
    OBVIOUS
  <2> USE DEF TypeInv, SwitchCompletes
  <2>1. job # NoJob
    BY DEF NoJob
  <2>2. CASE UserKey
    BY <2>1, <2>2
    DEF UserKey, EnterMainFromSplash, LeaveHome, ReturnHome, OpenReceive, OpenPicker,
        MovePickerSel, ClosePicker, SelectActiveMaster, RunMenuCommand, RunCreateAndSend,
        RetryFailed, RecoverCreateTx, KeysHeard, PickerKeys
  <2>3. CASE Execute
    BY <2>1, <2>3 DEF Execute, ExecuteJob, ExecuteBalance, ExecuteListActive, ExecuteListMasters
  <2>4. CASE BalanceCompleted \/ IdentityCompleted \/ MasterAddressesLoaded \/ FreezeThread
    BY <2>1, <2>4
    DEF BalanceCompleted, IdentityCompleted, MasterAddressesLoaded, FreezeThread
  <2>5. CASE JobCompleted
    <3>1. CommandSucceeded
      BY <2>5 DEF JobCompleted, ReceiveAddressFetched, ReceiveAddressFailed, CommandFailed,
                  ReceiveFetch
    <3>2. ScheduleBalanceRefresh(panel, nonce) /\ queued' = queued
      BY <3>1 DEF CommandSucceeded, RefreshAfterSwitch, JobTaken
    <3>3. panel \in Panel /\ nonce \in Nat /\ queued' \in Nat
      BY <3>2 DEF TypeOK
    <3>4. /\ panel'.loading
          /\ \E r \in balanceReqs' : r.nonce = nonce'
          /\ panel.loading \/ \E r \in balanceReqs' : r.nonce = nonce' /\ r.phase = "asked"
      BY <3>2, <3>3, RefreshKeepsFetchInv
    <3>5. panel.loading => job.retried
      BY <2>1 DEF QuietJob
    <3>6. QED
      BY <3>4, <3>5 DEF OnItsWay
  <2>6. QED
    BY <2>2, <2>3, <2>4, <2>5 DEF Next, Message
<1>2. Spec => []QuietJob
  <2>1. Init => QuietJob
    BY DEF Init, QuietJob
  <2>2. QED
    BY <2>1, QuietJobStep, TypeInvariant, PTL DEF Spec
<1>3. Spec => [](TypeInv /\ FetchInv)
  BY TypeInvariant, FetchCorrect, PTL DEF FetchInv
<1>4. QED
  BY <1>1, <1>2, <1>3, PTL DEF Spec, SwitchRefreshes

(* Every key that leads home, Retry included, leaves a current fetch on    *)
(* its way.                                                                *)
THEOREM HomeByKeyRefreshed == Spec => HomeByKeyRefreshes
<1> DEFINE ComesHome == screen # "Home" /\ screen' = "Home" /\ job = NoJob
           Refreshing == panel'.loading /\ \E r \in balanceReqs' : r.nonce = nonce'
<1>1. TypeInv /\ FetchInv /\ [Next]_vars => [ComesHome => Refreshing]_vars
  <2> SUFFICES ASSUME TypeInv, FetchInv, Next, ComesHome PROVE Refreshing
    OBVIOUS
  <2> USE DEF TypeInv
  <2>0. panel \in Panel /\ nonce \in Nat /\ queued \in Nat
    BY DEF TypeOK
  <2>1. CASE EnterMainFromSplash \/ ReturnHome
    BY <2>0, <2>1, RefreshKeepsFetchInv DEF EnterMainFromSplash, ReturnHome
  <2>2. CASE RetryFailed
    <3>1. PanelAtJobStart(panel) \in Panel /\ PanelAtJobStart(panel).loading = FALSE
      BY <2>0, JobStartType DEF PanelAtJobStart, Panel
    <3>2. NonceAtJobStart(nonce) \in Nat /\ NonceAtJobStart(nonce) > nonce
      BY <2>0 DEF NonceAtJobStart
    <3>3. queued' \in Nat
      BY <2>0, <2>2 DEF RetryFailed, Queue
    <3>4. ScheduleBalanceRefresh(PanelAtJobStart(panel), NonceAtJobStart(nonce))
      BY <2>2 DEF RetryFailed
    <3>5. QED
      BY <3>1, <3>2, <3>3, <3>4, RefreshKeepsFetchInv
  <2>3. CASE UserKey
    BY <2>1, <2>2, <2>3
    DEF UserKey, LeaveHome, FlowRoutes, OpenReceive, OpenPicker, MovePickerSel, ClosePicker,
        SelectActiveMaster, RunMenuCommand, RunCreateAndSend, RecoverCreateTx
  <2>4. CASE Execute
    BY <2>4 DEF Execute, ExecuteJob, ExecuteBalance, ExecuteListActive, ExecuteListMasters
  <2>5. CASE Message
    BY <2>5 DEF Message, BalanceCompleted, IdentityCompleted, MasterAddressesLoaded, JobCompleted,
                ReceiveAddressFetched, ReceiveAddressFailed, CommandSucceeded, CommandFailed, JobTaken
  <2>6. CASE FreezeThread
    BY <2>6 DEF FreezeThread
  <2>7. QED
    BY <2>3, <2>4, <2>5, <2>6 DEF Next
<1>2. Spec => [](TypeInv /\ FetchInv)
  BY TypeInvariant, FetchCorrect, PTL DEF FetchInv
<1>3. QED
  BY <1>1, <1>2, PTL DEF Spec, HomeByKeyRefreshes
=============================================================================
