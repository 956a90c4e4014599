------------------------------- MODULE NnsBuy -------------------------------
(***************************************************************************)
(* Buying a .nock name: search the registry, then register what was found. *)
(*                                                                         *)
(* A search and a registration both raise lookup_busy, under which the     *)
(* screen ignores every key; a bracketed paste reaches the name field all  *)
(* the same.  Beside them, the names the wallet already owns are fetched   *)
(* whenever a key is handled on the screen and none are known.             *)
(*                                                                         *)
(* Abstractions.  A text of the name field is a member of Texts and        *)
(* Canonical says what normalize_nns_name makes of it.  Of the owned names *)
(* only whether there are any is kept.  Status lines and cursors are left  *)
(* out; other routes are "Home", "Menu" and "Error".                       *)
(***************************************************************************)
EXTENDS Naturals, FiniteSets

CONSTANTS
  Texts,       \* what the name field may hold
  EmptyText,   \* the text of a new screen
  Names,       \* canonical names
  NoName,      \* the verdict of normalize_nns_name on a text it refuses
  Canonical,   \* [Texts -> Names \cup {NoName}], normalize_nns_name
  MaxSearches, \* bound on the searches and registrations of a behaviour
  MaxFetches   \* bound on the owned-names fetches in flight at once

ASSUME TextsAssumption == EmptyText \in Texts /\ NoName \notin Names
ASSUME CanonicalAssumption ==
  Canonical \in [Texts -> Names \cup {NoName}] /\ Canonical[EmptyText] = NoName
ASSUME BoundsAssumption == MaxSearches \in Nat /\ MaxFetches \in Nat

VARIABLES
  screen,       \* the active route
  form,         \* the fields of Screen::NnsBuy, EmptyForm on other routes
  lookups,      \* registry searches and answers not yet handled
  ownedFetches, \* how many owned-names fetches are in flight
  address,      \* whether balance_panel.address is known
  job,          \* the registration running, and its answer
  found,        \* history: the name of the last search answered, if it was free
  started,      \* history: searches and registrations started
  frozen        \* the one thread waits for a lock for ever (FreezeThread)

vars == <<screen, form, lookups, ownedFetches, address, job, found, started,
          frozen>>

-----------------------------------------------------------------------------
MaybeName == Names \cup {NoName}
Routes == {"Home", "Menu", "NnsBuy", "Error"}
Focuses == {"Name", "Search", "Cancel", "Register"}

Form == [value : Texts, focus : Focuses, busy : BOOLEAN, verified : MaybeName,
         owned : BOOLEAN, ownedLoading : BOOLEAN]
EmptyForm == [value |-> EmptyText, focus |-> "Name", busy |-> FALSE, verified |-> NoName,
              owned |-> FALSE, ownedLoading |-> FALSE]

Lookup == [of : Texts, phase : {"asked", "ok", "err"}]

Job == [name : MaybeName, phase : {"none", "asked", "ok", "err"}]
NoJob == [name |-> NoName, phase |-> "none"]

TypeOK ==
  /\ screen \in Routes
  /\ form \in Form
  /\ lookups \in SUBSET Lookup
  /\ ownedFetches \in Nat
  /\ address \in BOOLEAN
  /\ job \in Job
  /\ found \in MaybeName
  /\ started \in Nat
  /\ frozen \in BOOLEAN

Init ==
  /\ screen = "Home"
  /\ form = EmptyForm
  /\ lookups = {}
  /\ ownedFetches = 0
  /\ address \in BOOLEAN
  /\ job = NoJob
  /\ found = NoName
  /\ started = 0
  /\ frozen = FALSE

-----------------------------------------------------------------------------
(* Helpers.                                                                *)

(* Every other action is the work of the one thread, while it still runs.  *)
Awake == ~frozen /\ UNCHANGED frozen

KeysHeard == job.phase = "none"

KeyAlwaysTaken(f) == TRUE                                       \* mutant

(* handle_nns_buy looks at no key while busy, Esc and 'q' included.        *)
KeyTaken(f) == ~f.busy

(* dispatch_key fetches the owned names when none are known and no fetch   *)
(* is shown as loading.                                                    *)
FetchDue(f) == ~f.owned /\ ~f.ownedLoading /\ address

WithFetch(f) == IF FetchDue(f) THEN [f EXCEPT !.ownedLoading = TRUE] ELSE f
Fetches(f) == IF FetchDue(f) THEN 1 ELSE 0

(* Room for the two fetches one key may start.                             *)
MayFetch == ownedFetches + 2 <= MaxFetches

(* Every key starts a fetch if one is due, runs the handler, whose rebuilt *)
(* screen is no longer loading, and again starts a fetch if one is due.    *)
(* Rebuilt is the screen the handler leaves behind.                        *)
KeyLeaves(rebuilt) ==
  LET cleared == [rebuilt EXCEPT !.ownedLoading = FALSE]
  IN /\ screen' = "NnsBuy"
     /\ form' = WithFetch(cleared)
     /\ ownedFetches' = ownedFetches + Fetches(form) + Fetches(cleared)

OnScreen == KeysHeard /\ screen = "NnsBuy" /\ KeyTaken(form) /\ MayFetch

NextFocus(x) == CASE x = "Name" -> "Search" [] x = "Search" -> "Cancel"
                  [] x = "Cancel" -> "Register" [] x = "Register" -> "Name"
PrevFocus(x) == CASE x = "Name" -> "Register" [] x = "Search" -> "Name"
                  [] x = "Cancel" -> "Search" [] x = "Register" -> "Cancel"

Searchable(f) == f.focus \in {"Name", "Search"}

(* Mutant: the field itself is normalised.                                 *)
WithTextNormalized(f, text) == [f EXCEPT !.value = Canonical[text], !.verified = NoName]

(* A changed text is no longer verified.                                   *)
WithText(f, text) == [f EXCEPT !.value = text, !.verified = NoName]

-----------------------------------------------------------------------------
(* Keys and pastes.                                                        *)

(* From the home screen or the Transactions menu; dispatch_key starts the  *)
(* first owned-names fetch with the same key.                              *)
OpenNnsBuy ==
  /\ Awake
  /\ KeysHeard
  /\ screen \in {"Home", "Menu"}
  /\ MayFetch
  /\ screen' = "NnsBuy"
  /\ form' = WithFetch(EmptyForm)
  /\ ownedFetches' = ownedFetches + Fetches(EmptyForm)
  /\ UNCHANGED <<lookups, address, job, found, started>>

(* Tab, the arrows, and keys that do nothing: each rebuilds the screen.    *)
MoveFocus ==
  /\ Awake
  /\ OnScreen
  /\ \E x \in {NextFocus(form.focus), PrevFocus(form.focus), form.focus}
             \cup (IF form.focus \in {"Cancel", "Register"} THEN {"Cancel", "Register"} ELSE {}) :
       KeyLeaves([form EXCEPT !.focus = x])
  /\ UNCHANGED <<lookups, address, job, found, started>>

(* Typed characters and Backspace in the name field.                       *)
Type ==
  /\ Awake
  /\ OnScreen
  /\ form.focus = "Name"
  /\ \E text \in Texts : KeyLeaves(WithText(form, text))
  /\ UNCHANGED <<lookups, address, job, found, started>>

(* dispatch_paste: the focus alone decides, busy or not, job or not.  This *)
(* is a paste that got the mutex of event_loop.rs:150; one that does not   *)
(* get it is FreezeThread.                                                 *)
Paste ==
  /\ Awake
  /\ screen = "NnsBuy"
  /\ form.focus = "Name"
  /\ \E text \in Texts : form' = WithText(form, text)
  /\ UNCHANGED <<screen, lookups, ownedFetches, address, job, found, started>>

(* A key while busy: nothing but the fetch that may be due.                *)
KeyWhileBusy ==
  /\ Awake
  /\ KeysHeard
  /\ screen = "NnsBuy"
  /\ form.busy
  /\ MayFetch
  /\ form' = WithFetch(form)
  /\ ownedFetches' = ownedFetches + Fetches(form)
  /\ UNCHANGED <<screen, lookups, address, job, found, started>>

(* Enter on the name or on Search.                                         *)
StartLookup ==
  /\ Awake
  /\ OnScreen
  /\ Searchable(form)
  /\ started < MaxSearches
  /\ KeyLeaves([form EXCEPT !.busy = TRUE, !.verified = NoName])
  /\ lookups' = lookups \cup {[of |-> form.value, phase |-> "asked"]}
  /\ started' = started + 1
  /\ UNCHANGED <<address, job, found>>

NameOkAlways == Canonical[form.value] # NoName                  \* mutant

(* Register asks that the name on the screen be the one verified.          *)
NameVerified ==
  /\ Canonical[form.value] # NoName
  /\ form.verified = Canonical[form.value]

(* Enter on Register: refused on the screen, or run as a command.          *)
RefuseRegister ==
  /\ Awake
  /\ OnScreen
  /\ form.focus = "Register"
  /\ ~NameVerified
  /\ KeyLeaves([form EXCEPT !.verified = IF Canonical[form.value] = NoName THEN NoName ELSE @])
  /\ UNCHANGED <<lookups, address, job, found, started>>

Register ==
  /\ Awake
  /\ OnScreen
  /\ form.focus = "Register"
  /\ NameVerified
  /\ started < MaxSearches
  /\ KeyLeaves([form EXCEPT !.busy = TRUE])
  /\ job' = [name |-> Canonical[form.value], phase |-> "asked"]
  /\ started' = started + 1
  /\ UNCHANGED <<lookups, address, found>>

(* Esc, 'q' or Enter on Cancel, after the fetch that may be due.           *)
LeaveNnsBuy ==
  /\ Awake
  /\ OnScreen
  /\ screen' = "Home" /\ form' = EmptyForm
  /\ ownedFetches' = ownedFetches + Fetches(form)
  /\ UNCHANGED <<lookups, address, job, found, started>>

(* Between the other routes; the address becomes known on the home screen. *)
MoveElsewhere ==
  /\ Awake
  /\ KeysHeard
  /\ screen # "NnsBuy"
  /\ screen' \in {"Home", "Menu"}
  /\ UNCHANGED <<form, lookups, ownedFetches, address, job, found, started>>

LearnAddress ==
  /\ Awake
  /\ screen = "Home"
  /\ address' = TRUE
  /\ UNCHANGED <<screen, form, lookups, ownedFetches, job, found, started>>

-----------------------------------------------------------------------------
(* The registry and the completions.                                       *)

(* lookup_name refuses a bad text itself and gives up after 8 seconds.     *)
AnswerLookup ==
  /\ Awake
  /\ \E l \in lookups :
       /\ l.phase = "asked"
       /\ \E verdict \in {"ok", "err"} :
            /\ verdict = "ok" => Canonical[l.of] # NoName
            /\ lookups' = (lookups \ {l}) \cup {[l EXCEPT !.phase = verdict]}
  /\ UNCHANGED <<screen, form, ownedFetches, address, job, found, started>>

(* Mutant: an error answer leaves the screen as it was.                    *)
FormAfterLookupOk(l) ==
  IF l.phase = "ok"
  THEN [form EXCEPT !.busy = FALSE, !.ownedLoading = FALSE, !.verified = Canonical[l.of]]
  ELSE form

(* apply_nns_lookup_result: verified is the name searched for, whatever    *)
(* the field holds by now.                                                 *)
FormAfterLookup(l) ==
  [form EXCEPT !.busy = FALSE, !.ownedLoading = FALSE,
               !.verified = IF l.phase = "ok" THEN Canonical[l.of] ELSE NoName]

LookupCompleted ==
  /\ Awake
  /\ \E l \in lookups :
      /\ l.phase # "asked"
      /\ lookups' = lookups \ {l}
      /\ form' = IF screen = "NnsBuy" THEN FormAfterLookup(l) ELSE form
      /\ found' = IF l.phase = "ok" THEN Canonical[l.of] ELSE NoName
      /\ UNCHANGED <<screen, ownedFetches, address, job, started>>

(* An error is dropped by handle_msg; names are for the screen that is up. *)
OwnedNamesLoaded ==
  /\ Awake
  /\ ownedFetches > 0
  /\ ownedFetches' = ownedFetches - 1
  /\ \/ UNCHANGED form
     \/ \E some \in BOOLEAN :
          form' = IF screen = "NnsBuy"
                  THEN [form EXCEPT !.owned = some, !.ownedLoading = FALSE]
                  ELSE form
  /\ UNCHANGED <<screen, lookups, address, job, found, started>>

ExecuteJob ==
  /\ Awake
  /\ job.phase = "asked"
  /\ \E outcome \in {"ok", "err"} : job' = [job EXCEPT !.phase = outcome]
  /\ UNCHANGED <<screen, form, lookups, ownedFetches, address, found, started>>

(* apply_job_completed: where to go depends on the screen that is up.      *)
JobCompleted ==
  /\ Awake
  /\ job.phase \in {"ok", "err"}
  /\ job' = NoJob
  /\ screen' = CASE job.phase = "err" -> "Error"
                 [] job.phase = "ok" /\ screen = "NnsBuy" -> "Home"
                 [] OTHER -> "Menu"
  /\ form' = EmptyForm
  /\ UNCHANGED <<lookups, ownedFetches, address, found, started>>

-----------------------------------------------------------------------------
ScreenKeys == \/ MoveFocus \/ Type \/ KeyWhileBusy \/ StartLookup
              \/ RefuseRegister \/ Register \/ LeaveNnsBuy
OtherInput == OpenNnsBuy \/ Paste \/ MoveElsewhere \/ LearnAddress
LookupSteps == AnswerLookup \/ LookupCompleted
JobSteps == ExecuteJob \/ JobCompleted

(* On any route a paste first locks the std mutex rt.connection, on the    *)
(* one thread on which a wallet command may hold its guard across an await *)
(* (command_runner.rs:111): then neither goes on.  The registry search     *)
(* leaves that mutex alone, but a registration, a fetch of the home view   *)
(* or a command of another client may hold it: this may happen any time.   *)
FreezeThread ==
  /\ ~frozen
  /\ frozen' = TRUE
  /\ UNCHANGED <<screen, form, lookups, ownedFetches, address, job, found, started>>

Next == ScreenKeys \/ OtherInput \/ LookupSteps \/ OwnedNamesLoaded \/ JobSteps
          \/ FreezeThread

Spec == Init /\ [][Next]_vars

(* While the thread runs, registry requests time out, the executor serves  *)
(* every request and the event loop every message; frozen, it serves       *)
(* nothing (Awake).  Nobody has to press a key.                            *)
FairSpec ==
  Spec /\ WF_vars(AnswerLookup) /\ WF_vars(LookupCompleted) /\ WF_vars(OwnedNamesLoaded)
       /\ WF_vars(ExecuteJob) /\ WF_vars(JobCompleted)

-----------------------------------------------------------------------------
(* Properties.                                                             *)

(* lookup_busy, which locks the screen, stands exactly while one search or *)
(* one registration started from this screen is unanswered, and neither    *)
(* outlives the screen.                                                    *)
BusyBacked ==
  IF screen = "NnsBuy" /\ form.busy
  THEN IF job.phase = "none" THEN \E l \in lookups : lookups = {l} ELSE lookups = {}
  ELSE lookups = {} /\ job.phase = "none"

(* Only a name the registry has just called free is registered: the name   *)
(* of the last search answered, through every edit and paste since.        *)
RegisteredWasFound == job.phase # "none" => job.name # NoName /\ job.name = found

(* The screen is never left locked, unless a paste freezes the thread.     *)
BusyEnds ==
  (screen = "NnsBuy" /\ form.busy) ~> (~(screen = "NnsBuy" /\ form.busy) \/ frozen)
=============================================================================
