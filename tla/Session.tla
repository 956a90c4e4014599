------------------------------ MODULE Session -------------------------------
(***************************************************************************)
(* The session settings: session.json, the copy in memory that the TUI and *)
(* the API server share, the gRPC endpoint of the wallet connection and    *)
(* the address the API server listens on.                                  *)
(*                                                                         *)
(* A change made in Settings is posted to the TUI's own API server, whose  *)
(* thread saves it and stores it in memory; the TUI thread then stores and *)
(* saves it again, applies it and moves the listener.  Other clients post  *)
(* to the same server at any time after the token has been shown.          *)
(*                                                                         *)
(* Saving validates and refuses; loading does not: a session.json that     *)
(* parses is put in force whatever it holds, all of it but an endpoint     *)
(* that does not parse.                                                    *)
(*                                                                         *)
(* Abstractions.  Saving is two steps, fs::write truncating the file and   *)
(* filling it; a file that is not such a record at all is Torn.  BadGrpc   *)
(* and Bad are the endpoints and listen addresses the validation refuses,  *)
(* Spaced the addresses it accepts because it trims them although the      *)
(* listener cannot parse them, "current" whether the schema version is the *)
(* one expected.  An endpoint typed in Settings that does not parse is     *)
(* refused before anything happens and is left out.                        *)
(***************************************************************************)
EXTENDS Naturals, FiniteSets

CONSTANTS
  Grpcs,        \* endpoints that parse
  NoGrpc,       \* the field left empty in session.json
  BadGrpc,      \* every other endpoint that does not parse
  Listens,      \* listen addresses that validate
  Spaced,       \* those among them that do not parse untrimmed
  Trimmed,      \* what trimming makes of these
  Bad,          \* every listen address that does not validate
  DefaultGrpc, CliGrpc, DefaultListen,
  Absent, Torn, \* no session.json, and one that cannot be read
  NoListener,   \* nothing is bound
  MaxEdits,     \* bound on the changes made in Settings
  MaxPosts,     \* bound on the posts of other clients
  Timeouts,     \* whether the TUI's request can exceed its eight seconds
  DiskFails,    \* whether a save can fail
  Jobs          \* whether wallet commands run beside the settings

ASSUME ValuesAssumption ==
  /\ DefaultGrpc \in Grpcs /\ CliGrpc \in Grpcs
  /\ NoGrpc \notin Grpcs \cup {BadGrpc} /\ BadGrpc \notin Grpcs
  /\ Spaced \subseteq Listens /\ DefaultListen \in Listens \ Spaced
  /\ Trimmed \in [Spaced -> Listens \ Spaced]
  /\ Bad \notin Listens /\ NoListener \notin Listens
ASSUME BoundsAssumption ==
  /\ MaxEdits \in Nat /\ MaxPosts \in Nat
  /\ Timeouts \in BOOLEAN /\ DiskFails \in BOOLEAN /\ Jobs \in BOOLEAN

VARIABLES
  file,   \* what session.json holds
  mem,    \* rt.session_config
  conn,   \* public_grpc_server_addr of rt.connection
  bound,  \* the address the API server listens on
  tui,    \* where the TUI thread is, the change it commits, the old listen
  reqs,   \* posts on the wire
  srv,    \* the post the server thread is handling
  held,   \* a wallet command holds the guard of rt.connection
  edits,  \* history: changes made in Settings
  posts,  \* history: posts of other clients
  alone   \* history: since the start no other client posted, no save
          \* failed and no request timed out

vars == <<file, mem, conn, bound, tui, reqs, srv, held, edits, posts, alone>>

-----------------------------------------------------------------------------
(* What the type can hold, in the file or on the wire, and the settings    *)
(* among them that validate.                                               *)
Bodies == [grpc : Grpcs \cup {NoGrpc, BadGrpc}, listen : Listens \cup {Bad}, current : BOOLEAN]
Settings == [grpc : Grpcs, listen : Listens, current : {TRUE}]

Defaults == [grpc |-> DefaultGrpc, listen |-> DefaultListen, current |-> TRUE]
FromConnection == [grpc |-> CliGrpc, listen |-> DefaultListen, current |-> TRUE]

AnyBody(body) == TRUE                                           \* mutant

Validates(body) == body.grpc \in Grpcs /\ body.listen # Bad /\ body.current

Clients == {"tui", "timed out", "other"}
Requests == [by : Clients, body : Bodies]
Handling == [by : Clients, body : Settings, step : {"saving", "storing"}]
NoRequest == [by |-> "other", body |-> Defaults, step |-> "none"]

(* The places where the TUI thread waits, and the steps between them.      *)
Awaits == {"fetch", "idle", "posted", "accepted", "refused"}
Steps == {"down", "boot", "save", "apply", "rebind", "restart"}
Thread == [at : Awaits \cup Steps, next : Bodies, old : Listens \cup {Bad}]
At(place) == [tui EXCEPT !.at = place]

(* Memory can hold whatever the file did, but for an empty endpoint; what  *)
(* the server saves has been validated.                                    *)
TypeOK ==
  /\ file \in Bodies \cup {Absent, Torn}
  /\ mem \in Bodies /\ mem.grpc # NoGrpc
  /\ conn \in Grpcs
  /\ bound \in Listens \cup {NoListener}
  /\ tui \in Thread
  /\ reqs \in SUBSET Requests
  /\ srv \in Handling \cup {NoRequest}
  /\ held \in BOOLEAN
  /\ edits \in 0..MaxEdits /\ posts \in 0..MaxPosts
  /\ alone \in BOOLEAN

Down == [at |-> "down", next |-> Defaults, old |-> DefaultListen]

Init ==
  /\ file \in Bodies \cup {Absent, Torn}
  /\ mem = Defaults /\ conn = CliGrpc /\ bound = NoListener
  /\ tui = Down
  /\ reqs = {} /\ srv = NoRequest /\ held = FALSE
  /\ edits = 0 /\ posts = 0 /\ alone = TRUE

-----------------------------------------------------------------------------
(* Start-up.                                                               *)

LoadedAsRead == IF file \in {Absent, Torn} THEN Defaults ELSE file \* mutant

(* Nothing that was read is validated.                                     *)
Loaded == IF file \in {Absent, Torn} THEN Defaults
          ELSE IF file.grpc = NoGrpc THEN FromConnection ELSE file

(* fs::write: opening the file truncates it, or fails and leaves it alone. *)
Truncate == file' = Torn /\ UNCHANGED alone
SaveFails == DiskFails /\ UNCHANGED file /\ alone' = FALSE

(* Filling the file after it was truncated: if another thread filled it in *)
(* between, a tail of the longer text can remain.                          *)
Fill(settings) ==
  /\ file' \in IF file = Torn THEN {settings} ELSE {settings, Torn}
  /\ UNCHANGED alone

(* Binding fails when the port is taken and when the address, which is not *)
(* trimmed, does not parse.                                                *)
BindTo(listen) == bound' \in {NoListener} \cup ({listen} \ (Spaced \cup {Bad}))

(* apply_session_to_cli: an endpoint that does not parse is passed over.   *)
ApplyToCli == conn' = IF mem.grpc \in Grpcs THEN mem.grpc ELSE conn

(* What was loaded is saved at once, if it validates.                      *)
StartUp ==
  /\ tui.at = "down"
  /\ mem' = Loaded
  /\ conn' = CliGrpc
  /\ IF Validates(Loaded)
       THEN (file' = Torn /\ alone' = TRUE) \/ SaveFails
       ELSE UNCHANGED file /\ alone' = TRUE
  /\ tui' = At("boot")
  /\ UNCHANGED <<bound, reqs, srv, held, edits, posts>>

(* A refused or failed first save is only logged.                          *)
SaveInitial ==
  /\ tui.at = "boot"
  /\ IF Validates(mem)
       THEN (file = Torn /\ Fill(mem)) \/ SaveFails
       ELSE UNCHANGED <<file, alone>>
  /\ ApplyToCli
  /\ BindTo(mem.listen)
  /\ tui' = [tui EXCEPT !.at = "fetch", !.old = mem.listen]
  /\ UNCHANGED <<mem, reqs, srv, held, edits, posts>>

(* refresh_session_from_api.  Memory is what its own server answers, and   *)
(* no other client can change it before the token has been drawn.          *)
RefreshSession ==
  /\ tui.at = "fetch"
  /\ ApplyToCli
  /\ tui' = At("idle")
  /\ UNCHANGED <<file, mem, bound, reqs, srv, held, edits, posts, alone>>

-----------------------------------------------------------------------------
(* Settings: the TUI commits a change of one field.                        *)

Changed == {[mem EXCEPT !.grpc = g] : g \in Grpcs}
             \cup {[mem EXCEPT !.listen = l] : l \in (Listens \ Spaced) \cup {Bad}}

(* Where the TUI's own requests go.                                        *)
Address(listen) == IF listen \in Spaced THEN Trimmed[listen] ELSE listen

(* Nobody hears a post to an address the server is not bound to.           *)
Commit ==
  /\ tui.at = "idle" /\ edits < MaxEdits
  /\ edits' = edits + 1
  /\ \E next \in Changed :
       IF bound = Address(mem.listen)
         THEN /\ tui' = [at |-> "posted", next |-> next, old |-> mem.listen]
              /\ reqs' = reqs \cup {[by |-> "tui", body |-> next]}
         ELSE /\ tui' = [at |-> "refused", next |-> next, old |-> mem.listen]
              /\ reqs' = reqs
  /\ UNCHANGED <<file, mem, conn, bound, srv, held, posts, alone>>

(* The client gives up; the request stays on the wire or in the server.    *)
TimeOut ==
  /\ Timeouts /\ tui.at = "posted"
  /\ tui' = At("refused")
  /\ reqs' = {IF r.by = "tui" THEN [r EXCEPT !.by = "timed out"] ELSE r : r \in reqs}
  /\ srv' = IF srv.by = "tui" THEN [srv EXCEPT !.by = "timed out"] ELSE srv
  /\ alone' = FALSE
  /\ UNCHANGED <<file, mem, conn, bound, held, edits, posts>>

(* An error is logged, the prompt stays open.                              *)
CommitFailed ==
  /\ tui.at = "refused"
  /\ tui' = At("idle")
  /\ UNCHANGED <<file, mem, conn, bound, reqs, srv, held, edits, posts, alone>>

(* A failed save ends the commit where it fails: nothing is applied.       *)
StoreAnswer ==
  /\ tui.at = "accepted"
  /\ mem' = tui.next
  /\ \/ Truncate /\ tui' = At("save")
     \/ SaveFails /\ tui' = At("idle")
  /\ UNCHANGED <<conn, bound, reqs, srv, held, edits, posts>>

SaveAnswer ==
  /\ tui.at = "save"
  /\ \/ Fill(tui.next) /\ tui' = At("apply")
     \/ SaveFails /\ tui' = At("idle")
  /\ UNCHANGED <<mem, conn, bound, reqs, srv, held, edits, posts>>

NeverDue(old) == FALSE                                          \* mutant

RebindDue(old) == mem.listen # old

(* apply_session_to_cli blocks the thread on the guard of rt.connection.   *)
Apply ==
  /\ tui.at = "apply" /\ ~held
  /\ ApplyToCli
  /\ tui' = At("rebind")
  /\ UNCHANGED <<file, mem, bound, reqs, srv, held, edits, posts, alone>>

RebindIfChanged ==
  /\ tui.at = "rebind"
  /\ tui' = At(IF RebindDue(tui.old) THEN "restart" ELSE "idle")
  /\ UNCHANGED <<file, mem, conn, bound, reqs, srv, held, edits, posts, alone>>

(* Stopping joins the server thread: the post in hand is finished, the     *)
(* others are dropped with their connections.                              *)
RestartServer ==
  /\ tui.at = "restart" /\ srv = NoRequest
  /\ BindTo(mem.listen)
  /\ reqs' = {}
  /\ tui' = At("idle")
  /\ UNCHANGED <<file, mem, conn, srv, held, edits, posts, alone>>

-----------------------------------------------------------------------------
(* The server thread.  A handler does not wait between its steps, so one   *)
(* post is handled at a time.                                              *)

PostByOther ==
  /\ bound # NoListener /\ tui.at \notin {"down", "boot", "fetch"}
  /\ posts < MaxPosts
  /\ posts' = posts + 1
  /\ \E body \in Bodies : reqs' = reqs \cup {[by |-> "other", body |-> body]}
  /\ alone' = FALSE
  /\ UNCHANGED <<file, mem, conn, bound, tui, srv, held, edits>>

Answered(client, answer) == IF client = "tui" THEN At(answer) ELSE tui

AnswerLost(client) == tui                                       \* mutant

Refused(client) == Answered(client, "refused")

RefusePost ==
  /\ srv = NoRequest
  /\ \E r \in reqs :
       /\ ~Validates(r.body)
       /\ reqs' = reqs \ {r}
       /\ tui' = Refused(r.by)
  /\ UNCHANGED <<file, mem, conn, bound, srv, held, edits, posts, alone>>

StartPost ==
  /\ srv = NoRequest
  /\ \E r \in reqs :
       /\ Validates(r.body)
       /\ reqs' = reqs \ {r}
       /\ \/ /\ Truncate
             /\ srv' = [by |-> r.by, body |-> r.body, step |-> "saving"]
             /\ UNCHANGED tui
          \/ /\ SaveFails
             /\ tui' = Refused(r.by)
             /\ UNCHANGED srv
  /\ UNCHANGED <<mem, conn, bound, held, edits, posts>>

SavePost ==
  /\ srv.step = "saving"
  /\ \/ /\ Fill(srv.body)
        /\ srv' = [srv EXCEPT !.step = "storing"]
        /\ tui' = tui
     \/ /\ SaveFails
        /\ srv' = NoRequest
        /\ tui' = Refused(srv.by)
  /\ UNCHANGED <<mem, conn, bound, reqs, held, edits, posts>>

StorePost ==
  /\ srv.step = "storing"
  /\ mem' = srv.body
  /\ srv' = NoRequest
  /\ tui' = Answered(srv.by, "accepted")
  /\ UNCHANGED <<file, conn, bound, reqs, held, edits, posts, alone>>

-----------------------------------------------------------------------------
(* A wallet command keeps a std guard of rt.connection across its awaits,  *)
(* on the same thread as the TUI: it moves only while the TUI waits.       *)

TakeConnection ==
  /\ Jobs /\ ~held /\ tui.at \in Awaits \ {"fetch"}
  /\ held' = TRUE
  /\ UNCHANGED <<file, mem, conn, bound, tui, reqs, srv, edits, posts, alone>>

ReleaseConnection ==
  /\ held /\ tui.at \in Awaits
  /\ held' = FALSE
  /\ UNCHANGED <<file, mem, conn, bound, tui, reqs, srv, edits, posts, alone>>

(* The process ends, anywhere when it is killed, at "idle" when the user   *)
(* quits: all but the file is gone.                                        *)
Exit ==
  /\ tui.at # "down"
  /\ tui' = Down
  /\ mem' = Defaults /\ conn' = CliGrpc /\ bound' = NoListener
  /\ reqs' = {} /\ srv' = NoRequest /\ held' = FALSE
  /\ UNCHANGED <<file, edits, posts, alone>>

TuiStep ==
  \/ StartUp \/ SaveInitial \/ RefreshSession
  \/ CommitFailed \/ StoreAnswer \/ SaveAnswer
  \/ Apply \/ RebindIfChanged \/ RestartServer
ServerStep == RefusePost \/ StartPost \/ SavePost \/ StorePost

Next ==
  \/ TuiStep \/ ServerStep
  \/ Commit \/ TimeOut \/ PostByOther
  \/ TakeConnection \/ ReleaseConnection
  \/ Exit

Spec == Init /\ [][Next]_vars

(* Both threads are scheduled and the disk answers; a running command is   *)
(* given its turns.  Nobody has to change, post or exit.                   *)
Fairness ==
  /\ WF_vars(TuiStep) /\ WF_vars(ServerStep)
  /\ WF_vars(ReleaseConnection)
FairSpec == Spec /\ Fairness

-----------------------------------------------------------------------------
(* Properties.                                                             *)

Quiet == tui.at = "idle" /\ srv = NoRequest /\ reqs = {}

(* As long as no other client posts, no request times out and no save      *)
(* fails since the start: whenever a change is over, whatever crash came   *)
(* before that start and whatever the file held, valid or not, file and    *)
(* memory agree, and so do the connection, which keeps the endpoint of the *)
(* command line if the one loaded does not parse, and the listener, which  *)
(* may have failed to bind.                                                *)
SettingsAgree ==
  Quiet /\ alone => /\ file = mem
                    /\ conn = IF mem.grpc \in Grpcs THEN mem.grpc ELSE CliGrpc
                    /\ bound \in {mem.listen, NoListener}

(* Settings that do not validate can only be those the process found in    *)
(* session.json: no prompt, post, late request or save after the start     *)
(* puts such settings into the file or, while the process lives, into      *)
(* memory.                                                                 *)
NeverStoresInvalid ==
  [][/\ file' # file => file' \in Settings \cup {Torn}
     /\ mem' # mem /\ tui.at # "down" => mem' \in Settings]_vars

(* "Session settings persisted in session.json" (command_runner.rs): when  *)
(* nothing is being saved, the file holds what memory holds.               *)
FileHoldsSession == Quiet => file = mem

(* A change in Settings is over at some point, answered, refused or failed *)
(* at any of its steps, unless a wallet command holds the connection when  *)
(* the change is to be applied.                                            *)
CommitEndsUnlessHeld ==
  (tui.at # "down") ~> (tui.at \in {"idle", "down"} \/ (tui.at = "apply" /\ held))
=============================================================================
