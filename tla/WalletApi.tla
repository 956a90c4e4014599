------------------------------ MODULE WalletApi ------------------------------
(***************************************************************************)
(* The wallet API: an HTTP server on its own thread, a bounded channel of  *)
(* jobs, and an executor on the TUI thread that runs them one by one on    *)
(* the one wallet.                                                         *)
(*                                                                         *)
(* Callers are tasks of the TUI and other clients; one that disconnects,   *)
(* or whose listener is replaced, is forgotten by the server, its job is   *)
(* not.  A create-and-send job runs a create-tx command and then one       *)
(* send-tx command for each transaction file it finds.  The kernel's       *)
(* drivers write their events to a sink all commands share, and may do so  *)
(* after the command has returned.                                         *)
(*                                                                         *)
(* Abstractions.  A request is posted once; "Command" is every argv        *)
(* command (it may write transaction files: a client may send create-tx),  *)
(* "Pay" is create-and-send and NNS register, whose command is given.  A   *)
(* file is its number in the order of writing.  An event is the request it *)
(* is for and the files it names; the files of an event are those its      *)
(* command wrote, and they are on disk when the command returns; send-tx   *)
(* has none.  Reports are left out.                                        *)
(***************************************************************************)
EXTENDS Naturals, Sequences, FiniteSetsExt

CONSTANTS
  Requests,     \* the requests of a behaviour
  NoRequest,    \* no request
  KindsOf,      \* what each request may ask for
  Capacity,     \* jobs the channel holds
  MaxFiles,     \* bound on the transaction files of a behaviour
  MaxRestarts   \* bound on the restarts of the listener

ASSUME NoRequestAssumption == NoRequest \notin Requests
ASSUME KindsOfAssumption == KindsOf \in [Requests -> SUBSET {"Plan", "Command", "Pay"}]
ASSUME CapacityAssumption == Capacity \in Nat \ {0}
ASSUME FilesAssumption == MaxFiles \in Nat /\ MaxRestarts \in Nat

VARIABLES
  open,       \* the TUI runs
  frozen,     \* its thread waits for a mutex it holds itself
  listening,  \* a listener is bound
  call,       \* what each caller is doing, or has heard
  kind,       \* what each request asks for
  queue,      \* the channel of jobs
  job,        \* the job in the executor's hands
  sink,       \* wallet_event_sink
  drivers,    \* events that a driver has still to write
  written,    \* transaction files: which request wrote each
  sent,       \* history: files broadcast, and for whom
  outcome,    \* history: how each job ended
  misled,     \* history: an answer carried the events of another request
  late,       \* history: a driver wrote into the sink of another's command
  restarts    \* history: restarts of the listener

caller_vars == <<listening, call, kind>>
wallet_vars == <<sink, drivers, written, sent, late>>
history == <<outcome, misled, restarts>>
vars == <<open, frozen, caller_vars, queue, job, wallet_vars, history>>

-----------------------------------------------------------------------------
Kinds == {"Plan", "Command", "Pay"}
Files == 1 .. MaxFiles
Event == [of : Requests, files : SUBSET Files]

(* at: the await the job is suspended at.  paths: the files still to send; *)
(* a job that sends has at least one.  before: files there at the start.   *)
(* foreign: the events gathered so far are not all its own.                *)
Job == [req : Requests \cup {NoRequest}, before : 0 .. MaxFiles,
        at : {"none", "received", "planning", "running", "settling"},
        paths : Seq(Files), foreign : BOOLEAN]
NoJob == [req |-> NoRequest, before |-> 0, at |-> "none", paths |-> <<>>, foreign |-> FALSE]

(* Types, and the channel is never over its capacity.                      *)
TypeOK ==
  /\ open \in BOOLEAN /\ frozen \in BOOLEAN /\ listening \in BOOLEAN
  /\ call \in [Requests -> {"idle", "sending", "waiting", "ok", "error", "refused", "lost"}]
  /\ kind \in [Requests -> Kinds \cup {"none"}]
  /\ queue \in Seq(Requests) /\ Len(queue) <= Capacity
  /\ job \in Job
  /\ sink \in Seq(Event) /\ drivers \in SUBSET Event
  /\ written \in Seq(Requests) /\ Len(written) <= MaxFiles
  /\ sent \in SUBSET [file : Files, by : Requests]
  /\ outcome \in [Requests -> {"none", "ok", "error", "cut"}]
  /\ misled \in BOOLEAN
  /\ late \in BOOLEAN
  /\ restarts \in 0 .. MaxRestarts

Init ==
  /\ open = TRUE /\ frozen = FALSE /\ listening \in BOOLEAN
  /\ call = [r \in Requests |-> "idle"]
  /\ kind = [r \in Requests |-> "none"]
  /\ queue = <<>> /\ job = NoJob
  /\ sink = <<>> /\ drivers = {} /\ written = <<>> /\ sent = {}
  /\ outcome = [r \in Requests |-> "none"]
  /\ misled = FALSE
  /\ late = FALSE /\ restarts = 0

-----------------------------------------------------------------------------
(* The server: requests, the channel, and what ends a handler.             *)

InHandler == {r \in Requests : call[r] \in {"sending", "waiting"}}

(* A request passes the token check and has arguments: dispatch_job.       *)
Post(r, k) ==
  /\ call[r] = "idle"
  /\ listening
  /\ call' = [call EXCEPT ![r] = "sending"]
  /\ kind' = [kind EXCEPT ![r] = k]
  /\ UNCHANGED <<open, frozen, listening, queue, job, wallet_vars, history>>

(* No listener, a wrong token (401) or an empty argv (400).                *)
Refuse(r) ==
  /\ open
  /\ call[r] = "idle"
  /\ call' = [call EXCEPT ![r] = "refused"]
  /\ UNCHANGED <<open, frozen, listening, kind, queue, job, wallet_vars, history>>

RoomUnchecked == TRUE                                           \* mutant

HasRoom == Len(queue) < Capacity

(* jobs.send(job).await goes through once the channel has room.            *)
Enqueue(r) ==
  /\ call[r] = "sending"
  /\ HasRoom
  /\ queue' = Append(queue, r)
  /\ call' = [call EXCEPT ![r] = "waiting"]
  /\ UNCHANGED <<open, frozen, listening, kind, job, wallet_vars, history>>

(* Handlers that are dropped; a job already in the channel stays there.    *)
Dropped(S) == [r \in Requests |-> IF r \in S THEN "lost" ELSE call[r]]

Disconnect(r) ==
  /\ r \in InHandler
  /\ call' = Dropped({r})
  /\ UNCHANGED <<open, frozen, listening, kind, queue, job, wallet_vars, history>>

-----------------------------------------------------------------------------
(* The TUI thread between two steps of the executor.                       *)

TuiRuns == open /\ ~frozen

(* execute_wallet_command is awaited under the connection's mutex.         *)
GuardHeld == job.at = "running"

(* A commit in Settings has moved api_listen and taken that mutex: the old *)
(* listener is stopped with all of its handlers, and a new one is bound,   *)
(* or fails to.                                                            *)
RestartListener ==
  /\ TuiRuns
  /\ ~GuardHeld
  /\ restarts < MaxRestarts
  /\ restarts' = restarts + 1
  /\ call' = Dropped(InHandler)
  /\ listening' \in BOOLEAN
  /\ UNCHANGED <<open, frozen, kind, queue, job, wallet_vars, outcome, misled>>

(* A paste, or such a commit, waits for the mutex on the thread on which   *)
(* alone its holder could go on.                                           *)
PasteBlocks ==
  /\ TuiRuns
  /\ GuardHeld
  /\ frozen' = TRUE
  /\ UNCHANGED <<open, caller_vars, queue, job, wallet_vars, history>>

(* shutdown: stop the server, abort the job loop.  Files and broadcasts    *)
(* stay, everything else goes with the process.                            *)
Quit ==
  /\ TuiRuns
  /\ open' = FALSE
  /\ listening' = FALSE
  /\ call' = Dropped(InHandler)
  /\ queue' = <<>>
  /\ job' = NoJob
  /\ outcome' = [r \in Requests |-> IF r = job.req THEN "cut" ELSE outcome[r]]
  /\ sink' = <<>> /\ drivers' = {}
  /\ UNCHANGED <<frozen, kind, written, sent, late, misled, restarts>>

-----------------------------------------------------------------------------
(* The executor.                                                           *)

(* Mutant: the job is looked at and stays in the channel.                  *)
QueuePeeked == queue

QueueAfterReceive == Tail(queue)

Receive ==
  /\ TuiRuns
  /\ job = NoJob
  /\ queue # <<>>
  /\ queue' = QueueAfterReceive
  /\ job' = [NoJob EXCEPT !.req = Head(queue), !.at = "received"]
  /\ UNCHANGED <<open, frozen, caller_vars, wallet_vars, history>>

(* Mutant: a response is dropped unless its job succeeded.                 *)
HeardIfOk(req, result) ==
  IF call[req] = "waiting" /\ result = "ok" THEN "ok" ELSE call[req]

(* resp.send: who has disconnected does not hear it.                       *)
Heard(req, result) == IF call[req] = "waiting" THEN result ELSE call[req]

Respond(result, foreign) ==
  /\ call' = [call EXCEPT ![job.req] = Heard(job.req, result)]
  /\ outcome' = [outcome EXCEPT ![job.req] = result]
  /\ misled' = (misled \/ foreign)
  /\ job' = NoJob

SinkNotCleared(k) == sink                                       \* mutant

(* The planner uses no events; every other job starts from an empty sink.  *)
SinkAtStart(k) == IF k = "Plan" THEN sink ELSE <<>>

(* snapshot_written_txs.                                                   *)
FilesBefore == Len(written)

Begin ==
  /\ TuiRuns
  /\ job.at = "received"
  /\ sink' = SinkAtStart(kind[job.req])
  /\ job' = [job EXCEPT !.before = FilesBefore,
                        !.at = IF kind[job.req] = "Plan" THEN "planning" ELSE "running"]
  /\ UNCHANGED <<open, frozen, caller_vars, queue, drivers, written, sent, late, history>>

(* Arguments that do not parse, a payment that cannot be built, ./txs that *)
(* cannot be listed: the response comes before any command has run.        *)
FailAtOnce ==
  /\ TuiRuns
  /\ job.at = "received"
  /\ Respond("error", FALSE)
  /\ sink' \in {sink, SinkAtStart(kind[job.req])}
  /\ UNCHANGED <<open, frozen, listening, kind, queue, drivers, written, sent, late, restarts>>

PlanReturns ==
  /\ TuiRuns
  /\ job.at = "planning"
  /\ \E result \in {"ok", "error"} : Respond(result, FALSE)
  /\ UNCHANGED <<open, frozen, listening, kind, queue, wallet_vars, restarts>>

Sending == job.paths # <<>>

(* A command that is not a send-tx returns; it has written some files.     *)
CommandReturns ==
  /\ TuiRuns
  /\ job.at = "running" /\ ~Sending
  /\ \E n \in 0 .. MaxFiles - Len(written) :
       LET files == Len(written) + 1 .. Len(written) + n IN
       /\ written' = written \o [i \in 1 .. n |-> job.req]
       /\ drivers' \in {drivers, drivers \cup {[of |-> job.req, files |-> files]}}
  /\ job' = [job EXCEPT !.at = "settling"]
  /\ UNCHANGED <<open, frozen, caller_vars, queue, sink, sent, late, history>>

(* send-tx has broadcast the file.                                         *)
SendReturns ==
  /\ TuiRuns
  /\ job.at = "running" /\ Sending
  /\ sent' = sent \cup {[file |-> Head(job.paths), by |-> job.req]}
  /\ job' = [job EXCEPT !.at = "settling"]
  /\ UNCHANGED <<open, frozen, caller_vars, queue, sink, drivers, written, late, history>>

(* Mutant: the loop goes on with the next file.                            *)
AfterFailureNext ==
  IF Len(job.paths) > 1
  THEN /\ job' = [job EXCEPT !.paths = Tail(job.paths)]
       /\ UNCHANGED <<call, outcome, misled>>
  ELSE Respond("error", job.foreign)

(* The first error ends the loop, and with it the job.                     *)
AfterFailure == Respond("error", job.foreign)

CommandFails ==
  /\ TuiRuns
  /\ job.at = "running"
  /\ AfterFailure
  /\ UNCHANGED <<open, frozen, listening, kind, queue, wallet_vars, restarts>>

(* Any driver, while any job or none runs.                                 *)
DriverWrites ==
  /\ \E e \in drivers :
       /\ drivers' = drivers \ {e}
       /\ sink' = Append(sink, e)
       /\ late' = (late \/ (job.at \in {"running", "settling"} /\ e.of # job.req))
  /\ UNCHANGED <<open, frozen, caller_vars, queue, job, written, sent, history>>

-----------------------------------------------------------------------------
(* What a job takes from the sink once its command has returned.           *)

ForeignSeen == job.foreign \/ \E i \in DOMAIN sink : sink[i].of # job.req

(* detect_written_tx_paths.                                                *)
NewFiles == [i \in 1 .. Len(written) - job.before |-> job.before + i]

(* append_create_tx_event and create_tx_paths_from_events_or_disk: the     *)
(* first event that names files is believed, else the disk is looked at.   *)
PathsToSend ==
  LET naming == {i \in DOMAIN sink : sink[i].files # {}}
      files  == sink[Min(naming)].files
  IN  IF naming = {} THEN NewFiles
      ELSE [i \in 1 .. Cardinality(files) |-> Min(files) + i - 1]

(* The next file, or the end of the loop.                                  *)
SendNext(paths) ==
  IF paths # <<>>
  THEN /\ job' = [job EXCEPT !.at = "running", !.paths = paths, !.foreign = ForeignSeen]
       /\ UNCHANGED <<call, outcome, misled>>
  ELSE Respond(IF Sending THEN "ok" ELSE "error", ForeignSeen)

(* finalize_outcome: the sink is read as soon as it holds something, or    *)
(* after a while when it does not.                                         *)
Settle ==
  /\ TuiRuns
  /\ job.at = "settling"
  /\ CASE kind[job.req] = "Command" -> Respond("ok", ForeignSeen)
       [] kind[job.req] = "Pay" /\ ~Sending -> SendNext(PathsToSend)
       [] kind[job.req] = "Pay" /\ Sending -> SendNext(Tail(job.paths))
  /\ UNCHANGED <<open, frozen, listening, kind, queue, wallet_vars, restarts>>

-----------------------------------------------------------------------------
Handlers == \E r \in Requests :
  (\E k \in KindsOf[r] : Post(r, k)) \/ Refuse(r) \/ Enqueue(r) \/ Disconnect(r)
TuiEvents == RestartListener \/ PasteBlocks \/ Quit
Executor == Receive \/ Begin \/ FailAtOnce \/ PlanReturns \/ CommandReturns
              \/ SendReturns \/ CommandFails \/ Settle

Next == Handlers \/ TuiEvents \/ Executor \/ DriverWrites

Spec == Init /\ [][Next]_vars

(* The job loop goes on while its thread does, the wallet's commands       *)
(* return, and room in the channel goes to someone who waits for it.       *)
FairSpec == Spec /\ WF_vars(Executor) /\ WF_vars(\E r \in Requests : Enqueue(r))

-----------------------------------------------------------------------------
(* Properties.                                                             *)

(* Every request is refused, or run at most once and alone, and who hears  *)
(* an outcome hears that of its own finished job.                          *)
Contract == INSTANCE ApiContract WITH
  caller <- [r \in Requests |-> IF call[r] = "sending" THEN "waiting" ELSE call[r]],
  work <- [r \in Requests |-> IF r = job.req THEN "running" ELSE outcome[r]]
KeepsContract == Contract!Spec

(* Transactions are broadcast for the request that wrote them, and answers *)
(* carry events of their own request, unless a driver was so late that it  *)
(* wrote between another command's start and end: the serial job loop and  *)
(* the clearing of the sink (command_runner.rs:73) keep all else apart.    *)
NothingForeign ==
  late \/ /\ \A s \in sent : written[s.file] = s.by
          /\ ~misled

(* The answer to a payment against what was broadcast: ok when all of its  *)
(* files were, of which there is one at least; otherwise those before the  *)
(* first failure were, and not all.                                        *)
PaymentAnswerTrue ==
  late \/ \A r \in {q \in Requests : kind[q] = "Pay"} :
    LET own  == {f \in DOMAIN written : written[f] = r}
        gone == {f \in own : [file |-> f, by |-> r] \in sent}
    IN  /\ \A f \in gone, g \in own \ gone : f < g
        /\ outcome[r] = "ok" => own # {} /\ gone = own
        /\ outcome[r] = "error" => own = {} \/ gone # own

(* Every request in the server's hands comes to an end for its caller and  *)
(* for its job, full channel, lost connections and restarts or not, unless *)
(* the program ends or its thread locks itself out.                        *)
InHand(r) == r \in InHandler \/ r = job.req \/ \E i \in DOMAIN queue : queue[i] = r
RequestsEnd == \A r \in Requests : InHand(r) ~> (~InHand(r) \/ frozen \/ ~open)
=============================================================================
