--------------------------- MODULE WalletApiProofs ---------------------------
(* The wallet API keeps its contract, broadcasts for each payment its own  *)
(* files and answers it truly, for any set of requests, any capacity of    *)
(* the channel and any bounds.                                             *)
EXTENDS WalletApi, FiniteSetTheorems, WellFoundedInduction, TLAPS

Calls == {"idle", "sending", "waiting", "ok", "error", "refused", "lost"}
Waits == {"none", "received", "planning", "running", "settling"}
Outcomes == {"none", "ok", "error", "cut"}

(* A record with the fields of a job; which files it sends, and what it    *)
(* found in the sink, may be anything.                                     *)
JobOf(B, P, F) ==
  [req : Requests \cup {NoRequest}, before : B, at : Waits, paths : P, foreign : F]
IsJob(j) == j \in JobOf({j.before}, {j.paths}, {j.foreign})

(* The types of what the contract speaks of.                               *)
ApiTypes ==
  /\ call \in [Requests -> Calls]
  /\ kind \in [Requests -> Kinds \cup {"none"}]
  /\ outcome \in [Requests -> Outcomes]
  /\ queue \in Seq(Requests) /\ Len(queue) <= Capacity
  /\ IsJob(job)
  /\ job = NoJob \/ job.req \in Requests

(* A request the wallet still has to do with: its caller is past the       *)
(* channel, and its job has not ended.                                     *)
InService(r) == call[r] \in {"waiting", "lost"} /\ outcome[r] = "none"

(* Whoever got past the token check asks for something.                    *)
Known == \A r \in Requests : call[r] \notin {"idle", "refused"} => kind[r] \in Kinds

(* A job ends only after its caller has been past the channel.             *)
Ended == \A r \in Requests : outcome[r] # "none" => call[r] \in {"ok", "error", "lost"}

(* The requests in the channel are in service, each once, and none is also *)
(* the executor's.                                                         *)
QueueOnce ==
  /\ \A i \in DOMAIN queue : InService(queue[i]) /\ queue[i] # job.req
  /\ \A i, j \in DOMAIN queue : queue[i] = queue[j] => i = j

(* So is the executor's, and past the start it is one that runs commands.  *)
InHandOnce ==
  /\ job # NoJob => InService(job.req)
  /\ job.at \in {"running", "settling"} => kind[job.req] \in {"Command", "Pay"}

Inv == ApiTypes /\ Known /\ Ended /\ QueueOnce /\ InHandOnce

-----------------------------------------------------------------------------
(* What its files and its events are does not matter.                      *)
LEMMA IsJobFact ==
  ASSUME NEW B, NEW P, NEW F, NEW j \in JobOf(B, P, F)
  PROVE  IsJob(j)
  BY DEF JobOf, IsJob

LEMMA NoJobFacts ==
  /\ IsJob(NoJob)
  /\ NoJob.req \notin Requests
  /\ NoJob.at = "none"
  BY NoRequestAssumption DEF NoJob, JobOf, Waits, IsJob

LEMMA InvInit == Init => Inv
  BY CapacityAssumption, NoJobFacts
  DEF Init, Inv, ApiTypes, Known, Ended, QueueOnce, InHandOnce, Calls, Waits, Outcomes

(* The end of a job: it leaves the executor, and its caller hears of it if *)
(* it is still there.                                                      *)
LEMMA RespondKeepsInv ==
  ASSUME Inv, job # NoJob, NEW result \in {"ok", "error"}, NEW foreign,
         Respond(result, foreign), UNCHANGED <<kind, queue>>
  PROVE  Inv'
<1>1. job.req \in Requests /\ InService(job.req)
  BY DEF Inv, ApiTypes, InHandOnce
<1>2. call' = [call EXCEPT ![job.req] = IF call[job.req] = "waiting" THEN result ELSE call[job.req]]
  BY DEF Respond, Heard
<1>3. outcome' = [outcome EXCEPT ![job.req] = result] /\ job' = NoJob
  BY DEF Respond
<1>4. ApiTypes'
  BY <1>1, <1>2, <1>3, NoJobFacts DEF Inv, ApiTypes, Calls, Outcomes, Waits
<1>5. Known' /\ Ended'
  BY <1>1, <1>2, <1>3 DEF Inv, ApiTypes, Known, Ended, InService
<1>6. QueueOnce'
  <2>1. ASSUME NEW i \in DOMAIN queue
        PROVE  queue[i] \in Requests /\ queue[i] # job.req /\ InService(queue[i])
    BY DEF Inv, ApiTypes, QueueOnce
  <2>2. ASSUME NEW i \in DOMAIN queue
        PROVE  call'[queue[i]] = call[queue[i]] /\ outcome'[queue[i]] = outcome[queue[i]]
    BY <1>2, <1>3, <2>1 DEF Inv, ApiTypes
  <2>3. QED
    BY <1>3, <2>1, <2>2, NoJobFacts DEF Inv, QueueOnce, InService
<1>7. InHandOnce'
  BY <1>3, NoJobFacts DEF InHandOnce
<1>8. QED
  BY <1>4, <1>5, <1>6, <1>7 DEF Inv

(* A step of the job in hand: it stays the same request's.                 *)
LEMMA JobMoveKeepsInv ==
  ASSUME Inv, job # NoJob, IsJob(job'), job'.req = job.req,
         job'.at \in {"running", "settling"} => kind[job.req] \in {"Command", "Pay"},
         UNCHANGED <<call, kind, queue, outcome>>
  PROVE  Inv'
<1>1. ApiTypes'
  BY DEF Inv, ApiTypes
<1>2. Known' /\ Ended'
  BY DEF Inv, Known, Ended
<1>3. QueueOnce' /\ InHandOnce'
  BY DEF Inv, QueueOnce, InHandOnce, InService
<1>4. QED
  BY <1>1, <1>2, <1>3 DEF Inv

(* Callers are lost: what they asked for stays where it is.                *)
LEMMA DropKeepsInv ==
  ASSUME Inv, NEW S \in SUBSET InHandler, call' = Dropped(S),
         UNCHANGED <<kind, queue, job, outcome>>
  PROVE  Inv'
<1>1. \A r \in Requests : \/ call'[r] = call[r]
                          \/ call[r] \in {"sending", "waiting"} /\ call'[r] = "lost"
  BY DEF Dropped, InHandler
<1>2. ApiTypes'
  BY <1>1 DEF Inv, ApiTypes, Dropped, Calls
<1>3. Known' /\ Ended'
  BY <1>1 DEF Inv, Known, Ended
<1>4. \A r \in Requests : InService(r) => InService(r)'
  BY <1>1 DEF InService
<1>5. QueueOnce' /\ InHandOnce'
  <2>1. \A i \in DOMAIN queue : queue[i] \in Requests
    BY DEF Inv, ApiTypes
  <2>2. QED
    BY <1>4, <2>1 DEF Inv, ApiTypes, QueueOnce, InHandOnce
<1>6. QED
  BY <1>2, <1>3, <1>5 DEF Inv

LEMMA HandlersKeepInv == Inv /\ Handlers => Inv'
<1> SUFFICES ASSUME Inv, Handlers PROVE Inv'
  OBVIOUS
<1> USE DEF caller_vars, wallet_vars, history
<1>0. PICK r \in Requests : (\E k \in KindsOf[r] : Post(r, k)) \/ Refuse(r) \/ Enqueue(r) \/ Disconnect(r)
  BY DEF Handlers
<1>1. ASSUME call[r] = "idle" PROVE outcome[r] = "none" /\ (job # NoJob => job.req # r)
                                   /\ \A i \in DOMAIN queue : queue[i] # r
  BY <1>1 DEF Inv, ApiTypes, Ended, QueueOnce, InHandOnce, InService, Outcomes
<1>2. ASSUME call[r] = "idle", UNCHANGED <<queue, job, outcome>>,
             NEW news \in {"sending", "refused"}, call' = [call EXCEPT ![r] = news],
             \A q \in Requests : q # r => kind'[q] = kind[q]
      PROVE  Ended' /\ QueueOnce' /\ InHandOnce'
  <2>1. \A q \in Requests : q # r => call'[q] = call[q] /\ outcome'[q] = outcome[q]
    BY <1>2 DEF Inv, ApiTypes
  <2>2. Ended'
    BY <1>1, <1>2, <2>1 DEF Inv, ApiTypes, Ended
  <2>3. QueueOnce'
    <3>1. \A i \in DOMAIN queue : queue[i] \in Requests /\ queue[i] # r
      BY <1>1, <1>2 DEF Inv, ApiTypes
    <3>2. QED
      BY <1>2, <2>1, <3>1 DEF Inv, QueueOnce, InService
  <2>4. InHandOnce'
    BY <1>1, <1>2, <2>1, NoJobFacts DEF Inv, ApiTypes, InHandOnce, InService
  <2>5. QED
    BY <2>2, <2>3, <2>4
<1>3. CASE \E k \in KindsOf[r] : Post(r, k)
  <2>1. PICK k \in KindsOf[r] : Post(r, k)
    BY <1>3
  <2>2. k \in Kinds
    BY KindsOfAssumption DEF Kinds
  <2>3. ApiTypes' /\ Known'
    BY <2>1, <2>2 DEF Post, Inv, ApiTypes, Known, Calls
  <2>4. QED
    BY <1>2, <2>1, <2>3 DEF Post, Inv, ApiTypes
<1>4. CASE Refuse(r)
  <2>1. ApiTypes' /\ Known'
    BY <1>4 DEF Refuse, Inv, ApiTypes, Known, Calls
  <2>2. QED
    BY <1>2, <1>4, <2>1 DEF Refuse, Inv
<1>5. CASE Enqueue(r)
  <2>1. /\ call[r] = "sending" /\ call' = [call EXCEPT ![r] = "waiting"]
        /\ queue' = Append(queue, r) /\ UNCHANGED <<kind, job, outcome>>
    BY <1>5 DEF Enqueue
  <2>2. outcome[r] = "none" /\ job.req # r /\ \A i \in DOMAIN queue : queue[i] # r
    BY <2>1, NoJobFacts DEF Inv, ApiTypes, Ended, QueueOnce, InHandOnce, InService, Outcomes
  <2>3. \A q \in Requests : q # r => call'[q] = call[q]
    BY <2>1 DEF Inv, ApiTypes
  <2>4. ApiTypes'
    BY <1>5, <2>1, CapacityAssumption DEF Enqueue, HasRoom, Inv, ApiTypes, Calls
  <2>5. Known' /\ Ended'
    BY <2>1, <2>2 DEF Inv, ApiTypes, Known, Ended
  <2>6. QueueOnce'
    <3>1. /\ \A i \in DOMAIN queue' :
               \/ i \in DOMAIN queue /\ queue'[i] = queue[i]
               \/ i = Len(queue) + 1 /\ queue'[i] = r
          /\ \A i \in DOMAIN queue : queue[i] \in Requests
      BY <2>1 DEF Inv, ApiTypes
    <3>2. InService(r)'
      BY <2>1, <2>2 DEF Inv, ApiTypes, InService
    <3>3. \A i \in DOMAIN queue : InService(queue[i])'
      BY <2>1, <2>2, <2>3, <3>1 DEF Inv, QueueOnce, InService
    <3>4. QED
      BY <2>1, <2>2, <3>1, <3>2, <3>3 DEF Inv, QueueOnce
  <2>7. InHandOnce'
    BY <2>1, <2>2, <2>3 DEF Inv, ApiTypes, InHandOnce, InService
  <2>8. QED
    BY <2>4, <2>5, <2>6, <2>7 DEF Inv
<1>6. CASE Disconnect(r)
  BY <1>6, DropKeepsInv DEF Disconnect
<1>7. QED
  BY <1>0, <1>3, <1>4, <1>5, <1>6

LEMMA TuiKeepsInv == Inv /\ TuiEvents => Inv'
<1> SUFFICES ASSUME Inv, TuiEvents PROVE Inv'
  OBVIOUS
<1> USE DEF caller_vars, wallet_vars, history
<1>1. CASE RestartListener
  BY <1>1, DropKeepsInv DEF RestartListener
<1>2. CASE PasteBlocks
  BY <1>2 DEF PasteBlocks, Inv, ApiTypes, Known, Ended, QueueOnce, InHandOnce, InService
<1>3. CASE Quit
  <2>1. /\ call' = Dropped(InHandler) /\ queue' = <<>> /\ job' = NoJob /\ kind' = kind
        /\ outcome' = [r \in Requests |-> IF r = job.req THEN "cut" ELSE outcome[r]]
    BY <1>3 DEF Quit
  <2>2. \A r \in Requests :
          /\ \/ call'[r] = call[r]
             \/ call[r] \in {"sending", "waiting"} /\ call'[r] = "lost"
          /\ outcome'[r] = outcome[r] \/ (r = job.req /\ outcome'[r] = "cut")
    BY <2>1 DEF Dropped, InHandler
  <2>3. ApiTypes'
    BY <2>1, <2>2, NoJobFacts, CapacityAssumption DEF Inv, ApiTypes, Dropped, Calls, Outcomes
  <2>4. Known'
    BY <2>1, <2>2 DEF Inv, Known
  <2>5. Ended'
    <3>1. ASSUME NEW r \in Requests, r = job.req PROVE call[r] \in {"waiting", "lost"}
      BY <3>1, NoJobFacts DEF Inv, InHandOnce, InService
    <3>2. \A r \in Requests : r = job.req => call'[r] = "lost"
      BY <2>1, <3>1 DEF Dropped, InHandler
    <3>3. QED
      BY <2>2, <3>2 DEF Inv, Ended
  <2>6. QueueOnce' /\ InHandOnce'
    BY <2>1, NoJobFacts DEF QueueOnce, InHandOnce
  <2>7. QED
    BY <2>3, <2>4, <2>5, <2>6 DEF Inv
<1>4. QED
  BY <1>1, <1>2, <1>3 DEF TuiEvents

LEMMA InHandFacts ==
  ASSUME Inv, job.at # "none"
  PROVE  job # NoJob /\ job.req \in Requests /\ InService(job.req) /\ kind[job.req] \in Kinds
<1>1. job # NoJob /\ job.req \in Requests /\ InService(job.req)
  BY NoJobFacts DEF Inv, ApiTypes, InHandOnce
<1>2. QED
  BY <1>1 DEF Inv, Known, InService

(* The first of the channel is taken into the executor's hands.            *)
LEMMA ReceiveKeepsInv == Inv /\ Receive => Inv'
<1> SUFFICES ASSUME Inv, Receive PROVE Inv'
  OBVIOUS
<1>1. /\ job = NoJob /\ queue # <<>> /\ queue' = Tail(queue)
      /\ UNCHANGED <<call, kind, outcome>>
  BY DEF Receive, QueueAfterReceive, caller_vars, history
<1>0. job' = [NoJob EXCEPT !.req = Head(queue), !.at = "received"]
  BY DEF Receive
<1>2. /\ Head(queue) = queue[1] /\ 1 \in DOMAIN queue /\ queue[1] \in Requests
      /\ queue' \in Seq(Requests) /\ Len(queue') <= Capacity
      /\ \A i \in DOMAIN queue' : /\ i \in Nat /\ i + 1 \in DOMAIN queue /\ i + 1 # 1
                                /\ queue'[i] = queue[i + 1]
  BY <1>1, CapacityAssumption DEF Inv, ApiTypes
<1>3. queue[1] \in Requests /\ InService(queue[1])
  BY <1>2 DEF Inv, QueueOnce
<1>4. IsJob(job') /\ job'.req = queue[1] /\ job'.at = "received"
  <2>1. "received" \in Waits /\ Head(queue) \in Requests /\ IsJob(NoJob)
    BY <1>2, <1>3, NoJobFacts DEF Waits
  <2>2. /\ job' \in JobOf({NoJob.before}, {NoJob.paths}, {NoJob.foreign})
        /\ job'.req = Head(queue) /\ job'.at = "received"
    BY <1>0, <2>1 DEF IsJob, JobOf
  <2>3. QED
    BY <1>2, <2>2, IsJobFact
<1>5. ApiTypes'
  BY <1>1, <1>2, <1>4 DEF Inv, ApiTypes
<1>6. Known' /\ Ended'
  BY <1>1 DEF Inv, Known, Ended
<1>7. QueueOnce'
  <2>1. ASSUME NEW i \in DOMAIN queue'
        PROVE  InService(queue[i])' /\ queue'[i] # job'.req
    <3>1. queue[i + 1] # queue[1] /\ InService(queue[i + 1])
      BY <1>2 DEF Inv, QueueOnce
    <3>2. QED
      BY <1>1, <1>2, <1>4, <3>1 DEF InService
  <2>2. ASSUME NEW i \in DOMAIN queue', NEW j \in DOMAIN queue', queue'[i] = queue'[j]
        PROVE  i = j
    <3>1. i + 1 = j + 1
      BY <1>2, <2>2 DEF Inv, QueueOnce
    <3>2. QED
      BY <1>2, <3>1
  <2>3. QED
    BY <2>1, <2>2 DEF QueueOnce
<1>8. InHandOnce'
  BY <1>1, <1>3, <1>4 DEF InHandOnce, InService
<1>9. QED
  BY <1>5, <1>6, <1>7, <1>8 DEF Inv

LEMMA BeginKeepsInv == Inv /\ Begin => Inv'
<1> SUFFICES ASSUME Inv, Begin PROVE Inv'
  OBVIOUS
<1> DEFINE next == IF kind[job.req] = "Plan" THEN "planning" ELSE "running"
<1>1. job.at = "received" /\ UNCHANGED <<call, kind, queue, outcome>>
  BY DEF Begin, caller_vars, history
<1>0. job' = [job EXCEPT !.before = FilesBefore, !.at = next]
  BY DEF Begin
<1>2. IsJob(job') /\ job'.req = job.req /\ job'.at = next
  <2>1. next \in Waits /\ IsJob(job)
    BY DEF Inv, ApiTypes, Waits
  <2> HIDE DEF next
  <2>2. /\ job' \in JobOf({FilesBefore}, {job.paths}, {job.foreign})
        /\ job'.req = job.req /\ job'.at = next
    BY <1>0, <2>1 DEF IsJob, JobOf
  <2>3. QED
    BY <2>2, IsJobFact
<1>3. job # NoJob /\ kind[job.req] \in Kinds
  BY <1>1, InHandFacts
<1>4. next = "running" => kind[job.req] \in {"Command", "Pay"}
  BY <1>3 DEF Kinds
<1>5. QED
  BY <1>1, <1>2, <1>3, <1>4, JobMoveKeepsInv

(* Where a command has returned, or the next file is sent, or the job has  *)
(* come to its end.                                                        *)
LEMMA SettleCases ==
  ASSUME Inv, Settle
  PROVE  /\ job.at = "settling" /\ UNCHANGED <<kind, queue>>
         /\ \/ \E result \in {"ok", "error"} : Respond(result, ForeignSeen)
            \/ /\ \E paths : job' = [job EXCEPT !.at = "running", !.paths = paths,
                                              !.foreign = ForeignSeen]
               /\ UNCHANGED <<call, outcome>>
<1>1. job.at = "settling" /\ UNCHANGED <<kind, queue>> /\ kind[job.req] \in {"Command", "Pay"}
  BY DEF Settle, Inv, InHandOnce
<1>2. \/ Respond("ok", ForeignSeen)
      \/ \E paths : SendNext(paths)
  BY <1>1 DEF Settle
<1>3. ASSUME NEW paths, SendNext(paths)
      PROVE  \/ Respond("ok", ForeignSeen) \/ Respond("error", ForeignSeen)
             \/ /\ job' = [job EXCEPT !.at = "running", !.paths = paths, !.foreign = ForeignSeen]
                /\ UNCHANGED <<call, outcome>>
  BY <1>3 DEF SendNext
<1>4. QED
  BY <1>1, <1>2, <1>3

LEMMA ExecutorKeepsInv == Inv /\ Executor => Inv'
<1> SUFFICES ASSUME Inv, Executor PROVE Inv'
  OBVIOUS
<1> USE DEF caller_vars, wallet_vars, history
<1>1. CASE FailAtOnce
  BY <1>1, InHandFacts, RespondKeepsInv DEF FailAtOnce
<1>2. CASE PlanReturns
  BY <1>2, InHandFacts, RespondKeepsInv DEF PlanReturns
<1>3. CASE CommandFails
  BY <1>3, InHandFacts, RespondKeepsInv DEF CommandFails, AfterFailure
<1>4. CASE CommandReturns \/ SendReturns
  <2>1. job' = [job EXCEPT !.at = "settling"]
    BY <1>4 DEF CommandReturns, SendReturns
  <2>2. job.at = "running" /\ UNCHANGED <<call, kind, queue, outcome>>
    BY <1>4 DEF CommandReturns, SendReturns
  <2>3. IsJob(job) /\ job # NoJob /\ kind[job.req] \in {"Command", "Pay"}
    BY <2>2, InHandFacts DEF Inv, ApiTypes, InHandOnce
  <2>4. job' \in JobOf({job.before}, {job.paths}, {job.foreign}) /\ job'.req = job.req
    BY <2>1, <2>3 DEF IsJob, JobOf, Waits
  <2>5. QED
    BY <2>2, <2>3, <2>4, IsJobFact, JobMoveKeepsInv
<1>5. CASE Settle
  <2>1. job.at = "settling" /\ job # NoJob /\ IsJob(job) /\ UNCHANGED <<kind, queue>>
    BY <1>5, SettleCases, InHandFacts DEF Inv, ApiTypes
  <2>2. CASE \E result \in {"ok", "error"} : Respond(result, ForeignSeen)
    BY <2>1, <2>2, RespondKeepsInv
  <2>3. ASSUME NEW paths, job' = [job EXCEPT !.at = "running", !.paths = paths,
                                            !.foreign = ForeignSeen],
               UNCHANGED <<call, outcome>>
        PROVE  Inv'
    <3>1. job' \in JobOf({job.before}, {paths}, {ForeignSeen}) /\ job'.req = job.req
      BY <2>1, <2>3 DEF IsJob, JobOf, Waits
    <3>2. kind[job.req] \in {"Command", "Pay"}
      BY <2>1 DEF Inv, InHandOnce
    <3>3. UNCHANGED <<call, kind, queue, outcome>>
      BY <2>1, <2>3
    <3>4. QED
      BY <2>1, <3>1, <3>2, <3>3, IsJobFact, JobMoveKeepsInv
  <2>4. QED
    BY <1>5, <2>2, <2>3, SettleCases
<1>6. QED
  BY <1>1, <1>2, <1>3, <1>4, <1>5, ReceiveKeepsInv, BeginKeepsInv DEF Executor

LEMMA InvStep == Inv /\ [Next]_vars => Inv'
<1>1. Inv /\ DriverWrites => Inv'
  BY DEF DriverWrites, Inv, ApiTypes, Known, Ended, QueueOnce, InHandOnce, InService,
     caller_vars, history
<1>2. Inv /\ UNCHANGED vars => Inv'
  BY DEF vars, Inv, ApiTypes, Known, Ended, QueueOnce, InHandOnce, InService,
     caller_vars, history
<1>3. QED
  BY <1>1, <1>2, HandlersKeepInv, TuiKeepsInv, ExecutorKeepsInv DEF Next

(* A request is in the channel, or in the executor's hands, at most once   *)
(* and in one of them, and the channel is never over its capacity.         *)
THEOREM InvHolds == Spec => []Inv
  BY InvInit, InvStep, PTL DEF Spec

-----------------------------------------------------------------------------
(* The API implements its contract.                                        *)

LEMMA ContractInit == Init => Contract!Init
<1> SUFFICES ASSUME Init PROVE Contract!Init
  OBVIOUS
<1>1. call = [r \in Requests |-> "idle"] /\ outcome = [r \in Requests |-> "none"]
  BY DEF Init
<1>2. job.req \notin Requests
  BY NoJobFacts DEF Init
<1>3. QED
  BY <1>1, <1>2 DEF Contract!Init

(* What the contract does not see: the channel, and the steps of a job.    *)
LEMMA ContractStutter ==
  ASSUME UNCHANGED <<call, outcome>>, job'.req = job.req
  PROVE  UNCHANGED Contract!vars
  BY DEF Contract!vars

LEMMA ContractRespond ==
  ASSUME Inv, job # NoJob, NEW result \in {"ok", "error"}, NEW foreign, Respond(result, foreign)
  PROVE  [Contract!Next]_Contract!vars
<1>0. PICK r \in Requests : r = job.req
  BY DEF Inv, ApiTypes
<1>1. InService(r)
  BY <1>0 DEF Inv, InHandOnce
<1>2. /\ call' = [call EXCEPT ![r] = IF call[r] = "waiting" THEN result ELSE call[r]]
      /\ outcome' = [outcome EXCEPT ![r] = result] /\ job' = NoJob
  BY <1>0 DEF Respond, Heard
<1>3. job'.req \notin Requests
  BY <1>2, NoJobFacts
<1>4. call \in [Requests -> Calls] /\ outcome \in [Requests -> Outcomes]
  BY DEF Inv, ApiTypes
<1>5. Contract!End(r, result)
  BY <1>0, <1>1, <1>2, <1>3, <1>4
  DEF Contract!End, Contract!Told, Contract!Waiting, InService
<1>6. QED
  BY <1>5 DEF Contract!Next

LEMMA ContractDrop ==
  ASSUME Inv, NEW S \in SUBSET InHandler, call' = Dropped(S), UNCHANGED <<job, outcome>>
  PROVE  [Contract!Next]_Contract!vars
<1>1. S \in SUBSET Requests /\ S \subseteq Contract!Waiting
  BY DEF InHandler, Contract!Waiting
<1>2. CASE S = {}
  <2>1. call' = call
    BY <1>2 DEF Dropped, Inv, ApiTypes
  <2>2. QED
    BY <2>1, ContractStutter
<1>3. CASE S # {}
  <2>1. Contract!Lose(S)
    BY <1>1, <1>3 DEF Contract!Lose, Contract!Told, Dropped
  <2>2. QED
    BY <1>1, <2>1 DEF Contract!Next
<1>4. QED
  BY <1>2, <1>3

LEMMA ContractHandlers == Inv /\ Handlers => [Contract!Next]_Contract!vars
<1> SUFFICES ASSUME Inv, Handlers PROVE [Contract!Next]_Contract!vars
  OBVIOUS
<1> USE DEF caller_vars, wallet_vars, history
<1>0. PICK r \in Requests : (\E k \in KindsOf[r] : Post(r, k)) \/ Refuse(r) \/ Enqueue(r) \/ Disconnect(r)
  BY DEF Handlers
<1>1. call \in [Requests -> Calls]
  BY DEF Inv, ApiTypes
<1>2. CASE \E k \in KindsOf[r] : Post(r, k)
  <2>1. call[r] = "idle" /\ call' = [call EXCEPT ![r] = "sending"] /\ UNCHANGED <<job, outcome>>
    BY <1>2 DEF Post
  <2>2. Contract!Ask(r)
    BY <1>1, <2>1 DEF Contract!Ask, Contract!Told
  <2>3. QED
    BY <2>2 DEF Contract!Next
<1>3. CASE Refuse(r)
  <2>1. call[r] = "idle" /\ call' = [call EXCEPT ![r] = "refused"] /\ UNCHANGED <<job, outcome>>
    BY <1>3 DEF Refuse
  <2>2. Contract!Refuse(r)
    BY <1>1, <2>1 DEF Contract!Refuse, Contract!Told
  <2>3. QED
    BY <2>2 DEF Contract!Next
<1>4. CASE Enqueue(r)
  <2>1. call[r] = "sending" /\ call' = [call EXCEPT ![r] = "waiting"] /\ UNCHANGED <<job, outcome>>
    BY <1>4 DEF Enqueue
  <2>2. QED
    BY <1>1, <2>1 DEF Contract!vars
<1>5. CASE Disconnect(r)
  BY <1>5, ContractDrop DEF Disconnect
<1>6. QED
  BY <1>0, <1>2, <1>3, <1>4, <1>5

LEMMA ContractTui == Inv /\ TuiEvents => [Contract!Next]_Contract!vars
<1> SUFFICES ASSUME Inv, TuiEvents PROVE [Contract!Next]_Contract!vars
  OBVIOUS
<1> USE DEF caller_vars, wallet_vars, history
<1>1. CASE RestartListener
  BY <1>1, ContractDrop DEF RestartListener
<1>2. CASE PasteBlocks
  BY <1>2, ContractStutter DEF PasteBlocks
<1>3. CASE Quit
  <2>1. /\ call' = Dropped(InHandler) /\ job'.req \notin Requests
        /\ outcome' = [r \in Requests |-> IF r = job.req THEN "cut" ELSE outcome[r]]
    BY <1>3, NoJobFacts DEF Quit
  <2>2. \A r \in Requests : outcome[r] # "running"
    BY DEF Inv, ApiTypes, Outcomes
  <2>3. Contract!Close
    BY <2>1, <2>2 DEF Contract!Close, Contract!Told, Contract!Waiting, Dropped, InHandler
  <2>4. QED
    BY <2>3 DEF Contract!Next
<1>4. QED
  BY <1>1, <1>2, <1>3 DEF TuiEvents

(* Only what is in the channel, once and unfinished, is begun, and nothing *)
(* else is under way.                                                      *)
LEMMA ContractReceive == Inv /\ Receive => [Contract!Next]_Contract!vars
<1> SUFFICES ASSUME Inv, Receive PROVE [Contract!Next]_Contract!vars
  OBVIOUS
<1>1. job = NoJob /\ job.req \notin Requests /\ UNCHANGED <<call, outcome>>
  BY NoJobFacts DEF Receive, caller_vars, history
<1>2. PICK r \in Requests : r = Head(queue) /\ InService(r)
  BY DEF Receive, Inv, ApiTypes, QueueOnce
<1>3. job' = [NoJob EXCEPT !.req = r, !.at = "received"]
  BY <1>2 DEF Receive
<1>4. job'.req = r
  BY <1>2, <1>3, NoJobFacts DEF IsJob, JobOf
<1>5. \A q \in Requests : outcome[q] # "running"
  BY DEF Inv, ApiTypes, Outcomes
<1>6. Contract!Begin(r)
  BY <1>1, <1>2, <1>4, <1>5 DEF Contract!Begin, InService
<1>7. QED
  BY <1>6 DEF Contract!Next

LEMMA ContractExecutor == Inv /\ Executor => [Contract!Next]_Contract!vars
<1> SUFFICES ASSUME Inv, Executor PROVE [Contract!Next]_Contract!vars
  OBVIOUS
<1> USE DEF caller_vars, wallet_vars, history
<1>1. ASSUME job # NoJob, NEW result \in {"ok", "error"}, NEW foreign, Respond(result, foreign)
      PROVE  [Contract!Next]_Contract!vars
  BY <1>1, ContractRespond
<1>2. CASE FailAtOnce \/ PlanReturns \/ CommandFails
  BY <1>1, <1>2, InHandFacts DEF FailAtOnce, PlanReturns, CommandFails, AfterFailure
<1>3. ASSUME job.at # "none", UNCHANGED <<call, outcome>>, job'.req = job.req
      PROVE  [Contract!Next]_Contract!vars
  BY <1>3, ContractStutter
<1>4. CASE Begin
  <2>1. IsJob(job) /\ UNCHANGED <<call, outcome>> /\ job.at # "none"
    BY <1>4 DEF Begin, Inv, ApiTypes
  <2>2. \E at : job' = [job EXCEPT !.before = FilesBefore, !.at = at]
    BY <1>4 DEF Begin
  <2>3. job'.req = job.req
    BY <2>1, <2>2 DEF IsJob, JobOf
  <2>4. QED
    BY <1>3, <2>1, <2>3
<1>5. CASE CommandReturns \/ SendReturns
  <2>1. IsJob(job) /\ UNCHANGED <<call, outcome>> /\ job.at # "none"
    BY <1>5 DEF CommandReturns, SendReturns, Inv, ApiTypes
  <2>2. job' = [job EXCEPT !.at = "settling"]
    BY <1>5 DEF CommandReturns, SendReturns
  <2>3. job'.req = job.req
    BY <2>1, <2>2 DEF IsJob, JobOf
  <2>4. QED
    BY <1>3, <2>1, <2>3
<1>6. CASE Settle
  <2>1. job.at # "none" /\ job # NoJob /\ IsJob(job)
    BY <1>6, SettleCases, InHandFacts DEF Inv, ApiTypes
  <2>2. ASSUME NEW paths, job' = [job EXCEPT !.at = "running", !.paths = paths,
                                            !.foreign = ForeignSeen],
               UNCHANGED <<call, outcome>>
        PROVE  [Contract!Next]_Contract!vars
    <3>1. job'.req = job.req
      BY <2>1, <2>2 DEF IsJob, JobOf
    <3>2. QED
      BY <1>3, <2>1, <2>2, <3>1
  <2>3. QED
    BY <1>1, <1>6, <2>1, <2>2, SettleCases
<1>7. QED
  BY <1>2, <1>4, <1>5, <1>6, ContractReceive DEF Executor

LEMMA ContractStep == Inv /\ [Next]_vars => [Contract!Next]_Contract!vars
<1>1. DriverWrites \/ UNCHANGED vars => UNCHANGED Contract!vars
  BY ContractStutter DEF DriverWrites, vars, caller_vars, history
<1>2. QED
  BY <1>1, ContractHandlers, ContractTui, ContractExecutor DEF Next

(* Whatever the callers, the channel and the listener do, a request is     *)
(* worked on at most once and alone, and who hears an outcome hears that   *)
(* of its own work.                                                        *)
THEOREM ContractKept == Spec => KeepsContract
  BY ContractInit, ContractStep, InvHolds, PTL DEF Spec, KeepsContract, Contract!Spec

-----------------------------------------------------------------------------
(* Payments.                                                               *)

Active == job.at \in {"running", "settling"}
Own(r) == {f \in DOMAIN written : written[f] = r}
SentFor(r, f) == [file |-> f, by |-> r] \in sent
Events == drivers \cup {sink[i] : i \in DOMAIN sink}

(* Files, broadcasts and events are of jobs that have come to a command.   *)
Started(r) == outcome[r] # "none" \/ (r = job.req /\ Active)
OnlyStarted ==
  /\ \A f \in DOMAIN written : Started(written[f])
  /\ \A s \in sent : Started(s.by)
  /\ \A e \in Events : Started(e.of)

(* The files an event names follow each other.                             *)
InARow(files) == \E a, b \in Nat : files = a + 1 .. b
EventFiles == \A e \in Events : InARow(e.files)

Phases ==
  /\ job.at = "planning" => kind[job.req] = "Plan"
  /\ Sending => Active /\ kind[job.req] = "Pay"

(* Until its command returns a job has written nothing; then, what was     *)
(* written since it began is its own and all its own, and what its events  *)
(* name, as long as the job lasts.                                         *)
Fresh ==
  job.at = "running" /\ ~Sending =>
    /\ job.before = Len(written)
    /\ \A f \in DOMAIN written : written[f] # job.req
    /\ \A e \in Events : e.of # job.req
Since == job.before + 1 .. Len(written)
Returned ==
  job.at = "settling" \/ Sending =>
    /\ job.before <= Len(written)
    /\ Own(job.req) = Since
    /\ \A e \in Events : e.of = job.req => e.files = Since

(* Without a late driver, a job that runs finds its own events alone.      *)
SinkOwn ==
  ~late => /\ ~misled /\ ~job.foreign
           /\ Active => \A i \in DOMAIN sink : sink[i].of = job.req

(* The files still to be sent are the last of the job's own, in order; the *)
(* ones before them have been sent, and the first when its send returned.  *)
Left == Len(written) - Len(job.paths)
SentTo == IF job.at = "settling" THEN Left + 1 ELSE Left
Progress ==
  ~late /\ Active =>
    IF Sending
    THEN /\ job.before <= Left
         /\ \A i \in DOMAIN job.paths : job.paths[i] = Left + i
         /\ \A f \in Nat : SentFor(job.req, f) <=> f \in job.before + 1 .. SentTo
    ELSE \A f \in Nat : ~SentFor(job.req, f)

(* What is sent is sent for the request that wrote it.                     *)
SentOwn == ~late => \A s \in sent : s.file \in DOMAIN written /\ written[s.file] = s.by

(* The answer to a payment, against what was broadcast for it.             *)
Fits(r, answer) ==
  /\ \A f, g \in Own(r) : SentFor(r, f) /\ ~SentFor(r, g) => f < g
  /\ answer = "ok" => Own(r) # {} /\ \A f \in Own(r) : SentFor(r, f)
  /\ answer = "error" => Own(r) = {} \/ \E f \in Own(r) : ~SentFor(r, f)
Settled ==
  ~late => \A r \in Requests : kind[r] = "Pay" /\ outcome[r] # "none" => Fits(r, outcome[r])

FileTypes ==
  /\ sink \in Seq(Event) /\ drivers \in SUBSET Event
  /\ written \in Seq(Requests) /\ Len(written) <= MaxFiles
  /\ sent \in SUBSET [file : Files, by : Requests]
JobFiles == EventFiles /\ OnlyStarted /\ Phases /\ Fresh /\ Returned
Answers == SinkOwn /\ Progress /\ SentOwn /\ Settled
PayInv == FileTypes /\ job \in Job /\ JobFiles /\ Answers

LEMMA Typed ==
  ASSUME FileTypes
  PROVE  /\ \A f \in DOMAIN written : written[f] \in Requests
         /\ \A s \in sent : s.by \in Requests
         /\ \A e \in Events : e \in Event /\ e.of \in Requests
<1>1. \A f \in DOMAIN written : written[f] \in Requests
  BY DEF FileTypes
<1>2. \A s \in sent : s.by \in Requests
  BY DEF FileTypes
<1>3. \A i \in DOMAIN sink : sink[i] \in Event
  BY DEF FileTypes
<1>4. \A e \in Events : e \in Event
  BY <1>3 DEF FileTypes, Events
<1>5. \A e \in Event : e.of \in Requests
  BY DEF Event
<1>6. QED
  BY <1>1, <1>2, <1>4, <1>5

(* A request without a command so far has no files, broadcasts or events.  *)
LEMMA NotStarted ==
  ASSUME OnlyStarted, NEW r \in Requests, outcome[r] = "none", ~(r = job.req /\ Active)
  PROVE  /\ Own(r) = {}
         /\ \A f \in DOMAIN written : written[f] # r
         /\ \A f : ~SentFor(r, f)
         /\ \A e \in Events : e.of # r
<1>1. ~Started(r)
  BY DEF Started
<1>2. \A f : SentFor(r, f) => Started(r)
  BY DEF SentFor, OnlyStarted
<1>3. QED
  BY <1>1, <1>2 DEF OnlyStarted, Own

(* Steps of callers and of the listener.                                   *)
LEMMA PayStays ==
  ASSUME Inv, PayInv,
         UNCHANGED <<job, written, sent, sink, drivers, outcome, misled, late>>,
         \A r \in Requests : kind'[r] = kind[r] \/ (outcome[r] = "none" /\ r # job.req)
  PROVE  PayInv'
<1>1. FileTypes' /\ (job \in Job)'
  BY DEF PayInv, FileTypes
<1>2. EventFiles' /\ OnlyStarted' /\ Fresh' /\ Returned'
  BY DEF PayInv, JobFiles, EventFiles, OnlyStarted, Fresh, Returned, Events, Started, Active,
     Since, Own, Sending
<1>3. Phases'
  <2>1. job.at # "none" => kind'[job.req] = kind[job.req]
    BY InHandFacts
  <2>2. QED
    BY <2>1 DEF PayInv, JobFiles, Phases, Sending, Active
<1>4. SinkOwn' /\ Progress' /\ SentOwn'
  BY DEF PayInv, Answers, SinkOwn, Progress, SentOwn, SentTo, Left, SentFor, Active, Sending
<1>5. Settled'
  BY DEF PayInv, Answers, Settled, Fits, Own, SentFor
<1>6. QED
  BY <1>1, <1>2, <1>3, <1>4, <1>5 DEF PayInv, JobFiles, Answers

(* However far the job in hand has come, what it has sent comes before     *)
(* what it has not.                                                        *)
LEMMA InOrderSoFar ==
  ASSUME Inv, PayInv, ~late, job.at # "none"
  PROVE  Fits(job.req, "cut")
<1>1. job.req \in Requests /\ outcome[job.req] = "none"
  BY InHandFacts DEF InService
<1>2. CASE ~Active
  BY <1>1, <1>2, NotStarted DEF PayInv, JobFiles, Fits
<1>3. CASE Active /\ ~Sending
  BY <1>3 DEF PayInv, FileTypes, Answers, Progress, Fits, Own
<1>4. CASE Active /\ Sending
  <2>1. Own(job.req) = Since /\ \A f \in Nat : SentFor(job.req, f) <=> f \in job.before + 1 .. SentTo
    BY <1>4 DEF PayInv, JobFiles, Returned, Answers, Progress
  <2>2. job.before \in Nat /\ Len(written) \in Nat /\ SentTo \in Int
    BY DEF PayInv, FileTypes, Job, SentTo, Left
  <2>3. QED
    BY <2>1, <2>2 DEF Fits, Since
<1>5. QED
  BY <1>2, <1>3, <1>4

LEMMA NoJobAtAll ==
  NoJob.paths = <<>> /\ NoJob.foreign = FALSE /\ NoJob.at = "none" /\ NoJob \in Job
<1>1. NoJob.paths = <<>> /\ NoJob.foreign = FALSE /\ NoJob.at = "none"
  BY DEF NoJob
<1>2. <<>> \in Seq(Files) /\ 0 \in 0 .. MaxFiles
  BY FilesAssumption
<1>3. QED
  BY <1>1, <1>2 DEF NoJob, Job

(* The end of a job, answered or cut.                                      *)
LEMMA PayEnds ==
  ASSUME Inv, PayInv, NEW answer \in {"ok", "error", "cut"},
         job' = NoJob,
         \A r \in Requests : outcome'[r] = IF r = job.req THEN answer ELSE outcome[r],
         UNCHANGED <<kind, written, sent, late>>,
         FileTypes', Events' \subseteq Events,
         ~late => ~misled',
         ~late /\ job.req \in Requests /\ kind[job.req] = "Pay" => Fits(job.req, answer)
  PROVE  PayInv'
<1>1. (job \in Job)' /\ job'.paths = <<>> /\ job'.foreign = FALSE /\ job'.at = "none"
  BY NoJobAtAll
<1>2. ~Sending' /\ ~Active'
  BY <1>1 DEF Sending, Active
<1>3. EventFiles' /\ Phases' /\ Fresh' /\ Returned'
  BY <1>1, <1>2 DEF PayInv, JobFiles, EventFiles, Phases, Fresh, Returned
<1>4. OnlyStarted'
  <2>1. \A r \in Requests : Started(r) => Started(r)'
    BY DEF Started
  <2>2. /\ \A f \in DOMAIN written : written[f] \in Requests
        /\ \A s \in sent : s.by \in Requests
        /\ \A e \in Events : e.of \in Requests
    BY Typed DEF PayInv
  <2>3. QED
    BY <2>1, <2>2 DEF PayInv, JobFiles, OnlyStarted
<1>5. SinkOwn' /\ Progress' /\ SentOwn'
  BY <1>1, <1>2 DEF PayInv, Answers, SinkOwn, Progress, SentOwn
<1>6. Settled'
  <2> SUFFICES ASSUME ~late, NEW r \in Requests, kind[r] = "Pay", outcome'[r] # "none"
               PROVE  Fits(r, outcome[r])'
    BY DEF Settled
  <2>2. Fits(r, outcome'[r])
    <3>1. CASE r = job.req
      BY <3>1
    <3>2. CASE r # job.req
      BY <3>2 DEF PayInv, Answers, Settled
    <3>3. QED
      BY <3>1, <3>2
  <2>3. QED
    BY <2>2 DEF Fits, Own, SentFor
<1>7. QED
  BY <1>1, <1>3, <1>4, <1>5, <1>6 DEF PayInv, JobFiles, Answers

(* Jobs that come into the executor's hands, and events that come in late. *)
LEMMA PayReceives == Inv /\ PayInv /\ Receive => PayInv'
<1> SUFFICES ASSUME Inv, PayInv, Receive PROVE PayInv'
  OBVIOUS
<1> USE DEF caller_vars, wallet_vars, history
<1>1. job = NoJob /\ UNCHANGED <<kind, written, sent, late, sink, drivers, outcome, misled>>
  BY DEF Receive
<1>2. Head(queue) \in Requests /\ job' = [NoJob EXCEPT !.req = Head(queue), !.at = "received"]
  BY DEF Receive, Inv, ApiTypes
<1>3. (job \in Job)' /\ job'.at = "received" /\ job'.paths = <<>> /\ job'.foreign = FALSE
  BY <1>2, NoJobAtAll DEF Job
<1>4. ~Sending' /\ ~Active' /\ ~Active
  BY <1>1, <1>3, NoJobAtAll DEF Sending, Active
<1>5. FileTypes' /\ EventFiles' /\ Phases' /\ Fresh' /\ Returned'
  BY <1>1, <1>3, <1>4
  DEF PayInv, FileTypes, JobFiles, EventFiles, Phases, Fresh, Returned, Events
<1>6. OnlyStarted'
  BY <1>1, <1>4 DEF PayInv, JobFiles, OnlyStarted, Started, Events
<1>7. SinkOwn' /\ Progress' /\ SentOwn' /\ Settled'
  BY <1>1, <1>3, <1>4
  DEF PayInv, Answers, SinkOwn, Progress, SentOwn, Settled, Fits, Own, SentFor
<1>8. QED
  BY <1>3, <1>5, <1>6, <1>7 DEF PayInv, JobFiles, Answers

LEMMA PayDriverWrites == Inv /\ PayInv /\ DriverWrites => PayInv'
<1> SUFFICES ASSUME Inv, PayInv, DriverWrites PROVE PayInv'
  OBVIOUS
<1> USE DEF caller_vars, wallet_vars, history
<1>1. UNCHANGED <<kind, job, written, sent, outcome, misled>>
  BY DEF DriverWrites
<1>2. PICK e \in drivers :
        /\ drivers' = drivers \ {e} /\ sink' = Append(sink, e)
        /\ late' = (late \/ (Active /\ e.of # job.req))
  BY DEF DriverWrites, Active
<1>3. sink \in Seq(Event) /\ e \in Event
  BY DEF PayInv, FileTypes
<1>4. /\ sink' \in Seq(Event)
      /\ \A i \in DOMAIN sink' : sink'[i] = e \/ (i \in DOMAIN sink /\ sink'[i] = sink[i])
  BY <1>2, <1>3
<1>5. Events' \subseteq Events
  BY <1>2, <1>4 DEF Events
<1>6. FileTypes' /\ (job \in Job)'
  BY <1>1, <1>2, <1>4 DEF PayInv, FileTypes
<1>7. JobFiles'
  BY <1>1, <1>5
  DEF PayInv, JobFiles, EventFiles, OnlyStarted, Phases, Fresh, Returned, Started, Active,
      Since, Own, Sending
<1>8. Answers'
  <2> SUFFICES ASSUME ~late' PROVE Answers'
    BY DEF Answers, SinkOwn, Progress, SentOwn, Settled
  <2>1. ~late /\ (Active => e.of = job.req)
    BY <1>2
  <2>2. SinkOwn'
    BY <1>1, <1>4, <2>1 DEF PayInv, Answers, SinkOwn, Active
  <2>3. Progress'
    BY <1>1, <2>1 DEF PayInv, Answers, Progress, SentFor, SentTo, Left, Active, Sending
  <2>4. SentOwn' /\ Settled'
    BY <1>1, <2>1 DEF PayInv, Answers, SentOwn, Settled, Fits, Own, SentFor
  <2>5. QED
    BY <2>2, <2>3, <2>4 DEF Answers
<1>9. QED
  BY <1>6, <1>7, <1>8 DEF PayInv

(* A job starts from an empty sink, with nothing of its own anywhere.      *)
LEMMA PayBegins == Inv /\ PayInv /\ Begin => PayInv'
<1> SUFFICES ASSUME Inv, PayInv, Begin PROVE PayInv'
  OBVIOUS
<1> DEFINE r == job.req
           next == IF kind[r] = "Plan" THEN "planning" ELSE "running"
<1>1. /\ job.at = "received" /\ UNCHANGED <<kind, drivers, written, sent, late, outcome, misled>>
      /\ sink' = IF kind[r] = "Plan" THEN sink ELSE <<>>
  BY DEF Begin, SinkAtStart, caller_vars, wallet_vars, history
<1>2. job' = [job EXCEPT !.before = Len(written), !.at = next]
  BY DEF Begin, FilesBefore
<1>3. r \in Requests /\ outcome[r] = "none" /\ ~Active
  BY <1>1, InHandFacts DEF InService, Active
<1>4. job \in Job /\ Len(written) \in 0 .. MaxFiles /\ next \in {"planning", "running"}
  BY FilesAssumption DEF PayInv, FileTypes
<1> HIDE DEF next
<1>5. /\ (job \in Job)' /\ job'.req = r /\ job'.before = Len(written) /\ job'.at = next
      /\ job'.paths = job.paths /\ job'.foreign = job.foreign
  BY <1>2, <1>4 DEF Job
<1>6. ~Sending /\ ~Sending' /\ (Active' <=> next = "running")
  BY <1>3, <1>4, <1>5 DEF PayInv, JobFiles, Phases, Sending, Active
<1>7. /\ \A f \in DOMAIN written : written[f] # r
      /\ \A f : ~SentFor(r, f)
      /\ \A e \in Events : e.of # r
  BY <1>3, NotStarted DEF PayInv, JobFiles
<1>8. FileTypes' /\ Events' \subseteq Events
  BY <1>1 DEF PayInv, FileTypes, Events
<1>9. JobFiles'
  <2>1. EventFiles' /\ OnlyStarted'
    <3>1. \A q \in Requests : Started(q) => Started(q)'
      BY <1>1, <1>3 DEF Started
    <3>2. /\ \A f \in DOMAIN written : written[f] \in Requests
          /\ \A s \in sent : s.by \in Requests
          /\ \A e \in Events : e.of \in Requests
      BY Typed DEF PayInv
    <3>3. QED
      BY <1>1, <1>8, <3>1, <3>2 DEF PayInv, JobFiles, EventFiles, OnlyStarted
  <2>2. Phases'
    BY <1>1, <1>5, <1>6 DEF Phases, next
  <2>3. Fresh' /\ Returned'
    BY <1>1, <1>4, <1>5, <1>6, <1>7, <1>8 DEF Fresh, Returned
  <2>4. QED
    BY <2>1, <2>2, <2>3 DEF JobFiles
<1>10. Answers'
  <2>1. SinkOwn'
    BY <1>1, <1>5, <1>6 DEF PayInv, Answers, SinkOwn, next
  <2>2. Progress'
    BY <1>1, <1>5, <1>6, <1>7 DEF Progress, SentFor
  <2>3. SentOwn' /\ Settled'
    BY <1>1 DEF PayInv, Answers, SentOwn, Settled, Fits, Own, SentFor
  <2>4. QED
    BY <2>1, <2>2, <2>3 DEF Answers
<1>11. QED
  BY <1>5, <1>8, <1>9, <1>10 DEF PayInv

(* A command returns: what it has written, and its event if it has one,    *)
(* are all of this job's.                                                  *)
LEMMA PayCommandReturns == Inv /\ PayInv /\ CommandReturns => PayInv'
<1> SUFFICES ASSUME Inv, PayInv, CommandReturns PROVE PayInv'
  OBVIOUS
<1> DEFINE r == job.req
           L == Len(written)
<1>1. /\ job.at = "running" /\ ~Sending /\ job' = [job EXCEPT !.at = "settling"]
      /\ UNCHANGED <<kind, sink, sent, late, outcome, misled>>
  BY DEF CommandReturns, caller_vars, history
<1>2. PICK n \in 0 .. MaxFiles - L :
        /\ written' = written \o [i \in 1 .. n |-> r]
        /\ drivers' \in {drivers, drivers \cup {[of |-> r, files |-> L + 1 .. L + n]}}
  BY <1>1 DEF CommandReturns
<1>3. r \in Requests /\ outcome[r] = "none"
  BY <1>1, InHandFacts DEF InService
<1>4. job \in Job /\ written \in Seq(Requests) /\ L \in 0 .. MaxFiles /\ n \in Nat
  BY <1>2, FilesAssumption DEF PayInv, FileTypes
<1>5. /\ (job \in Job)' /\ job'.req = r /\ job'.before = job.before /\ job'.at = "settling"
      /\ job'.paths = job.paths /\ job'.foreign = job.foreign
  BY <1>1, <1>4 DEF Job
<1>6. ~Sending' /\ Active /\ Active'
  BY <1>1, <1>5 DEF Sending, Active
<1>7. /\ written' \in Seq(Requests) /\ Len(written') = L + n
      /\ \A f \in DOMAIN written : f \in DOMAIN written' /\ written'[f] = written[f]
      /\ \A f \in DOMAIN written' : f \in DOMAIN written \/ (f \in L + 1 .. L + n /\ written'[f] = r)
      /\ \A f \in L + 1 .. L + n : f \in DOMAIN written' /\ written'[f] = r
  <2>1. [i \in 1 .. n |-> r] \in Seq(Requests) /\ Len([i \in 1 .. n |-> r]) = n
    BY <1>3, <1>4
  <2>2. \A i \in 1 .. n : [j \in 1 .. n |-> r][i] = r
    OBVIOUS
  <2> DEFINE new == [i \in 1 .. n |-> r]
  <2>3. written' = written \o new
    BY <1>2
  <2> HIDE DEF new
  <2>4. QED
    BY <1>3, <1>4, <2>1, <2>2, <2>3 DEF new
<1>8. /\ \A f \in DOMAIN written : written[f] # r
      /\ job.before = L
      /\ \A e \in Events : e.of # r
  BY <1>1 DEF PayInv, JobFiles, Fresh
<1>9. \A e \in Events' : e \in Events \/ e = [of |-> r, files |-> L + 1 .. L + n]
  BY <1>1, <1>2 DEF Events
<1>10. FileTypes'
  <2>1. L + 1 .. L + n \subseteq Files
    BY <1>2, <1>4, FilesAssumption DEF Files
  <2>2. [of |-> r, files |-> L + 1 .. L + n] \in Event
    BY <1>3, <2>1 DEF Event
  <2>3. drivers' \in SUBSET Event
    BY <1>2, <2>2 DEF PayInv, FileTypes
  <2>4. Len(written') <= MaxFiles
    BY <1>2, <1>4, <1>7, FilesAssumption
  <2>5. QED
    BY <1>1, <1>7, <2>3, <2>4 DEF PayInv, FileTypes
<1>11. JobFiles'
  <2>1. EventFiles'
    <3>1. InARow(L + 1 .. L + n)
      BY <1>4 DEF InARow
    <3>2. QED
      BY <1>9, <3>1 DEF PayInv, JobFiles, EventFiles
  <2>2. OnlyStarted'
    <3>1. \A q \in Requests : Started(q) => Started(q)'
      BY <1>1, <1>5, <1>6 DEF Started
    <3>2. Started(r)'
      BY <1>5, <1>6 DEF Started
    <3>3. QED
      <4>1. \A f \in DOMAIN written' : Started(written[f])'
        BY <1>3, <1>5, <1>7, <3>1, <3>2, Typed DEF PayInv, JobFiles, OnlyStarted
      <4>2. \A e \in Events' : e \in Events \/ e.of = r
        BY <1>9
      <4>3. \A e \in Events' : Started(e.of)'
        BY <1>5, <3>1, <3>2, <4>2, Typed DEF PayInv, JobFiles, OnlyStarted
      <4>4. \A s \in sent' : Started(s.by)'
        BY <1>1, <3>1, Typed DEF PayInv, JobFiles, OnlyStarted
      <4>5. QED
        BY <4>1, <4>3, <4>4 DEF OnlyStarted
  <2>3. Phases' /\ Fresh'
    BY <1>5, <1>6 DEF Phases, Fresh
  <2>4. Returned'
    <3>1. Own(r)' = L + 1 .. L + n
      BY <1>4, <1>5, <1>7, <1>8 DEF Own
    <3>2. QED
      BY <1>4, <1>5, <1>7, <1>8, <1>9, <3>1 DEF Returned, Since, Own
  <2>5. QED
    BY <2>1, <2>2, <2>3, <2>4 DEF JobFiles
<1>12. Answers'
  <2>1. SinkOwn'
    BY <1>1, <1>5, <1>6 DEF PayInv, Answers, SinkOwn
  <2>2. Progress'
    BY <1>1, <1>5, <1>6 DEF PayInv, Answers, Progress, SentFor
  <2>3. SentOwn'
    BY <1>1, <1>7 DEF PayInv, Answers, SentOwn
  <2>4. Settled'
    <3>1. ASSUME NEW q \in Requests, q # r PROVE Own(q)' = Own(q)
      BY <1>7, <3>1 DEF Own
    <3>2. ASSUME NEW q \in Requests, q # r, NEW a, Fits(q, a) PROVE Fits(q, a)'
      BY <1>1, <3>1, <3>2 DEF Fits, SentFor
    <3>3. QED
      BY <1>1, <1>3, <3>1 DEF PayInv, Answers, Settled, Fits, SentFor
  <2>5. QED
    BY <2>1, <2>2, <2>3, <2>4 DEF Answers
<1>13. QED
  BY <1>5, <1>10, <1>11, <1>12 DEF PayInv

(* A send returns: one file more is out, the job's next.                   *)
LEMMA PaySendReturns == Inv /\ PayInv /\ SendReturns => PayInv'
<1> SUFFICES ASSUME Inv, PayInv, SendReturns PROVE PayInv'
  OBVIOUS
<1> DEFINE r == job.req
           s == [file |-> Head(job.paths), by |-> r]
<1>1. /\ job.at = "running" /\ Sending /\ job' = [job EXCEPT !.at = "settling"]
      /\ sent' = sent \cup {s}
      /\ UNCHANGED <<kind, sink, drivers, written, late, outcome, misled>>
  BY DEF SendReturns, caller_vars, history
<1>3. r \in Requests /\ outcome[r] = "none"
  BY <1>1, InHandFacts DEF InService
<1>4. /\ job \in Job /\ job.paths \in Seq(Files) /\ job.paths # <<>> /\ Len(written) \in Nat
      /\ job.before \in Nat
  BY <1>1 DEF PayInv, FileTypes, Job, Sending
<1>5. /\ (job \in Job)' /\ job'.req = r /\ job'.before = job.before /\ job'.at = "settling"
      /\ job'.paths = job.paths /\ job'.foreign = job.foreign
  BY <1>1, <1>4 DEF Job
<1>6. Sending' /\ Active /\ Active'
  BY <1>1, <1>5 DEF Sending, Active
<1>7. Head(job.paths) = job.paths[1] /\ 1 \in DOMAIN job.paths /\ Len(job.paths) \in Nat \ {0}
      /\ Head(job.paths) \in Files
  BY <1>4
<1>8. FileTypes'
  <2>1. s \in [file : Files, by : Requests]
    BY <1>3, <1>7
  <2> HIDE DEF s
  <2>2. QED
    BY <1>1, <2>1 DEF PayInv, FileTypes
<1>9. Events' = Events
  BY <1>1 DEF Events
<1>10. JobFiles'
  <2>1. EventFiles'
    BY <1>9 DEF PayInv, JobFiles, EventFiles
  <2>2. OnlyStarted'
    <3>1. \A q \in Requests : Started(q) => Started(q)'
      BY <1>1, <1>5, <1>6 DEF Started
    <3>2. Started(r)' /\ s.by = r
      BY <1>5, <1>6 DEF Started
    <3> HIDE DEF s
    <3>3. QED
      BY <1>1, <1>9, <3>1, <3>2, Typed DEF PayInv, JobFiles, OnlyStarted
  <2>3. Phases' /\ Fresh'
    BY <1>1, <1>5, <1>6 DEF Phases, Fresh, PayInv, JobFiles
  <2>4. Returned'
    BY <1>1, <1>5, <1>6, <1>9 DEF PayInv, JobFiles, Returned, Since, Own
  <2>5. QED
    BY <2>1, <2>2, <2>3, <2>4 DEF JobFiles
<1>11. ASSUME ~late PROVE Answers'
  <2>1. /\ job.before <= Left /\ job.paths[1] = Left + 1
        /\ \A i \in DOMAIN job.paths : job.paths[i] = Left + i
        /\ \A f \in Nat : SentFor(r, f) <=> f \in job.before + 1 .. Left
    BY <1>1, <1>6, <1>7, <1>11 DEF PayInv, Answers, Progress, SentTo
  <2>2. Left \in Nat /\ Left + 1 <= Len(written) /\ Left' = Left /\ SentTo' = Left + 1
    BY <1>1, <1>4, <1>5, <1>7, <2>1 DEF Left, SentTo
  <2>3. \A q, f : SentFor(q, f)' <=> SentFor(q, f) \/ (q = r /\ f = Left + 1)
    BY <1>1, <1>7, <2>1 DEF SentFor
  <2>4. SinkOwn'
    BY <1>1, <1>5, <1>6 DEF PayInv, Answers, SinkOwn, Active
  <2>5. Progress'
    <3>1. \A f \in Nat : SentFor(r, f)' <=> f \in job.before + 1 .. Left + 1
      BY <1>4, <1>5, <2>1, <2>2, <2>3
    <3>2. QED
      BY <1>5, <1>6, <2>1, <2>2, <3>1 DEF Progress, SentFor
  <2>6. SentOwn'
    <3>1. Left + 1 \in Own(r)
      BY <1>1, <1>4, <2>1, <2>2 DEF PayInv, JobFiles, Returned, Since
    <3>2. s.file \in DOMAIN written /\ written[s.file] = s.by
      BY <1>7, <2>1, <3>1 DEF Own
    <3> HIDE DEF s
    <3>3. QED
      BY <1>1, <1>11, <3>2 DEF PayInv, Answers, SentOwn
  <2>7. Settled'
    BY <1>1, <1>3, <2>3 DEF PayInv, Answers, Settled, Fits, Own
  <2>8. QED
    BY <2>4, <2>5, <2>6, <2>7 DEF Answers
<1>12. Answers'
  BY <1>1, <1>11 DEF Answers, SinkOwn, Progress, SentOwn, Settled
<1>13. QED
  BY <1>5, <1>8, <1>10, <1>12 DEF PayInv

(* The files to be sent.                                                   *)
LEMMA MinIsLeast ==
  ASSUME NEW S \in SUBSET Nat, S # {}
  PROVE  Min(S) \in S /\ \A m \in S : Min(S) <= m
<1> DEFINE T == {0 .. n : n \in S}
<1>1. T \subseteq FiniteSubsetsOf(Nat) /\ T # {}
  <2>1. \A n \in S : IsFiniteSet(0 .. n) /\ 0 .. n \in SUBSET Nat
    BY FS_Interval
  <2>2. QED
    BY <2>1 DEF FiniteSubsetsOf
<1>2. \E x \in T : \A y \in T : ~(<<y, x>> \in StrictSubsetOrdering(Nat))
  BY <1>1, FS_StrictSubsetOrderingWellFounded, WFMin
<1>3. \E x \in S : \A y \in S : ~(<<0 .. y, 0 .. x>> \in StrictSubsetOrdering(Nat))
  BY <1>2
<1>4. PICK x \in S : \A y \in S : ~(<<0 .. y, 0 .. x>> \in StrictSubsetOrdering(Nat))
  BY <1>3
<1>5. ASSUME NEW y \in S, y < x PROVE FALSE
  <2>1. 0 .. y \subseteq 0 .. x /\ 0 .. y # 0 .. x
    BY <1>5
  <2>2. 0 .. y \in SUBSET Nat /\ 0 .. x \in SUBSET Nat
    OBVIOUS
  <2>3. <<0 .. y, 0 .. x>> \in StrictSubsetOrdering(Nat)
    BY <2>1, <2>2 DEF StrictSubsetOrdering
  <2>4. QED
    BY <1>4, <2>3
<1>6. \A y \in S : x <= y
  BY <1>5
<1>7. QED
  BY <1>6 DEF Min

(* The paths found in an event, or on the disk, are files; without a late  *)
(* driver they are all that the job has written, in order.                 *)
LEMMA PathsFound ==
  ASSUME PayInv, job.at = "settling", ~Sending
  PROVE  /\ PathsToSend \in Seq(Files)
         /\ ~late => /\ Len(PathsToSend) = Len(written) - job.before
                     /\ \A i \in DOMAIN PathsToSend : PathsToSend[i] = job.before + i
<1> DEFINE naming == {i \in DOMAIN sink : sink[i].files # {}}
           e == sink[Min(naming)]
<1>1. /\ job.before \in Nat /\ Len(written) \in Nat /\ Len(written) <= MaxFiles
      /\ job.before <= Len(written) /\ MaxFiles \in Nat
  BY FilesAssumption DEF PayInv, FileTypes, Job, JobFiles, Returned
<1>2. CASE naming = {}
  <2>1. PathsToSend = NewFiles
    BY <1>2 DEF PathsToSend
  <2>2. \A i \in 1 .. Len(written) - job.before : job.before + i \in Files
    BY <1>1 DEF Files
  <2>3. Len(written) - job.before \in Nat
    BY <1>1
  <2>4. QED
    BY <2>1, <2>2, <2>3 DEF NewFiles
<1>3. CASE naming # {}
  <2>1. Min(naming) \in naming
    <3>1. naming \in SUBSET Nat
      BY DEF PayInv, FileTypes
    <3>2. QED
      BY <1>3, <3>1, MinIsLeast
  <2>2. e \in Event /\ e \in Events /\ e.files # {}
    <3>1. Min(naming) \in DOMAIN sink /\ e.files # {}
      BY <2>1
    <3>2. sink \in Seq(Event)
      BY DEF PayInv, FileTypes
    <3> HIDE DEF naming
    <3>3. QED
      BY <3>1, <3>2 DEF Events
  <2>3. PICK a \in Nat, b \in Nat : e.files = a + 1 .. b
    BY <2>2 DEF PayInv, JobFiles, EventFiles, InARow
  <2> HIDE DEF e
  <2>4. a + 1 <= b /\ b <= MaxFiles
    <3>1. a + 1 .. b \subseteq 1 .. MaxFiles /\ a + 1 .. b # {}
      BY <2>2, <2>3 DEF Event, Files
    <3>2. a + 1 <= b
      BY <3>1
    <3>3. b \in a + 1 .. b
      BY <3>2
    <3>4. QED
      BY <1>1, <3>1, <3>2, <3>3
  <2>5. Cardinality(e.files) = b - a
    BY <2>3, <2>4, FS_Interval
  <2>6. Min(e.files) = a + 1
    <3>1. e.files \in SUBSET Nat
      BY <2>3
    <3>2. Min(e.files) \in e.files /\ Min(e.files) <= a + 1
      <4>1. a + 1 \in e.files
        BY <2>3, <2>4
      <4>2. QED
        BY <3>1, <4>1, MinIsLeast
    <3>3. QED
      BY <2>3, <3>2
  <2>7. PathsToSend = [i \in 1 .. b - a |-> a + 1 + i - 1]
    BY <1>3, <2>5, <2>6 DEF PathsToSend, e
  <2>8. /\ PathsToSend \in Seq(Files) /\ Len(PathsToSend) = b - a
        /\ \A i \in DOMAIN PathsToSend : PathsToSend[i] = a + i
    <3>1. \A i \in 1 .. b - a : a + 1 + i - 1 = a + i /\ a + i \in Files
      BY <1>1, <2>4 DEF Files
    <3>2. b - a \in Nat
      BY <2>4
    <3>3. QED
      BY <2>7, <3>1, <3>2
  <2>9. ASSUME ~late PROVE a = job.before /\ b = Len(written)
    <3>1. e.of = job.req
      BY <2>1, <2>9 DEF PayInv, Answers, SinkOwn, Active, e
    <3>2. e.files = job.before + 1 .. Len(written)
      BY <2>2, <3>1 DEF PayInv, JobFiles, Returned, Since
    <3>3. QED
      BY <1>1, <2>3, <2>4, <3>2
  <2>10. QED
    BY <2>8, <2>9
<1>4. QED
  BY <1>2, <1>3

LEMMA TailFacts ==
  ASSUME NEW S, NEW s \in Seq(S), s # <<>>
  PROVE  /\ Tail(s) \in Seq(S) /\ Len(s) \in Nat \ {0} /\ Len(Tail(s)) = Len(s) - 1
         /\ Tail(s) = <<>> => Len(s) = 1
         /\ \A i \in DOMAIN Tail(s) : i \in Nat /\ i + 1 \in DOMAIN s /\ Tail(s)[i] = s[i + 1]
<1>1. Len(s) \in Nat \ {0} /\ DOMAIN s = 1 .. Len(s)
  OBVIOUS
<1>2. Tail(s) \in Seq(S) /\ Len(Tail(s)) = Len(s) - 1
  OBVIOUS
<1>3. Tail(s) = <<>> => Len(s) = 1
  <2>1. \A t : t = <<>> => Len(t) = 0
    OBVIOUS
  <2>2. Tail(s) = <<>> => Len(Tail(s)) = 0
    BY <2>1
  <2>3. QED
    BY <1>1, <1>2, <2>2
<1>4. \A i \in 1 .. Len(s) - 1 : Tail(s)[i] = s[i + 1]
  BY <1>1
<1>5. DOMAIN Tail(s) = 1 .. Len(s) - 1
  BY <1>1, <1>2
<1>6. QED
  BY <1>1, <1>2, <1>3, <1>4, <1>5

(* What has been broadcast and answered stays right where nothing is added.*)
LEMMA HistoryStays ==
  ASSUME SentOwn, Settled, UNCHANGED <<kind, written, sent, late, outcome>>
  PROVE  SentOwn' /\ Settled'
  BY DEF SentOwn, Settled, Fits, Own, SentFor

(* The loop goes on: with the first file, or the next.                     *)
LEMMA PayGoesOn ==
  ASSUME Inv, PayInv, job.at = "settling", kind[job.req] = "Pay", NEW paths \in Seq(Files),
         paths # <<>>, NEW foreign \in BOOLEAN, ~late => ~foreign,
         job' = [job EXCEPT !.at = "running", !.paths = paths, !.foreign = foreign],
         NEW gone \in Int, gone = Len(written) - Len(paths),
         ~late =>
           /\ job.before <= gone
           /\ \A i \in DOMAIN paths : paths[i] = gone + i
           /\ \A f \in Nat : SentFor(job.req, f) <=> f \in job.before + 1 .. gone,
         UNCHANGED <<kind, sink, drivers, written, sent, late, outcome, misled>>
  PROVE  PayInv'
<1> DEFINE r == job.req
<1>1. r \in Requests /\ outcome[r] = "none" /\ job \in Job
  BY InHandFacts DEF InService, PayInv
<1>2. /\ (job \in Job)' /\ job'.req = r /\ job'.before = job.before /\ job'.at = "running"
      /\ job'.paths = paths /\ job'.foreign = foreign
  BY <1>1 DEF Job
<1>3. Sending' /\ Active /\ Active'
  BY <1>2 DEF Sending, Active
<1>4. FileTypes' /\ Events' = Events
  BY DEF PayInv, FileTypes, Events
<1>5. EventFiles' /\ OnlyStarted' /\ Phases' /\ Fresh'
  <2>1. \A q : Started(q) => Started(q)'
    BY <1>2, <1>3 DEF Started
  <2>2. QED
    BY <1>2, <1>3, <1>4, <2>1 DEF PayInv, JobFiles, EventFiles, OnlyStarted, Phases, Fresh
<1>6. Returned'
  BY <1>2, <1>3, <1>4 DEF PayInv, JobFiles, Returned, Since, Own
<1>7. SinkOwn' /\ SentOwn' /\ Settled'
  <2>1. SinkOwn'
    BY <1>2, <1>3 DEF PayInv, Answers, SinkOwn
  <2>2. SentOwn' /\ Settled'
    BY HistoryStays DEF PayInv, Answers
  <2>3. QED
    BY <2>1, <2>2
<1>8. Progress'
  <2> SUFFICES ASSUME ~late PROVE Progress'
    BY DEF Progress
  <2>1. Left' = Len(written) - Len(paths) /\ SentTo' = Left'
    BY <1>2 DEF Left, SentTo
  <2>2. QED
    BY <1>2, <1>3, <2>1 DEF Progress, SentFor
<1>9. QED
  BY <1>2, <1>4, <1>5, <1>6, <1>7, <1>8 DEF PayInv, JobFiles, Answers

LEMMA PayAnswered ==
  ASSUME Inv, PayInv, job.at # "none", NEW answer \in {"ok", "error"}, NEW foreign \in BOOLEAN,
         Respond(answer, foreign), ~late => ~foreign, sink' \in {sink, <<>>},
         UNCHANGED <<kind, drivers, written, sent, late>>,
         ~late /\ kind[job.req] = "Pay" => Fits(job.req, answer)
  PROVE  PayInv'
<1>1. job' = NoJob /\ outcome' = [outcome EXCEPT ![job.req] = answer]
      /\ misled' = (misled \/ foreign)
  BY DEF Respond
<1>2. \A r \in Requests : outcome'[r] = IF r = job.req THEN answer ELSE outcome[r]
  BY <1>1 DEF Inv, ApiTypes
<1>3. ~late => ~misled'
  BY <1>1 DEF PayInv, Answers, SinkOwn
<1>4. FileTypes' /\ Events' \subseteq Events
  <2>1. sink' \in Seq(Event)
    <3>1. sink \in Seq(Event) /\ <<>> \in Seq(Event)
      BY DEF PayInv, FileTypes
    <3>2. QED
      BY <3>1
  <2>2. FileTypes'
    BY <2>1 DEF PayInv, FileTypes
  <2>3. \A i \in DOMAIN sink' : i \in DOMAIN sink /\ sink'[i] = sink[i]
    OBVIOUS
  <2>4. QED
    BY <2>2, <2>3 DEF Events
<1>5. QED
  BY <1>1, <1>2, <1>3, <1>4, PayEnds

LEMMA ForeignSeenFacts ==
  ASSUME PayInv
  PROVE  ForeignSeen \in BOOLEAN /\ (~late /\ Active => ~ForeignSeen)
<1>1. job.foreign \in BOOLEAN
  BY DEF PayInv, Job
<1>2. ForeignSeen \in BOOLEAN
  BY <1>1 DEF ForeignSeen
<1>3. ~late /\ Active => ~ForeignSeen
  BY DEF ForeignSeen, PayInv, Answers, SinkOwn
<1>4. QED
  BY <1>2, <1>3

LEMMA PaySettles == Inv /\ PayInv /\ Settle => PayInv'
<1> SUFFICES ASSUME Inv, PayInv, Settle PROVE PayInv'
  OBVIOUS
<1> DEFINE r == job.req
<1>1. /\ job.at = "settling" /\ Active
      /\ UNCHANGED <<kind, sink, drivers, written, sent, late>>
  BY DEF Settle, Active, wallet_vars
<1>2. kind[r] \in {"Command", "Pay"}
  BY <1>1 DEF Inv, InHandOnce
<1>3. ForeignSeen \in BOOLEAN /\ (~late => ~ForeignSeen)
  BY <1>1, ForeignSeenFacts
<1>4. /\ job.before \in Nat /\ Len(written) \in Nat /\ job.before <= Len(written)
      /\ Own(r) = job.before + 1 .. Len(written) /\ job.paths \in Seq(Files)
  BY <1>1 DEF PayInv, FileTypes, Job, JobFiles, Returned, Since
<1>5. CASE kind[r] = "Command"
  <2>1. Respond("ok", ForeignSeen)
    BY <1>5 DEF Settle
  <2>2. QED
    BY <1>1, <1>3, <1>5, <2>1, PayAnswered
<1>6. CASE kind[r] = "Pay" /\ ~Sending
  <2>1. SendNext(PathsToSend)
    BY <1>6 DEF Settle
  <2>2. PathsToSend \in Seq(Files)
    BY <1>1, <1>6, PathsFound
  <2>3. ~late => /\ Len(PathsToSend) = Len(written) - job.before
                 /\ \A i \in DOMAIN PathsToSend : PathsToSend[i] = job.before + i
    BY <1>1, <1>6, PathsFound
  <2>4. ~late => \A f \in Nat : ~SentFor(r, f)
    BY <1>1, <1>6 DEF PayInv, Answers, Progress
  <2>5. CASE PathsToSend = <<>>
    <3>1. Respond("error", ForeignSeen)
      BY <1>6, <2>1, <2>5 DEF SendNext
    <3>2. ~late => Own(r) = {}
      BY <1>4, <2>3, <2>5
    <3>3. ~late => Fits(r, "error")
      BY <3>2 DEF Fits
    <3>4. QED
      BY <1>1, <1>3, <3>1, <3>3, PayAnswered
  <2>6. CASE PathsToSend # <<>>
    <3>1. /\ job' = [job EXCEPT !.at = "running", !.paths = PathsToSend, !.foreign = ForeignSeen]
          /\ UNCHANGED <<call, outcome, misled>>
      BY <2>1, <2>6 DEF SendNext
    <3> DEFINE gone == Len(written) - Len(PathsToSend)
    <3>2. gone \in Int /\ (~late => gone = job.before)
      BY <1>4, <2>2, <2>3
    <3>3. ~late => \A f \in Nat : SentFor(r, f) <=> f \in job.before + 1 .. gone
      BY <1>4, <2>4, <3>2
    <3>4. ~late => job.before <= gone /\ \A i \in DOMAIN PathsToSend : PathsToSend[i] = gone + i
      BY <1>4, <2>3, <3>2
    <3>5. gone = Len(written) - Len(PathsToSend)
      OBVIOUS
    <3> HIDE DEF gone
    <3>6. QED
      BY <1>1, <1>3, <1>6, <2>2, <2>6, <3>1, <3>2, <3>3, <3>4, <3>5, PayGoesOn
  <2>7. QED
    BY <2>5, <2>6
<1>7. CASE kind[r] = "Pay" /\ Sending
  <2> DEFINE rest == Tail(job.paths)
  <2>1. SendNext(rest) /\ job.paths # <<>>
    BY <1>7 DEF Settle, Sending
  <2>2. /\ rest \in Seq(Files) /\ Len(rest) = Len(job.paths) - 1
        /\ Len(job.paths) \in Nat \ {0} /\ (rest = <<>> => Len(job.paths) = 1)
        /\ \A i \in DOMAIN rest : i \in Nat /\ i + 1 \in DOMAIN job.paths
                                  /\ rest[i] = job.paths[i + 1]
    BY <1>4, <2>1, TailFacts
  <2> HIDE DEF rest
  <2>3. ~late => /\ job.before <= Left
                 /\ \A i \in DOMAIN job.paths : job.paths[i] = Left + i
                 /\ \A f \in Nat : SentFor(r, f) <=> f \in job.before + 1 .. Left + 1
    BY <1>1, <1>7 DEF PayInv, Answers, Progress, SentTo
  <2>4. Left + 1 = Len(written) - Len(rest) /\ Left \in Int
    BY <1>4, <2>2 DEF Left
  <2>5. CASE rest = <<>>
    <3>1. Respond("ok", ForeignSeen)
      BY <1>7, <2>1, <2>5 DEF SendNext
    <3>2. Len(rest) = 0
      BY <2>2, <2>5
    <3>3. ASSUME ~late PROVE Fits(r, "ok")
      <4>1. Left + 1 = Len(written) /\ job.before + 1 <= Len(written)
        BY <1>4, <2>3, <2>4, <3>2, <3>3
      <4>2. Own(r) # {} /\ \A f \in Own(r) : SentFor(r, f)
        BY <1>4, <2>3, <3>3, <4>1
      <4>3. QED
        BY <4>2 DEF Fits
    <3>4. QED
      BY <1>1, <1>3, <3>1, <3>3, PayAnswered
  <2>6. CASE rest # <<>>
    <3>1. /\ job' = [job EXCEPT !.at = "running", !.paths = rest, !.foreign = ForeignSeen]
          /\ UNCHANGED <<call, outcome, misled>>
      BY <2>1, <2>6 DEF SendNext
    <3>2. ~late => \A i \in DOMAIN rest : rest[i] = Left + 1 + i
      <4>1. \A i \in Nat : Left + (i + 1) = Left + 1 + i
        BY <2>4
      <4>2. QED
        BY <2>2, <2>3, <4>1
    <3>3. ~late => job.before <= Left + 1
      BY <1>4, <2>3, <2>4
    <3>4. Left + 1 \in Int
      BY <2>4
    <3>5. QED
      BY <1>1, <1>3, <1>7, <2>2, <2>3, <2>4, <2>6, <3>1, <3>2, <3>3, <3>4, PayGoesOn
  <2>7. QED
    BY <2>5, <2>6
<1>8. QED
  BY <1>2, <1>5, <1>6, <1>7

LEMMA PayFails == Inv /\ PayInv /\ (FailAtOnce \/ PlanReturns \/ CommandFails) => PayInv'
<1> SUFFICES ASSUME Inv, PayInv, FailAtOnce \/ PlanReturns \/ CommandFails PROVE PayInv'
  OBVIOUS
<1> USE DEF caller_vars, wallet_vars, history
<1> DEFINE r == job.req
<1>1. CASE FailAtOnce
  <2>1. /\ job.at = "received" /\ Respond("error", FALSE) /\ sink' \in {sink, <<>>}
        /\ UNCHANGED <<kind, drivers, written, sent, late>>
    BY <1>1 DEF FailAtOnce, SinkAtStart
  <2>2. r \in Requests /\ outcome[r] = "none" /\ ~Active
    BY <2>1, InHandFacts DEF InService, Active
  <2>3. Fits(r, "error")
    BY <2>2, NotStarted DEF PayInv, JobFiles, Fits
  <2>4. QED
    BY <2>1, <2>3, PayAnswered
<1>2. CASE PlanReturns
  <2>1. /\ job.at = "planning" /\ UNCHANGED <<kind, sink, drivers, written, sent, late>>
        /\ \E answer \in {"ok", "error"} : Respond(answer, FALSE)
    BY <1>2 DEF PlanReturns
  <2>2. kind[r] = "Plan"
    BY <2>1 DEF PayInv, JobFiles, Phases
  <2>3. QED
    BY <2>1, <2>2, PayAnswered
<1>3. CASE CommandFails
  <2>1. /\ job.at = "running" /\ UNCHANGED <<kind, sink, drivers, written, sent, late>>
        /\ Respond("error", job.foreign)
    BY <1>3 DEF CommandFails, AfterFailure
  <2>2. job.foreign \in BOOLEAN /\ (~late => ~job.foreign)
    BY DEF PayInv, Job, Answers, SinkOwn
  <2>3. ASSUME ~late PROVE Fits(r, "error")
    <3>1. Own(r) = {} \/ \E f \in Own(r) : ~SentFor(r, f)
      <4>1. CASE ~Sending
        BY <2>1, <4>1 DEF PayInv, JobFiles, Fresh, Own
      <4>2. CASE Sending
        <5>1. /\ Own(r) = job.before + 1 .. Len(written) /\ job.before <= Left
              /\ \A f \in Nat : SentFor(r, f) <=> f \in job.before + 1 .. Left
          BY <2>1, <2>3, <4>2
          DEF PayInv, JobFiles, Returned, Since, Answers, Progress, Active, SentTo
        <5>2. /\ job.before \in Nat /\ Len(written) \in Nat /\ Left \in Int
              /\ Left < Len(written)
          <6>1. job.paths \in Seq(Files) /\ job.paths # <<>> /\ Len(written) \in Nat
                /\ job.before \in Nat
            BY <4>2 DEF PayInv, FileTypes, Job, Sending
          <6>2. Len(job.paths) \in Nat \ {0}
            BY <6>1
          <6>3. QED
            BY <6>1, <6>2 DEF Left
        <5>3. Len(written) \in Own(r) /\ ~SentFor(r, Len(written))
          BY <5>1, <5>2
        <5>4. QED
          BY <5>3
      <4>3. QED
        BY <4>1, <4>2
    <3>2. QED
      BY <2>1, <2>3, <3>1, InOrderSoFar DEF Fits
  <2>4. QED
    BY <2>1, <2>2, <2>3, PayAnswered
<1>4. QED
  BY <1>1, <1>2, <1>3

LEMMA PayQuits == Inv /\ PayInv /\ Quit => PayInv'
<1> SUFFICES ASSUME Inv, PayInv, Quit PROVE PayInv'
  OBVIOUS
<1>1. /\ job' = NoJob /\ sink' = <<>> /\ drivers' = {}
      /\ outcome' = [r \in Requests |-> IF r = job.req THEN "cut" ELSE outcome[r]]
      /\ UNCHANGED <<kind, written, sent, late, misled>>
  BY DEF Quit
<1>2. Events' = {}
  BY <1>1 DEF Events
<1>3. FileTypes'
  BY <1>1 DEF PayInv, FileTypes
<1>4. ~late => ~misled'
  BY <1>1 DEF PayInv, Answers, SinkOwn
<1>5. ~late /\ job.req \in Requests => Fits(job.req, "cut")
  <2>1. job.req \in Requests => job # NoJob
    BY NoJobFacts
  <2>2. CASE job.at = "none"
    <3>1. job.req \in Requests => outcome[job.req] = "none" /\ ~Active
      BY <2>1, <2>2 DEF Inv, InHandOnce, InService, Active
    <3>2. QED
      BY <3>1, NotStarted DEF PayInv, JobFiles, Fits
  <2>3. CASE job.at # "none"
    BY <2>3, InOrderSoFar
  <2>4. QED
    BY <2>2, <2>3
<1>6. QED
  BY <1>1, <1>2, <1>3, <1>4, <1>5, PayEnds

LEMMA PayInit == Init => PayInv
<1> SUFFICES ASSUME Init PROVE PayInv
  OBVIOUS
<1>1. /\ job = NoJob /\ sink = <<>> /\ drivers = {} /\ written = <<>> /\ sent = {}
      /\ misled = FALSE /\ outcome = [r \in Requests |-> "none"]
  BY DEF Init
<1>2. ~Sending /\ ~Active /\ Events = {}
  BY <1>1, NoJobAtAll DEF Sending, Active, Events
<1>3. FileTypes /\ job \in Job
  BY <1>1, NoJobAtAll, FilesAssumption DEF FileTypes
<1>4. JobFiles
  BY <1>1, <1>2, NoJobAtAll
  DEF JobFiles, EventFiles, OnlyStarted, Phases, Fresh, Returned
<1>5. Answers
  BY <1>1, <1>2, NoJobAtAll DEF Answers, SinkOwn, Progress, SentOwn, Settled
<1>6. QED
  BY <1>3, <1>4, <1>5 DEF PayInv

LEMMA PayStep == Inv /\ PayInv /\ [Next]_vars => PayInv'
<1> SUFFICES ASSUME Inv, PayInv, [Next]_vars PROVE PayInv'
  OBVIOUS
<1> USE DEF caller_vars, wallet_vars, history
<1>1. CASE Handlers
  <2>1. PICK r \in Requests :
          (\E k \in KindsOf[r] : Post(r, k)) \/ Refuse(r) \/ Enqueue(r) \/ Disconnect(r)
    BY <1>1 DEF Handlers
  <2>2. CASE \E k \in KindsOf[r] : Post(r, k)
    <3>1. PICK k \in KindsOf[r] : Post(r, k)
      BY <2>2
    <3>2. call[r] = "idle" /\ kind' = [kind EXCEPT ![r] = k]
          /\ UNCHANGED <<job, written, sent, sink, drivers, outcome, misled, late>>
      BY <3>1 DEF Post
    <3>3. outcome[r] = "none" /\ r # job.req
      BY <3>2, NoJobFacts DEF Inv, ApiTypes, Ended, InHandOnce, InService
    <3>4. \A q \in Requests : kind'[q] = kind[q] \/ (outcome[q] = "none" /\ q # job.req)
      BY <3>2, <3>3 DEF Inv, ApiTypes
    <3>5. QED
      BY <3>2, <3>4, PayStays
  <2>3. CASE Refuse(r) \/ Enqueue(r) \/ Disconnect(r)
    BY <2>3, PayStays DEF Refuse, Enqueue, Disconnect
  <2>4. QED
    BY <2>1, <2>2, <2>3
<1>2. CASE TuiEvents
  <2>1. CASE RestartListener \/ PasteBlocks
    BY <2>1, PayStays DEF RestartListener, PasteBlocks
  <2>2. QED
    BY <1>2, <2>1, PayQuits DEF TuiEvents
<1>3. CASE Executor
  BY <1>3, PayReceives, PayBegins, PayFails, PayCommandReturns, PaySendReturns, PaySettles
  DEF Executor
<1>4. CASE DriverWrites
  BY <1>4, PayDriverWrites
<1>5. CASE UNCHANGED vars
  BY <1>5, PayStays DEF vars
<1>6. QED
  BY <1>1, <1>2, <1>3, <1>4, <1>5 DEF Next

LEMMA PayInvHolds == Spec => []PayInv
  BY PayInit, PayStep, InvHolds, PTL DEF Spec

-----------------------------------------------------------------------------
(* The rest of the types.                                                  *)
Flags ==
  /\ open \in BOOLEAN /\ frozen \in BOOLEAN /\ listening \in BOOLEAN
  /\ misled \in BOOLEAN /\ late \in BOOLEAN
  /\ restarts \in 0 .. MaxRestarts

LEMMA FlagsInit == Init => Flags
<1> SUFFICES ASSUME Init PROVE Flags
  OBVIOUS
<1>1. /\ open = TRUE /\ frozen = FALSE /\ listening \in BOOLEAN /\ misled = FALSE
      /\ late = FALSE
  BY DEF Init
<1>2. restarts \in 0 .. MaxRestarts
  BY FilesAssumption DEF Init
<1>3. QED
  BY <1>1, <1>2 DEF Flags

LEMMA FlagsStep == Inv /\ PayInv /\ Flags /\ [Next]_vars => Flags'
<1> SUFFICES ASSUME Inv, PayInv, Flags, [Next]_vars PROVE Flags'
  OBVIOUS
<1> USE DEF caller_vars, wallet_vars, history
<1>1. open' \in BOOLEAN /\ frozen' \in BOOLEAN /\ listening' \in BOOLEAN
  BY DEF Flags, Next, vars, Handlers, Post, Refuse, Enqueue, Disconnect, TuiEvents,
     RestartListener, PasteBlocks, Quit, Executor, Receive, Begin, FailAtOnce, PlanReturns,
     CommandReturns, SendReturns, CommandFails, Settle, DriverWrites
<1>2. misled' \in BOOLEAN
  <2>1. ASSUME NEW answer, NEW foreign, Respond(answer, foreign) PROVE misled' \in BOOLEAN
    BY <2>1 DEF Respond
  <2>2. CASE Settle
    BY <2>2, SettleCases, <2>1 DEF Settle, SendNext, Flags, Inv, InHandOnce
  <2>3. QED
    BY <2>1, <2>2 DEF Flags, Next, vars, Handlers, Post, Refuse, Enqueue, Disconnect, TuiEvents,
     RestartListener, PasteBlocks, Quit, Executor, Receive, Begin, FailAtOnce, PlanReturns,
     CommandReturns, SendReturns, CommandFails, AfterFailure, DriverWrites
<1>3. late' \in BOOLEAN
  BY DEF Flags, Next, vars, Handlers, Post, Refuse, Enqueue, Disconnect, TuiEvents,
     RestartListener, PasteBlocks, Quit, Executor, Receive, Begin, FailAtOnce, PlanReturns,
     CommandReturns, SendReturns, CommandFails, Settle, DriverWrites
<1>4. restarts' \in 0 .. MaxRestarts
  <2>1. CASE RestartListener
    BY <2>1, FilesAssumption DEF RestartListener, Flags
  <2>2. CASE ~RestartListener
    <3>1. restarts' = restarts
      BY <2>2 DEF Next, vars, Handlers, Post, Refuse, Enqueue, Disconnect, TuiEvents,
       PasteBlocks, Quit, Executor, Receive, Begin, FailAtOnce, PlanReturns,
       CommandReturns, SendReturns, CommandFails, Settle, DriverWrites
    <3>2. QED
      BY <3>1 DEF Flags
  <2>3. QED
    BY <2>1, <2>2
<1>5. QED
  BY <1>1, <1>2, <1>3, <1>4 DEF Flags

LEMMA FlagsHold == Spec => []Flags
  BY FlagsInit, FlagsStep, InvHolds, PayInvHolds, PTL DEF Spec

(* The types are right, and the channel never holds more than it may.      *)
THEOREM TypeCorrect == Spec => []TypeOK
<1>1. Inv /\ PayInv /\ Flags => TypeOK
  BY DEF Inv, ApiTypes, PayInv, FileTypes, Flags, TypeOK, Calls, Outcomes
<1>2. QED
  BY <1>1, InvHolds, PayInvHolds, FlagsHold, PTL

(* Without a driver that writes into another command's time, transactions  *)
(* are broadcast for the request that wrote them, and no answer carries    *)
(* the events of another request.                                          *)
THEOREM AnswersCorrect == Spec => []NothingForeign
<1>1. PayInv => NothingForeign
  BY DEF PayInv, Answers, SinkOwn, SentOwn, NothingForeign
<1>2. QED
  BY <1>1, PayInvHolds, PTL

(* Then, too, a payment is answered with ok when all of its files, of      *)
(* which there is one at least, were broadcast, and with an error when not *)
(* all were; what was not comes after what was.                            *)
THEOREM PaymentCorrect == Spec => []PaymentAnswerTrue
<1>1. Inv /\ PayInv => PaymentAnswerTrue
  <2> SUFFICES ASSUME Inv, PayInv, ~late, NEW r \in Requests, kind[r] = "Pay"
               PROVE  Fits(r, outcome[r])
    BY DEF PaymentAnswerTrue, Fits, Own, SentFor
  <2>1. CASE outcome[r] # "none"
    BY <2>1 DEF PayInv, Answers, Settled
  <2>2. CASE outcome[r] = "none" /\ r = job.req /\ Active
    BY <2>2, InOrderSoFar DEF Fits, Active
  <2>3. CASE outcome[r] = "none" /\ ~(r = job.req /\ Active)
    BY <2>3, NotStarted DEF PayInv, JobFiles, Fits
  <2>4. QED
    BY <2>1, <2>2, <2>3
<1>2. QED
  BY <1>1, InvHolds, PayInvHolds, PTL
=============================================================================
