---------------------------- MODULE SessionProofs ----------------------------
(* The settings agree whenever a change is over, for any endpoints and     *)
(* addresses, with failing disks, late requests and commands beside them.  *)
EXTENDS Session, TLAPS

Waiting == tui.at = "posted"

(* The one request of a change that the TUI still waits for, on the wire   *)
(* or in the server's hands, carries that change; only what validates is   *)
(* ever accepted.                                                          *)
OwnRequest ==
  /\ \A r \in reqs : r.by = "tui" => Waiting /\ r.body = tui.next /\ srv.by # "tui"
  /\ srv.by = "tui" => Waiting /\ srv.body = tui.next
  /\ tui.at \in {"accepted", "save"} => tui.next \in Settings

(* The server has nothing to do.                                           *)
Idle == srv = NoRequest /\ reqs = {}

(* Memory is applied: to the file, the connection and the listener.        *)
Stored == file = mem
Connected == conn = IF mem.grpc \in Grpcs THEN mem.grpc ELSE CliGrpc
Bound(listen) == bound \in {listen, NoListener}

(* How far a change has come when the TUI is alone: by the place of its    *)
(* thread, and while it waits by the server's.                             *)
AwaitingAnswer ==
  /\ Connected /\ Bound(mem.listen) /\ tui.old = mem.listen
  /\ \/ srv = NoRequest /\ reqs \subseteq {[by |-> "tui", body |-> tui.next]} /\ Stored
     \/ reqs = {} /\ srv.step = "saving" /\ srv.by = "tui" /\ file = Torn
     \/ reqs = {} /\ srv.step = "storing" /\ srv.by = "tui" /\ file = tui.next
Places ==
  /\ tui.at = "down" => Idle /\ bound = NoListener
  /\ tui.at = "boot" =>
       /\ Idle /\ bound = NoListener /\ conn = CliGrpc
       /\ file = IF Validates(mem) THEN Torn ELSE mem
  /\ tui.at \in {"fetch", "idle", "refused"} =>
       Idle /\ Stored /\ Connected /\ Bound(mem.listen)
  /\ Waiting => AwaitingAnswer
  /\ tui.at = "accepted" => Idle /\ Bound(tui.old) /\ file = tui.next /\ mem = tui.next
  /\ tui.at = "save" => Idle /\ Bound(tui.old) /\ file = Torn /\ mem = tui.next
  /\ tui.at = "apply" => Idle /\ Bound(tui.old) /\ Stored /\ mem \in Settings
  /\ tui.at \in {"rebind", "restart"} => Idle /\ Bound(tui.old) /\ Stored /\ Connected

(* What a process leaves behind is its file alone.                         *)
Gone == tui.at \in {"down", "boot"} => Idle /\ bound = NoListener
Agreement == Gone /\ (alone /\ tui.at # "down" => Places)
SessionInv == TypeOK /\ OwnRequest /\ Agreement

-----------------------------------------------------------------------------
LEMMA DefaultFacts ==
  /\ Defaults \in Settings /\ FromConnection \in Settings /\ Settings \subseteq Bodies
  /\ Defaults.grpc # NoGrpc /\ FromConnection.grpc # NoGrpc
  /\ Validates(Defaults) /\ Validates(FromConnection)
  /\ Down \in Thread /\ Down.at = "down"
  /\ NoRequest.by = "other" /\ NoRequest.step = "none"
  BY ValuesAssumption
  DEF Defaults, FromConnection, Settings, Bodies, Down, Thread, Awaits, Steps, NoRequest, Validates

LEMMA SettingsFact ==
  ASSUME NEW s \in Settings
  PROVE  s \in Bodies /\ s.grpc \in Grpcs /\ s.grpc # NoGrpc
  BY ValuesAssumption DEF Settings, Bodies

LEMMA AtFacts ==
  ASSUME tui \in Thread, NEW place \in Awaits \cup Steps
  PROVE  /\ At(place) \in Thread /\ At(place).at = place
         /\ At(place).next = tui.next /\ At(place).old = tui.old
  BY DEF At, Thread

(* A body that validates can be a session's.                               *)
LEMMA ValidFact ==
  ASSUME NEW body \in Bodies, Validates(body)
  PROVE  body \in Settings
  BY DEF Bodies, Validates, Settings

(* What is in the server's hands was sent by someone, and validates.       *)
LEMMA HandledFact ==
  ASSUME TypeOK, srv.step \in {"saving", "storing"} \/ srv.by \in {"tui", "timed out"}
  PROVE  srv \in Handling /\ srv.body \in Settings /\ srv # NoRequest
  BY DefaultFacts DEF TypeOK, Handling

-----------------------------------------------------------------------------
(* Types.                                                                  *)
Values ==
  /\ file \in Bodies \cup {Absent, Torn}
  /\ mem \in Bodies /\ mem.grpc # NoGrpc
  /\ conn \in Grpcs
  /\ bound \in Listens \cup {NoListener}
  /\ tui \in Thread
Wire ==
  /\ reqs \in SUBSET Requests
  /\ srv \in Handling \cup {NoRequest}
Marks ==
  /\ held \in BOOLEAN
  /\ edits \in 0 .. MaxEdits /\ posts \in 0 .. MaxPosts
  /\ alone \in BOOLEAN

LEMMA OneMore ==
  ASSUME NEW m \in Nat, NEW n \in 0 .. m, n < m
  PROVE  n + 1 \in 0 .. m
  OBVIOUS

LEMMA MarksStep == Marks /\ [Next]_vars => Marks'
<1> SUFFICES ASSUME Marks, [Next]_vars PROVE Marks'
  OBVIOUS
<1> USE DEF Next, TuiStep, ServerStep, StartUp, SaveInitial, RefreshSession, CommitFailed,
     StoreAnswer, SaveAnswer, Apply, RebindIfChanged, RestartServer, RefusePost, StartPost,
     SavePost, StorePost, TimeOut, PostByOther, TakeConnection, ReleaseConnection, Exit, vars
<1>1. held' \in BOOLEAN
  BY DEF Marks, Commit
<1>2. alone' \in BOOLEAN
  BY DEF Marks, Commit, Truncate, Fill, SaveFails
<1>3. edits' \in 0 .. MaxEdits
  <2>1. CASE Commit
    BY <2>1, BoundsAssumption DEF Commit, Marks
  <2>2. CASE ~Commit
    BY <2>2 DEF Marks
  <2>3. QED
    BY <2>1, <2>2
<1>4. posts' \in 0 .. MaxPosts
  <2>1. CASE PostByOther
    <3>1. posts < MaxPosts /\ posts' = posts + 1 /\ posts \in 0 .. MaxPosts
      BY <2>1 DEF Marks
    <3>2. QED
      BY <3>1, OneMore, BoundsAssumption
  <2>2. CASE ~PostByOther
    BY <2>2 DEF Marks, Commit
  <2>3. QED
    BY <2>1, <2>2
<1>5. QED
  BY <1>1, <1>2, <1>3, <1>4 DEF Marks

(* What is loaded is what the file holds, or settings that validate.       *)
LEMMA LoadedFact ==
  ASSUME Values
  PROVE  /\ Loaded \in Bodies /\ Loaded.grpc # NoGrpc
         /\ Loaded = file \/ Validates(Loaded)
<1>1. CASE file \in {Absent, Torn}
  <2>1. Loaded = Defaults
    BY <1>1 DEF Loaded
  <2>2. QED
    BY <2>1, DefaultFacts
<1>2. CASE file \in Bodies /\ file \notin {Absent, Torn}
  <2>1. Loaded = IF file.grpc = NoGrpc THEN FromConnection ELSE file
    BY <1>2 DEF Loaded
  <2>2. QED
    BY <1>2, <2>1, DefaultFacts
<1>3. QED
  BY <1>1, <1>2 DEF Values

(* A change in Settings is a body, and a request of it can be posted.      *)
LEMMA ChangedFact ==
  ASSUME mem \in Bodies, NEW next \in Changed
  PROVE  next \in Bodies
<1>1. CASE \E g \in Grpcs : next = [mem EXCEPT !.grpc = g]
  BY <1>1 DEF Bodies
<1>2. CASE \E l \in (Listens \ Spaced) \cup {Bad} : next = [mem EXCEPT !.listen = l]
  BY <1>2 DEF Bodies
<1>3. QED
  BY <1>1, <1>2 DEF Changed

(* What the client that gave up has left.                                  *)
TimedOut == {IF r.by = "tui" THEN [r EXCEPT !.by = "timed out"] ELSE r : r \in reqs}

LEMMA TimedOutFacts ==
  ASSUME reqs \in SUBSET Requests
  PROVE  TimedOut \in SUBSET Requests /\ \A r \in TimedOut : r.by # "tui"
<1>1. ASSUME NEW r \in Requests, r.by = "tui"
      PROVE  [r EXCEPT !.by = "timed out"] \in Requests /\ [r EXCEPT !.by = "timed out"].by # "tui"
  BY DEF Requests, Clients
<1>2. QED
  BY <1>1 DEF TimedOut

LEMMA ValuesStep == SessionInv /\ [Next]_vars => Values'
<1> SUFFICES ASSUME SessionInv, [Next]_vars PROVE Values'
  OBVIOUS
<1>0. TypeOK /\ Values /\ OwnRequest
  BY DEF SessionInv, TypeOK, Values
<1>1. mem \in Bodies /\ mem.grpc # NoGrpc /\ mem.listen \in Listens \cup {Bad}
  BY <1>0 DEF Values, Bodies
<1>2. srv.step \in {"saving", "storing"} => srv.body \in Settings
  BY <1>0, HandledFact
<1>3. tui.at \in {"accepted", "save"} => tui.next \in Settings
  BY <1>0 DEF OwnRequest
<1>4. file' \in Bodies \cup {Absent, Torn}
  <2>1. \/ file' \in {file, Torn, mem}
        \/ tui.at = "save" /\ file' = tui.next
        \/ srv.step = "saving" /\ file' = srv.body
    BY DEF Next, TuiStep, ServerStep, StartUp, SaveInitial, RefreshSession, CommitFailed,
     StoreAnswer, SaveAnswer, Apply, RebindIfChanged, RestartServer, RefusePost, StartPost,
     SavePost, StorePost, TimeOut, PostByOther, TakeConnection, ReleaseConnection, Exit, vars,
     Commit, Truncate, Fill, SaveFails
  <2>2. QED
    BY <1>0, <1>1, <1>2, <1>3, <2>1, SettingsFact DEF Values
<1>5. mem' \in Bodies /\ mem'.grpc # NoGrpc
  <2>1. \/ mem' \in {mem, Loaded, Defaults}
        \/ tui.at = "accepted" /\ mem' = tui.next
        \/ srv.step = "storing" /\ mem' = srv.body
    BY DEF Next, TuiStep, ServerStep, StartUp, SaveInitial, RefreshSession, CommitFailed,
     StoreAnswer, SaveAnswer, Apply, RebindIfChanged, RestartServer, RefusePost, StartPost,
     SavePost, StorePost, TimeOut, PostByOther, TakeConnection, ReleaseConnection, Exit, vars,
     Commit
  <2>2. QED
    BY <1>0, <1>1, <1>2, <1>3, <2>1, LoadedFact, DefaultFacts, SettingsFact
<1>6. conn' \in Grpcs
  <2>1. conn' \in {conn, CliGrpc} \/ (mem.grpc \in Grpcs /\ conn' = mem.grpc)
    BY DEF Next, TuiStep, ServerStep, StartUp, SaveInitial, RefreshSession, CommitFailed,
     StoreAnswer, SaveAnswer, Apply, RebindIfChanged, RestartServer, RefusePost, StartPost,
     SavePost, StorePost, TimeOut, PostByOther, TakeConnection, ReleaseConnection, Exit, vars,
     Commit, ApplyToCli
  <2>2. QED
    BY <1>0, <2>1, ValuesAssumption DEF Values
<1>7. bound' \in Listens \cup {NoListener}
  <2>1. bound' \in {bound, NoListener} \cup ({mem.listen} \ (Spaced \cup {Bad}))
    BY DEF Next, TuiStep, ServerStep, StartUp, SaveInitial, RefreshSession, CommitFailed,
     StoreAnswer, SaveAnswer, Apply, RebindIfChanged, RestartServer, RefusePost, StartPost,
     SavePost, StorePost, TimeOut, PostByOther, TakeConnection, ReleaseConnection, Exit, vars,
     Commit, BindTo
  <2>2. QED
    BY <1>0, <1>1, <2>1 DEF Values
<1>8. tui' \in Thread
  <2>1. \/ tui' \in {tui, Down}
        \/ \E place \in Awaits \cup Steps : tui' = At(place)
        \/ tui' = [tui EXCEPT !.at = "fetch", !.old = mem.listen]
        \/ \E place \in Awaits, next \in Changed :
             tui' = [at |-> place, next |-> next, old |-> mem.listen]
    <3>1. CASE TuiStep
      BY <3>1 DEF TuiStep, StartUp, SaveInitial, RefreshSession, CommitFailed,
       StoreAnswer, SaveAnswer, Apply, RebindIfChanged, RestartServer, Awaits, Steps
    <3>2. CASE ServerStep
      BY <3>2 DEF ServerStep, RefusePost, StartPost, SavePost, StorePost, Refused, Answered,
         Awaits, Steps
    <3>3. CASE Commit
      BY <3>3 DEF Commit, Awaits
    <3>4. QED
      BY <3>1, <3>2, <3>3 DEF Next, TimeOut, PostByOther, TakeConnection, ReleaseConnection,
         Exit, vars, Awaits, Steps
  <2>2. ASSUME NEW place \in Awaits \cup Steps PROVE At(place) \in Thread
    BY <1>0, AtFacts DEF Values
  <2>3. [tui EXCEPT !.at = "fetch", !.old = mem.listen] \in Thread
    BY <1>0, <1>1 DEF Values, Thread, Awaits
  <2>4. ASSUME NEW place \in Awaits, NEW next \in Changed
        PROVE  [at |-> place, next |-> next, old |-> mem.listen] \in Thread
    BY <1>1, ChangedFact DEF Thread
  <2>5. QED
    BY <1>0, <2>1, <2>2, <2>3, <2>4, DefaultFacts DEF Values
<1>9. QED
  BY <1>4, <1>5, <1>6, <1>7, <1>8 DEF Values


-----------------------------------------------------------------------------
(* The requests on the wire, and the one in the server's hands.            *)
OwnWire == Wire /\ OwnRequest

(* Nothing is on its way that the TUI would wait for.                      *)
NoneOwn == srv.by # "tui" /\ \A r \in reqs : r.by # "tui"

LEMMA NoneOwnFact ==
  ASSUME OwnRequest, ~Waiting
  PROVE  NoneOwn
  BY DEF OwnRequest, NoneOwn

LEMMA OwnMoves ==
  ASSUME OwnWire, NoneOwn, reqs' \subseteq reqs, srv' \in {srv, NoRequest},
         tui'.at \in {"accepted", "save"} => tui'.next \in Settings
  PROVE  OwnWire'
<1>1. Wire'
  BY DEF OwnWire, Wire
<1>2. srv'.by # "tui" /\ \A r \in reqs' : r.by # "tui"
  BY DefaultFacts DEF NoneOwn
<1>3. QED
  BY <1>1, <1>2 DEF OwnWire, OwnRequest

LEMMA OwnTuiStep == SessionInv /\ OwnWire /\ TuiStep => OwnWire'
<1> SUFFICES ASSUME SessionInv, OwnWire, TuiStep PROVE OwnWire'
  OBVIOUS
<1>1. tui \in Thread /\ OwnRequest
  BY DEF SessionInv, TypeOK
<1>2. ~Waiting /\ reqs' \subseteq reqs /\ srv' = srv
  BY DEF TuiStep, StartUp, SaveInitial, RefreshSession, CommitFailed, StoreAnswer, SaveAnswer,
     Apply, RebindIfChanged, RestartServer, Waiting
<1>3. NoneOwn
  BY <1>1, <1>2, NoneOwnFact
<1>4. tui'.at \in {"accepted", "save"} => tui'.next \in Settings
  <2>1. ASSUME NEW place \in Awaits \cup Steps, tui' = At(place)
        PROVE  tui'.at = place /\ tui'.next = tui.next
    BY <1>1, <2>1, AtFacts
  <2>2. CASE StoreAnswer \/ SaveAnswer
    <3>1. tui.at \in {"accepted", "save"} /\ \E place \in Awaits \cup Steps : tui' = At(place)
      BY <2>2 DEF StoreAnswer, SaveAnswer, Awaits, Steps
    <3>2. QED
      BY <1>1, <2>1, <3>1 DEF OwnRequest
  <2>3. CASE SaveInitial
    <3>1. tui'.at = "fetch"
      BY <1>1, <2>3 DEF SaveInitial, Thread
    <3>2. QED
      BY <3>1
  <2>4. CASE StartUp \/ RefreshSession \/ CommitFailed \/ Apply \/ RebindIfChanged \/ RestartServer
    <3>1. \E place \in {"boot", "idle", "rebind", "restart"} : tui' = At(place)
      BY <2>4 DEF StartUp, RefreshSession, CommitFailed, Apply, RebindIfChanged, RestartServer
    <3>2. tui'.at \in {"boot", "idle", "rebind", "restart"}
      BY <2>1, <3>1 DEF Awaits, Steps
    <3>3. QED
      BY <3>2
  <2>5. QED
    BY <2>2, <2>3, <2>4 DEF TuiStep
<1>5. QED
  BY <1>2, <1>3, <1>4, OwnMoves

(* A post that is taken off the wire: if it was the TUI's, none is left.   *)
LEMMA OwnTaken ==
  ASSUME OwnWire, NEW r \in reqs, r.by = "tui", srv = NoRequest
  PROVE  Waiting /\ r.body = tui.next /\ \A q \in reqs \ {r} : q.by # "tui"
<1>1. Waiting /\ r.body = tui.next
  BY DEF OwnWire, OwnRequest
<1>2. ASSUME NEW q \in reqs, q.by = "tui" PROVE q = r
  <2>1. q.body = r.body /\ q \in Requests /\ r \in Requests
    BY <1>1, <1>2 DEF OwnWire, OwnRequest, Wire
  <2>2. QED
    BY <1>2, <2>1 DEF Requests
<1>3. QED
  BY <1>1, <1>2

LEMMA OwnServerStep == SessionInv /\ OwnWire /\ ServerStep => OwnWire'
<1> SUFFICES ASSUME SessionInv, OwnWire, ServerStep PROVE OwnWire'
  OBVIOUS
<1>1. tui \in Thread /\ OwnRequest /\ Wire /\ TypeOK
  BY DEF SessionInv, TypeOK, OwnWire
<1>2. /\ At("refused").at = "refused"
      /\ At("accepted").at = "accepted" /\ At("accepted").next = tui.next
  BY <1>1, AtFacts DEF Awaits
(* The answer of a post that is over, and none of the TUI's is left.       *)
<1>3. ASSUME NEW rest \in SUBSET reqs, reqs' = rest, srv' = NoRequest,
             NEW by, by = "tui" => \A q \in rest : q.by # "tui",
             by # "tui" => tui' = tui, by = "tui" => tui' = At("refused"),
             srv.by # "tui" \/ by = "tui"
      PROVE  OwnWire'
  <2>1. Wire' /\ srv'.by # "tui"
    BY <1>1, <1>3, DefaultFacts DEF Wire
  <2>2. OwnRequest'
    BY <1>1, <1>2, <1>3, <2>1 DEF OwnRequest, Waiting
  <2>3. QED
    BY <2>1, <2>2 DEF OwnWire
<1>4. ASSUME srv = NoRequest, NEW r \in reqs, reqs' = reqs \ {r}, tui' = Refused(r.by),
             UNCHANGED srv
      PROVE  OwnWire'
  <2>1. srv.by # "tui" /\ (r.by = "tui" => \A q \in reqs \ {r} : q.by # "tui")
    BY <1>4, OwnTaken, DefaultFacts
  <2>2. reqs \ {r} \in SUBSET reqs
    OBVIOUS
  <2>3. /\ r.by # "tui" => tui' = tui
        /\ r.by = "tui" => tui' = At("refused")
    BY <1>4 DEF Refused, Answered
  <2>4. QED
    BY <1>3, <1>4, <2>1, <2>2, <2>3
<1>5. CASE RefusePost
  BY <1>4, <1>5 DEF RefusePost
<1>6. CASE StartPost
  <2>1. PICK r \in reqs :
          /\ Validates(r.body) /\ reqs' = reqs \ {r} /\ srv = NoRequest
          /\ \/ srv' = [by |-> r.by, body |-> r.body, step |-> "saving"] /\ UNCHANGED tui
             \/ tui' = Refused(r.by) /\ UNCHANGED srv
    BY <1>6 DEF StartPost
  <2>2. r \in Requests /\ r.by \in Clients /\ r.body \in Settings
    BY <1>1, <2>1, ValidFact DEF Wire, Requests
  <2>3. CASE srv' = [by |-> r.by, body |-> r.body, step |-> "saving"] /\ UNCHANGED tui
    <3>1. srv' \in Handling /\ srv'.by = r.by /\ srv'.body = r.body
      BY <2>2, <2>3 DEF Handling
    <3>2. Wire'
      BY <1>1, <2>1, <3>1 DEF Wire
    <3>3. OwnRequest'
      BY <1>1, <2>1, <2>3, <3>1, OwnTaken DEF OwnRequest, Waiting
    <3>4. QED
      BY <3>2, <3>3 DEF OwnWire
  <2>4. QED
    BY <1>4, <2>1, <2>3
<1>7. CASE SavePost
  <2>1. srv \in Handling /\ reqs' = reqs
    BY <1>1, <1>7, HandledFact DEF SavePost
  <2>2. CASE srv' = [srv EXCEPT !.step = "storing"] /\ tui' = tui
    <3>1. srv' \in Handling /\ srv'.by = srv.by /\ srv'.body = srv.body
      BY <2>1, <2>2 DEF Handling
    <3>2. QED
      BY <1>1, <2>1, <2>2, <3>1 DEF OwnWire, Wire, OwnRequest, Waiting
  <2>3. CASE srv' = NoRequest /\ tui' = Refused(srv.by)
    <3>1. srv.by = "tui" => \A q \in reqs : q.by # "tui"
      BY <1>1 DEF OwnRequest
    <3>2. /\ srv.by # "tui" => tui' = tui
          /\ srv.by = "tui" => tui' = At("refused")
      BY <2>3 DEF Refused, Answered
    <3>3. QED
      BY <1>3, <2>1, <2>3, <3>1, <3>2
  <2>4. QED
    BY <1>7, <2>2, <2>3 DEF SavePost
<1>8. CASE StorePost
  <2>1. /\ srv.body \in Settings /\ reqs' = reqs /\ srv' = NoRequest
        /\ tui' = Answered(srv.by, "accepted")
    BY <1>1, <1>8, HandledFact DEF StorePost
  <2>2. Wire' /\ srv'.by # "tui"
    BY <1>1, <2>1, DefaultFacts DEF Wire
  <2>3. CASE srv.by = "tui"
    <3>1. /\ tui'.at = "accepted" /\ tui'.next = tui.next /\ tui.next = srv.body
          /\ \A q \in reqs : q.by # "tui"
      BY <1>1, <1>2, <2>1, <2>3 DEF Answered, OwnRequest
    <3>2. QED
      BY <2>1, <2>2, <3>1 DEF OwnWire, OwnRequest
  <2>4. CASE srv.by # "tui"
    BY <1>1, <2>1, <2>2, <2>4 DEF Answered, OwnWire, OwnRequest, Waiting
  <2>5. QED
    BY <2>3, <2>4
<1>9. QED
  BY <1>5, <1>6, <1>7, <1>8 DEF ServerStep

LEMMA OwnWireStep == SessionInv /\ [Next]_vars => OwnWire'
<1> SUFFICES ASSUME SessionInv, [Next]_vars PROVE OwnWire'
  OBVIOUS
<1>1. OwnWire /\ OwnRequest /\ Wire /\ tui \in Thread /\ mem \in Bodies
  BY DEF SessionInv, TypeOK, OwnWire, Wire
<1>2. CASE Commit
  <2>1. PICK next \in Changed :
          /\ tui.at = "idle" /\ srv' = srv
          /\ \/ /\ tui' = [at |-> "posted", next |-> next, old |-> mem.listen]
                /\ reqs' = reqs \cup {[by |-> "tui", body |-> next]}
             \/ /\ tui' = [at |-> "refused", next |-> next, old |-> mem.listen]
                /\ reqs' = reqs
    BY <1>2 DEF Commit
  <2>2. NoneOwn
    BY <1>1, <2>1, NoneOwnFact DEF Waiting
  <2>3. [by |-> "tui", body |-> next] \in Requests
    BY <1>1, ChangedFact DEF Requests, Clients
  <2>4. Wire'
    BY <1>1, <2>1, <2>3 DEF Wire
  <2>5. OwnRequest'
    BY <1>1, <2>1, <2>2 DEF OwnRequest, NoneOwn, Waiting
  <2>6. QED
    BY <2>4, <2>5 DEF OwnWire
<1>3. CASE TimeOut
  <2>1. /\ tui' = At("refused") /\ reqs' = TimedOut
        /\ srv' = IF srv.by = "tui" THEN [srv EXCEPT !.by = "timed out"] ELSE srv
    BY <1>3 DEF TimeOut, TimedOut
  <2>2. tui'.at = "refused"
    BY <1>1, <2>1, AtFacts DEF Awaits
  <2>3. reqs' \in SUBSET Requests /\ \A r \in reqs' : r.by # "tui"
    BY <1>1, <2>1, TimedOutFacts DEF Wire
  <2>4. srv' \in Handling \cup {NoRequest} /\ srv'.by # "tui"
    <3>1. CASE srv.by = "tui"
      <4>1. srv \in Handling
        BY <3>1, HandledFact DEF SessionInv
      <4>2. QED
        BY <2>1, <3>1, <4>1 DEF Handling, Clients
    <3>2. CASE srv.by # "tui"
      BY <1>1, <2>1, <3>2 DEF Wire
    <3>3. QED
      BY <3>1, <3>2
  <2>5. QED
    BY <2>2, <2>3, <2>4 DEF OwnWire, Wire, OwnRequest
<1>4. CASE PostByOther
  <2>1. PICK body \in Bodies : /\ reqs' = reqs \cup {[by |-> "other", body |-> body]}
                              /\ UNCHANGED <<tui, srv>>
    BY <1>4 DEF PostByOther
  <2>2. [by |-> "other", body |-> body] \in Requests
    BY DEF Requests, Clients
  <2>3. Wire'
    BY <1>1, <2>1, <2>2 DEF Wire
  <2>4. OwnRequest'
    BY <1>1, <2>1 DEF OwnRequest, Waiting
  <2>5. QED
    BY <2>3, <2>4 DEF OwnWire
<1>5. CASE Exit
  <2>1. reqs' = {} /\ srv' = NoRequest /\ tui' = Down
    BY <1>5 DEF Exit
  <2>2. srv'.by # "tui" /\ tui'.at = "down"
    BY <2>1, DefaultFacts
  <2>3. QED
    BY <2>1, <2>2 DEF OwnWire, Wire, OwnRequest
<1>6. CASE TakeConnection \/ ReleaseConnection \/ UNCHANGED vars
  BY <1>1, <1>6 DEF TakeConnection, ReleaseConnection, vars, OwnWire, Wire, OwnRequest, Waiting
<1>7. QED
  BY <1>1, <1>2, <1>3, <1>4, <1>5, <1>6, OwnTuiStep, OwnServerStep DEF Next


-----------------------------------------------------------------------------
(* What agrees at which place.                                             *)
LEMMA PlaceFact ==
  ASSUME TypeOK
  PROVE  tui.at \in {"fetch", "idle", "posted", "accepted", "refused",
                     "down", "boot", "save", "apply", "rebind", "restart"}
  BY DEF TypeOK, Thread, Awaits, Steps

(* The server is busy, and requests are on the wire, only for the TUI.     *)
LEMMA BusyFact ==
  ASSUME SessionInv, alone, ~Idle
  PROVE  Waiting /\ AwaitingAnswer
  BY PlaceFact DEF SessionInv, Agreement, Gone, Places, Waiting

LEMMA UpFact ==
  ASSUME SessionInv, ~Idle \/ bound # NoListener
  PROVE  tui.at \notin {"down", "boot"}
  BY DEF SessionInv, Agreement, Gone

(* Where the thread goes, and what has to agree there.                     *)
LEMMA Arrives ==
  ASSUME tui'.at \in {"fetch", "idle", "refused"}, Idle', Stored', Connected', Bound(mem.listen)'
  PROVE  Agreement'
  BY DEF Agreement, Gone, Places, Waiting

LEMMA AgreementTuiStep == SessionInv /\ TuiStep => Agreement'
<1> SUFFICES ASSUME SessionInv, TuiStep PROVE Agreement'
  OBVIOUS
<1>1. /\ tui \in Thread /\ (tui.at = "down" => Idle /\ bound = NoListener)
      /\ (alone /\ tui.at # "down" => Places)
  BY DEF SessionInv, TypeOK, Agreement, Gone
<1>2. ASSUME NEW place \in Awaits \cup Steps, tui' = At(place)
      PROVE  tui'.at = place /\ tui'.next = tui.next /\ tui'.old = tui.old
  BY <1>1, <1>2, AtFacts
<1>3. tui.at # "down" => Gone'
  <2>1. tui.at # "down" => tui'.at \notin {"down", "boot"}
    <3>1. CASE SaveInitial
      BY <1>1, <3>1 DEF SaveInitial, Thread
    <3>2. CASE ~SaveInitial /\ tui.at # "down"
      <4>1. \E place \in {"idle", "save", "apply", "rebind", "restart"} : tui' = At(place)
        BY <3>2 DEF TuiStep, StartUp, RefreshSession, CommitFailed, StoreAnswer, SaveAnswer,
           Apply, RebindIfChanged, RestartServer
      <4>2. QED
        BY <1>2, <4>1 DEF Awaits, Steps
    <3>3. QED
      BY <3>1, <3>2
  <2>2. QED
    BY <2>1 DEF Gone
(* Where a save has failed nothing is claimed.                             *)
<1>4. ASSUME ~alone', tui.at # "down" PROVE Agreement'
  BY <1>3, <1>4 DEF Agreement
<1>5. CASE StartUp
  <2>1. /\ tui.at = "down" /\ UNCHANGED <<bound, reqs, srv>>
        /\ tui' = At("boot") /\ mem' = Loaded /\ conn' = CliGrpc
        /\ ~alone' \/ file' = (IF Validates(Loaded) THEN Torn ELSE file)
    BY <1>5 DEF StartUp, SaveFails
  <2>2. tui'.at = "boot" /\ Idle' /\ bound' = NoListener
    BY <1>1, <1>2, <2>1 DEF Awaits, Steps, Idle
  <2>3. Validates(Loaded) \/ Loaded = file
    BY LoadedFact DEF SessionInv, TypeOK, Values
  <2>4. ~alone' \/ file' = IF Validates(mem') THEN Torn ELSE mem'
    BY <2>1, <2>3
  <2>5. (alone' => Places') /\ Gone'
    BY <2>1, <2>2, <2>4 DEF Gone, Places, Waiting, Validates
  <2>6. QED
    BY <2>5 DEF Agreement
<1>6. CASE SaveInitial
  <2>1. /\ tui.at = "boot" /\ UNCHANGED <<mem, reqs, srv>> /\ ApplyToCli
        /\ BindTo(mem.listen) /\ tui' = [tui EXCEPT !.at = "fetch", !.old = mem.listen]
        /\ IF Validates(mem) THEN ~alone' \/ (file = Torn /\ Fill(mem))
                            ELSE UNCHANGED <<file, alone>>
    BY <1>6 DEF SaveInitial, SaveFails
  <2>2. CASE ~alone'
    BY <1>4, <2>1, <2>2
  <2>3. CASE alone'
    <3>1. alone /\ Idle /\ conn = CliGrpc /\ file = IF Validates(mem) THEN Torn ELSE mem
      BY <1>1, <2>1, <2>3 DEF Fill, Places
    <3>2. Stored'
      BY <2>1, <2>3, <3>1 DEF Fill, Stored
    <3>3. Connected'
      BY <2>1, <3>1 DEF ApplyToCli, Connected
    <3>4. tui'.at = "fetch" /\ Idle' /\ Bound(mem.listen)'
      BY <1>1, <2>1, <3>1 DEF Thread, Idle, Bound, BindTo
    <3>5. QED
      BY <3>2, <3>3, <3>4, Arrives
  <2>4. QED
    BY <2>2, <2>3
<1>7. CASE RefreshSession \/ CommitFailed
  <2>1. /\ tui.at \in {"fetch", "refused"} /\ tui' = At("idle") /\ (conn' = conn \/ ApplyToCli)
        /\ UNCHANGED <<file, mem, bound, reqs, srv, alone>>
    BY <1>7 DEF RefreshSession, CommitFailed
  <2>2. tui'.at = "idle"
    BY <1>2, <2>1 DEF Awaits
  <2>3. CASE ~alone
    BY <1>4, <2>1, <2>3
  <2>4. CASE alone
    <3>1. Idle /\ Stored /\ Connected /\ Bound(mem.listen)
      BY <1>1, <2>1, <2>4 DEF Places
    <3>2. Connected'
      BY <2>1, <3>1 DEF ApplyToCli, Connected
    <3>3. QED
      BY <2>1, <2>2, <3>1, <3>2, Arrives DEF Idle, Stored, Bound
  <2>5. QED
    BY <2>3, <2>4
<1>8. CASE StoreAnswer
  <2>1. /\ tui.at = "accepted" /\ mem' = tui.next /\ UNCHANGED <<bound, reqs, srv>>
        /\ ~alone' \/ (file' = Torn /\ alone' = alone /\ tui' = At("save"))
    BY <1>8 DEF StoreAnswer, Truncate, SaveFails
  <2>2. CASE ~alone' \/ ~alone
    BY <1>4, <2>1, <2>2
  <2>3. CASE alone' /\ alone
    <3>1. tui'.at = "save" /\ tui'.next = tui.next /\ tui'.old = tui.old
      BY <1>2, <2>1, <2>3 DEF Steps
    <3>2. Idle /\ Bound(tui.old)
      BY <1>1, <2>1, <2>3 DEF Places
    <3>3. QED
      BY <2>1, <2>3, <3>1, <3>2 DEF Agreement, Gone, Places, Waiting, Idle, Bound
  <2>4. QED
    BY <2>2, <2>3
<1>9. CASE SaveAnswer
  <2>1. /\ tui.at = "save" /\ UNCHANGED <<mem, bound, reqs, srv>>
        /\ ~alone' \/ (Fill(tui.next) /\ tui' = At("apply"))
    BY <1>9 DEF SaveAnswer, SaveFails
  <2>2. CASE ~alone' \/ ~alone
    BY <1>4, <2>1, <2>2 DEF Fill
  <2>3. CASE alone' /\ alone
    <3>1. tui'.at = "apply" /\ tui'.old = tui.old
      BY <1>2, <2>1, <2>3 DEF Steps
    <3>2. Idle /\ Bound(tui.old) /\ file = Torn /\ mem = tui.next
      BY <1>1, <2>1, <2>3 DEF Places
    <3>3. file' = tui.next
      BY <2>1, <2>3, <3>2 DEF Fill
    <3>4. mem \in Settings
      BY <2>1, <3>2 DEF SessionInv, OwnRequest
    <3>5. QED
      BY <2>1, <3>1, <3>2, <3>3, <3>4 DEF Agreement, Gone, Places, Waiting, Idle, Bound, Stored
  <2>4. QED
    BY <2>2, <2>3
<1>10. CASE Apply
  <2>1. /\ tui.at = "apply" /\ ApplyToCli /\ tui' = At("rebind")
        /\ UNCHANGED <<file, mem, bound, reqs, srv, alone>>
    BY <1>10 DEF Apply
  <2>2. tui'.at = "rebind" /\ tui'.old = tui.old
    BY <1>2, <2>1 DEF Steps
  <2>3. CASE ~alone
    BY <1>4, <2>1, <2>3
  <2>4. CASE alone
    <3>1. Idle /\ Bound(tui.old) /\ Stored /\ mem.grpc \in Grpcs
      BY <1>1, <2>1, <2>4, SettingsFact DEF Places
    <3>2. Idle' /\ Bound(tui.old)' /\ Stored' /\ Connected'
      BY <2>1, <2>2, <3>1 DEF Idle, Bound, Stored, ApplyToCli, Connected
    <3>3. QED
      BY <2>2, <3>2 DEF Agreement, Gone, Places, Waiting, Bound
  <2>5. QED
    BY <2>3, <2>4
<1>11. CASE RebindIfChanged
  <2>1. /\ tui.at = "rebind" /\ UNCHANGED <<file, mem, conn, bound, reqs, srv, alone>>
        /\ tui' = At(IF mem.listen # tui.old THEN "restart" ELSE "idle")
    BY <1>11 DEF RebindIfChanged, RebindDue
  <2>2. CASE ~alone
    BY <1>4, <2>1, <2>2
  <2>3. CASE alone
    <3>1. Idle /\ Bound(tui.old) /\ Stored /\ Connected
      BY <1>1, <2>1, <2>3 DEF Places
    <3>2. Idle' /\ Bound(tui.old) /\ bound' = bound /\ Stored' /\ Connected'
      BY <2>1, <3>1 DEF Idle, Stored, Connected
    <3>3. CASE mem.listen # tui.old
      <4>1. tui'.at = "restart" /\ tui'.old = tui.old
        BY <1>2, <2>1, <3>3 DEF Steps
      <4>2. QED
        BY <3>2, <4>1 DEF Agreement, Gone, Places, Waiting, Bound
    <3>4. CASE mem.listen = tui.old
      <4>1. tui'.at = "idle"
        BY <1>2, <2>1, <3>4 DEF Awaits
      <4>2. QED
        BY <2>1, <3>2, <3>4, <4>1, Arrives DEF Bound
    <3>5. QED
      BY <3>3, <3>4
  <2>4. QED
    BY <2>2, <2>3
<1>12. CASE RestartServer
  <2>1. /\ tui.at = "restart" /\ srv = NoRequest /\ BindTo(mem.listen) /\ reqs' = {}
        /\ tui' = At("idle") /\ UNCHANGED <<file, mem, conn, srv, alone>>
    BY <1>12 DEF RestartServer
  <2>2. tui'.at = "idle"
    BY <1>2, <2>1 DEF Awaits
  <2>3. CASE ~alone
    BY <1>4, <2>1, <2>3
  <2>4. CASE alone
    BY <1>1, <2>1, <2>2, <2>4, Arrives DEF Places, Idle, Stored, Connected, Bound, BindTo
  <2>5. QED
    BY <2>3, <2>4
<1>13. QED
  BY <1>5, <1>6, <1>7, <1>8, <1>9, <1>10, <1>11, <1>12 DEF TuiStep

LEMMA AgreementServerStep == SessionInv /\ ServerStep => Agreement'
<1> SUFFICES ASSUME SessionInv, ServerStep PROVE Agreement'
  OBVIOUS
<1>1. /\ tui \in Thread /\ tui.at \notin {"down", "boot"} /\ ~Idle
      /\ UNCHANGED bound
  <2>1. ~Idle /\ UNCHANGED bound
    BY DefaultFacts
    DEF ServerStep, RefusePost, StartPost, SavePost, StorePost, Idle
  <2>2. QED
    BY <2>1, UpFact DEF SessionInv, TypeOK
<1>2. ASSUME NEW place \in Awaits, tui' = At(place)
      PROVE  tui'.at = place /\ tui'.next = tui.next /\ tui'.old = tui.old
  BY <1>1, <1>2, AtFacts
<1>3. Gone'
  <2>1. tui' = tui \/ \E place \in {"refused", "accepted"} : tui' = At(place)
    BY DEF ServerStep, RefusePost, StartPost, SavePost, StorePost, Refused, Answered
  <2>2. tui'.at \notin {"down", "boot"}
    BY <1>1, <1>2, <2>1 DEF Awaits
  <2>3. QED
    BY <2>2 DEF Gone
<1>4. ASSUME ~alone' PROVE Agreement'
  BY <1>3, <1>4 DEF Agreement
<1>5. ASSUME ~alone PROVE ~alone'
  BY <1>5 DEF ServerStep, RefusePost, StartPost, SavePost, StorePost, Truncate, Fill, SaveFails
<1> SUFFICES ASSUME alone, alone' PROVE Agreement'
  BY <1>4, <1>5
<1>6. Waiting /\ AwaitingAnswer
  BY <1>1, BusyFact
<1>7. CASE RefusePost
  <2>1. PICK r \in reqs : /\ reqs' = reqs \ {r} /\ tui' = Refused(r.by) /\ srv = NoRequest
                         /\ UNCHANGED <<file, mem, conn, bound, srv>>
    BY <1>7 DEF RefusePost
  <2>2. /\ reqs \subseteq {[by |-> "tui", body |-> tui.next]} /\ Stored /\ Connected
        /\ Bound(mem.listen)
    BY <1>6, <2>1, DefaultFacts DEF AwaitingAnswer
  <2>3. r.by = "tui" /\ reqs' = {}
    BY <2>1, <2>2
  <2>4. tui'.at = "refused"
    BY <1>2, <2>1, <2>3 DEF Refused, Answered, Awaits
  <2>5. QED
    BY <2>1, <2>2, <2>3, <2>4, Arrives DEF Idle, Stored, Connected, Bound
<1>8. CASE StartPost
  <2>1. PICK r \in reqs :
          /\ reqs' = reqs \ {r} /\ srv = NoRequest /\ file' = Torn
          /\ srv' = [by |-> r.by, body |-> r.body, step |-> "saving"]
          /\ UNCHANGED <<tui, mem, conn, bound>>
    BY <1>8 DEF StartPost, Truncate, SaveFails
  <2>2. /\ reqs \subseteq {[by |-> "tui", body |-> tui.next]} /\ Connected
        /\ Bound(mem.listen) /\ tui.old = mem.listen
    BY <1>6, <2>1, DefaultFacts DEF AwaitingAnswer
  <2>3. r.by = "tui" /\ reqs' = {}
    BY <2>1, <2>2
  <2>4. srv'.step = "saving" /\ srv'.by = "tui"
    BY <2>1, <2>3
  <2>5. AwaitingAnswer'
    BY <2>1, <2>2, <2>3, <2>4 DEF AwaitingAnswer, Connected, Bound
  <2>6. QED
    BY <1>6, <2>1, <2>5 DEF Agreement, Gone, Places, Waiting
<1>9. CASE SavePost
  <2>1. /\ srv.step = "saving" /\ Fill(srv.body) /\ srv' = [srv EXCEPT !.step = "storing"]
        /\ UNCHANGED <<tui, mem, conn, bound, reqs>>
    BY <1>9 DEF SavePost, SaveFails
  <2>2. srv \in Handling /\ OwnRequest
    BY <2>1, HandledFact DEF SessionInv
  <2>3. /\ Connected /\ Bound(mem.listen) /\ tui.old = mem.listen /\ reqs = {}
        /\ srv.by = "tui" /\ file = Torn
    BY <1>6, <2>1, DefaultFacts DEF AwaitingAnswer
  <2>4. file' = tui.next
    BY <2>1, <2>2, <2>3 DEF Fill, OwnRequest
  <2>5. srv'.step = "storing" /\ srv'.by = "tui"
    BY <2>1, <2>2, <2>3 DEF Handling
  <2>6. AwaitingAnswer'
    BY <2>1, <2>3, <2>4, <2>5 DEF AwaitingAnswer, Connected, Bound
  <2>7. QED
    BY <1>6, <2>1, <2>6 DEF Agreement, Gone, Places, Waiting
<1>10. CASE StorePost
  <2>1. /\ srv.step = "storing" /\ mem' = srv.body /\ srv' = NoRequest
        /\ tui' = Answered(srv.by, "accepted") /\ UNCHANGED <<file, bound, reqs>>
    BY <1>10 DEF StorePost
  <2>2. /\ Bound(mem.listen) /\ tui.old = mem.listen /\ reqs = {}
        /\ srv.by = "tui" /\ file = tui.next
    BY <1>6, <2>1, DefaultFacts DEF AwaitingAnswer
  <2>3. tui'.at = "accepted" /\ tui'.next = tui.next /\ tui'.old = tui.old
    BY <1>2, <2>1, <2>2 DEF Answered, Awaits
  <2>4. srv.body = tui.next
    BY <2>2 DEF SessionInv, OwnRequest
  <2>5. QED
    BY <2>1, <2>2, <2>3, <2>4 DEF Agreement, Gone, Places, Waiting, Idle, Bound
<1>11. QED
  BY <1>7, <1>8, <1>9, <1>10 DEF ServerStep

LEMMA AgreementStep == SessionInv /\ [Next]_vars => Agreement'
<1> SUFFICES ASSUME SessionInv, [Next]_vars PROVE Agreement'
  OBVIOUS
<1>1. tui \in Thread /\ Agreement
  BY DEF SessionInv, TypeOK
<1>2. CASE Commit
  <2>1. PICK next \in Changed :
          /\ tui.at = "idle" /\ UNCHANGED <<file, mem, conn, bound, srv, alone>>
          /\ \/ /\ tui' = [at |-> "posted", next |-> next, old |-> mem.listen]
                /\ reqs' = reqs \cup {[by |-> "tui", body |-> next]}
             \/ /\ tui' = [at |-> "refused", next |-> next, old |-> mem.listen]
                /\ reqs' = reqs
    BY <1>2 DEF Commit
  <2>2. alone => Idle /\ Stored /\ Connected /\ Bound(mem.listen)
    BY <1>1, <2>1 DEF Agreement, Places
  <2>3. CASE ~alone
    BY <2>1, <2>3 DEF Agreement, Gone
  <2>4. CASE alone /\ tui'.at = "refused" /\ reqs' = reqs
    BY <2>1, <2>2, <2>4, Arrives DEF Idle, Stored, Connected, Bound
  <2>5. CASE /\ alone /\ tui' = [at |-> "posted", next |-> next, old |-> mem.listen]
             /\ reqs' = reqs \cup {[by |-> "tui", body |-> next]}
    <3>1. tui'.at = "posted" /\ tui'.next = next /\ tui'.old = mem.listen
      BY <2>5
    <3>2. AwaitingAnswer'
      BY <2>1, <2>2, <2>5, <3>1 DEF AwaitingAnswer, Idle, Stored, Connected, Bound
    <3>3. QED
      BY <3>1, <3>2 DEF Agreement, Gone, Places
  <2>6. QED
    BY <2>1, <2>3, <2>4, <2>5
<1>3. CASE TimeOut
  <2>1. alone' = FALSE /\ tui' = At("refused")
    BY <1>3 DEF TimeOut
  <2>2. tui'.at = "refused"
    BY <1>1, <2>1, AtFacts DEF Awaits
  <2>3. QED
    BY <2>1, <2>2 DEF Agreement, Gone
<1>4. CASE PostByOther
  BY <1>4 DEF PostByOther, Agreement, Gone
<1>5. CASE Exit
  <2>1. tui'.at = "down" /\ Idle' /\ bound' = NoListener
    BY <1>5, DefaultFacts DEF Exit, Idle
  <2>2. QED
    BY <2>1 DEF Agreement, Gone
<1>6. CASE TakeConnection \/ ReleaseConnection \/ UNCHANGED vars
  <2>1. UNCHANGED <<file, mem, conn, bound, tui, reqs, srv, alone>>
    BY <1>6 DEF TakeConnection, ReleaseConnection, vars
  <2>2. QED
    BY <1>1, <2>1
    DEF Agreement, Gone, Places, Waiting, AwaitingAnswer, Idle, Stored, Connected, Bound
<1>7. QED
  BY <1>2, <1>3, <1>4, <1>5, <1>6, AgreementTuiStep, AgreementServerStep DEF Next

-----------------------------------------------------------------------------
LEMMA SessionInit == Init => SessionInv
<1> SUFFICES ASSUME Init PROVE SessionInv
  OBVIOUS
<1>1. mem = Defaults /\ conn = CliGrpc /\ bound = NoListener /\ tui = Down
      /\ reqs = {} /\ srv = NoRequest /\ held = FALSE
      /\ edits = 0 /\ posts = 0 /\ alone = TRUE
  BY DEF Init
<1>2. Values /\ Wire
  BY <1>1, DefaultFacts, ValuesAssumption DEF Init, Values, Wire
<1>3. edits \in 0 .. MaxEdits /\ posts \in 0 .. MaxPosts
  BY <1>1, BoundsAssumption
<1>4. TypeOK
  BY <1>1, <1>2, <1>3 DEF TypeOK, Values, Wire
<1>5. OwnRequest /\ Agreement
  BY <1>1, DefaultFacts DEF OwnRequest, Agreement, Gone, Idle
<1>6. QED
  BY <1>4, <1>5 DEF SessionInv

LEMMA SessionStep == SessionInv /\ [Next]_vars => SessionInv'
<1> SUFFICES ASSUME SessionInv, [Next]_vars PROVE SessionInv'
  OBVIOUS
<1>1. Values' /\ OwnWire' /\ Agreement'
  BY ValuesStep, OwnWireStep, AgreementStep
<1>2. Marks'
  BY MarksStep DEF SessionInv, TypeOK, Marks
<1>3. TypeOK'
  BY <1>1, <1>2 DEF TypeOK, Values, OwnWire, Wire, Marks
<1>4. QED
  BY <1>1, <1>3 DEF SessionInv, OwnWire

LEMMA SessionInvHolds == Spec => []SessionInv
  BY SessionInit, SessionStep, PTL DEF Spec

(* Whoever posts, whenever the program ends and whatever the file held,    *)
(* the server works on what someone sent and has been validated, and       *)
(* memory, which may hold anything the file can, never an empty endpoint.  *)
THEOREM TypeCorrect == Spec => []TypeOK
<1>1. SessionInv => TypeOK
  BY DEF SessionInv
<1>2. QED
  BY <1>1, SessionInvHolds, PTL

LEMMA StoresStep == SessionInv /\ [Next]_vars =>
  /\ file' # file => file' \in Settings \cup {Torn}
  /\ mem' # mem /\ tui.at # "down" => mem' \in Settings
<1> SUFFICES ASSUME SessionInv, [Next]_vars
             PROVE  /\ file' # file => file' \in Settings \cup {Torn}
                    /\ mem' # mem /\ tui.at # "down" => mem' \in Settings
  OBVIOUS
<1>1. TypeOK /\ OwnRequest /\ mem \in Bodies
  BY DEF SessionInv, TypeOK
<1>2. srv.step \in {"saving", "storing"} => srv.body \in Settings
  BY <1>1, HandledFact
<1>3. \/ file' \in {file, Torn}
      \/ file' = mem /\ Validates(mem)
      \/ tui.at = "save" /\ file' = tui.next
      \/ srv.step = "saving" /\ file' = srv.body
  BY DEF Next, TuiStep, ServerStep, StartUp, SaveInitial, RefreshSession, CommitFailed,
     StoreAnswer, SaveAnswer, Apply, RebindIfChanged, RestartServer, RefusePost, StartPost,
     SavePost, StorePost, TimeOut, PostByOther, TakeConnection, ReleaseConnection, Exit, vars,
     Commit, Truncate, Fill, SaveFails
<1>4. \/ mem' \in {mem, Defaults} \/ tui.at = "down"
      \/ tui.at = "accepted" /\ mem' = tui.next
      \/ srv.step = "storing" /\ mem' = srv.body
  BY DEF Next, TuiStep, ServerStep, StartUp, SaveInitial, RefreshSession, CommitFailed,
     StoreAnswer, SaveAnswer, Apply, RebindIfChanged, RestartServer, RefusePost, StartPost,
     SavePost, StorePost, TimeOut, PostByOther, TakeConnection, ReleaseConnection, Exit, vars,
     Commit
<1>5. file' # file => file' \in Settings \cup {Torn}
  BY <1>1, <1>2, <1>3, ValidFact DEF OwnRequest
<1>6. mem' # mem /\ tui.at # "down" => mem' \in Settings
  BY <1>1, <1>2, <1>4, DefaultFacts DEF OwnRequest
<1>7. QED
  BY <1>5, <1>6

(* Settings that do not validate come from session.json at the start and   *)
(* from nowhere else, however prompts, posts, late requests, failing saves *)
(* and crashes follow one another.                                         *)
THEOREM OnlyValidStored == Spec => NeverStoresInvalid
<1>1. SessionInv /\ [Next]_vars =>
        [/\ file' # file => file' \in Settings \cup {Torn}
         /\ mem' # mem /\ tui.at # "down" => mem' \in Settings]_vars
  BY StoresStep
<1>2. QED
  BY <1>1, SessionInvHolds, PTL DEF Spec, NeverStoresInvalid

(* Whenever a change is over, file, memory, connection and listener agree, *)
(* if since the start no other client posted, no save failed and no        *)
(* request timed out, whatever happened before that start.                 *)
THEOREM AgreementCorrect == Spec => []SettingsAgree
<1>1. SessionInv => SettingsAgree
  BY DEF SessionInv, Agreement, Places, SettingsAgree, Quiet, Stored, Connected, Bound
<1>2. QED
  BY <1>1, SessionInvHolds, PTL

=============================================================================
