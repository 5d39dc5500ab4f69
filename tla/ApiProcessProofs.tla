-------------------------- MODULE ApiProcessProofs --------------------------
(***************************************************************************)
(* ApiProcess is safe for any number of processes, outages and signals: a  *)
(* serving process has its bucket, no request meets a closed client, and   *)
(* readiness contradicts nothing that happened since it was asked for.     *)
(***************************************************************************)
EXTENDS ApiProcess, TLAPS

Kinds == {"none", "create", "read", "ready"}

\* While requests are served the clients are open; a request that is under way
\* has seen the services as they are now.
LifespanInv(p) ==
  /\ server[p] \in {"serving", "draining"} => clients[p] = Clients
  /\ InFlight(p) => server[p] \in {"serving", "draining"}
  /\ server[p] \notin Starting \cup {"off"} => bucket

WatchInv(p) ==
  InFlight(p) => up \subseteq request[p].up /\ Services \ up \subseteq request[p].down

\* Each ping that is over came back from a service seen up, or failed on one
\* seen down.
PingInv(p) ==
  LET r == request[p]
  IN  r.kind = "ready" =>
        /\ r.at \in 1..3
        /\ r.oks \subseteq r.up
        /\ r.at > 1 /\ "mongo" \notin r.oks => "mongo" \in r.down
        /\ r.at > 2 /\ "redis" \notin r.oks => "redis" \in r.down

\* TypeOK, but for what LifespanInv says of the clients.
Typed ==
  /\ server \in [Processes -> Lifespan]
  /\ clients \in [Processes -> SUBSET Clients]
  /\ bucket \in BOOLEAN
  /\ up \subseteq Services
  /\ request \in [Processes -> RequestRecord]
  /\ faults \in 0..MaxFaults /\ stops \in 0..MaxStops

ApiInv ==
  /\ Typed
  /\ \A p \in Processes :
       /\ request[p].at \in Nat \ {0}
       /\ LifespanInv(p) /\ WatchInv(p) /\ PingInv(p)

\* The calls of each kind of request.
LEMMA CallsOf ==
  /\ Len(Calls("none")) = 0
  /\ Len(Calls("create")) = 4
  /\ Len(Calls("read")) = 1
  /\ Len(Calls("ready")) = 2
  /\ Calls("ready")[1] = "mongo" /\ Calls("ready")[2] = "redis"
  /\ \A kind \in Kinds : \A i \in 1..Len(Calls(kind)) : Calls(kind)[i] \in Clients \cup {"minio"}
<1>1. Calls("none") = << >> /\ Calls("read") = <<"mongo">>
  BY DEF Calls
<1>2. Calls("create") = <<"mongo", "mongo", "minio", "flow">>
  BY DEF Calls
<1>3. Calls("ready") = <<"mongo", "redis">>
  BY DEF Calls
<1>4. ASSUME NEW kind \in Kinds, NEW i \in 1..Len(Calls(kind))
      PROVE  Calls(kind)[i] \in Clients \cup {"minio"}
  <2>1. CASE kind = "create"
    BY <1>2, <1>4, <2>1 DEF Clients
  <2>2. CASE kind = "ready"
    BY <1>3, <1>4, <2>2 DEF Clients
  <2>3. CASE kind \in {"none", "read"}
    BY <1>1, <1>4, <2>3 DEF Clients
  <2>. QED  BY <2>1, <2>2, <2>3 DEF Kinds
<1>. QED  BY <1>1, <1>2, <1>3, <1>4

\* No request is under way in a process that serves none.
LEMMA NoneInFlight ==
  ASSUME NEW r, r = NoRequest PROVE ~(r.at <= Len(Calls(r.kind)))
BY CallsOf DEF NoRequest

LEMMA ApiInit == Init => ApiInv
<1>. SUFFICES ASSUME Init PROVE ApiInv
  OBVIOUS
<1>1. NoRequest \in RequestRecord
  BY DEF NoRequest, RequestRecord
<1>2. Typed
  BY <1>1, ApiAssumption DEF Init, Typed, Lifespan
<1>3. ASSUME NEW p \in Processes
      PROVE  request[p] = NoRequest /\ server[p] = "off"
  BY DEF Init
<1>4. ASSUME NEW p \in Processes PROVE ~InFlight(p)
  BY <1>3, NoneInFlight DEF InFlight
<1>5. ASSUME NEW p \in Processes
      PROVE  /\ request[p].at \in Nat \ {0}
             /\ LifespanInv(p) /\ WatchInv(p) /\ PingInv(p)
  BY <1>3, <1>4 DEF NoRequest, LifespanInv, WatchInv, PingInv
<1>. QED  BY <1>2, <1>5 DEF ApiInv

\* The steps of lifespan() leave requests under way alone, and so keep what is
\* known of them.
LEMMA LifespanStep ==
  ASSUME ApiInv, NEW p \in Processes,
         HeadBucket(p) \/ CreateBucket(p) \/ HeadRefused(p)
           \/ Signal(p) \/ Drained(p) \/ Close(p)
  PROVE  ApiInv'
<1>1. request' = request /\ up' = up
  BY DEF HeadBucket, CreateBucket, HeadRefused, Signal, Drained, Close
<1>2. Typed'
  <2>1. Typed
    BY DEF ApiInv
  <2>2. ASSUME NEW s \in Lifespan, server' = [server EXCEPT ![p] = s]
        PROVE  server' \in [Processes -> Lifespan]
    BY <2>1, <2>2 DEF Typed
  <2>3. ASSUME NEW c \in SUBSET Clients, clients' = [clients EXCEPT ![p] = c]
        PROVE  clients' \in [Processes -> SUBSET Clients]
    BY <2>1, <2>3 DEF Typed
  <2>4. clients[p] \in SUBSET Clients
    BY <2>1 DEF Typed
  <2>5. CASE HeadBucket(p) \/ CreateBucket(p)
    BY <2>1, <2>2, <2>3, <2>5
       DEF Typed, HeadBucket, CreateBucket, Ends, Opens, Lifespan, Starting
  <2>6. CASE HeadRefused(p) \/ Signal(p) \/ Drained(p)
    BY <2>1, <2>2, <2>6, ApiAssumption
       DEF Typed, HeadRefused, Signal, Drained, Lifespan, Starting, Closing
  <2>7. CASE Close(p)
    BY <2>1, <2>2, <2>3, <2>4, <2>7 DEF Typed, Close, Ends, Lifespan, Closing
  <2>. QED  BY <2>5, <2>6, <2>7
<1>3. bucket => bucket'
  BY DEF HeadBucket, CreateBucket, HeadRefused, Signal, Drained, Close
<1>4. ASSUME NEW q \in Processes PROVE LifespanInv(q)'
  <2>1. InFlight(q)' = InFlight(q)
    BY <1>1 DEF InFlight
  <2>2. CASE q # p
    <3>1. server'[q] = server[q] /\ clients'[q] = clients[q]
      BY <2>2 DEF ApiInv, Typed, HeadBucket, CreateBucket, HeadRefused, Signal, Drained,
                  Close, Ends, Opens
    <3>. QED  BY <3>1, <2>1, <1>3 DEF ApiInv, LifespanInv
  <2>3. CASE q = p
    <3>1. server[p] \in {"serving", "draining"} => clients[p] = Clients
      BY DEF ApiInv, LifespanInv
    <3>2. InFlight(p) => server[p] \in {"serving", "draining"}
      BY DEF ApiInv, LifespanInv
    <3>3. server[p] \notin Starting \cup {"off"} => bucket
      BY DEF ApiInv, LifespanInv
    <3>4. CASE HeadBucket(p) \/ CreateBucket(p) \/ HeadRefused(p)
      BY <2>1, <2>3, <3>1, <3>2, <3>3, <3>4
         DEF LifespanInv, ApiInv, Typed, HeadBucket, CreateBucket, HeadRefused, Ends,
             Opens, Starting
    <3>5. CASE Signal(p) \/ Drained(p)
      BY <2>1, <2>3, <3>1, <3>2, <3>3, <3>5
         DEF LifespanInv, ApiInv, Typed, Signal, Drained, Starting
    <3>6. CASE Close(p)
      BY <2>1, <2>3, <3>1, <3>2, <3>3, <3>6
         DEF LifespanInv, ApiInv, Typed, Close, Ends, Starting
    <3>. QED  BY <3>4, <3>5, <3>6
  <2>. QED  BY <2>2, <2>3
<1>5. ASSUME NEW q \in Processes
      PROVE  request'[q].at \in Nat \ {0} /\ WatchInv(q)' /\ PingInv(q)'
  BY <1>1 DEF ApiInv, WatchInv, PingInv, InFlight
<1>. QED  BY <1>2, <1>4, <1>5 DEF ApiInv

LEMMA LaunchStep ==
  ASSUME ApiInv, NEW p \in Processes, Launch(p)
  PROVE  ApiInv'
<1>1. NoRequest \in RequestRecord
  BY DEF NoRequest, RequestRecord
<1>2. Typed'
  BY <1>1 DEF ApiInv, Typed, Launch, Lifespan, Starting, Clients
<1>3. ASSUME NEW q \in Processes
      PROVE  /\ request'[q].at \in Nat \ {0}
             /\ LifespanInv(q)' /\ WatchInv(q)' /\ PingInv(q)'
  <2>1. CASE q # p
    <3>1. request'[q] = request[q] /\ server'[q] = server[q]
          /\ clients'[q] = clients[q] /\ up' = up /\ bucket' = bucket
      BY <2>1 DEF ApiInv, Typed, Launch
    <3>. QED  BY <3>1 DEF ApiInv, LifespanInv, WatchInv, PingInv, InFlight
  <2>2. CASE q = p
    <3>1. request'[q] = NoRequest /\ server'[q] = "head_bucket"
      BY <2>2 DEF ApiInv, Typed, Launch
    <3>2. ~InFlight(q)'
      BY <3>1, NoneInFlight DEF InFlight
    <3>. QED
      BY <3>1, <3>2 DEF NoRequest, LifespanInv, WatchInv, PingInv, Starting
  <2>. QED  BY <2>1, <2>2
<1>. QED  BY <1>2, <1>3 DEF ApiInv

\* A step that only changes the request of a serving process keeps the rest.
LEMMA RequestStep ==
  ASSUME ApiInv, NEW p \in Processes,
         server[p] \in {"serving", "draining"},
         NEW r \in RequestRecord, request' = [request EXCEPT ![p] = r],
         UNCHANGED <<server, clients, bucket, up, faults, stops>>,
         r.at # 0,
         r.at <= Len(Calls(r.kind)) => up \subseteq r.up /\ Services \ up \subseteq r.down,
         r.kind = "ready" =>
           /\ r.at \in 1..3
           /\ r.oks \subseteq r.up
           /\ r.at > 1 /\ "mongo" \notin r.oks => "mongo" \in r.down
           /\ r.at > 2 /\ "redis" \notin r.oks => "redis" \in r.down
  PROVE  ApiInv'
<1>1. Typed'
  BY DEF ApiInv, Typed
<1>2. ASSUME NEW q \in Processes
      PROVE  /\ request'[q].at \in Nat \ {0}
             /\ LifespanInv(q)' /\ WatchInv(q)' /\ PingInv(q)'
  <2>1. CASE q # p
    <3>1. request'[q] = request[q]
      BY <2>1 DEF ApiInv, Typed
    <3>. QED  BY <3>1 DEF ApiInv, LifespanInv, WatchInv, PingInv, InFlight
  <2>2. CASE q = p
    <3>1. request'[q] = r
      BY <2>2 DEF ApiInv, Typed
    <3>2. r.at \in Nat
      BY DEF RequestRecord
    <3>3. LifespanInv(q)'
      BY <2>2 DEF ApiInv, LifespanInv
    <3>4. WatchInv(q)' /\ PingInv(q)'
      BY <3>1 DEF WatchInv, PingInv, InFlight
    <3>. QED  BY <3>1, <3>2, <3>3, <3>4
  <2>. QED  BY <2>1, <2>2
<1>. QED  BY <1>1, <1>2 DEF ApiInv

LEMMA ReceiveStep ==
  ASSUME ApiInv, NEW p \in Processes, Receive(p)
  PROVE  ApiInv'
<1>1. PICK kind \in {"create", "read", "ready"} :
        request' = [request EXCEPT ![p] =
          [kind |-> kind, at |-> 1, oks |-> {}, up |-> up, down |-> Services \ up]]
  BY DEF Receive
<1>. DEFINE r == [kind |-> kind, at |-> 1, oks |-> {}, up |-> up,
                  down |-> Services \ up]
<1>2. r \in RequestRecord
  BY DEF ApiInv, Typed, RequestRecord
<1>3. server[p] \in {"serving", "draining"}
      /\ UNCHANGED <<server, clients, bucket, up, faults, stops>>
  BY DEF Receive
<1>4. r.at = 1 /\ r.oks = {} /\ r.up = up /\ r.down = Services \ up
  OBVIOUS
<1>5. request' = [request EXCEPT ![p] = r]
  BY <1>1
<1>. HIDE DEF r
<1>6. /\ r.at # 0
      /\ r.at \in 1..3
      /\ r.oks \subseteq r.up
      /\ ~(r.at > 1) /\ ~(r.at > 2)
  BY <1>4
<1>. QED  BY <1>2, <1>3, <1>4, <1>5, <1>6, RequestStep

LEMMA AwaitStep ==
  ASSUME ApiInv, NEW p \in Processes, Await(p)
  PROVE  ApiInv'
<1>. DEFINE old    == request[p]
            client == Calls(old.kind)[old.at]
            new    == IF Service(client) \in up THEN AfterAnswer(p, client)
                      ELSE AfterError(p)
<1>1. /\ server[p] \in {"serving", "draining"} /\ InFlight(p)
      /\ request' = [request EXCEPT ![p] = new]
      /\ UNCHANGED <<server, clients, bucket, up, faults, stops>>
  BY DEF Await
<1>2. old \in RequestRecord /\ old.at \in Nat \ {0}
  BY DEF ApiInv, Typed
<1>3. up \subseteq old.up /\ Services \ up \subseteq old.down
  BY <1>1 DEF ApiInv, WatchInv
<1>4. CASE old.kind = "ready"
  <2>1. old.at \in 1..2
    <3>1. old.at <= 2
      BY <1>1, <1>4, CallsOf DEF InFlight
    <3>. HIDE DEF old
    <3>. QED  BY <1>2, <3>1
  <2>2. client = IF old.at = 1 THEN "mongo" ELSE "redis"
    BY <1>4, <2>1, CallsOf
  <2>3. Service(client) = client /\ client \in Pinged /\ client \in Services
    BY <2>2 DEF Service, Pinged, Services
  <2>4. new = [old EXCEPT !.at  = old.at + 1,
                          !.oks = IF client \in up THEN old.oks \cup {client} ELSE old.oks]
    <3>1. CASE client \in up
      BY <1>2, <1>4, <2>3, <3>1 DEF AfterAnswer, RequestRecord
    <3>2. CASE client \notin up
      BY <1>2, <1>4, <2>3, <3>2 DEF AfterError, RequestRecord
    <3>. QED  BY <3>1, <3>2
  <2>5. new \in RequestRecord /\ new.at = old.at + 1
        /\ new.kind = "ready" /\ new.up = old.up /\ new.down = old.down
        /\ new.oks = IF client \in up THEN old.oks \cup {client} ELSE old.oks
    <3>1. ASSUME NEW oks \in SUBSET Pinged, NEW at \in Nat,
                 new = [old EXCEPT !.at = at, !.oks = oks]
          PROVE  /\ new \in RequestRecord /\ new.at = at /\ new.oks = oks
                 /\ new.kind = old.kind /\ new.up = old.up /\ new.down = old.down
      <4>. HIDE DEF new, old
      <4>. QED  BY <1>2, <3>1 DEF RequestRecord
    <3>2. old.at + 1 \in Nat
      <4>. HIDE DEF old
      <4>. QED  BY <2>1
    <3>3. old.oks \in SUBSET Pinged
      BY <1>2 DEF RequestRecord
    <3>4. (IF client \in up THEN old.oks \cup {client} ELSE old.oks) \in SUBSET Pinged
      <4>. HIDE DEF old, client
      <4>. QED  BY <2>3, <3>3
    <3>. HIDE DEF new, client, old
    <3>. QED  BY <1>4, <2>4, <3>1, <3>2, <3>4
  <2>6. PingInv(p)
    BY DEF ApiInv
  <2>7. /\ new.at \in 1..3
        /\ new.oks \subseteq new.up
        /\ new.at > 1 /\ "mongo" \notin new.oks => "mongo" \in new.down
        /\ new.at > 2 /\ "redis" \notin new.oks => "redis" \in new.down
    <3>. HIDE DEF new, client
    <3>. QED  BY <1>3, <1>4, <2>1, <2>2, <2>3, <2>5, <2>6 DEF PingInv
  <2>8. new.at # 0 /\ up \subseteq new.up /\ Services \ up \subseteq new.down
    <3>. HIDE DEF new
    <3>. QED  BY <1>3, <2>5, <2>7
  <2>. HIDE DEF new
  <2>. QED  BY <1>1, <2>5, <2>7, <2>8, RequestStep
<1>5. CASE old.kind # "ready"
  <2>1. Len(Calls(old.kind)) \in Nat
    BY <1>2, CallsOf DEF RequestRecord
  <2>2. new = [old EXCEPT !.at = old.at + 1]
        \/ new = [old EXCEPT !.at = Len(Calls(old.kind)) + 1]
    BY <1>2, <1>5 DEF AfterAnswer, AfterError, RequestRecord
  <2>3. new \in RequestRecord /\ new.at # 0 /\ new.kind = old.kind
        /\ new.up = old.up /\ new.down = old.down
    <3>. HIDE DEF new
    <3>. QED  BY <1>2, <2>1, <2>2 DEF RequestRecord
  <2>. HIDE DEF new
  <2>. QED  BY <1>1, <1>3, <1>5, <2>3, RequestStep
<1>. QED  BY <1>4, <1>5

LEMMA ServiceStep ==
  ASSUME ApiInv, NEW s \in Services, Outage(s) \/ Recover(s)
  PROVE  ApiInv'
<1>1. UNCHANGED <<server, clients, bucket, stops>> /\ Watch
      /\ up' \subseteq Services /\ faults' \in 0..MaxFaults
  BY ApiAssumption DEF Outage, Recover, ApiInv, Typed
<1>2. ASSUME NEW q \in Processes
      PROVE  /\ request'[q] = IF InFlight(q)
                              THEN [request[q] EXCEPT
                                      !.up = request[q].up \cup up',
                                      !.down = request[q].down \cup (Services \ up')]
                              ELSE request[q]
             /\ request[q] \in RequestRecord
  BY <1>1 DEF Watch, ApiInv, Typed
<1>3. ASSUME NEW q \in Processes
      PROVE  /\ request'[q] \in RequestRecord
             /\ request'[q].kind = request[q].kind /\ request'[q].at = request[q].at
             /\ request'[q].oks = request[q].oks
             /\ request[q].up \subseteq request'[q].up
             /\ request[q].down \subseteq request'[q].down
             /\ InFlight(q) => /\ up' \subseteq request'[q].up
                               /\ Services \ up' \subseteq request'[q].down
  <2>1. up' \subseteq Services /\ Services \ up' \subseteq Services
    BY <1>1
  <2>2. CASE ~InFlight(q)
    BY <1>2, <2>2
  <2>3. CASE InFlight(q)
    <3>. DEFINE u == request[q].up \cup up'
                d == request[q].down \cup (Services \ up')
    <3>1. u \in SUBSET Services /\ d \in SUBSET Services
      BY <1>2, <2>1 DEF RequestRecord
    <3>2. request'[q] = [request[q] EXCEPT !.up = u, !.down = d]
      BY <1>2, <2>3
    <3>3. up' \subseteq u /\ Services \ up' \subseteq d
          /\ request[q].up \subseteq u /\ request[q].down \subseteq d
      OBVIOUS
    <3>. HIDE DEF u, d
    <3>. QED  BY <1>2, <3>1, <3>2, <3>3 DEF RequestRecord
  <2>. QED  BY <2>2, <2>3
<1>4. Typed'
  <2>1. request' = [q \in Processes |-> request'[q]]
    BY <1>1 DEF Watch
  <2>2. request' \in [Processes -> RequestRecord]
    BY <1>3, <2>1
  <2>. QED  BY <1>1, <2>2 DEF ApiInv, Typed
<1>5. ASSUME NEW q \in Processes
      PROVE  /\ request'[q].at \in Nat \ {0}
             /\ LifespanInv(q)' /\ WatchInv(q)' /\ PingInv(q)'
  <2>1. InFlight(q)' <=> InFlight(q)
    BY <1>3 DEF InFlight
  <2>2. LifespanInv(q)' /\ WatchInv(q)'
    BY <1>1, <1>3, <2>1 DEF ApiInv, LifespanInv, WatchInv
  <2>3. PingInv(q)'
    BY <1>3 DEF ApiInv, PingInv
  <2>. QED  BY <1>3, <2>2, <2>3 DEF ApiInv
<1>. QED  BY <1>4, <1>5 DEF ApiInv

LEMMA ApiNext == ApiInv /\ [Next]_vars => ApiInv'
<1>. SUFFICES ASSUME ApiInv, [Next]_vars PROVE ApiInv'
  OBVIOUS
<1>1. ASSUME NEW p \in Processes,
             Launch(p) \/ Start(p) \/ HeadRefused(p) \/ Signal(p) \/ Drained(p) \/ Close(p)
      PROVE  ApiInv'
  BY <1>1, LaunchStep, LifespanStep DEF Start
<1>2. ASSUME NEW p \in Processes, Receive(p) \/ Await(p) PROVE ApiInv'
  BY <1>2, ReceiveStep, AwaitStep
<1>3. ASSUME NEW s \in Services, Outage(s) \/ Recover(s) PROVE ApiInv'
  BY <1>3, ServiceStep
<1>4. CASE UNCHANGED vars
  BY <1>4 DEF vars, ApiInv, Typed, LifespanInv, WatchInv, PingInv, InFlight
<1>. QED  BY <1>1, <1>2, <1>3, <1>4 DEF Next

LEMMA ApiInvariant == Spec => []ApiInv
BY ApiInit, ApiNext, PTL DEF Spec

\* The variables of the API processes keep their types.
THEOREM ApiTypeCorrect == Spec => []TypeOK
<1>1. ApiInv => TypeOK
  BY DEF ApiInv, Typed, LifespanInv, TypeOK
<1>. QED  BY <1>1, ApiInvariant, PTL

\* A process that takes uploads has a bucket, for any number of processes that
\* start at once and any errors of MinIO (ensure_bucket).
THEOREM BucketSafe == Spec => []BucketReady
<1>1. ApiInv => BucketReady
  BY DEF ApiInv, LifespanInv, BucketReady
<1>. QED  BY <1>1, ApiInvariant, PTL

\* No request reaches an await on a client lifespan() has closed.
THEOREM RequestsSafe == Spec => []ClientsOutliveRequests
<1>1. ASSUME ApiInv, NEW p \in Processes, InFlight(p)
      PROVE  Calls(request[p].kind)[request[p].at] \in clients[p] \cup {"minio"}
  <2>1. request[p] \in RequestRecord /\ request[p].at \in Nat \ {0}
    BY <1>1 DEF ApiInv, Typed
  <2>2. request[p].kind \in Kinds
    BY <2>1 DEF RequestRecord, Kinds
  <2>3. Len(Calls(request[p].kind)) \in Nat
    BY <2>2, CallsOf DEF Kinds
  <2>4. request[p].at \in 1..Len(Calls(request[p].kind))
    BY <1>1, <2>1, <2>3 DEF InFlight
  <2>5. clients[p] = Clients
    BY <1>1 DEF ApiInv, LifespanInv
  <2>. QED  BY <2>2, <2>4, <2>5, CallsOf
<1>2. ApiInv => ClientsOutliveRequests
  BY <1>1 DEF ClientsOutliveRequests
<1>. QED  BY <1>2, ApiInvariant, PTL

\* Readiness never contradicts what happened since it was asked for.
THEOREM ReadinessSafe == Spec => []HonestReadiness
<1>1. ASSUME ApiInv, NEW p \in Processes, request[p].kind = "ready", ~InFlight(p)
      PROVE  /\ status(p) = "ok" => Pinged \subseteq request[p].up
             /\ status(p) = "degraded" => Pinged \cap request[p].down # {}
  <2>1. request[p].at = 3
    BY <1>1, CallsOf DEF ApiInv, PingInv, InFlight
  <2>2. /\ request[p].oks \subseteq request[p].up
        /\ "mongo" \notin request[p].oks => "mongo" \in request[p].down
        /\ "redis" \notin request[p].oks => "redis" \in request[p].down
    BY <1>1, <2>1 DEF ApiInv, PingInv
  <2>3. request[p].oks \subseteq Pinged
    BY <1>1 DEF ApiInv, Typed, RequestRecord
  <2>4. status(p) = "ok" => Pinged \subseteq request[p].up
    BY <2>2 DEF status
  <2>5. status(p) = "degraded" => request[p].oks # Pinged
    BY DEF status
  <2>. QED  BY <2>2, <2>3, <2>4, <2>5 DEF Pinged
<1>2. ApiInv => HonestReadiness
  BY <1>1 DEF HonestReadiness
<1>. QED  BY <1>2, ApiInvariant, PTL
=============================================================================
