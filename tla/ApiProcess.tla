----------------------------- MODULE ApiProcess -----------------------------
(***************************************************************************)
(* The API processes: lifespan() of app/main.py around the requests each   *)
(* serves, ensure_bucket of app/core/storage.py that every one of them     *)
(* runs at its start, and GET /health/ready while MongoDB, Redis and MinIO *)
(* come and go.                                                            *)
(*                                                                         *)
(* A request is the services it awaits one after the other; what the calls *)
(* of POST /api/v1/maps do is BeatmapPipeline's.  One request at a time is *)
(* followed in each process.  Storage opens a client for every call, so    *)
(* lifespan() holds none for MinIO.                                        *)
(***************************************************************************)
EXTENDS Naturals, Sequences

CONSTANTS
  Processes,   \* API processes
  MaxFaults,   \* bound on the outages and refusals
  MaxStops     \* bound on the signals sent

ASSUME ApiAssumption == MaxFaults \in Nat /\ MaxStops \in Nat

VARIABLES
  server,    \* server[p]: where lifespan() of process p is
  clients,   \* clients[p]: the clients it holds open
  bucket,    \* MinIO has the songs bucket
  up,        \* services that answer
  request,   \* request[p]: the request process p serves
  faults, stops

vars == <<server, clients, bucket, up, request, faults, stops>>

Services == {"mongo", "redis", "minio"}
Clients  == {"mongo", "redis", "flow"}
Pinged   == {"mongo", "redis"}
Starting == {"head_bucket", "create_bucket"}
Closing  == {"close_flow", "close_redis", "close_mongo"}
Lifespan == {"off", "serving", "draining"} \cup Starting \cup Closing

\* What a request awaits, in order: a client of the process, or MinIO.
Calls(kind) ==
  CASE kind = "create" -> <<"mongo", "mongo", "minio", "flow">>
    [] kind = "read"   -> <<"mongo">>
    [] kind = "ready"  -> <<"mongo", "redis">>
    [] OTHER           -> << >>

\* The flow producer talks to Redis.
Service(call) == IF call = "flow" THEN "redis" ELSE call

\* A request and, for the properties, the services seen up and seen down since
\* it came in; one that was answered stays until the next.
RequestRecord ==
  [kind   : {"none", "create", "read", "ready"},
   at     : Nat,             \* the call under way, past the last: answered
   oks    : SUBSET Pinged,   \* pings that came back
   up     : SUBSET Services,
   down   : SUBSET Services]

NoRequest == [kind |-> "none", at |-> 1, oks |-> {}, up |-> {}, down |-> {}]

InFlight(p) == request[p].at <= Len(Calls(request[p].kind))

TypeOK ==
  /\ server \in [Processes -> Lifespan]
  /\ clients \in [Processes -> SUBSET Clients]
  /\ \A p \in Processes :   \* what the requests find in app.state
       server[p] \in {"serving", "draining"} => clients[p] = Clients
  /\ bucket \in BOOLEAN
  /\ up \subseteq Services
  /\ request \in [Processes -> RequestRecord]
  /\ faults \in 0..MaxFaults /\ stops \in 0..MaxStops

Init ==
  /\ server = [p \in Processes |-> "off"]
  /\ clients = [p \in Processes |-> {}]
  /\ bucket \in BOOLEAN
  /\ up = Services
  /\ request = [p \in Processes |-> NoRequest]
  /\ faults = 0 /\ stops = 0

-----------------------------------------------------------------------------
(* lifespan(), from await to await.                                        *)

\* The process is gone, and with it its clients.
Ends(p) ==
  /\ server' = [server EXCEPT ![p] = "off"]
  /\ clients' = [clients EXCEPT ![p] = {}]

\* Slip: Redis is left to be opened by the first request that needs it.
OpensFewer(p) ==
  /\ server' = [server EXCEPT ![p] = "serving"]
  /\ clients' = [clients EXCEPT ![p] = Clients \ {"redis"}]

Opens(p) ==
  /\ server' = [server EXCEPT ![p] = "serving"]
  /\ clients' = [clients EXCEPT ![p] = Clients]

Launch(p) ==
  /\ server[p] = "off"
  /\ server' = [server EXCEPT ![p] = "head_bucket"]
  /\ clients' = [clients EXCEPT ![p] = {"mongo"}]
  /\ request' = [request EXCEPT ![p] = NoRequest]
  /\ UNCHANGED <<bucket, up, faults, stops>>

\* Slips: an error answer is taken for a bucket that is there; the bucket is
\* created without looking.
HeadAnyAnswer(p) ==
  /\ server[p] = "head_bucket"
  /\ Opens(p)
  /\ UNCHANGED <<bucket, up, request, faults, stops>>
HeadSkipped(p) ==
  /\ server[p] = "head_bucket"
  /\ server' = [server EXCEPT ![p] = "create_bucket"]
  /\ UNCHANGED <<clients, bucket, up, request, faults, stops>>

\* A MinIO that cannot be reached raises no ClientError: the start fails.
HeadBucket(p) ==
  /\ server[p] = "head_bucket"
  /\ \/ "minio" \notin up /\ Ends(p)
     \/ "minio" \in up /\ bucket /\ Opens(p)
     \/ /\ "minio" \in up /\ ~bucket
        /\ server' = [server EXCEPT ![p] = "create_bucket"]
        /\ UNCHANGED clients
  /\ UNCHANGED <<bucket, up, request, faults, stops>>

\* Any error MinIO answers with is taken for a missing bucket.
HeadRefused(p) ==
  /\ server[p] = "head_bucket" /\ "minio" \in up
  /\ faults < MaxFaults
  /\ server' = [server EXCEPT ![p] = "create_bucket"]
  /\ faults' = faults + 1
  /\ UNCHANGED <<clients, bucket, up, request, stops>>

\* Creating a bucket that exists by now raises, and the start fails.
CreateBucket(p) ==
  /\ server[p] = "create_bucket"
  /\ IF "minio" \in up /\ ~bucket
     THEN bucket' = TRUE /\ Opens(p)
     ELSE UNCHANGED bucket /\ Ends(p)
  /\ UNCHANGED <<up, request, faults, stops>>

\* SIGTERM: uvicorn takes no more requests.
Signal(p) ==
  /\ server[p] = "serving" /\ stops < MaxStops
  /\ server' = [server EXCEPT ![p] = "draining"]
  /\ stops' = stops + 1
  /\ UNCHANGED <<clients, bucket, up, request, faults>>

\* Slip: the lifespan ends with the signal, whatever is in flight.
CloseAtOnce(p) ==
  /\ server[p] = "draining"
  /\ server' = [server EXCEPT ![p] = "close_flow"]
  /\ UNCHANGED <<clients, bucket, up, request, faults, stops>>

\* uvicorn ends the lifespan once the requests in flight are answered.
Drained(p) ==
  /\ server[p] = "draining" /\ ~InFlight(p)
  /\ server' = [server EXCEPT ![p] = "close_flow"]
  /\ UNCHANGED <<clients, bucket, up, request, faults, stops>>

\* `finally`: the flow producer, Redis, MongoDB.  A close that raises skips
\* the others, and the process ends all the same.
Close(p) ==
  /\ \/ /\ server[p] = "close_flow"
        /\ server' = [server EXCEPT ![p] = "close_redis"]
        /\ clients' = [clients EXCEPT ![p] = @ \ {"flow"}]
     \/ /\ server[p] = "close_redis"
        /\ server' = [server EXCEPT ![p] = "close_mongo"]
        /\ clients' = [clients EXCEPT ![p] = @ \ {"redis"}]
     \/ server[p] = "close_mongo" /\ Ends(p)
     \/ server[p] \in {"close_flow", "close_redis"} /\ "redis" \notin up /\ Ends(p)
  /\ UNCHANGED <<bucket, up, request, faults, stops>>

-----------------------------------------------------------------------------
(* Requests.                                                               *)

Receive(p) ==
  /\ server[p] = "serving" /\ ~InFlight(p)
  /\ \E kind \in {"create", "read", "ready"} :
       request' = [request EXCEPT ![p] =
         [kind |-> kind, at |-> 1, oks |-> {},
          up |-> up, down |-> Services \ up]]
  /\ UNCHANGED <<server, clients, bucket, up, faults, stops>>

\* _ping_mongo and _ping_redis catch everything; elsewhere an exception ends
\* the request with an error.
AfterError(p) ==
  IF request[p].kind = "ready"
  THEN [request[p] EXCEPT !.at = @ + 1]
  ELSE [request[p] EXCEPT !.at = Len(Calls(request[p].kind)) + 1]

AfterAnswer(p, call) ==
  [request[p] EXCEPT !.at  = @ + 1,
                     !.oks = IF request[p].kind = "ready" THEN @ \cup {call} ELSE @]

Await(p) ==
  /\ server[p] \in {"serving", "draining"} /\ InFlight(p)
  /\ LET call == Calls(request[p].kind)[request[p].at]
     IN  request' = [request EXCEPT ![p] =
           IF Service(call) \in up THEN AfterAnswer(p, call)
           ELSE AfterError(p)]
  /\ UNCHANGED <<server, clients, bucket, up, faults, stops>>

\* Slip: one service is enough.
AnyPing(p) == IF request[p].oks # {} THEN "ok" ELSE "degraded"

\* check_readiness: one ping after the other.
status(p) == IF request[p].oks = Pinged THEN "ok" ELSE "degraded"

-----------------------------------------------------------------------------
(* The services.                                                           *)

Watch == request' = [p \in Processes |->
           IF InFlight(p)
           THEN [request[p] EXCEPT !.up = @ \cup up', !.down = @ \cup (Services \ up')]
           ELSE request[p]]

Outage(s) ==
  /\ s \in up /\ faults < MaxFaults
  /\ up' = up \ {s}
  /\ faults' = faults + 1
  /\ Watch
  /\ UNCHANGED <<server, clients, bucket, stops>>

Recover(s) ==
  /\ s \notin up
  /\ up' = up \cup {s}
  /\ Watch
  /\ UNCHANGED <<server, clients, bucket, faults, stops>>

Start(p) == HeadBucket(p) \/ CreateBucket(p)

Next ==
  \/ \E p \in Processes :
       \/ Launch(p) \/ Start(p) \/ HeadRefused(p)
       \/ Signal(p) \/ Drained(p) \/ Close(p)
       \/ Receive(p) \/ Await(p)
  \/ \E s \in Services : Outage(s) \/ Recover(s)

Spec == Init /\ [][Next]_vars

\* A start that was begun goes on: ensure_bucket's calls return or raise.  Nothing
\* starts a process that has ended, and no outage need end.
FairSpec == Spec /\ \A p \in Processes : WF_vars(Start(p))
-----------------------------------------------------------------------------
(* Properties.                                                             *)

\* A process that takes uploads has a bucket to put them into, however its
\* start met the starts of others and the errors of MinIO.
BucketReady ==
  \A p \in Processes : server[p] \notin Starting \cup {"off"} => bucket

\* No request reaches an await on a client lifespan() has closed.
ClientsOutliveRequests ==
  \A p \in Processes :
    InFlight(p) => Calls(request[p].kind)[request[p].at] \in clients[p] \cup {"minio"}

\* Readiness is honest although its pings are made one after the other: "ok"
\* only if MongoDB and Redis both answered since the request came in, and
\* "degraded" only if one of them did not.
HonestReadiness ==
  \A p \in Processes :
    request[p].kind = "ready" /\ ~InFlight(p) =>
      /\ status(p) = "ok" => Pinged \subseteq request[p].up
      /\ status(p) = "degraded" => Pinged \cap request[p].down # {}

\* Processes that start together on an empty MinIO find no bucket and create it,
\* and ensure_bucket raises in all but one of them, which end.  They never keep
\* each other out: unless a service goes down or refuses, or a process is told to
\* stop, one of them serves.
SomeProcessServes ==
  \A p \in Processes :
    server[p] \in Starting ~>
      \/ faults > 0 \/ stops > 0
      \/ \E q \in Processes : server[q] \in {"serving", "draining"}
=============================================================================
