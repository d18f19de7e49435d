-------------------------------- MODULE Api ---------------------------------
(***************************************************************************)
(* The HTTP service of app.py: start-up, shutdown, the embedded worker and *)
(* the handlers, with the credentials of config.py and the checks of       *)
(* auth.py, over the rows of MemoryStore and the scopes of the runs.       *)
(*                                                                         *)
(* A handler is a coroutine: what it does between two awaits is one step.  *)
(* Everything before its first await (401, 422 or 400, 403, 503) is the    *)
(* step Arrive.  There is one namespace, which no credential restricts.    *)
(* /livez and /v1/models read no state and are left out.                   *)
(*                                                                         *)
(* asyncpg, external: a pool gives out at most PoolSize connections, its   *)
(* close waits until all are back, and acquire raises once it has begun.   *)
(* Robyn, external: a request may arrive in any phase before the end.      *)
(***************************************************************************)
EXTENDS MemoryStore

CONSTANTS
  Clients,          \* each sends one request
  Runs, Tenants, Subjects,
  NonAscii,         \* the subjects hmac.compare_digest does not take
  BLANK,            \* the subject "", which no request has
  Tokens, RawKeys,  \* API_KEYS_JSON
  Embedded,         \* settings.embedded_worker
  PoolSize, Preset  \* DB_POOL_SIZE, the memories at the start

VARIABLES
  phase,   \* of on_startup or on_shutdown
  pool,    \* pool[p]: of connections, for p = "queue" and p = "memory"
  worker,  \* embedded_task
  runs,    \* runs[r]: the scope of the row in rlm_runs, or NULL
  req      \* req[c]: the request of client c

vars == <<phase, pool, worker, runs, req, memories>>

Scopes == [tenant : Tenants, subject : Subjects]

(* config.py refuses a credential without a tenant. *)
ASSUME ApiAssumption ==
  /\ IsFiniteSet(Clients)
  /\ NonAscii \subseteq Subjects
  /\ BLANK \notin Subjects
  /\ RawKeys \in [Tokens ->
       Tenants \cup [tenant : Tenants, subject : Subjects \cup {BLANK, NULL}]]
  /\ Embedded \in BOOLEAN
  /\ PoolSize \in Nat \ {0}
  /\ NULL \notin Scopes \cup MemoryRow(Scopes, Nat)
  /\ Preset \in [Memories -> MemoryRow(Scopes, {0}) \cup {NULL}]

Pools == {"queue", "memory"}
Ops == {"create", "get", "write", "search", "healthz"}
Stages == {"none", "embedding", "waiting", "holding", "found", "committed", "done"}

NoRequest ==
  [stage |-> "none", op |-> "none", token |-> NULL, target |-> NULL,
   status |-> 0, answer |-> NULL]
-----------------------------------------------------------------------------
(* config.py, auth.py *)

(* A value of API_KEYS_JSON, blanks stripped: a tenant, or an object.  A   *)
(* subject_id that is missing, null or no text is NULL.                    *)
Credential(token) ==
  IF RawKeys[token] \in Tenants
  THEN [tenant |-> RawKeys[token], subject |-> NULL]
  ELSE [tenant |-> RawKeys[token].tenant, subject |-> RawKeys[token].subject]

EnforceTenant(credential, tenant, subject) ==   \* broken: any subject
  IF tenant \in {NULL, credential.tenant} THEN "allowed" ELSE "refused"

EnforceScope(credential, tenant, subject) ==
  IF tenant \notin {NULL, credential.tenant} THEN "refused"
  ELSE IF credential.subject \in {NULL, subject} \ NonAscii THEN "allowed"
  ELSE IF {subject, credential.subject} \cap NonAscii # {} THEN "raises"
  ELSE "refused"

(* 500: the TypeError of compare_digest, which no handler catches. *)
ScopeStatus(verdict) == IF verdict = "raises" THEN 500 ELSE 403
-----------------------------------------------------------------------------
ApiInit ==
  /\ phase = "start_queue"
  /\ pool = [p \in Pools |-> "none"]
  /\ worker = "none"
  /\ runs = [r \in Runs |-> NULL]
  /\ req = [c \in Clients |-> NoRequest]
  /\ memories = Preset

StoresAreSet == phase \notin {"start_queue", "start_memory", "validating",
                              "undo_memory", "undo_queue", "failed"}

PoolOf(op) == IF op \in {"write", "search"} THEN "memory" ELSE "queue"

ScopeOf(request) ==
  [tenant |-> Credential(request.token).tenant, subject |-> request.target]
-----------------------------------------------------------------------------
(* on_startup *)

Phase(p) == phase' = p /\ UNCHANGED <<runs, req, memories>>

CreateQueuePool ==
  /\ phase = "start_queue"
  /\ \/ Phase("start_memory") /\ pool' = [pool EXCEPT !["queue"] = "open"]
     \/ Phase("failed") /\ UNCHANGED pool
  /\ UNCHANGED worker

CreateMemoryPool ==
  /\ phase = "start_memory"
  /\ \/ Phase("validating") /\ pool' = [pool EXCEPT !["memory"] = "open"]
     \/ Phase("undo_queue") /\ UNCHANGED pool
  /\ UNCHANGED worker

ValidateDimension ==
  /\ phase = "validating"
  /\ \/ Phase("up") /\ worker' = IF Embedded THEN "running" ELSE "none"
     \/ Phase("undo_memory") /\ UNCHANGED worker
  /\ UNCHANGED pool

(* The except clauses of MemoryStore.create and of on_startup. *)
UndoMemory ==
  /\ phase = "undo_memory"
  /\ Phase("undo_queue")
  /\ pool' = [pool EXCEPT !["memory"] = "closed"]
  /\ UNCHANGED worker

UndoQueue ==
  /\ phase = "undo_queue"
  /\ Phase("failed")
  /\ pool' = [pool EXCEPT !["queue"] = "closed"]
  /\ UNCHANGED worker
-----------------------------------------------------------------------------
(* on_shutdown *)

Shutdown ==
  /\ phase = "up"
  /\ Phase("joining")
  /\ UNCHANGED <<pool, worker>>

StopForgotten == FALSE    \* broken: embedded_stop is not set

StopIsSet == phase = "joining"

(* run_worker_loop returns after a stop (Worker: StopIsHonoured); it       *)
(* raises at any time, after too many failed polls.                        *)
WorkerStops ==
  /\ worker = "running" /\ StopIsSet
  /\ worker' = "done"
  /\ UNCHANGED <<phase, pool, runs, req, memories>>

WorkerDies ==
  /\ worker = "running"
  /\ worker' = "done"
  /\ UNCHANGED <<phase, pool, runs, req, memories>>

GatheredAtOnce == TRUE    \* broken: embedded_task is not awaited

Gathered == worker # "running"

BeginCloseMemory ==
  /\ phase = "joining" /\ Gathered
  /\ Phase("closing_memory")
  /\ pool' = [pool EXCEPT !["memory"] = "closing"]
  /\ UNCHANGED worker

Holds(c) == req[c].stage \in {"holding", "found", "committed"}

Holders(p) == {c \in Clients : Holds(c) /\ PoolOf(req[c].op) = p}

MemoryClosed ==
  /\ phase = "closing_memory" /\ Holders("memory") = {}
  /\ Phase("closing_queue")
  /\ pool' = [memory |-> "closed", queue |-> "closing"]
  /\ UNCHANGED worker

QueueClosed ==
  /\ phase = "closing_queue" /\ Holders("queue") = {}
  /\ Phase("stopped")
  /\ pool' = [pool EXCEPT !["queue"] = "closed"]
  /\ UNCHANGED worker
-----------------------------------------------------------------------------
(* The handlers *)

Becomes(c, request) ==
  /\ req' = [req EXCEPT ![c] = request]
  /\ UNCHANGED <<phase, pool, worker>>

Done(request, status, answer) ==
  [request EXCEPT !.stage = "done", !.status = status, !.answer = answer]

Rejected(status) == Done(NoRequest, status, NULL)

(* A request that passes the checks goes on with what it awaits first. *)
Admitted(request) ==
  IF StoresAreSet
  THEN [request EXCEPT
          !.stage = IF PoolOf(request.op) = "memory" THEN "embedding" ELSE "waiting"]
  ELSE Rejected(503)

Arrive(c) ==
  /\ req[c].stage = "none" /\ phase # "stopped"
  /\ UNCHANGED <<runs, memories>>
  /\ \/ Becomes(c, Rejected(401))
     \/ \E status \in {400, 422} : Becomes(c, Rejected(status))
     \/ \E op \in {"create", "write", "search"}, token \in Tokens,
           tenant \in Tenants \cup {NULL}, subject \in Subjects :
          LET verdict == EnforceScope(Credential(token), tenant, subject)
          IN  Becomes(c, IF verdict = "allowed"
                         THEN Admitted([NoRequest EXCEPT
                                !.op = op, !.token = token, !.target = subject])
                         ELSE Rejected(ScopeStatus(verdict)))
     \/ \E token \in Tokens, r \in Runs :
          Becomes(c, Admitted([NoRequest EXCEPT
                       !.op = "get", !.token = token, !.target = r]))
     \/ Becomes(c, IF StoresAreSet
                   THEN [NoRequest EXCEPT !.op = "healthz", !.stage = "waiting",
                                          !.answer = worker # "done"]
                   ELSE Rejected(503))

Embed(c) ==
  /\ req[c].stage = "embedding"
  /\ Becomes(c, [req[c] EXCEPT !.stage = "waiting"])
  /\ UNCHANGED <<runs, memories>>

Acquire(c) ==
  LET p == PoolOf(req[c].op)
  IN  /\ req[c].stage = "waiting"
      /\ pool[p] = "open" /\ Cardinality(Holders(p)) < PoolSize
      /\ Becomes(c, [req[c] EXCEPT !.stage = "holding"])
      /\ UNCHANGED <<runs, memories>>

RaisedUnseen(request) ==  \* broken: the except clause goes on
  Done(request, IF request.op = "create" THEN 202
                ELSE IF request.op = "write" THEN 201 ELSE 503, request.answer)

(* The except clauses of the handlers and of RunStore.ready. *)
Raised(request) == Done([NoRequest EXCEPT !.op = request.op], 503, NULL)

AcquireRefused(c) ==
  /\ req[c].stage = "waiting" /\ pool[PoolOf(req[c].op)] # "open"
  /\ Becomes(c, Raised(req[c]))
  /\ UNCHANGED <<runs, memories>>

(* The provider, the database or the connection fails, before the          *)
(* statement or after it has committed.                                    *)
CallRaises(c) ==
  /\ req[c].stage \notin {"none", "done"}
  /\ Becomes(c, Raised(req[c]))
  /\ UNCHANGED <<runs, memories>>

Enqueue(c) ==
  /\ req[c].stage = "holding" /\ req[c].op = "create"
  /\ \E r \in Runs :
       /\ runs[r] = NULL /\ r = CHOOSE x \in Runs : runs[x] = NULL    \* uuid4
       /\ runs' = [runs EXCEPT ![r] = ScopeOf(req[c])]
       /\ Becomes(c, [req[c] EXCEPT !.stage = "committed", !.answer = r])
  /\ UNCHANGED memories

(* What get_run answers for the row, which it looks up by id and tenant. *)
GetStatus(credential, scope) ==
  IF scope = NULL \/ scope.tenant # credential.tenant THEN 404
  ELSE LET verdict == EnforceScope(credential, NULL, scope.subject)
       IN  IF verdict = "allowed" THEN 200 ELSE ScopeStatus(verdict)

GetRun(c) ==
  /\ req[c].stage = "holding" /\ req[c].op = "get"
  /\ LET r == req[c].target
         status == GetStatus(Credential(req[c].token), runs[r])
     IN  Becomes(c, Done(req[c], status, IF status = 200 THEN r ELSE NULL))
  /\ UNCHANGED <<runs, memories>>

WriteMemory(c) ==
  /\ req[c].stage = "holding" /\ req[c].op = "write"
  /\ \E m \in Memories :
       /\ Insert(m, ScopeOf(req[c]))
       /\ Becomes(c, [req[c] EXCEPT !.stage = "committed", !.answer = m])
  /\ UNCHANGED runs

Search(c) ==
  /\ req[c].stage = "holding" /\ req[c].op = "search"
  /\ \E limit \in 1..SearchDepth :
       \E found \in SearchResults(ScopeOf(req[c]), limit) :
         Becomes(c, IF found = <<>> THEN Done(req[c], 200, found)
                    ELSE [req[c] EXCEPT !.stage = "found", !.answer = found])
  /\ UNCHANGED <<runs, memories>>

Touch(c) ==
  /\ req[c].stage = "found"
  /\ CountAccess(ToSet(req[c].answer))
  /\ Becomes(c, [req[c] EXCEPT !.stage = "committed"])
  /\ UNCHANGED runs

Answer(c) ==
  /\ req[c].stage = "committed"
  /\ Becomes(c, Done(req[c], CASE req[c].op = "create" -> 202
                               [] req[c].op = "write" -> 201
                               [] OTHER -> 200, req[c].answer))
  /\ UNCHANGED <<runs, memories>>

Health(c) ==
  /\ req[c].stage = "holding" /\ req[c].op = "healthz"
  /\ Becomes(c, Done(req[c], IF req[c].answer THEN 200 ELSE 503, req[c].answer))
  /\ UNCHANGED <<runs, memories>>
-----------------------------------------------------------------------------
(* Time, and the scheduled clean-up, on rows of this service. *)
MemoriesAge ==
  /\ (\E m \in Memories : Expire(m)) \/ CleanUp
  /\ UNCHANGED <<phase, pool, worker, runs, req>>

LifeStep ==
  \/ CreateQueuePool \/ CreateMemoryPool \/ ValidateDimension
  \/ UndoMemory \/ UndoQueue
  \/ BeginCloseMemory \/ MemoryClosed \/ QueueClosed

RequestStep(c) ==
  \/ Embed(c) \/ Acquire(c) \/ AcquireRefused(c)
  \/ Enqueue(c) \/ GetRun(c) \/ WriteMemory(c)
  \/ Search(c) \/ Touch(c) \/ Health(c) \/ Answer(c)

ApiNext ==
  \/ LifeStep \/ Shutdown \/ WorkerStops \/ WorkerDies
  \/ \E c \in Clients : Arrive(c) \/ RequestStep(c) \/ CallRaises(c)
  \/ MemoriesAge

(* on_startup and on_shutdown go on, a worker told to stop stops, and      *)
(* every call ends, by command_timeout at the latest.                      *)
ApiFairness ==
  /\ WF_vars(LifeStep) /\ WF_vars(WorkerStops)
  /\ \A c \in Clients : WF_vars(RequestStep(c))

ApiSpec == ApiInit /\ [][ApiNext]_vars /\ ApiFairness
-----------------------------------------------------------------------------
(* Types: a row is counted at most once for every request. *)
ApiTypeOK ==
  /\ pool \in [Pools -> {"none", "open", "closing", "closed"}]
  /\ worker \in {"none", "running", "done"}
  /\ \A r \in Runs : runs[r] \in Scopes \cup {NULL}
  /\ \A m \in Memories :
       memories[m] \in MemoryRow(Scopes, 0..Cardinality(Clients)) \cup {NULL}
  /\ \A c \in Clients : req[c].stage \in Stages /\ req[c].op \in Ops \cup {"none"}
  /\ \A p \in Pools : Cardinality(Holders(p)) <= PoolSize

(* The scopes of the rows a request has written, or has in its answer. *)
Touched(c) ==
  IF req[c].answer = NULL \/ req[c].op = "healthz" THEN {}
  ELSE CASE req[c].op \in {"create", "get"} -> {runs[req[c].answer]}
         [] req[c].op = "write" -> {memories[req[c].answer].scope}
         [] OTHER -> {memories[m].scope : m \in ToSet(req[c].answer)}

(* Whatever handler a client uses, it writes and is shown only rows of the *)
(* tenant of its key, and of the key's subject if that has one.            *)
ScopeIsKept ==
  \A c \in Clients : \A scope \in Touched(c) :
    LET credential == Credential(req[c].token)
    IN  /\ scope.tenant = credential.tenant
        /\ credential.subject \in {NULL, scope.subject}

(* A client that was told 202 or 201 has its row, with the scope it asked  *)
(* for, and no other request was given the same one.                       *)
AcceptedIsStored ==
  \A c \in Clients :
    req[c].status \in {201, 202} =>
      LET id == req[c].answer
      IN  /\ IF req[c].status = 202
             THEN id \in Runs /\ runs[id] = ScopeOf(req[c])
             ELSE id \in Memories /\ memories[id].scope = ScopeOf(req[c])
          /\ \A d \in Clients \ {c} :
               req[d].status = req[c].status => req[d].answer # id

(* The worker never runs on a pool that is not open, no connection is out  *)
(* of a closed pool, and neither a start that failed nor a shutdown leaves *)
(* a pool behind.                                                          *)
ShutdownIsOrderly ==
  /\ worker = "running" => \A p \in Pools : pool[p] = "open"
  /\ \A p \in Pools : Holders(p) # {} => pool[p] \in {"open", "closing"}
  /\ phase \in {"stopped", "failed"} =>
       \A p \in Pools : pool[p] \in {"none", "closed"}

(* A search finds rows of its scope that have not expired, none only if    *)
(* there is none, and never a row instead of or before one that beats it   *)
(* in every respect.                                                       *)
SearchIsRanked ==
  [][\A c \in Clients :
       (Search(c) /\ req[c].stage = "holding") =>
         LET found == req'[c].answer
             candidates == {m \in Memories :
               /\ memories[m] # NULL /\ ~memories[m].gone
               /\ memories[m].scope = ScopeOf(req[c])
               /\ memories[m].expires \in {"never", "ahead"}}
         IN  /\ ToSet(found) \subseteq candidates
             /\ found = <<>> => candidates = {}
             /\ WellRanked(found, candidates)]_vars

(* Every request is answered, also with all connections in use and during  *)
(* the shutdown; and a shutdown ends.                                      *)
NothingHangs ==
  /\ \A c \in Clients : (req[c].stage # "none") ~> (req[c].stage = "done")
  /\ (phase = "joining") ~> (phase = "stopped")
=============================================================================
