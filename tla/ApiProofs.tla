----------------------------- MODULE ApiProofs ------------------------------
(***************************************************************************)
(* Scopes are kept and what was accepted is stored, for any number of      *)
(* clients, keys, tenants, subjects, runs, memories and connections.       *)
(*                                                                         *)
(* The argument.  A request carries from its check to its end that its key *)
(* is allowed the scope it asked for (Good).  Rows are only added, under   *)
(* ids nobody has, and no step changes the scope of one (Grown): so what a *)
(* request knows of its row stays true whatever the others do.             *)
(*                                                                         *)
(* Further sections: the order of start and shutdown, the counters, and    *)
(* the ranking of the search.                                              *)
(***************************************************************************)
EXTENDS Api, FiniteSetTheorems, SequenceTheorems, TLAPS

Fields == {"stage", "op", "token", "target", "status", "answer"}

(* The requests that name the scope they are about. *)
Asks == {"create", "write", "search"}

Allowed(token, scope) ==
  /\ scope.tenant = Credential(token).tenant
  /\ Credential(token).subject \in {NULL, scope.subject}

(* It says it has stored something. *)
Claims(q) == q.answer # NULL \/ q.stage = "committed" \/ q.status \in {201, 202}

Has(rows, id, ids, scope) ==
  /\ id \in ids
  /\ rows[id] # NULL
  /\ rows[id] = scope

HasMemory(mems, m, scope) ==
  /\ m \in Memories
  /\ mems[m] # NULL
  /\ mems[m].scope = scope

(* What is true of a request q when the tables are rows and mems. *)
Good(q, rows, mems) ==
  /\ DOMAIN q = Fields
  /\ q.stage # "done" => q.status = 0
  /\ q.stage = "found" => q.op = "search"
  /\ q.answer # NULL => q.op \in Asks \cup {"get", "healthz"}
  /\ q.status = 202 => q.op = "create"
  /\ q.status = 201 => q.op = "write"
  /\ (q.op \in Asks /\ (q.answer # NULL \/ q.status # 503)) =>
       /\ q.token \in Tokens
       /\ q.target \in Subjects
       /\ Allowed(q.token, ScopeOf(q))
  /\ (q.op = "create" /\ Claims(q)) => Has(rows, q.answer, Runs, ScopeOf(q))
  /\ (q.op = "write" /\ Claims(q)) => HasMemory(mems, q.answer, ScopeOf(q))
  /\ (q.op = "search" /\ q.answer # NULL) =>
       \A m \in ToSet(q.answer) : HasMemory(mems, m, ScopeOf(q))
  /\ (q.op = "get" /\ q.stage # "done") => q.target \in Runs /\ q.answer = NULL
  /\ (q.op = "get" /\ q.answer # NULL) =>
       /\ q.answer \in Runs
       /\ rows[q.answer] # NULL
       /\ Allowed(q.token, rows[q.answer])

(* Two requests of a kind that both claim a row claim two rows. *)
Apart(q, p) ==
  (q.op = p.op /\ q.op \in {"create", "write"} /\ Claims(q) /\ Claims(p))
    => q.answer # p.answer

Tabled ==
  /\ runs \in [Runs -> Scopes \cup {NULL}]
  /\ memories \in [Memories -> MemoryRow(Scopes, Nat) \cup {NULL}]
  /\ req = [c \in Clients |-> req[c]]

ApiInv ==
  /\ Tabled
  /\ \A c \in Clients : Good(req[c], runs, memories)
  /\ \A c, d \in Clients : c # d => Apart(req[c], req[d])

(* Rows come and keep their scopes. *)
Grown ==
  /\ runs' \in [Runs -> Scopes \cup {NULL}]
  /\ memories' \in [Memories -> MemoryRow(Scopes, Nat) \cup {NULL}]
  /\ \A r \in Runs : runs[r] # NULL => runs'[r] = runs[r]
  /\ \A m \in Memories : memories[m] # NULL =>
       memories'[m] # NULL /\ memories'[m].scope = memories[m].scope
-----------------------------------------------------------------------------
(* A request that was good stays so when the tables grow. *)
LEMMA GoodForever ==
  ASSUME NEW q, Good(q, runs, memories), Grown
  PROVE  Good(q, runs', memories')
<1>1. \A s : Has(runs, q.answer, Runs, s) => Has(runs', q.answer, Runs, s)
  BY DEF Has, Grown
<1>2. \A m, s : HasMemory(memories, m, s) => HasMemory(memories', m, s)
  BY DEF HasMemory, Grown
<1>3. (q.op = "get" /\ q.answer # NULL) =>
        /\ q.answer \in Runs
        /\ runs'[q.answer] # NULL
        /\ Allowed(q.token, runs'[q.answer])
  BY DEF Good, Grown
<1> QED
  BY <1>1, <1>2, <1>3 DEF Good

(* One request moves on, or none, while the tables grow. *)
LEMMA OneMoves ==
  ASSUME ApiInv, Grown, NEW c \in Clients, NEW q,
         req' = [req EXCEPT ![c] = q],
         Good(q, runs', memories'),
         \A d \in Clients \ {c} : Apart(q, req[d])
  PROVE  ApiInv'
<1>1. req' = [d \in Clients |-> req'[d]]
  BY DEF ApiInv, Tabled
<1>2. req'[c] = q /\ \A d \in Clients \ {c} : req'[d] = req[d]
  BY DEF ApiInv, Tabled
<1>3. Tabled'
  BY <1>1 DEF Tabled, Grown
<1>4. ASSUME NEW d \in Clients PROVE Good(req'[d], runs', memories')
  <2>1. Good(req[d], runs', memories')
    BY GoodForever DEF ApiInv
  <2> QED
    BY <1>2, <2>1
<1>5. ASSUME NEW d \in Clients, NEW e \in Clients, d # e
      PROVE  Apart(req'[d], req'[e])
  <2>1. Apart(req[d], req[e])
    BY <1>5 DEF ApiInv
  <2>2. CASE d = c
    BY <1>2, <1>5, <2>2
  <2>3. CASE e = c
    <3>1. Apart(q, req[d])
      BY <1>5, <2>3
    <3> QED
      BY <1>2, <1>5, <2>3, <3>1 DEF Apart
  <2>4. CASE d # c /\ e # c
    BY <1>2, <2>1, <2>4
  <2> QED
    BY <2>2, <2>3, <2>4
<1> QED
  BY <1>3, <1>4, <1>5 DEF ApiInv

LEMMA NoneMoves ==
  ASSUME ApiInv, Grown, UNCHANGED req
  PROVE  ApiInv'
<1>1. Tabled'
  BY DEF ApiInv, Tabled, Grown
<1>2. \A c \in Clients : Good(req[c], runs', memories')
  BY GoodForever DEF ApiInv
<1> QED
  BY <1>1, <1>2 DEF ApiInv

(* The tables stay as they are. *)
LEMMA NothingGrows ==
  ASSUME ApiInv, UNCHANGED <<runs, memories>>
  PROVE  Grown
BY DEF ApiInv, Tabled, Grown
-----------------------------------------------------------------------------
(* The fields of a request after a change of one of them, or three. *)
LEMMA Changed ==
  ASSUME NEW q, DOMAIN q = Fields, NEW stage, NEW status, NEW answer
  PROVE  LET p == [q EXCEPT !.stage = stage]
             d == Done(q, status, answer)
         IN  /\ DOMAIN p = Fields /\ p.stage = stage /\ p.op = q.op
             /\ p.token = q.token /\ p.target = q.target
             /\ p.status = q.status /\ p.answer = q.answer
             /\ DOMAIN d = Fields /\ d.stage = "done" /\ d.op = q.op
             /\ d.token = q.token /\ d.target = q.target
             /\ d.status = status /\ d.answer = answer
BY DEF Done, Fields

LEMMA ChangedAnswer ==
  ASSUME NEW q, DOMAIN q = Fields, NEW stage, NEW answer
  PROVE  LET p == [q EXCEPT !.stage = stage, !.answer = answer]
         IN  /\ DOMAIN p = Fields /\ p.stage = stage /\ p.op = q.op
             /\ p.token = q.token /\ p.target = q.target
             /\ p.status = q.status /\ p.answer = answer
BY DEF Fields

(* A request that was refused, or has failed, says nothing. *)
LEMMA RaisedIsGood ==
  ASSUME NEW q, NEW rows, NEW mems
  PROVE  Good(Raised(q), rows, mems) /\ \A p : Apart(Raised(q), p)
<1> DEFINE n == [NoRequest EXCEPT !.op = q.op]
<1>1. DOMAIN n = Fields /\ n.op = q.op
  BY DEF NoRequest, Fields
<1>2. Raised(q) = Done(n, 503, NULL)
  BY DEF Raised
<1> HIDE DEF n
<1>3. /\ DOMAIN Raised(q) = Fields /\ Raised(q).stage = "done"
      /\ Raised(q).status = 503 /\ Raised(q).answer = NULL
  BY <1>1, <1>2, Changed
<1>4. ~Claims(Raised(q))
  BY <1>3 DEF Claims
<1> QED
  BY <1>3, <1>4 DEF Good, Apart

LEMMA RejectedIsGood ==
  ASSUME NEW status \in {400, 401, 403, 422, 500, 503}, NEW rows, NEW mems
  PROVE  Good(Rejected(status), rows, mems) /\ \A p : Apart(Rejected(status), p)
<1>1. DOMAIN NoRequest = Fields /\ NoRequest.op = "none"
  BY DEF NoRequest, Fields
<1>2. /\ DOMAIN Rejected(status) = Fields /\ Rejected(status).stage = "done"
      /\ Rejected(status).op = "none" /\ Rejected(status).status = status
      /\ Rejected(status).answer = NULL
  BY <1>1, Changed DEF Rejected
<1> QED
  BY <1>2 DEF Good, Apart, Asks

(* A request that goes on to the next await before its statement. *)
LEMMA GoesOn ==
  ASSUME NEW q, NEW rows, NEW mems, Good(q, rows, mems),
         q.stage \in {"embedding", "waiting"},
         NEW stage \in {"waiting", "holding"}
  PROVE  /\ Good([q EXCEPT !.stage = stage], rows, mems)
         /\ \A p : Apart(q, p) => Apart([q EXCEPT !.stage = stage], p)
<1> DEFINE n == [q EXCEPT !.stage = stage]
<1>1. /\ DOMAIN n = Fields /\ n.stage = stage /\ n.op = q.op
      /\ n.token = q.token /\ n.target = q.target
      /\ n.status = q.status /\ n.answer = q.answer
  BY Changed DEF Good
<1> HIDE DEF n
<1>2. Claims(n) <=> Claims(q)
  BY <1>1 DEF Claims
<1>3. ScopeOf(n) = ScopeOf(q)
  BY <1>1 DEF ScopeOf
<1>4. Good(n, rows, mems)
  BY <1>1, <1>2, <1>3 DEF Good
<1>5. \A p : Apart(q, p) => Apart(n, p)
  BY <1>1, <1>2 DEF Apart
<1> QED
  BY <1>4, <1>5 DEF n

(* The verdict of enforce_scope is what Allowed says. *)
LEMMA AllowedByScope ==
  ASSUME NEW token, NEW tenant, NEW subject,
         EnforceScope(Credential(token), tenant, subject) = "allowed"
  PROVE  Credential(token).subject \in {NULL, subject}
BY DEF EnforceScope

LEMMA CredentialHasTenant ==
  ASSUME NEW token \in Tokens
  PROVE  Credential(token).tenant \in Tenants
BY ApiAssumption DEF Credential
-----------------------------------------------------------------------------
(* One request moves on and the tables stay as they are. *)
LEMMA OnlyMoves ==
  ASSUME ApiInv, NEW c \in Clients, NEW q, Becomes(c, q),
         UNCHANGED <<runs, memories>>,
         Good(q, runs, memories),
         \A d \in Clients \ {c} : Apart(q, req[d])
  PROVE  ApiInv'
<1>1. Grown
  BY NothingGrows
<1>2. req' = [req EXCEPT ![c] = q]
  BY DEF Becomes
<1>3. Good(q, runs', memories')
  BY <1>1, GoodForever
<1> QED
  BY <1>1, <1>2, <1>3, OneMoves

(* A request that passed its check. *)
LEMMA AdmittedIsGood ==
  ASSUME NEW q, NEW rows, NEW mems, Good(q, rows, mems), ~Claims(q),
         q.stage = "none"
  PROVE  Good(Admitted(q), rows, mems) /\ \A p : Apart(Admitted(q), p)
<1>1. CASE StoresAreSet
  <2>1. PICK stage \in {"embedding", "waiting"} :
          Admitted(q) = [q EXCEPT !.stage = stage]
    BY <1>1 DEF Admitted
  <2> DEFINE n == [q EXCEPT !.stage = stage]
  <2>2. /\ DOMAIN n = Fields /\ n.stage = stage /\ n.op = q.op
        /\ n.token = q.token /\ n.target = q.target
        /\ n.status = q.status /\ n.answer = q.answer
    BY Changed DEF Good
  <2>3. Admitted(q) = n
    BY <2>1
  <2> HIDE DEF n
  <2>4. ~Claims(n)
    BY <2>1, <2>2 DEF Claims
  <2>5. ScopeOf(n) = ScopeOf(q)
    BY <2>2 DEF ScopeOf
  <2> QED
    BY <2>2, <2>3, <2>4, <2>5 DEF Good, Apart, Claims
<1>2. CASE ~StoresAreSet
  BY <1>2, RejectedIsGood DEF Admitted
<1> QED
  BY <1>1, <1>2

LEMMA ArriveKeeps ==
  ASSUME ApiInv, NEW c \in Clients, Arrive(c)
  PROVE  ApiInv'
<1>1. UNCHANGED <<runs, memories>>
  BY DEF Arrive
<1>2. ASSUME NEW status \in {400, 401, 403, 422, 500, 503},
             Becomes(c, Rejected(status))
      PROVE  ApiInv'
  BY <1>1, <1>2, RejectedIsGood, OnlyMoves
<1>3. ASSUME NEW op \in Asks, NEW token \in Tokens,
             NEW tenant \in Tenants \cup {NULL}, NEW subject \in Subjects,
             EnforceScope(Credential(token), tenant, subject) = "allowed",
             Becomes(c, Admitted([NoRequest EXCEPT
                          !.op = op, !.token = token, !.target = subject]))
      PROVE  ApiInv'
  <2> DEFINE q == [NoRequest EXCEPT !.op = op, !.token = token, !.target = subject]
  <2>1. /\ DOMAIN q = Fields /\ q.stage = "none" /\ q.op = op
        /\ q.token = token /\ q.target = subject
        /\ q.status = 0 /\ q.answer = NULL
    BY DEF NoRequest, Fields
  <2> HIDE DEF q
  <2>2. Allowed(token, ScopeOf(q))
    BY <1>3, <2>1, AllowedByScope DEF Allowed, ScopeOf
  <2>3. ~Claims(q)
    BY <2>1 DEF Claims
  <2>4. Good(q, runs, memories)
    BY <2>1, <2>2, <2>3 DEF Good, Asks
  <2>5. Becomes(c, Admitted(q))
    BY <1>3 DEF q
  <2> QED
    BY <1>1, <2>1, <2>3, <2>4, <2>5, AdmittedIsGood, OnlyMoves
<1>4. ASSUME NEW token \in Tokens, NEW r \in Runs,
             Becomes(c, Admitted([NoRequest EXCEPT
                          !.op = "get", !.token = token, !.target = r]))
      PROVE  ApiInv'
  <2> DEFINE q == [NoRequest EXCEPT !.op = "get", !.token = token, !.target = r]
  <2>1. /\ DOMAIN q = Fields /\ q.stage = "none" /\ q.op = "get"
        /\ q.token = token /\ q.target = r
        /\ q.status = 0 /\ q.answer = NULL
    BY DEF NoRequest, Fields
  <2> HIDE DEF q
  <2>2. ~Claims(q)
    BY <2>1 DEF Claims
  <2>3. Good(q, runs, memories)
    BY <2>1 DEF Good, Asks
  <2>4. Becomes(c, Admitted(q))
    BY <1>4 DEF q
  <2> QED
    BY <1>1, <2>1, <2>2, <2>3, <2>4, AdmittedIsGood, OnlyMoves
<1>5. ASSUME Becomes(c, [NoRequest EXCEPT !.op = "healthz", !.stage = "waiting",
                                          !.answer = worker # "done"])
      PROVE  ApiInv'
  <2> DEFINE q == [NoRequest EXCEPT !.op = "healthz", !.stage = "waiting",
                                    !.answer = worker # "done"]
  <2>1. /\ DOMAIN q = Fields /\ q.stage = "waiting" /\ q.op = "healthz"
        /\ q.status = 0
    BY DEF NoRequest, Fields
  <2>2. Becomes(c, q)
    BY <1>5
  <2> HIDE DEF q
  <2>3. Good(q, runs, memories) /\ \A p : Apart(q, p)
    BY <2>1 DEF Good, Asks, Apart
  <2> QED
    BY <1>1, <2>2, <2>3, OnlyMoves
<1>6. \A verdict : ScopeStatus(verdict) \in {403, 500}
  BY DEF ScopeStatus
<1>7. CASE \E op \in {"create", "write", "search"}, token \in Tokens,
             tenant \in Tenants \cup {NULL}, subject \in Subjects :
            LET verdict == EnforceScope(Credential(token), tenant, subject)
            IN  Becomes(c, IF verdict = "allowed"
                           THEN Admitted([NoRequest EXCEPT
                                  !.op = op, !.token = token, !.target = subject])
                           ELSE Rejected(ScopeStatus(verdict)))
  <2>1. PICK op \in Asks, token \in Tokens,
             tenant \in Tenants \cup {NULL}, subject \in Subjects :
            LET verdict == EnforceScope(Credential(token), tenant, subject)
            IN  Becomes(c, IF verdict = "allowed"
                           THEN Admitted([NoRequest EXCEPT
                                  !.op = op, !.token = token, !.target = subject])
                           ELSE Rejected(ScopeStatus(verdict)))
    BY <1>7 DEF Asks
  <2> DEFINE verdict == EnforceScope(Credential(token), tenant, subject)
  <2>2. CASE verdict = "allowed"
    <3>1. Becomes(c, Admitted([NoRequest EXCEPT
                       !.op = op, !.token = token, !.target = subject]))
      BY <2>1, <2>2
    <3> QED
      BY <1>3, <2>2, <3>1
  <2>3. CASE verdict # "allowed"
    <3>1. Becomes(c, Rejected(ScopeStatus(verdict)))
      BY <2>1, <2>3
    <3> QED
      BY <1>2, <1>6, <3>1
  <2> QED
    BY <2>2, <2>3
<1>8. CASE Becomes(c, IF StoresAreSet
                      THEN [NoRequest EXCEPT !.op = "healthz", !.stage = "waiting",
                                             !.answer = worker # "done"]
                      ELSE Rejected(503))
  BY <1>2, <1>5, <1>8
<1>9. CASE Becomes(c, Rejected(401)) \/ \E status \in {400, 422} :
                                          Becomes(c, Rejected(status))
  BY <1>2, <1>9
<1>10. CASE \E token \in Tokens, r \in Runs :
              Becomes(c, Admitted([NoRequest EXCEPT
                           !.op = "get", !.token = token, !.target = r]))
  BY <1>4, <1>10
<1>11. CASE Becomes(c, Rejected(401))
  BY <1>9, <1>11
<1>12. CASE \E status \in {400, 422} : Becomes(c, Rejected(status))
  BY <1>9, <1>12
<1> QED
  BY <1>7, <1>8, <1>10, <1>11, <1>12, Zenon DEF Arrive

(* The awaits before the statement, and what fails. *)
LEMMA AwaitKeeps ==
  ASSUME ApiInv, NEW c \in Clients,
         Embed(c) \/ Acquire(c) \/ AcquireRefused(c) \/ CallRaises(c)
  PROVE  ApiInv'
<1>1. UNCHANGED <<runs, memories>>
  BY DEF Embed, Acquire, AcquireRefused, CallRaises
<1>2. Good(req[c], runs, memories) /\ \A d \in Clients \ {c} : Apart(req[c], req[d])
  BY DEF ApiInv
<1>3. ASSUME NEW stage \in {"waiting", "holding"},
             req[c].stage \in {"embedding", "waiting"},
             Becomes(c, [req[c] EXCEPT !.stage = stage])
      PROVE  ApiInv'
  BY <1>1, <1>2, <1>3, GoesOn, OnlyMoves
<1>4. CASE Embed(c)
  BY <1>3, <1>4 DEF Embed
<1>5. CASE Acquire(c)
  BY <1>3, <1>5 DEF Acquire
<1>6. CASE AcquireRefused(c) \/ CallRaises(c)
  <2>1. Becomes(c, Raised(req[c]))
    BY <1>6 DEF AcquireRefused, CallRaises
  <2> QED
    BY <1>1, <2>1, RaisedIsGood, OnlyMoves
<1> QED
  BY <1>4, <1>5, <1>6

(* A request gets the row it has just written; nobody else claims it, as   *)
(* the row was not there.                                                  *)
LEMMA EnqueueKeeps ==
  ASSUME ApiInv, NEW c \in Clients, Enqueue(c)
  PROVE  ApiInv'
<1> DEFINE q == req[c]
<1>1. q.stage = "holding" /\ q.op = "create" /\ UNCHANGED memories
  BY DEF Enqueue
<1>2. PICK r \in Runs :
        /\ runs[r] = NULL
        /\ runs' = [runs EXCEPT ![r] = ScopeOf(q)]
        /\ Becomes(c, [q EXCEPT !.stage = "committed", !.answer = r])
  BY DEF Enqueue
<1> DEFINE n == [q EXCEPT !.stage = "committed", !.answer = r]
<1>3. Good(q, runs, memories)
  BY DEF ApiInv
<1>4. /\ DOMAIN n = Fields /\ n.stage = "committed" /\ n.op = q.op
      /\ n.token = q.token /\ n.target = q.target
      /\ n.status = q.status /\ n.answer = r
  BY <1>3, ChangedAnswer DEF Good
<1>5. req' = [req EXCEPT ![c] = n]
  BY <1>2 DEF Becomes
<1> HIDE DEF n
<1>6. q.status = 0
  BY <1>1, <1>3 DEF Good
<1>7. /\ q.token \in Tokens /\ q.target \in Subjects
      /\ Allowed(q.token, ScopeOf(q))
  BY <1>1, <1>3, <1>6 DEF Good, Asks
<1>8. ScopeOf(q) \in Scopes /\ ScopeOf(q) # NULL
  BY <1>7, CredentialHasTenant, ApiAssumption DEF ScopeOf, Scopes
<1>9. ScopeOf(n) = ScopeOf(q)
  BY <1>4 DEF ScopeOf
<1> HIDE DEF q
<1>10. runs \in [Runs -> Scopes \cup {NULL}]
       /\ memories \in [Memories -> MemoryRow(Scopes, Nat) \cup {NULL}]
  BY DEF ApiInv, Tabled
<1>11. runs' \in [Runs -> Scopes \cup {NULL}] /\ runs'[r] = ScopeOf(q)
       /\ \A x \in Runs \ {r} : runs'[x] = runs[x]
  BY <1>2, <1>8, <1>10
<1>12. Grown
  BY <1>1, <1>2, <1>10, <1>11 DEF Grown
<1>13. Good(n, runs', memories')
  BY <1>1, <1>4, <1>6, <1>7, <1>8, <1>9, <1>11 DEF Good, Has, Asks
<1>14. \A d \in Clients \ {c} : Apart(n, req[d])
  <2> SUFFICES ASSUME NEW d \in Clients \ {c}, req[d].op = "create",
                      Claims(req[d])
               PROVE  r # req[d].answer
    BY <1>1, <1>4 DEF Apart
  <2>1. Has(runs, req[d].answer, Runs, ScopeOf(req[d]))
    BY DEF ApiInv, Good
  <2> QED
    BY <1>2, <2>1 DEF Has
<1> QED
  BY <1>5, <1>12, <1>13, <1>14, OneMoves

LEMMA NewRowIsRow ==
  ASSUME NEW scope \in Scopes
  PROVE  /\ NewRow(scope) \in MemoryRow(Scopes, Nat)
         /\ NewRow(scope) # NULL
         /\ NewRow(scope).scope = scope
<1>1. NewRow(scope) \in MemoryRow(Scopes, Nat)
  BY DEF NewRow, MemoryRow
<1> QED
  BY <1>1, ApiAssumption DEF NewRow

LEMMA WriteMemoryKeeps ==
  ASSUME ApiInv, NEW c \in Clients, WriteMemory(c)
  PROVE  ApiInv'
<1> DEFINE q == req[c]
<1>1. q.stage = "holding" /\ q.op = "write" /\ UNCHANGED runs
  BY DEF WriteMemory
<1>2. PICK m \in Memories :
        /\ memories[m] = NULL
        /\ memories' = [memories EXCEPT ![m] = NewRow(ScopeOf(q))]
        /\ Becomes(c, [q EXCEPT !.stage = "committed", !.answer = m])
  BY DEF WriteMemory, Insert
<1> DEFINE n == [q EXCEPT !.stage = "committed", !.answer = m]
<1>3. Good(q, runs, memories)
  BY DEF ApiInv
<1>4. /\ DOMAIN n = Fields /\ n.stage = "committed" /\ n.op = q.op
      /\ n.token = q.token /\ n.target = q.target
      /\ n.status = q.status /\ n.answer = m
  BY <1>3, ChangedAnswer DEF Good
<1>5. req' = [req EXCEPT ![c] = n]
  BY <1>2 DEF Becomes
<1> HIDE DEF n
<1>6. q.status = 0
  BY <1>1, <1>3 DEF Good
<1>7. /\ q.token \in Tokens /\ q.target \in Subjects
      /\ Allowed(q.token, ScopeOf(q))
  BY <1>1, <1>3, <1>6 DEF Good, Asks
<1>8. ScopeOf(q) \in Scopes
  BY <1>7, CredentialHasTenant DEF ScopeOf, Scopes
<1>9. ScopeOf(n) = ScopeOf(q)
  BY <1>4 DEF ScopeOf
<1> HIDE DEF q
<1>10. runs \in [Runs -> Scopes \cup {NULL}]
       /\ memories \in [Memories -> MemoryRow(Scopes, Nat) \cup {NULL}]
  BY DEF ApiInv, Tabled
<1>11. /\ memories' \in [Memories -> MemoryRow(Scopes, Nat) \cup {NULL}]
       /\ memories'[m] = NewRow(ScopeOf(q))
       /\ \A x \in Memories \ {m} : memories'[x] = memories[x]
  BY <1>2, <1>8, <1>10, NewRowIsRow
<1>12. Grown
  BY <1>1, <1>2, <1>10, <1>11 DEF Grown
<1>13. HasMemory(memories', m, ScopeOf(q))
  BY <1>8, <1>11, NewRowIsRow DEF HasMemory
<1>14. Good(n, runs', memories')
  BY <1>1, <1>4, <1>6, <1>7, <1>9, <1>13 DEF Good, Asks
<1>15. \A d \in Clients \ {c} : Apart(n, req[d])
  <2> SUFFICES ASSUME NEW d \in Clients \ {c}, req[d].op = "write",
                      Claims(req[d])
               PROVE  m # req[d].answer
    BY <1>1, <1>4 DEF Apart
  <2>1. HasMemory(memories, req[d].answer, ScopeOf(req[d]))
    BY DEF ApiInv, Good
  <2> QED
    BY <1>2, <2>1 DEF HasMemory
<1> QED
  BY <1>5, <1>12, <1>14, <1>15, OneMoves
-----------------------------------------------------------------------------
(***************************************************************************)
(* The search.  Rank by rank, a row that another one is preferred to is    *)
(* behind it or missing (Top); so its score is smaller (SumsCompare), and  *)
(* the limits, which keep the first rows of a ranking, keep the order.     *)
(***************************************************************************)

(* A ranking of a set has each of its members at one place. *)
LEMMA RankingShape ==
  ASSUME NEW S, IsFiniteSet(S), NEW ranking \in SetToSeqs(S)
  PROVE  /\ ranking \in Seq(S) /\ Len(ranking) = Cardinality(S)
         /\ \A i, j \in 1..Len(ranking) : ranking[i] = ranking[j] => i = j
         /\ \A m \in S : \E i \in 1..Len(ranking) : ranking[i] = m
<1> DEFINE k == Cardinality(S)
<1>1. k \in Nat
  BY FS_CardinalityType
<1>2. /\ ranking \in [1..k -> S]
      /\ \A i, j \in 1..k : i # j => ranking[i] # ranking[j]
  BY DEF SetToSeqs
<1>3. IsFiniteSet(1..k) /\ Cardinality(1..k) = k
  BY <1>1, FS_Interval
<1>4. ranking \in Injection(1..k, S)
  BY <1>2 DEF Injection, IsInjective
<1>5. ranking \in Surjection(1..k, S)
  BY <1>3, <1>4, FS_Injection
<1> HIDE DEF k
<1>6. ranking \in Seq(S) /\ Len(ranking) = k
  BY <1>1, <1>2
<1>7. \A m \in S : \E i \in 1..k : ranking[i] = m
  BY <1>5 DEF Surjection
<1> QED
  BY <1>2, <1>6, <1>7 DEF k

(* The first rows of a ranking, no more than a limit. *)
IsCut(cut, ranking, S, limit, k) ==
  /\ k <= Len(ranking) /\ (k = limit \/ k = Len(ranking))
  /\ cut \in [1..k -> S] /\ Len(cut) = k
  /\ \A i \in 1..k : cut[i] = ranking[i]

LEMMA LimitedShape ==
  ASSUME NEW S, NEW ranking \in Seq(S), NEW limit \in Nat
  PROVE  \E k \in Nat : IsCut(Limited(ranking, limit), ranking, S, limit, k)
<1> DEFINE n == Len(ranking)
           k == Min({limit, n})
<1>1. n \in Nat /\ ranking \in [1..n -> S]
  BY LenProperties
<1> HIDE DEF n
<1>2. k \in {limit, n} /\ k <= limit /\ k <= n
  <2>1. \E x \in {limit, n} : \A y \in {limit, n} : x =< y
    <3>1. CASE limit =< n
      BY <1>1, <3>1
    <3>2. CASE n =< limit
      BY <1>1, <3>2
    <3> QED
      BY <1>1, <3>1, <3>2
  <2> QED
    BY <2>1 DEF Min
<1>3. Limited(ranking, limit) = SubSeq(ranking, 1, k)
  BY DEF Limited, n
<1> HIDE DEF k
<1>4. k \in Nat /\ \A i \in 1..k : ranking[i] \in S
  BY <1>1, <1>2
<1>5. /\ SubSeq(ranking, 1, k) \in Seq(S)
      /\ Len(SubSeq(ranking, 1, k)) = k
      /\ \A i \in 1..k : SubSeq(ranking, 1, k)[i] = ranking[i]
  BY <1>4, SubSeqProperties
<1>6. SubSeq(ranking, 1, k) \in [1..k -> S]
  BY <1>5, LenProperties
<1>7. IsCut(SubSeq(ranking, 1, k), ranking, S, limit, k)
  BY <1>2, <1>5, <1>6 DEF n, IsCut
<1> QED
  BY <1>3, <1>4, <1>7

LEMMA RankingIsCut ==
  ASSUME NEW S, IsFiniteSet(S), NEW ranking \in SetToSeqs(S), NEW limit \in Nat
  PROVE  \E k \in Nat :
           /\ IsCut(Limited(ranking, limit), ranking, S, limit, k)
           /\ \A i \in 1..k : i \in 1..Len(ranking)
<1> DEFINE l == Len(ranking)
<1>1. ranking \in Seq(S) /\ l \in Nat
  BY RankingShape, LenProperties
<1>2. PICK k \in Nat : IsCut(Limited(ranking, limit), ranking, S, limit, k)
  BY <1>1, LimitedShape
<1>3. k <= l
  BY <1>2 DEF IsCut
<1> HIDE DEF l
<1>4. \A i \in 1..k : i \in 1..l
  BY <1>1, <1>3
<1> QED
  BY <1>2, <1>4 DEF l

(* What stands in front of a row that is left, is left too. *)
LEMMA LimitedKeepsOrder ==
  ASSUME NEW S, IsFiniteSet(S), NEW ranking \in SetToSeqs(S), NEW limit \in Nat,
         NEW m \in S, NEW n \in ToSet(Limited(ranking, limit)),
         \A i, j \in 1..Len(ranking) :
           ranking[i] = m /\ ranking[j] = n => i < j
  PROVE  \E i, j \in DOMAIN Limited(ranking, limit) :
           /\ Limited(ranking, limit)[i] = m /\ Limited(ranking, limit)[j] = n
           /\ i < j
<1> DEFINE cut == Limited(ranking, limit)
<1>1. PICK k \in Nat : /\ IsCut(cut, ranking, S, limit, k)
                      /\ \A i \in 1..k : i \in 1..Len(ranking)
  BY RankingIsCut
<1> HIDE DEF cut
<1>2. PICK j \in 1..k : cut[j] = n /\ ranking[j] = n /\ j \in 1..Len(ranking)
  BY <1>1 DEF ToSet, cut, IsCut
<1>3. PICK i \in 1..Len(ranking) : ranking[i] = m
  BY RankingShape
<1>4. i < j
  BY <1>2, <1>3
<1>5. Len(ranking) \in Nat
  BY RankingShape, LenProperties
<1>6. i \in 1..k
  <2> DEFINE l == Len(ranking)
  <2>1. l \in Nat /\ i \in 1..l
    BY <1>3, <1>5
  <2> HIDE DEF l
  <2> QED
    BY <1>2, <1>4, <2>1
<1> QED
  BY <1>1, <1>2, <1>3, <1>4, <1>6 DEF cut, IsCut

(* What the scores need of a cut ranking: each row at one place, and none  *)
(* that is in front of one by the key missing or behind it.                *)
Top(cut, S, key) ==
  /\ \E k \in Nat : cut \in [1..k -> S]
  /\ \A i, j \in DOMAIN cut : cut[i] = cut[j] => i = j
  /\ \A m \in S, n \in ToSet(cut) : key[m] < key[n] =>
       \E i, j \in DOMAIN cut : cut[i] = m /\ cut[j] = n /\ i < j

LEMMA RankingsAreTop ==
  ASSUME NEW S, IsFiniteSet(S), NEW key, NEW ranking \in Rankings(S, key),
         NEW limit \in Nat
  PROVE  Top(Limited(ranking, limit), S, key)
<1> DEFINE cut == Limited(ranking, limit)
<1>1. /\ ranking \in SetToSeqs(S)
      /\ \A i, j \in 1..Len(ranking) : key[ranking[i]] < key[ranking[j]] => i < j
  BY DEF Rankings
<1>2. PICK k \in Nat : /\ IsCut(cut, ranking, S, limit, k)
                      /\ \A i \in 1..k : i \in 1..Len(ranking)
  BY <1>1, RankingIsCut
<1>3. ASSUME NEW m \in S, NEW n \in ToSet(cut), key[m] < key[n]
      PROVE  \E i, j \in DOMAIN cut : cut[i] = m /\ cut[j] = n /\ i < j
  BY <1>1, <1>3, LimitedKeepsOrder
<1> HIDE DEF cut
<1>4. \A i, j \in 1..Len(ranking) : ranking[i] = ranking[j] => i = j
  BY <1>1, RankingShape
<1>5. cut \in [1..k -> S] /\ \A i, j \in 1..k : cut[i] = cut[j] => i = j
  BY <1>2, <1>4 DEF IsCut
<1> QED
  BY <1>3, <1>5 DEF Top, cut

(* A row in front has the lower rank. *)
LEMMA RankIsPlace ==
  ASSUME NEW S, NEW key, NEW cut, Top(cut, S, key), NEW i \in DOMAIN cut
  PROVE  cut[i] \in ToSet(cut) /\ Rank(cut, cut[i]) = i /\ i \in Nat \ {0}
<1>1. cut[i] \in ToSet(cut)
  BY DEF ToSet, Top
<1>2. Rank(cut, cut[i]) = i
  <2>1. \A j \in DOMAIN cut : cut[j] = cut[i] => j = i
    BY DEF Top
  <2> QED
    BY <2>1 DEF Rank
<1> QED
  BY <1>1, <1>2 DEF Top

(* a/b is at least as large as c/d, and larger. *)
AtLeast(x, y) == x.num * y.den >= y.num * x.den
More(x, y) == x.num * y.den > y.num * x.den

Fractions == [num : Nat, den : Nat \ {0}]

LEMMA TermIsFraction ==
  ASSUME NEW S, NEW key, NEW cut, Top(cut, S, key), NEW weight \in Nat, NEW m
  PROVE  Term(weight, cut, m) \in Fractions
<1>1. CASE m \in ToSet(cut)
  <2>1. PICK i \in DOMAIN cut : cut[i] = m
    BY <1>1 DEF ToSet
  <2>2. Rank(cut, m) \in Nat
    BY <2>1, RankIsPlace
  <2> QED
    BY <1>1, <2>2 DEF Term, Fractions
<1> QED
  BY <1>1 DEF Term, Fractions

LEMMA TermsCompare ==
  ASSUME NEW S, NEW key, NEW cut, Top(cut, S, key), NEW weight \in Nat \ {0},
         NEW m, NEW n, n \in ToSet(cut) => m \in S /\ key[m] < key[n]
  PROVE  /\ AtLeast(Term(weight, cut, m), Term(weight, cut, n))
         /\ n \in ToSet(cut) =>
              m \in ToSet(cut) /\ More(Term(weight, cut, m), Term(weight, cut, n))
<1>1. CASE n \in ToSet(cut)
  <2>1. PICK i, j \in DOMAIN cut : cut[i] = m /\ cut[j] = n /\ i < j
    BY <1>1 DEF Top
  <2>2. /\ m \in ToSet(cut) /\ i \in Nat /\ j \in Nat
        /\ Rank(cut, m) = i /\ Rank(cut, n) = j
    BY <2>1, RankIsPlace
  <2>3. /\ Term(weight, cut, m) = [num |-> weight, den |-> 60 + i]
        /\ Term(weight, cut, n) = [num |-> weight, den |-> 60 + j]
    BY <1>1, <2>2 DEF Term
  <2>4. weight * (60 + j) > weight * (60 + i)
    BY <2>1, <2>2
  <2> QED
    BY <2>2, <2>3, <2>4 DEF AtLeast, More
<1>2. CASE n \notin ToSet(cut)
  <2>1. Term(weight, cut, n) = [num |-> 0, den |-> 1]
    BY <1>2 DEF Term
  <2> DEFINE x == Term(weight, cut, m)
  <2>2. x.num \in Nat /\ x.den \in Nat
    BY TermIsFraction DEF Fractions
  <2> HIDE DEF x
  <2>3. x.num * 1 >= 0 * x.den
    BY <2>2
  <2> QED
    BY <1>2, <2>1, <2>3 DEF AtLeast, x
<1> QED
  BY <1>1, <1>2

LEMMA ProductsGrow ==
  ASSUME NEW a \in Nat, NEW b \in Nat, NEW c \in Nat
  PROVE  /\ a >= b => a * c >= b * c
         /\ a > b /\ c > 0 => a * c > b * c
         /\ a * c = c * a
         /\ a * c \in Nat
OBVIOUS

(* The sum of two fractions of which neither is smaller and one is larger, *)
(* under a factor that is not smaller.                                     *)
LEMMA SumsCompare ==
  ASSUME NEW a \in Nat, NEW b \in Nat \ {0}, NEW c \in Nat, NEW d \in Nat \ {0},
         NEW e \in Nat, NEW f \in Nat \ {0}, NEW g \in Nat, NEW h \in Nat \ {0},
         a * f >= e * b, c * h >= g * d, a * f > e * b \/ c * h > g * d,
         NEW p \in Nat, NEW q \in Nat \ {0}, p >= q
  PROVE  ((a * d + c * b) * p) * (f * h) > ((e * h + g * f) * q) * (b * d)
<1> DEFINE dh == d * h
           bf == b * f
           x == (a * f) * dh + (c * h) * bf
           y == (e * b) * dh + (g * d) * bf
<1>1. dh \in Nat \ {0} /\ bf \in Nat \ {0}
  OBVIOUS
<1>2. /\ a * f \in Nat /\ e * b \in Nat /\ c * h \in Nat /\ g * d \in Nat
  OBVIOUS
<1>3. x \in Nat /\ y \in Nat /\ x > y
  <2> DEFINE af == a * f
             eb == e * b
             ch == c * h
             gd == g * d
  <2>0. af \in Nat /\ eb \in Nat /\ ch \in Nat /\ gd \in Nat /\ af >= eb /\ ch >= gd
        /\ (af > eb \/ ch > gd)
    BY <1>2
  <2> HIDE DEF dh, bf, af, eb, ch, gd
  <2>1. /\ af * dh \in Nat /\ eb * dh \in Nat /\ ch * bf \in Nat /\ gd * bf \in Nat
        /\ af * dh >= eb * dh /\ ch * bf >= gd * bf
        /\ af > eb => af * dh > eb * dh
        /\ ch > gd => ch * bf > gd * bf
    BY <1>1, <2>0, ProductsGrow
  <2>2. af * dh + ch * bf > eb * dh + gd * bf
    BY <2>0, <2>1
  <2> QED
    BY <2>1, <2>2 DEF af, eb, ch, gd
<1>4. ((a * d + c * b) * p) * (f * h) = x * p
  OBVIOUS
<1>5. ((e * h + g * f) * q) * (b * d) = y * q
  OBVIOUS
<1> HIDE DEF x, y
<1>6. x * p >= x * q /\ x * q > y * q
  BY <1>3, ProductsGrow
<1>7. x * p \in Nat /\ x * q \in Nat /\ y * q \in Nat
  BY <1>3
<1> QED
  BY <1>4, <1>5, <1>6, <1>7

(* A row that is preferred to one that was found is found, and scores more. *)
LEMMA PreferredIsAbove ==
  ASSUME NEW S \in SUBSET Memories, NEW semantic, NEW keyword,
         Top(semantic, S, Distance),
         Top(keyword, {x \in S : Relevance[x] > 0},
             [x \in Memories |-> -Relevance[x]]),
         NEW m \in S, NEW n \in Joined(semantic, keyword), Preferred(m, n)
  PROVE  m \in Joined(semantic, keyword) /\ Above(semantic, keyword, m, n)
<1> DEFINE matching == {x \in S : Relevance[x] > 0}
           key == [x \in Memories |-> -Relevance[x]]
           a == Term(10, semantic, m)
           c == Term(7, keyword, m)
           e == Term(10, semantic, n)
           g == Term(7, keyword, n)
           p == 80 + 2 * Importance[m]
           q == 80 + 2 * Importance[n]
<1>1. n \in S
  BY DEF Joined, ToSet, Top
<1>2. /\ \A x \in Memories : Distance[x] \in Nat /\ Relevance[x] \in Nat
      /\ \A x \in Memories : Importance[x] \in 0..10
  BY MemoryAssumption
<1>3. Distance[m] < Distance[n]
  BY DEF Preferred
<1>4. n \in ToSet(keyword) => m \in matching /\ key[m] < key[n]
  <2>1. SUFFICES ASSUME n \in ToSet(keyword) PROVE m \in matching /\ key[m] < key[n]
    OBVIOUS
  <2>2. n \in matching
    BY <2>1 DEF ToSet, Top
  <2>3. Relevance[m] > Relevance[n]
    BY <1>1, <1>2, <2>2 DEF Preferred
  <2> QED
    BY <1>1, <1>2, <2>2, <2>3
<1>5. /\ AtLeast(a, e)
      /\ n \in ToSet(semantic) => m \in ToSet(semantic) /\ More(a, e)
  <2> HIDE DEF matching, key
  <2> QED
    BY <1>3, TermsCompare
<1>6. /\ AtLeast(c, g)
      /\ n \in ToSet(keyword) => m \in ToSet(keyword) /\ More(c, g)
  <2>1. Top(keyword, matching, key)
    OBVIOUS
  <2> HIDE DEF matching, key
  <2> QED
    BY <1>4, <2>1, TermsCompare
<1>7. m \in Joined(semantic, keyword) /\ (More(a, e) \/ More(c, g))
  BY <1>5, <1>6 DEF Joined
<1>8. {a, c, e, g} \subseteq Fractions
  <2>1. Top(keyword, matching, key)
    OBVIOUS
  <2> HIDE DEF matching, key
  <2> QED
    BY <2>1, TermIsFraction
<1>9. p \in Nat /\ q \in Nat \ {0} /\ p >= q
  BY <1>1, <1>2 DEF Preferred
<1>10. Above(semantic, keyword, m, n) <=>
         ((a.num * c.den + c.num * a.den) * p) * (e.den * g.den) >
         ((e.num * g.den + g.num * e.den) * q) * (a.den * c.den)
  BY DEF Above, Score
<1> HIDE DEF a, c, e, g, p, q
<1>11. /\ a.num \in Nat /\ c.num \in Nat /\ e.num \in Nat /\ g.num \in Nat
       /\ a.den \in Nat \ {0} /\ c.den \in Nat \ {0}
       /\ e.den \in Nat \ {0} /\ g.den \in Nat \ {0}
  BY <1>8 DEF Fractions
<1>12. /\ a.num * e.den >= e.num * a.den
       /\ c.num * g.den >= g.num * c.den
       /\ a.num * e.den > e.num * a.den \/ c.num * g.den > g.num * c.den
  BY <1>5, <1>6, <1>7 DEF AtLeast, More
<1>13. ((a.num * c.den + c.num * a.den) * p) * (e.den * g.den) >
       ((e.num * g.den + g.num * e.den) * q) * (a.den * c.den)
  BY <1>9, <1>11, <1>12, SumsCompare
<1> QED
  BY <1>7, <1>10, <1>13

(* Something is left of something. *)
LEMMA CutIsNotEmpty ==
  ASSUME NEW S, IsFiniteSet(S), S # {}, NEW ranking \in SetToSeqs(S),
         NEW limit \in Nat \ {0}
  PROVE  /\ \E x \in S : x \in ToSet(Limited(ranking, limit))
         /\ Limited(ranking, limit) # <<>>
<1> DEFINE cut == Limited(ranking, limit)
<1>1. limit \in Nat
  OBVIOUS
<1>2. PICK k \in Nat : IsCut(cut, ranking, S, limit, k)
  BY <1>1, RankingIsCut
<1>3. Len(ranking) \in Nat /\ Len(ranking) # 0
  BY RankingShape, FS_EmptySet, FS_CardinalityType
<1> HIDE DEF cut
<1>4. k # 0
  BY <1>2, <1>3 DEF IsCut
<1>5. 1 \in 1..k /\ cut \in [1..k -> S] /\ Len(cut) = k
  BY <1>2, <1>4 DEF IsCut
<1>6. cut[1] \in S /\ cut[1] \in ToSet(cut)
  BY <1>5 DEF ToSet
<1>7. cut # <<>>
  BY <1>4, <1>5
<1> QED
  BY <1>6, <1>7 DEF cut

(* What search_memories returns, whatever order the database gives to ties. *)
LEMMA SearchIsSound ==
  ASSUME NEW scope, NEW limit \in Nat \ {0}, NEW found \in SearchResults(scope, limit)
  PROVE  /\ ToSet(found) \subseteq Scoped(scope)
         /\ found = <<>> => Scoped(scope) = {}
         /\ WellRanked(found, Scoped(scope))
<1> DEFINE S == Scoped(scope)
           matching == {x \in S : Relevance[x] > 0}
           key == [x \in Memories |-> -Relevance[x]]
<1>1. PICK s \in Semantic(scope), k \in Keyword(scope) :
        \E r \in Fused(Limited(s, SearchDepth), Limited(k, SearchDepth)) :
          found = Limited(r, limit)
  <2> DEFINE cuts(s, k) == {Limited(r, limit) :
                 r \in Fused(Limited(s, SearchDepth), Limited(k, SearchDepth))}
  <2>1. found \in UNION {cuts(s, k) : s \in Semantic(scope), k \in Keyword(scope)}
    BY DEF SearchResults
  <2>2. \E s \in Semantic(scope), k \in Keyword(scope) : found \in cuts(s, k)
    <3> HIDE DEF cuts
    <3> QED
      BY <2>1
  <2> QED
    BY <2>2
<1> DEFINE semantic == Limited(s, SearchDepth)
           keyword == Limited(k, SearchDepth)
           J == Joined(semantic, keyword)
<1>2. PICK r \in Fused(semantic, keyword) : found = Limited(r, limit)
  BY <1>1
<1>3. S \in SUBSET Memories /\ IsFiniteSet(S)
      /\ matching \in SUBSET S /\ IsFiniteSet(matching)
  <2>1. S \in SUBSET Memories /\ matching \in SUBSET S
    BY DEF Scoped
  <2> HIDE DEF S, matching
  <2>2. IsFiniteSet(S)
    BY <2>1, MemoryAssumption, FS_Subset
  <2> QED
    BY <2>1, <2>2, FS_Subset
<1>4. s \in Rankings(S, Distance) /\ k \in Rankings(matching, key)
  BY DEF Semantic, Keyword
<1>5. SearchDepth \in Nat \ {0} /\ SearchDepth \in Nat
  BY MemoryAssumption
<1>6. Top(semantic, S, Distance) /\ Top(keyword, matching, key)
  <2> HIDE DEF S, matching, key
  <2> QED
    BY <1>3, <1>4, <1>5, RankingsAreTop
<1>7. J \in SUBSET S /\ IsFiniteSet(J)
  <2>1. J \in SUBSET S
    <3> HIDE DEF S, semantic, keyword, key
    <3> QED
      BY <1>6 DEF Joined, ToSet, Top
  <2> HIDE DEF S, J
  <2> QED
    BY <1>3, <2>1, FS_Subset
<1>8. /\ r \in SetToSeqs(J)
      /\ \A i, j \in 1..Len(r) : Above(semantic, keyword, r[i], r[j]) => i < j
  BY <1>2 DEF Fused
<1>9. limit \in Nat
  OBVIOUS
<1>10. ToSet(found) \subseteq J
  <2> HIDE DEF J
  <2>1. PICK l \in Nat : IsCut(Limited(r, limit), r, J, limit, l)
    BY <1>7, <1>8, <1>9, RankingIsCut
  <2> QED
    BY <1>2, <2>1 DEF IsCut, ToSet
<1>11. found = <<>> => S = {}
  <2>1. SUFFICES ASSUME S # {} PROVE found # <<>>
    OBVIOUS
  <2>2. s \in SetToSeqs(S)
    BY <1>4 DEF Rankings
  <2>3. \E x : x \in ToSet(semantic)
    <3> HIDE DEF S
    <3> QED
      BY <1>3, <1>5, <2>1, <2>2, CutIsNotEmpty
  <2>4. J # {}
    BY <2>3 DEF Joined
  <2> HIDE DEF J
  <2> QED
    BY <1>2, <1>7, <1>8, <2>4, CutIsNotEmpty
<1>12. WellRanked(found, S)
  <2> SUFFICES ASSUME NEW n \in ToSet(found), NEW m \in S, Preferred(m, n)
               PROVE  \E i, j \in DOMAIN found :
                        found[i] = m /\ found[j] = n /\ i < j
    BY DEF WellRanked
  <2>1. n \in J
    BY <1>10
  <2>2. m \in J /\ Above(semantic, keyword, m, n)
    <3> HIDE DEF S, semantic, keyword
    <3> QED
      BY <1>3, <1>6, <2>1, PreferredIsAbove
  <2>3. \A i, j \in 1..Len(r) : r[i] = m /\ r[j] = n => i < j
    BY <1>8, <2>2
  <2> HIDE DEF J
  <2> QED
    BY <1>2, <1>7, <1>8, <1>9, <2>2, <2>3, LimitedKeepsOrder
<1> QED
  BY <1>7, <1>10, <1>11, <1>12
-----------------------------------------------------------------------------
LEMMA SearchKeeps ==
  ASSUME ApiInv, NEW c \in Clients, Search(c)
  PROVE  ApiInv'
<1> DEFINE q == req[c]
<1>1. q.stage = "holding" /\ q.op = "search" /\ UNCHANGED <<runs, memories>>
  BY DEF Search
<1>0. PICK limit \in 1..SearchDepth :
        \E found \in SearchResults(ScopeOf(q), limit) :
          Becomes(c, IF found = <<>> THEN Done(q, 200, found)
                     ELSE [q EXCEPT !.stage = "found", !.answer = found])
  BY DEF Search
<1>2. PICK found \in SearchResults(ScopeOf(q), limit) :
        Becomes(c, IF found = <<>> THEN Done(q, 200, found)
                   ELSE [q EXCEPT !.stage = "found", !.answer = found])
  BY <1>0
<1>3. Good(q, runs, memories)
  BY DEF ApiInv
<1> HIDE DEF q
<1>4. q.token \in Tokens /\ q.target \in Subjects /\ Allowed(q.token, ScopeOf(q))
  BY <1>1, <1>3 DEF Good, Asks
<1>5. \A m \in ToSet(found) : HasMemory(memories, m, ScopeOf(q))
  <2>1. ToSet(found) \subseteq Scoped(ScopeOf(q))
    BY <1>2, SearchIsSound, MemoryAssumption
  <2> QED
    BY <2>1 DEF Scoped, Live, HasMemory
<1>6. ASSUME NEW n, DOMAIN n = Fields, n.op = q.op, n.token = q.token,
             n.target = q.target, n.answer = found,
             \/ n.stage = "done" /\ n.status = 200
             \/ n.stage = "found" /\ n.status = q.status,
             Becomes(c, n)
      PROVE  ApiInv'
  <2>1. ScopeOf(n) = ScopeOf(q)
    BY <1>6 DEF ScopeOf
  <2>2. Good(n, runs, memories)
    BY <1>1, <1>3, <1>4, <1>5, <1>6, <2>1 DEF Good, Asks
  <2>3. \A p : Apart(n, p)
    BY <1>1, <1>6 DEF Apart
  <2> QED
    BY <1>1, <1>6, <2>2, <2>3, OnlyMoves
<1>7. CASE found = <<>>
  <2> DEFINE n == Done(q, 200, found)
  <2>1. DOMAIN n = Fields /\ n.op = q.op /\ n.token = q.token
        /\ n.target = q.target /\ n.answer = found
        /\ n.stage = "done" /\ n.status = 200
    BY <1>3, Changed DEF Good
  <2>2. Becomes(c, n)
    BY <1>2, <1>7
  <2> HIDE DEF n
  <2> QED
    BY <1>6, <2>1, <2>2
<1>8. CASE found # <<>>
  <2> DEFINE n == [q EXCEPT !.stage = "found", !.answer = found]
  <2>1. DOMAIN n = Fields /\ n.op = q.op /\ n.token = q.token
        /\ n.target = q.target /\ n.answer = found
        /\ n.stage = "found" /\ n.status = q.status
    BY <1>3, ChangedAnswer DEF Good
  <2>2. Becomes(c, n)
    BY <1>2, <1>8
  <2> HIDE DEF n
  <2> QED
    BY <1>6, <2>1, <2>2
<1> QED
  BY <1>7, <1>8

(* The counters of the rows found change, their scopes do not. *)
LEMMA TouchKeeps ==
  ASSUME ApiInv, NEW c \in Clients, Touch(c)
  PROVE  ApiInv'
<1> DEFINE q == req[c]
           n == [q EXCEPT !.stage = "committed"]
<1>1. q.stage = "found" /\ UNCHANGED runs /\ Becomes(c, n)
  BY DEF Touch
<1>2. Good(q, runs, memories)
  BY DEF ApiInv
<1>3. Grown
  <2>1. /\ runs \in [Runs -> Scopes \cup {NULL}]
        /\ memories \in [Memories -> MemoryRow(Scopes, Nat) \cup {NULL}]
    BY DEF ApiInv, Tabled
  <2>2. CountAccess(ToSet(q.answer))
    BY DEF Touch
  <2>3. ASSUME NEW m \in Memories
        PROVE  /\ memories'[m] \in MemoryRow(Scopes, Nat) \cup {NULL}
               /\ memories[m] # NULL =>
                    memories'[m] # NULL /\ memories'[m].scope = memories[m].scope
    <3>1. CASE memories[m] # NULL /\ memories'[m] =
                 [memories[m] EXCEPT !.access_count = @ + 1]
      <4>1. memories[m] \in MemoryRow(Scopes, Nat)
        BY <2>1, <3>1
      <4>2. /\ memories'[m] \in MemoryRow(Scopes, Nat)
            /\ memories'[m].scope = memories[m].scope
        BY <3>1, <4>1 DEF MemoryRow
      <4> QED
        BY <4>2, ApiAssumption
    <3>2. CASE memories'[m] = memories[m]
      BY <2>1, <3>2
    <3> QED
      BY <2>2, <3>1, <3>2 DEF CountAccess, Live
  <2>4. memories' = [m \in Memories |-> memories'[m]]
    BY <2>2 DEF CountAccess
  <2> QED
    BY <1>1, <2>1, <2>3, <2>4 DEF Grown
<1>4. /\ DOMAIN n = Fields /\ n.stage = "committed" /\ n.op = q.op
      /\ n.token = q.token /\ n.target = q.target
      /\ n.status = q.status /\ n.answer = q.answer
  BY <1>2, Changed DEF Good
<1>5. req' = [req EXCEPT ![c] = n]
  BY <1>1 DEF Becomes
<1> HIDE DEF n, q
<1>6. q.op = "search"
  BY <1>1, <1>2 DEF Good
<1>7. ScopeOf(n) = ScopeOf(q)
  BY <1>4 DEF ScopeOf
<1>8. Good(n, runs, memories)
  BY <1>1, <1>2, <1>4, <1>6, <1>7 DEF Good, Asks
<1>9. Good(n, runs', memories')
  BY <1>3, <1>8, GoodForever
<1>10. \A p : Apart(n, p)
  BY <1>4, <1>6 DEF Apart
<1> QED
  BY <1>3, <1>5, <1>9, <1>10, OneMoves

LEMMA AnswerKeeps ==
  ASSUME ApiInv, NEW c \in Clients, Answer(c)
  PROVE  ApiInv'
<1> DEFINE q == req[c]
<1>1. q.stage = "committed" /\ UNCHANGED <<runs, memories>>
  BY DEF Answer
<1>2. PICK status \in {200, 201, 202} :
        /\ status = 202 => q.op = "create"
        /\ status = 201 => q.op = "write"
        /\ Becomes(c, Done(q, status, q.answer))
  <2>1. CASE q.op = "create"
    BY <2>1 DEF Answer
  <2>2. CASE q.op = "write"
    BY <2>2 DEF Answer
  <2>3. CASE q.op \notin {"create", "write"}
    BY <2>3 DEF Answer
  <2> QED
    BY <2>1, <2>2, <2>3
<1> DEFINE n == Done(q, status, q.answer)
<1>3. Good(q, runs, memories) /\ \A d \in Clients \ {c} : Apart(q, req[d])
  BY DEF ApiInv
<1>4. /\ DOMAIN n = Fields /\ n.stage = "done" /\ n.op = q.op
      /\ n.token = q.token /\ n.target = q.target
      /\ n.status = status /\ n.answer = q.answer
  BY <1>3, Changed DEF Good
<1>5. Becomes(c, n)
  BY <1>2
<1> HIDE DEF n, q
<1>6. q.status = 0 /\ Claims(q)
  BY <1>1, <1>3 DEF Good, Claims
<1>7. ScopeOf(n) = ScopeOf(q)
  BY <1>4 DEF ScopeOf
<1>8. Good(n, runs, memories)
  BY <1>2, <1>3, <1>4, <1>6, <1>7 DEF Good, Asks
<1>9. \A d \in Clients \ {c} : Apart(n, req[d])
  BY <1>3, <1>4, <1>6 DEF Apart
<1> QED
  BY <1>1, <1>5, <1>8, <1>9, OnlyMoves

(* get_run answers only after it has looked at the row. *)
LEMMA GetRunKeeps ==
  ASSUME ApiInv, NEW c \in Clients, GetRun(c)
  PROVE  ApiInv'
<1> DEFINE q == req[c]
           r == q.target
           status == GetStatus(Credential(q.token), runs[r])
           answer == IF status = 200 THEN r ELSE NULL
           n == Done(q, status, answer)
<1>1. q.stage = "holding" /\ q.op = "get" /\ UNCHANGED <<runs, memories>>
  BY DEF GetRun
<1>2. Becomes(c, n)
  BY DEF GetRun
<1>3. Good(q, runs, memories)
  BY DEF ApiInv
<1>4. /\ DOMAIN n = Fields /\ n.stage = "done" /\ n.op = q.op
      /\ n.token = q.token /\ n.target = q.target
      /\ n.status = status /\ n.answer = answer
  BY <1>3, Changed DEF Good
<1>5. r \in Runs
  BY <1>1, <1>3 DEF Good
<1>6. status \in {200, 403, 404, 500}
  BY DEF GetStatus, ScopeStatus
<1>7. answer # NULL => runs[r] # NULL /\ Allowed(q.token, runs[r])
  <2> SUFFICES ASSUME status = 200
               PROVE  runs[r] # NULL /\ Allowed(q.token, runs[r])
    OBVIOUS
  <2>1. /\ runs[r] # NULL
        /\ runs[r].tenant = Credential(q.token).tenant
        /\ EnforceScope(Credential(q.token), NULL, runs[r].subject) = "allowed"
    BY DEF GetStatus, ScopeStatus
  <2> QED
    BY <2>1, AllowedByScope DEF Allowed
<1> HIDE DEF n, status, q
<1>8. Good(n, runs, memories)
  BY <1>1, <1>4, <1>5, <1>6, <1>7 DEF Good, Asks
<1>9. \A p : Apart(n, p)
  BY <1>1, <1>4 DEF Apart
<1> QED
  BY <1>1, <1>2, <1>8, <1>9, OnlyMoves

LEMMA HealthKeeps ==
  ASSUME ApiInv, NEW c \in Clients, Health(c)
  PROVE  ApiInv'
<1> DEFINE q == req[c]
           status == IF q.answer THEN 200 ELSE 503
           n == Done(q, status, q.answer)
<1>1. q.op = "healthz" /\ UNCHANGED <<runs, memories>> /\ Becomes(c, n)
  BY DEF Health
<1>2. Good(q, runs, memories)
  BY DEF ApiInv
<1>3. /\ DOMAIN n = Fields /\ n.stage = "done" /\ n.op = q.op
      /\ n.status = status
  BY <1>2, Changed DEF Good
<1>4. status \in {200, 503}
  OBVIOUS
<1> HIDE DEF n, status, q
<1>5. Good(n, runs, memories) /\ \A p : Apart(n, p)
  BY <1>1, <1>3, <1>4 DEF Good, Asks, Apart
<1> QED
  BY <1>1, <1>5, OnlyMoves
-----------------------------------------------------------------------------
(* Rows expire and are cleaned up with their scopes. *)
LEMMA MemoriesAgeKeeps ==
  ASSUME ApiInv, MemoriesAge
  PROVE  ApiInv'
<1>1. UNCHANGED <<runs, req>>
  BY DEF MemoriesAge
<1>2. /\ runs \in [Runs -> Scopes \cup {NULL}]
      /\ memories \in [Memories -> MemoryRow(Scopes, Nat) \cup {NULL}]
  BY DEF ApiInv, Tabled
<1>3. CASE \E x \in Memories : Expire(x)
  <2>1. PICK x \in Memories :
          /\ memories[x] # NULL
          /\ memories' = [memories EXCEPT ![x].expires = "past"]
    BY <1>3 DEF Expire, Live
  <2>2. memories[x] \in MemoryRow(Scopes, Nat)
    BY <1>2, <2>1
  <2> DEFINE row == [memories[x] EXCEPT !.expires = "past"]
  <2>3. row \in MemoryRow(Scopes, Nat) /\ row.scope = memories[x].scope
    BY <2>2 DEF MemoryRow
  <2>4. memories' = [memories EXCEPT ![x] = row]
    BY <2>1
  <2> HIDE DEF row
  <2>5. row # NULL
    BY <2>3, ApiAssumption
  <2>6. Grown
    BY <1>1, <1>2, <2>3, <2>4, <2>5 DEF Grown
  <2> QED
    BY <1>1, <2>6, NoneMoves
<1>4. CASE CleanUp
  <2>1. ASSUME NEW m \in Memories
        PROVE  /\ memories'[m] \in MemoryRow(Scopes, Nat) \cup {NULL}
               /\ memories[m] # NULL =>
                    memories'[m] # NULL /\ memories'[m].scope = memories[m].scope
    <3>1. CASE memories[m] # NULL
               /\ memories'[m] = [memories[m] EXCEPT !.gone = TRUE]
      <4>1. memories[m] \in MemoryRow(Scopes, Nat)
        BY <1>2, <3>1
      <4>2. /\ memories'[m] \in MemoryRow(Scopes, Nat)
            /\ memories'[m].scope = memories[m].scope
        BY <3>1, <4>1 DEF MemoryRow
      <4> QED
        BY <4>2, ApiAssumption
    <3>2. CASE memories'[m] = memories[m]
      BY <1>2, <3>2
    <3> QED
      BY <1>4, <3>1, <3>2 DEF CleanUp, Live
  <2>2. memories' = [m \in Memories |-> memories'[m]]
    BY <1>4 DEF CleanUp
  <2>3. Grown
    BY <1>1, <1>2, <2>1, <2>2 DEF Grown
  <2> QED
    BY <1>1, <2>3, NoneMoves
<1> QED
  BY <1>3, <1>4 DEF MemoriesAge

(* Starting, stopping and the worker touch no request and no row. *)
LEMMA LifeKeeps ==
  ASSUME ApiInv, LifeStep \/ Shutdown \/ WorkerStops \/ WorkerDies
  PROVE  ApiInv'
<1>1. UNCHANGED <<runs, req, memories>>
  BY DEF LifeStep, Shutdown, WorkerStops, WorkerDies, Phase, CreateQueuePool,
         CreateMemoryPool, ValidateDimension, UndoMemory, UndoQueue,
         BeginCloseMemory, MemoryClosed, QueueClosed
<1> QED
  BY <1>1, NothingGrows, NoneMoves

LEMMA ApiInvInit == ApiInit => ApiInv
<1> SUFFICES ASSUME ApiInit PROVE ApiInv
  OBVIOUS
<1>1. Tabled
  <2>1. MemoryRow(Scopes, {0}) \subseteq MemoryRow(Scopes, Nat)
    BY DEF MemoryRow
  <2> QED
    BY <2>1, ApiAssumption DEF ApiInit, Tabled
<1>2. /\ DOMAIN NoRequest = Fields /\ NoRequest.stage = "none"
      /\ NoRequest.op = "none" /\ NoRequest.status = 0
      /\ NoRequest.answer = NULL
  BY DEF NoRequest, Fields
<1>3. Good(NoRequest, runs, memories) /\ Apart(NoRequest, NoRequest)
  BY <1>2 DEF Good, Apart, Asks
<1>4. \A c \in Clients : req[c] = NoRequest
  BY DEF ApiInit
<1> QED
  BY <1>1, <1>3, <1>4 DEF ApiInv

LEMMA ApiInvNext == ApiInv /\ [ApiNext]_vars => ApiInv'
<1> SUFFICES ASSUME ApiInv, [ApiNext]_vars PROVE ApiInv'
  OBVIOUS
<1>1. ASSUME NEW c \in Clients, RequestStep(c) PROVE ApiInv'
  BY <1>1, AwaitKeeps, EnqueueKeeps, GetRunKeeps, WriteMemoryKeeps, SearchKeeps,
     TouchKeeps, HealthKeeps, AnswerKeeps DEF RequestStep
<1>2. ASSUME NEW c \in Clients, Arrive(c) \/ CallRaises(c) PROVE ApiInv'
  BY <1>2, ArriveKeeps, AwaitKeeps
<1>3. CASE UNCHANGED vars
  BY <1>3, NothingGrows, NoneMoves DEF vars
<1> QED
  BY <1>1, <1>2, <1>3, LifeKeeps, MemoriesAgeKeeps DEF ApiNext
-----------------------------------------------------------------------------
(* Whatever handlers of app.py overlap, fail or are cut off: every request *)
(* keeps a scope its key is allowed, and every row the scope it came with. *)
THEOREM ServiceInvariance == ApiSpec => []ApiInv
BY ApiInvInit, ApiInvNext, PTL DEF ApiSpec

(* No handler writes or shows a row outside the scope of the key that was  *)
(* used (enforce_scope, and the WHERE clauses of get and search_memories). *)
THEOREM ScopesAreKept == ApiSpec => []ScopeIsKept
<1>1. ApiInv => ScopeIsKept
  <2> SUFFICES ASSUME ApiInv, NEW c \in Clients, NEW scope \in Touched(c)
               PROVE  Allowed(req[c].token, scope)
    BY DEF ScopeIsKept, Allowed
  <2> DEFINE q == req[c]
  <2>1. Good(q, runs, memories)
    BY DEF ApiInv
  <2>2. q.answer # NULL /\ q.op # "healthz"
    <3> SUFFICES ASSUME q.answer = NULL \/ q.op = "healthz" PROVE FALSE
      OBVIOUS
    <3>1. Touched(c) = {}
      BY DEF Touched
    <3> QED
      BY <3>1
  <2>3. CASE q.op = "create"
    <3>1. scope = runs[q.answer]
      BY <2>2, <2>3 DEF Touched
    <3> QED
      BY <2>1, <2>2, <2>3, <3>1 DEF Good, Asks, Claims, Has
  <2>4. CASE q.op = "get"
    <3>1. scope = runs[q.answer]
      BY <2>2, <2>4 DEF Touched
    <3> QED
      BY <2>1, <2>2, <2>4, <3>1 DEF Good
  <2>5. CASE q.op = "write"
    <3>1. scope = memories[q.answer].scope
      BY <2>2, <2>5 DEF Touched
    <3> QED
      BY <2>1, <2>2, <2>5, <3>1 DEF Good, Asks, Claims, HasMemory
  <2>6. CASE q.op = "search"
    <3>1. PICK m \in ToSet(q.answer) : scope = memories[m].scope
      BY <2>2, <2>6 DEF Touched
    <3> QED
      BY <2>1, <2>2, <2>6, <3>1 DEF Good, Asks, HasMemory
  <2> QED
    <3>1. q.op \in {"create", "write", "search", "get", "healthz"}
      BY <2>1, <2>2 DEF Good, Asks
    <3> HIDE DEF q
    <3> QED
      BY <2>2, <2>3, <2>4, <2>5, <2>6, <3>1
<1> QED
  BY <1>1, ServiceInvariance, PTL

(* What POST /v1/runs and POST /v1/memory/write answered with 202 or 201   *)
(* is a row of the scope that was asked for, and of no other client.       *)
THEOREM AcceptedIsKept == ApiSpec => []AcceptedIsStored
<1>1. ApiInv => AcceptedIsStored
  <2> SUFFICES ASSUME ApiInv, NEW c \in Clients, req[c].status \in {201, 202}
               PROVE  LET id == req[c].answer
                      IN  /\ IF req[c].status = 202
                             THEN id \in Runs /\ runs[id] = ScopeOf(req[c])
                             ELSE id \in Memories
                                  /\ memories[id].scope = ScopeOf(req[c])
                          /\ \A d \in Clients \ {c} :
                               req[d].status = req[c].status => req[d].answer # id
    BY DEF AcceptedIsStored
  <2>1. \A d \in Clients : Good(req[d], runs, memories)
    BY DEF ApiInv
  <2>2. CASE req[c].status = 202
    <3>1. Has(runs, req[c].answer, Runs, ScopeOf(req[c]))
      BY <2>1, <2>2 DEF Good, Claims
    <3>2. \A d \in Clients \ {c} :
            req[d].status = 202 => req[d].answer # req[c].answer
      BY <2>1, <2>2 DEF ApiInv, Good, Apart, Claims
    <3> QED
      BY <2>2, <3>1, <3>2 DEF Has
  <2>3. CASE req[c].status = 201
    <3>1. HasMemory(memories, req[c].answer, ScopeOf(req[c]))
      BY <2>1, <2>3 DEF Good, Claims
    <3>2. \A d \in Clients \ {c} :
            req[d].status = 201 => req[d].answer # req[c].answer
      BY <2>1, <2>3 DEF ApiInv, Good, Apart, Claims
    <3> QED
      BY <2>3, <3>1, <3>2 DEF HasMemory
  <2> QED
    BY <2>2, <2>3
<1> QED
  BY <1>1, ServiceInvariance, PTL
-----------------------------------------------------------------------------
(* Before the stores are set nobody waits for a connection, whoever holds  *)
(* one holds it out of a pool that is not closed yet, and the pools are as *)
(* far as the phase says.                                                  *)
Stands(p) ==
  CASE phase = "start_queue" -> {"none"}
    [] phase = "failed" -> {"none", "closed"}
    [] phase = "start_memory" -> IF p = "queue" THEN {"open"} ELSE {"none"}
    [] phase = "undo_queue" -> IF p = "queue" THEN {"open"} ELSE {"none", "closed"}
    [] phase \in {"validating", "undo_memory", "up", "joining"} -> {"open"}
    [] phase = "closing_memory" -> IF p = "queue" THEN {"open"} ELSE {"closing"}
    [] phase = "closing_queue" -> IF p = "queue" THEN {"closing"} ELSE {"closed"}
    [] phase = "stopped" -> {"closed"}
    [] OTHER -> {}

OrderInv ==
  /\ pool = [p \in Pools |-> pool[p]]
  /\ \A p \in Pools : pool[p] \in Stands(p)
  /\ worker = "running" => phase \in {"up", "joining"}
  /\ ~StoresAreSet => \A c \in Clients : req[c].stage \in {"none", "done"}
  /\ \A c \in Clients : Holds(c) => pool[PoolOf(req[c].op)] \in {"open", "closing"}

(* A request c that is on its way goes on as n: it keeps its kind, and     *)
(* takes a connection only out of an open pool that has one left.          *)
Moved(c, n) ==
  /\ req[c].stage \notin {"none", "done"}
  /\ n.op = req[c].op
  /\ n.stage \in Stages \ {"none"}
  /\ req[c].stage = "committed" => n.stage = "done"
  /\ n.stage \in {"holding", "found", "committed"} =>
       \/ Holds(c)
       \/ LET p == PoolOf(req[c].op)
          IN  pool[p] = "open" /\ Cardinality(Holders(p)) < PoolSize

LEMMA RequestBecomes ==
  ASSUME ApiInv, NEW c \in Clients, RequestStep(c) \/ CallRaises(c)
  PROVE  \E n : Becomes(c, n) /\ Moved(c, n)
<1> DEFINE q == req[c]
           Goal == \E n : Becomes(c, n) /\ Moved(c, n)
<1>1. DOMAIN q = Fields
  BY DEF ApiInv, Good
<1>2. ASSUME NEW n, Becomes(c, n), n.stage = "done", n.op = q.op,
             q.stage \notin {"none", "done"}
      PROVE  Goal
  BY <1>2 DEF Moved, Stages
<1>3. ASSUME NEW status, NEW answer, q.stage \notin {"none", "done"},
             Becomes(c, Done(q, status, answer))
      PROVE  Goal
  <2> DEFINE n == Done(q, status, answer)
  <2>1. n.stage = "done" /\ n.op = q.op
    BY <1>1, Changed
  <2>2. Becomes(c, n)
    BY <1>3
  <2> HIDE DEF n
  <2> QED
    BY <1>2, <1>3, <2>1, <2>2
<1>4. ASSUME NEW stage \in Stages \ {"none"}, NEW answer,
             q.stage \notin {"none", "done", "committed"},
             \/ stage = "waiting"
             \/ Holds(c)
             \/ LET p == PoolOf(q.op)
                IN  pool[p] = "open" /\ Cardinality(Holders(p)) < PoolSize,
             \/ Becomes(c, [q EXCEPT !.stage = stage])
             \/ Becomes(c, [q EXCEPT !.stage = stage, !.answer = answer])
      PROVE  Goal
  <2>1. PICK n : n.stage = stage /\ n.op = q.op /\ Becomes(c, n)
    <3>1. CASE Becomes(c, [q EXCEPT !.stage = stage])
      <4> DEFINE m == [q EXCEPT !.stage = stage]
      <4>1. m.stage = stage /\ m.op = q.op
        BY <1>1, Changed
      <4> QED
        BY <3>1, <4>1
    <3>2. CASE Becomes(c, [q EXCEPT !.stage = stage, !.answer = answer])
      <4> DEFINE m == [q EXCEPT !.stage = stage, !.answer = answer]
      <4>1. m.stage = stage /\ m.op = q.op
        BY <1>1, ChangedAnswer
      <4> QED
        BY <3>2, <4>1
    <3> QED
      BY <1>4, <3>1, <3>2
  <2> QED
    BY <1>4, <2>1 DEF Moved
<1>5. CASE AcquireRefused(c) \/ CallRaises(c)
  <2> DEFINE n == Raised(q)
  <2>1. n.stage = "done" /\ n.op = q.op
    <3> DEFINE m == [NoRequest EXCEPT !.op = q.op]
    <3>1. DOMAIN m = Fields /\ m.op = q.op
      BY DEF NoRequest, Fields
    <3>2. n = Done(m, 503, NULL)
      BY DEF Raised
    <3> HIDE DEF m, n
    <3> QED
      BY <3>1, <3>2, Changed
  <2>2. Becomes(c, n) /\ q.stage \notin {"none", "done"}
    BY <1>5 DEF AcquireRefused, CallRaises
  <2> HIDE DEF n
  <2> QED
    BY <1>2, <2>1, <2>2
<1>6. CASE Embed(c)
  BY <1>4, <1>6 DEF Embed, Stages
<1>7. CASE Acquire(c)
  BY <1>4, <1>7 DEF Acquire, Stages
<1>8. CASE Enqueue(c)
  <2>1. q.stage = "holding"
        /\ \E r : Becomes(c, [q EXCEPT !.stage = "committed", !.answer = r])
    BY <1>8 DEF Enqueue
  <2> QED
    BY <1>4, <2>1 DEF Holds, Stages
<1>9. CASE GetRun(c)
  <2>1. q.stage = "holding" /\ \E s, a : Becomes(c, Done(q, s, a))
    BY <1>9 DEF GetRun
  <2> QED
    BY <1>3, <2>1
<1>10. CASE WriteMemory(c)
  <2>1. q.stage = "holding"
        /\ \E m : Becomes(c, [q EXCEPT !.stage = "committed", !.answer = m])
    BY <1>10 DEF WriteMemory
  <2> QED
    BY <1>4, <2>1 DEF Holds, Stages
<1>11. CASE Search(c)
  <2>1. q.stage = "holding"
        /\ \E found : \/ Becomes(c, Done(q, 200, found))
                      \/ Becomes(c, [q EXCEPT !.stage = "found", !.answer = found])
    BY <1>11 DEF Search
  <2> QED
    BY <1>3, <1>4, <2>1 DEF Holds, Stages
<1>12. CASE Touch(c)
  <2>1. q.stage = "found" /\ Becomes(c, [q EXCEPT !.stage = "committed"])
    BY <1>12 DEF Touch
  <2> QED
    BY <1>4, <2>1 DEF Holds, Stages
<1>13. CASE Health(c) \/ Answer(c)
  <2>1. q.stage \in {"holding", "committed"} /\ \E s, a : Becomes(c, Done(q, s, a))
    BY <1>13 DEF Health, Answer
  <2> QED
    BY <1>3, <2>1
<1> QED
  BY <1>5, <1>6, <1>7, <1>8, <1>9, <1>10, <1>11, <1>12, <1>13 DEF RequestStep

LEMMA RequestMoves ==
  ASSUME ApiInv, NEW c \in Clients, RequestStep(c) \/ CallRaises(c)
  PROVE  /\ UNCHANGED <<phase, pool, worker>>
         /\ \A d \in Clients \ {c} : req'[d] = req[d]
         /\ Moved(c, req'[c])
<1>1. PICK n : Becomes(c, n) /\ Moved(c, n)
  BY RequestBecomes
<1>2. req = [d \in Clients |-> req[d]]
  BY DEF ApiInv, Tabled
<1>3. req'[c] = n /\ \A d \in Clients \ {c} : req'[d] = req[d]
  BY <1>1, <1>2 DEF Becomes
<1> QED
  BY <1>1, <1>3 DEF Becomes

(* A request that arrives holds nothing, and before the service is up it   *)
(* is answered at once.                                                    *)
LEMMA ArriveMoves ==
  ASSUME ApiInv, NEW c \in Clients, Arrive(c)
  PROVE  /\ UNCHANGED <<phase, pool, worker, memories>>
         /\ \A d \in Clients \ {c} : req'[d] = req[d]
         /\ req[c].stage = "none"
         /\ req'[c].op \in Ops \cup {"none"}
         /\ req'[c].stage \in {"embedding", "waiting", "done"}
         /\ ~StoresAreSet => req'[c].stage = "done"
<1> DEFINE Fine(n) == /\ n.op \in Ops \cup {"none"}
                      /\ n.stage \in {"embedding", "waiting", "done"}
                      /\ ~StoresAreSet => n.stage = "done"
<1>1. req = [d \in Clients |-> req[d]]
  BY DEF ApiInv, Tabled
<1>2. DOMAIN NoRequest = Fields /\ NoRequest.op = "none"
  BY DEF NoRequest, Fields
<1>3. ASSUME NEW status PROVE Fine(Rejected(status))
  <2>1. Rejected(status).stage = "done" /\ Rejected(status).op = "none"
    BY <1>2, Changed DEF Rejected
  <2> QED
    BY <2>1
<1>4. ASSUME NEW q, DOMAIN q = Fields, q.op \in Ops
      PROVE  Fine(Admitted(q))
  <2>1. CASE StoresAreSet
    <3>1. PICK stage \in {"embedding", "waiting"} :
            Admitted(q) = [q EXCEPT !.stage = stage]
      BY <2>1 DEF Admitted
    <3> DEFINE n == [q EXCEPT !.stage = stage]
    <3>2. n.stage = stage /\ n.op = q.op
      BY <1>4, Changed
    <3>3. Admitted(q) = n
      BY <3>1
    <3> HIDE DEF n
    <3> QED
      BY <1>4, <2>1, <3>2, <3>3
  <2>2. CASE ~StoresAreSet
    BY <1>3, <2>2 DEF Admitted
  <2> QED
    BY <2>1, <2>2
<1>5. PICK n : Becomes(c, n) /\ Fine(n)
  <2>1. CASE \E status : Becomes(c, Rejected(status))
    BY <1>3, <2>1
  <2>2. CASE \E q : DOMAIN q = Fields /\ q.op \in Ops /\ Becomes(c, Admitted(q))
    BY <1>4, <2>2
  <2>3. CASE Becomes(c, IF StoresAreSet
                   THEN [NoRequest EXCEPT !.op = "healthz", !.stage = "waiting",
                                          !.answer = worker # "done"]
                   ELSE Rejected(503))
    <3> DEFINE m == [NoRequest EXCEPT !.op = "healthz", !.stage = "waiting",
                                      !.answer = worker # "done"]
    <3>1. m.stage = "waiting" /\ m.op = "healthz"
      BY DEF NoRequest
    <3>2. Becomes(c, IF StoresAreSet THEN m ELSE Rejected(503))
      BY <2>3
    <3> HIDE DEF m
    <3>3. StoresAreSet => Fine(m)
      BY <3>1 DEF Ops
    <3> QED
      BY <1>3, <3>2, <3>3
  <2>4. CASE \E op \in {"create", "write", "search"}, token \in Tokens,
               tenant \in Tenants \cup {NULL}, subject \in Subjects :
              LET verdict == EnforceScope(Credential(token), tenant, subject)
              IN  Becomes(c, IF verdict = "allowed"
                             THEN Admitted([NoRequest EXCEPT
                                    !.op = op, !.token = token, !.target = subject])
                             ELSE Rejected(ScopeStatus(verdict)))
    <3>1. PICK op \in {"create", "write", "search"}, token \in Tokens,
               tenant \in Tenants \cup {NULL}, subject \in Subjects :
            LET verdict == EnforceScope(Credential(token), tenant, subject)
            IN  Becomes(c, IF verdict = "allowed"
                           THEN Admitted([NoRequest EXCEPT
                                  !.op = op, !.token = token, !.target = subject])
                           ELSE Rejected(ScopeStatus(verdict)))
      BY <2>4, Zenon
    <3> DEFINE status == ScopeStatus(EnforceScope(Credential(token), tenant, subject))
    <3> DEFINE m == [NoRequest EXCEPT !.op = op, !.token = token, !.target = subject]
    <3>2. DOMAIN m = Fields /\ m.op \in Ops
      BY <3>1 DEF NoRequest, Fields, Ops
    <3>3. Becomes(c, Admitted(m)) \/ Becomes(c, Rejected(status))
      BY <3>1, Zenon
    <3> HIDE DEF m, status
    <3> QED
      BY <2>1, <2>2, <3>2, <3>3
  <2>5. CASE \E token \in Tokens, r \in Runs :
              Becomes(c, Admitted([NoRequest EXCEPT
                           !.op = "get", !.token = token, !.target = r]))
    <3>1. PICK token, r :
            Becomes(c, Admitted([NoRequest EXCEPT
              !.op = "get", !.token = token, !.target = r]))
      BY <2>5
    <3> DEFINE m == [NoRequest EXCEPT !.op = "get", !.token = token, !.target = r]
    <3>2. DOMAIN m = Fields /\ m.op \in Ops
      BY DEF NoRequest, Fields, Ops
    <3>3. Becomes(c, Admitted(m))
      BY <3>1
    <3> HIDE DEF m
    <3> QED
      BY <2>2, <3>2, <3>3
  <2>6. CASE Becomes(c, Rejected(401)) \/ \E status \in {400, 422} :
                                            Becomes(c, Rejected(status))
    BY <2>1, <2>6
  <2> HIDE DEF Fine
  <2> QED
    BY <2>3, <2>4, <2>5, <2>6, Zenon DEF Arrive
<1>6. req'[c] = n /\ \A d \in Clients \ {c} : req'[d] = req[d]
  BY <1>1, <1>5 DEF Becomes
<1>7. req[c].stage = "none" /\ UNCHANGED memories
  BY DEF Arrive
<1> QED
  BY <1>5, <1>6, <1>7 DEF Becomes

(* What the requests do leaves the order as it is. *)
LEMMA RequestsKeepOrder ==
  ASSUME ApiInv, OrderInv, NEW c \in Clients,
         Arrive(c) \/ RequestStep(c) \/ CallRaises(c)
  PROVE  OrderInv'
<1>1. UNCHANGED <<phase, pool, worker>> /\ \A d \in Clients \ {c} : req'[d] = req[d]
  BY RequestMoves, ArriveMoves
<1>2. \A p : Stands(p)' = Stands(p)
  BY <1>1 DEF Stands
<1>3. StoresAreSet' <=> StoresAreSet
  BY <1>1 DEF StoresAreSet
<1>4. ASSUME NEW d \in Clients, Holds(d)'
      PROVE  pool[PoolOf(req'[d].op)] \in {"open", "closing"}
  <2>1. CASE d = c
    BY <1>4, <2>1, RequestMoves, ArriveMoves DEF OrderInv, Holds, Moved
  <2>2. CASE d # c
    BY <1>1, <1>4, <2>2 DEF OrderInv, Holds
  <2> QED
    BY <2>1, <2>2
<1>5. ASSUME ~StoresAreSet, NEW d \in Clients
      PROVE  req'[d].stage \in {"none", "done"}
  BY <1>1, <1>5, RequestMoves, ArriveMoves DEF OrderInv, Moved
<1> QED
  BY <1>1, <1>2, <1>3, <1>4, <1>5 DEF OrderInv

(* So does every step of the start and of the shutdown. *)
LEMMA LifeKeepsOrder ==
  ASSUME OrderInv, LifeStep \/ Shutdown \/ WorkerStops \/ WorkerDies
  PROVE  OrderInv'
<1>1. UNCHANGED req
  BY DEF LifeStep, Shutdown, WorkerStops, WorkerDies, Phase, CreateQueuePool,
         CreateMemoryPool, ValidateDimension, UndoMemory, UndoQueue,
         BeginCloseMemory, MemoryClosed, QueueClosed
<1>2. \A c : Holds(c)' <=> Holds(c)
  BY <1>1 DEF Holds
<1>3. \A c : PoolOf(req[c].op) \in Pools
  BY DEF PoolOf, Pools
<1>4. ASSUME ~StoresAreSet, NEW c \in Clients PROVE ~Holds(c)
  BY <1>4 DEF OrderInv, Holds
<1>5. CASE CreateQueuePool
  BY <1>1, <1>2, <1>3, <1>4, <1>5
  DEF OrderInv, Stands, Pools, StoresAreSet, Phase, CreateQueuePool
<1>11. CASE CreateMemoryPool
  BY <1>1, <1>2, <1>3, <1>4, <1>11
  DEF OrderInv, Stands, Pools, StoresAreSet, Phase, CreateMemoryPool
<1>12. CASE ValidateDimension
  BY <1>1, <1>2, <1>3, <1>4, <1>12
  DEF OrderInv, Stands, Pools, StoresAreSet, Phase, ValidateDimension
<1>6. CASE UndoMemory \/ UndoQueue
  BY <1>1, <1>2, <1>3, <1>4, <1>6
  DEF OrderInv, Stands, Pools, StoresAreSet, Phase, UndoMemory, UndoQueue
<1>7. CASE Shutdown \/ WorkerStops \/ WorkerDies
  BY <1>1, <1>2, <1>7
  DEF OrderInv, Stands, Pools, StoresAreSet, Phase, Shutdown, WorkerStops, WorkerDies
<1>8. CASE BeginCloseMemory
  BY <1>1, <1>2, <1>3, <1>8
  DEF OrderInv, Stands, Pools, StoresAreSet, Phase, BeginCloseMemory, Gathered
<1>9. CASE MemoryClosed
  BY <1>1, <1>2, <1>3, <1>9
  DEF OrderInv, Stands, Pools, StoresAreSet, Phase, MemoryClosed, Holders
<1>10. CASE QueueClosed
  BY <1>1, <1>2, <1>3, <1>10
  DEF OrderInv, Stands, Pools, StoresAreSet, Phase, QueueClosed, Holders
<1> QED
  BY <1>5, <1>6, <1>7, <1>8, <1>9, <1>10, <1>11, <1>12 DEF LifeStep

(* The order of start and shutdown holds in every reachable state. *)
THEOREM ServiceOrder == ApiSpec => []OrderInv
<1>1. ApiInit => OrderInv
  <2> SUFFICES ASSUME ApiInit PROVE OrderInv
    OBVIOUS
  <2>1. \A c \in Clients : req[c].stage = "none"
    BY DEF ApiInit, NoRequest
  <2> QED
    BY <2>1 DEF ApiInit, OrderInv, Stands, Holds
<1>2. ApiInv /\ OrderInv /\ [ApiNext]_vars => OrderInv'
  <2> SUFFICES ASSUME ApiInv, OrderInv, [ApiNext]_vars PROVE OrderInv'
    OBVIOUS
  <2>1. CASE UNCHANGED <<phase, pool, worker, req>>
    BY <2>1 DEF OrderInv, Stands, StoresAreSet, Holds
  <2>2. CASE MemoriesAge \/ UNCHANGED vars
    BY <2>1, <2>2 DEF MemoriesAge, vars
  <2> QED
    BY <2>2, LifeKeepsOrder, RequestsKeepOrder DEF ApiNext
<1> QED
  BY <1>1, <1>2, ServiceInvariance, PTL DEF ApiSpec

(* on_shutdown waits for the embedded worker before it closes the pools,   *)
(* a close waits for the requests that hold a connection, and on_startup   *)
(* closes what it had opened when it fails.                                *)
THEOREM ShutdownOrder == ApiSpec => []ShutdownIsOrderly
<1>1. OrderInv => ShutdownIsOrderly
  <2> SUFFICES ASSUME OrderInv PROVE ShutdownIsOrderly
    OBVIOUS
  <2>1. worker = "running" => \A p \in Pools : pool[p] = "open"
    BY DEF OrderInv, Stands
  <2>2. \A p \in Pools : Holders(p) # {} => pool[p] \in {"open", "closing"}
    BY DEF OrderInv, Holders
  <2>3. phase \in {"stopped", "failed"} =>
          \A p \in Pools : pool[p] \in {"none", "closed"}
    BY DEF OrderInv, Stands
  <2> QED
    BY <2>1, <2>2, <2>3 DEF ShutdownIsOrderly
<1> QED
  BY <1>1, ServiceOrder, PTL
-----------------------------------------------------------------------------
(* The counters: the connections that are out, and the searches that have  *)
(* counted a row.  A request counts a row once, on its way from found to   *)
(* committed, and no failure takes it back.                                *)
Counted(q) == q.op = "search" /\ q.stage \in {"committed", "done"}

Searches == {c \in Clients : Counted(req[c])}

CountInv ==
  /\ worker \in {"none", "running", "done"}
  /\ \A c \in Clients : req[c].stage \in Stages /\ req[c].op \in Ops \cup {"none"}
  /\ \A p \in Pools : Cardinality(Holders(p)) <= PoolSize
  /\ \A m \in Memories : memories[m] # NULL =>
       memories[m].access_count <= Cardinality(Searches)

(* How the counts of a step relate to those before it. *)
CountsBy(k) ==
  \A m \in Memories : memories'[m] # NULL =>
    \/ memories'[m].access_count = 0
    \/ /\ memories[m] # NULL
       /\ memories'[m].access_count <= memories[m].access_count + k

LEMMA SubsetsOfClients ==
  ASSUME NEW S, S \subseteq Clients
  PROVE  IsFiniteSet(S) /\ Cardinality(S) \in Nat
BY ApiAssumption, FS_Subset, FS_CardinalityType

(* One request moves: at most one connection is taken, one search counts.  *)
LEMMA OneCounts ==
  ASSUME ApiInv, ApiInv', CountInv, NEW c \in Clients,
         \A d \in Clients \ {c} : req'[d] = req[d],
         worker' \in {"none", "running", "done"},
         req'[c].stage \in Stages, req'[c].op \in Ops \cup {"none"},
         (Holds(c)' /\ ~Holds(c)) =>
           Cardinality(Holders(PoolOf(req'[c].op))) < PoolSize,
         Holds(c) => req'[c].op = req[c].op,
         Counted(req[c]) => Counted(req'[c]),
         CountsBy(0) \/ (CountsBy(1) /\ ~Counted(req[c]) /\ Counted(req'[c]))
  PROVE  CountInv'
<1>1. \A d \in Clients : req'[d].stage \in Stages /\ req'[d].op \in Ops \cup {"none"}
  BY DEF CountInv
<1>2. ASSUME NEW p \in Pools PROVE Cardinality(Holders(p))' <= PoolSize
  <2> DEFINE H == Holders(p)
             K == Holders(p)'
  <2>1. /\ H \subseteq Clients /\ K \subseteq Clients
        /\ IsFiniteSet(H) /\ IsFiniteSet(K)
        /\ Cardinality(H) \in Nat /\ Cardinality(K) \in Nat
    <3>1. H \subseteq Clients /\ K \subseteq Clients
      BY DEF Holders
    <3> HIDE DEF H, K
    <3> QED
      BY <3>1, SubsetsOfClients
  <2>2. Cardinality(H) <= PoolSize /\ PoolSize \in Nat
    BY ApiAssumption DEF CountInv
  <2>3. CASE Holds(c)' /\ ~Holds(c) /\ PoolOf(req'[c].op) = p
    <3>1. Cardinality(H) < PoolSize
      BY <2>3
    <3>2. K = H \cup {c} /\ c \notin H
      BY <2>3 DEF Holders, Holds
    <3> HIDE DEF H, K
    <3>3. Cardinality(K) = Cardinality(H) + 1
      BY <2>1, <3>2, FS_AddElement
    <3>4. Cardinality(K) <= PoolSize
      BY <2>1, <2>2, <3>1, <3>3
    <3> QED
      BY <3>4 DEF K
  <2>4. CASE ~(Holds(c)' /\ ~Holds(c) /\ PoolOf(req'[c].op) = p)
    <3>1. K \subseteq H
      BY <2>4 DEF Holders, Holds
    <3> HIDE DEF H, K
    <3>2. Cardinality(K) <= Cardinality(H)
      BY <2>1, <3>1, FS_Subset
    <3>3. Cardinality(K) <= PoolSize
      BY <2>1, <2>2, <3>2
    <3> QED
      BY <3>3 DEF K
  <2> QED
    BY <2>3, <2>4
<1>3. ASSUME NEW m \in Memories, memories'[m] # NULL
      PROVE  memories'[m].access_count <= Cardinality(Searches)'
  <2> DEFINE S == Searches
             T == Searches'
  <2>1. /\ S \subseteq T
        /\ S \subseteq Clients /\ T \subseteq Clients
        /\ (~Counted(req[c]) /\ Counted(req'[c])) => (c \notin S /\ T = S \cup {c})
    BY DEF Searches
  <2> HIDE DEF S, T
  <2>2. /\ IsFiniteSet(S) /\ IsFiniteSet(T)
        /\ Cardinality(S) \in Nat /\ Cardinality(T) \in Nat
    BY <2>1, SubsetsOfClients
  <2>3. Cardinality(S) <= Cardinality(T)
    BY <2>1, <2>2, FS_Subset
  <2>4. c \notin S /\ T = S \cup {c} => Cardinality(T) = Cardinality(S) + 1
    BY <2>2, FS_AddElement
  <2>5. /\ memories'[m].access_count \in Nat
        /\ memories[m] # NULL => /\ memories[m].access_count \in Nat
                                /\ memories[m].access_count <= Cardinality(S)
    BY <1>3 DEF ApiInv, Tabled, MemoryRow, CountInv, S
  <2>6. memories'[m].access_count <= Cardinality(T)
    <3>1. CASE memories'[m].access_count = 0
      BY <2>2, <3>1
    <3>2. CASE /\ memories[m] # NULL
               /\ memories'[m].access_count <= memories[m].access_count + 0
      BY <2>2, <2>3, <2>5, <3>2
    <3>3. CASE /\ memories[m] # NULL /\ c \notin S /\ T = S \cup {c}
               /\ memories'[m].access_count <= memories[m].access_count + 1
      BY <2>2, <2>4, <2>5, <3>3
    <3> QED
      BY <1>3, <2>1, <3>1, <3>2, <3>3 DEF CountsBy
  <2> QED
    BY <2>6 DEF T
<1> QED
  BY <1>1, <1>2, <1>3 DEF CountInv

(* Nothing but a search that has found rows counts any. *)
LEMMA RowsCounted ==
  ASSUME ApiInv, NEW c \in Clients,
         Arrive(c) \/ RequestStep(c) \/ CallRaises(c)
  PROVE  CountsBy(0) \/ (CountsBy(1) /\ Touch(c))
<1>0. \A m \in Memories : memories[m] # NULL => memories[m].access_count \in Nat
  BY DEF ApiInv, Tabled, MemoryRow
<1>1. CASE UNCHANGED memories
  BY <1>0, <1>1 DEF CountsBy
<1>2. CASE WriteMemory(c)
  <2>1. PICK m \in Memories : memories' = [memories EXCEPT ![m] = NewRow(ScopeOf(req[c]))]
    BY <1>2 DEF WriteMemory, Insert
  <2>2. ASSUME NEW x \in Memories, memories'[x] # NULL
        PROVE  \/ memories'[x].access_count = 0
               \/ /\ memories[x] # NULL
                  /\ memories'[x].access_count <= memories[x].access_count + 0
    <3>1. CASE x = m
      BY <2>1, <3>1 DEF NewRow, ApiInv, Tabled
    <3>2. CASE x # m
      BY <1>0, <2>1, <2>2, <3>2 DEF ApiInv, Tabled
    <3> QED
      BY <3>1, <3>2
  <2> QED
    BY <2>2 DEF CountsBy
<1>3. CASE Touch(c)
  <2>1. CountAccess(ToSet(req[c].answer))
    BY <1>3 DEF Touch
  <2>2. ASSUME NEW x \in Memories, memories'[x] # NULL
        PROVE  /\ memories[x] # NULL
               /\ memories'[x].access_count <= memories[x].access_count + 1
    <3>1. CASE memories'[x] = memories[x]
      BY <1>0, <2>2, <3>1
    <3>2. CASE memories[x] # NULL /\ memories'[x] = [memories[x] EXCEPT !.access_count = @ + 1]
      <4>1. memories[x] \in MemoryRow(Scopes, Nat)
        BY <3>2 DEF ApiInv, Tabled
      <4>2. memories'[x].access_count = memories[x].access_count + 1
        BY <3>2, <4>1 DEF MemoryRow
      <4> QED
        BY <1>0, <3>2, <4>2
    <3> QED
      BY <2>1, <3>1, <3>2 DEF CountAccess, Live
  <2> QED
    BY <1>3, <2>2 DEF CountsBy
<1> QED
  BY <1>1, <1>2, <1>3 DEF Arrive, RequestStep, CallRaises, Embed, Acquire,
     AcquireRefused, Enqueue, GetRun, Search, Health, Answer

LEMMA RequestsCount ==
  ASSUME ApiInv, ApiInv', CountInv, NEW c \in Clients,
         Arrive(c) \/ RequestStep(c) \/ CallRaises(c)
  PROVE  CountInv'
<1>1. CASE Arrive(c)
  <2>1. CountsBy(0) \/ Touch(c)
    BY <1>1, RowsCounted
  <2>2. /\ req[c].stage = "none" /\ req'[c].stage \in {"embedding", "waiting", "done"}
        /\ req'[c].op \in Ops \cup {"none"}
        /\ worker' = worker /\ \A d \in Clients \ {c} : req'[d] = req[d]
    BY <1>1, ArriveMoves
  <2>3. ~Holds(c)' /\ ~Holds(c) /\ ~Counted(req[c])
    BY <2>2 DEF Holds, Counted
  <2>4. CountsBy(0)
    BY <2>1, <2>2 DEF Touch
  <2>5. req'[c].stage \in Stages /\ worker' \in {"none", "running", "done"}
    BY <2>2 DEF Stages, CountInv
  <2> QED
    BY <2>2, <2>3, <2>4, <2>5, OneCounts
<1>2. CASE RequestStep(c) \/ CallRaises(c)
  <2>1. /\ worker' = worker /\ \A d \in Clients \ {c} : req'[d] = req[d]
        /\ Moved(c, req'[c])
    BY <1>2, RequestMoves
  <2>2. /\ req'[c].op = req[c].op /\ req'[c].stage \in Stages
        /\ req'[c].op \in Ops \cup {"none"}
        /\ worker' \in {"none", "running", "done"}
    BY <2>1 DEF Moved, CountInv
  <2>3. (Holds(c)' /\ ~Holds(c)) =>
          Cardinality(Holders(PoolOf(req'[c].op))) < PoolSize
    BY <2>1, <2>2 DEF Moved, Holds
  <2>4. Counted(req[c]) => Counted(req'[c])
    BY <2>1, <2>2 DEF Moved, Counted
  <2>5. CountsBy(0) \/ (CountsBy(1) /\ ~Counted(req[c]) /\ Counted(req'[c]))
    <3>1. CASE CountsBy(0)
      BY <3>1
    <3>2. CASE CountsBy(1) /\ Touch(c)
      <4>1. /\ req[c].stage = "found" /\ req[c].op = "search"
            /\ req' = [req EXCEPT ![c] = [req[c] EXCEPT !.stage = "committed"]]
            /\ DOMAIN req[c] = Fields /\ req = [d \in Clients |-> req[d]]
        BY <3>2 DEF Touch, Becomes, ApiInv, Tabled, Good
      <4>2. req'[c].stage = "committed"
        BY <4>1 DEF Fields
      <4> QED
        BY <2>2, <3>2, <4>1, <4>2 DEF Counted
    <3> QED
      BY <1>2, <3>1, <3>2, RowsCounted
  <2> QED
    BY <2>1, <2>2, <2>3, <2>4, <2>5, OneCounts
<1> QED
  BY <1>1, <1>2

(* Time and the clean-up leave the counts as they are. *)
LEMMA AgeCounts ==
  ASSUME ApiInv, CountInv, MemoriesAge
  PROVE  CountInv'
<1>1. UNCHANGED <<pool, worker, req>>
  BY DEF MemoriesAge
<1>2. ASSUME NEW m \in Memories, memories'[m] # NULL
      PROVE  /\ memories[m] # NULL
             /\ memories'[m].access_count = memories[m].access_count
  <2>1. memories[m] = NULL => memories'[m] = NULL
    BY DEF MemoriesAge, Expire, CleanUp, Live, ApiInv, Tabled
  <2>2. memories[m] \in MemoryRow(Scopes, Nat)
    BY <1>2, <2>1 DEF ApiInv, Tabled
  <2>3. \/ memories'[m] = memories[m]
        \/ memories'[m] = [memories[m] EXCEPT !.expires = "past"]
        \/ memories'[m] = [memories[m] EXCEPT !.gone = TRUE]
    BY DEF MemoriesAge, Expire, CleanUp, ApiInv, Tabled
  <2> QED
    BY <1>2, <2>1, <2>2, <2>3 DEF MemoryRow
<1>3. Searches' = Searches /\ \A p \in Pools : Holders(p)' = Holders(p)
  BY <1>1 DEF Searches, Holders, Holds
<1> QED
  BY <1>1, <1>2, <1>3 DEF CountInv

LEMMA LifeCounts ==
  ASSUME CountInv, LifeStep \/ Shutdown \/ WorkerStops \/ WorkerDies
  PROVE  CountInv'
<1>1. UNCHANGED <<req, memories>> /\ worker' \in {"none", "running", "done"}
  BY DEF LifeStep, Shutdown, WorkerStops, WorkerDies, Phase, CreateQueuePool,
         CreateMemoryPool, ValidateDimension, UndoMemory, UndoQueue,
         BeginCloseMemory, MemoryClosed, QueueClosed, CountInv
<1>2. Searches' = Searches /\ \A p \in Pools : Holders(p)' = Holders(p)
  BY <1>1 DEF Searches, Holders, Holds
<1> QED
  BY <1>1, <1>2 DEF CountInv

LEMMA CountInvInit == ApiInit => CountInv
<1> SUFFICES ASSUME ApiInit PROVE CountInv
  OBVIOUS
<1>1. \A c \in Clients : req[c].stage = "none" /\ req[c].op = "none"
  BY DEF ApiInit, NoRequest
<1>2. ASSUME NEW p \in Pools PROVE Cardinality(Holders(p)) <= PoolSize
  <2>1. Holders(p) = {}
    BY <1>1 DEF Holders, Holds
  <2> QED
    BY <2>1, FS_EmptySet, ApiAssumption
<1>3. Searches \subseteq Clients
  BY DEF Searches
<1>4. Cardinality(Searches) \in Nat
  BY <1>3, SubsetsOfClients
<1>5. ASSUME NEW m \in Memories, memories[m] # NULL
      PROVE  memories[m].access_count <= Cardinality(Searches)
  <2>1. memories[m] \in MemoryRow(Scopes, {0})
    BY <1>5, ApiAssumption DEF ApiInit
  <2> QED
    BY <1>4, <2>1 DEF MemoryRow
<1>6. worker = "none"
  BY DEF ApiInit
<1> QED
  BY <1>1, <1>2, <1>5, <1>6 DEF CountInv, Stages

(* Neither pool ever gives out more than PoolSize connections, however     *)
(* requests come, fail and end, and a memory is counted at most once for   *)
(* every search.                                                           *)
THEOREM ApiTypes == ApiSpec => []ApiTypeOK
<1>1. ApiInit => CountInv
  BY CountInvInit
<1>2. ApiInv /\ ApiInv' /\ CountInv /\ [ApiNext]_vars => CountInv'
  <2> SUFFICES ASSUME ApiInv, ApiInv', CountInv, [ApiNext]_vars PROVE CountInv'
    OBVIOUS
  <2>1. CASE UNCHANGED vars
    BY <2>1 DEF vars, CountInv, Searches, Holders, Holds
  <2> QED
    BY <2>1, LifeCounts, RequestsCount, AgeCounts DEF ApiNext
<1>3. ApiInv /\ OrderInv /\ CountInv => ApiTypeOK
  <2> SUFFICES ASSUME ApiInv, OrderInv, CountInv PROVE ApiTypeOK
    OBVIOUS
  <2>1. pool \in [Pools -> {"none", "open", "closing", "closed"}]
    BY DEF OrderInv, Stands
  <2>2. \A r \in Runs : runs[r] \in Scopes \cup {NULL}
    BY DEF ApiInv, Tabled
  <2>3. ASSUME NEW m \in Memories, memories[m] # NULL
        PROVE  memories[m] \in MemoryRow(Scopes, 0..Cardinality(Clients))
    <3>1. Searches \subseteq Clients
      BY DEF Searches
    <3>2. /\ Cardinality(Searches) \in Nat /\ Cardinality(Clients) \in Nat
          /\ Cardinality(Searches) <= Cardinality(Clients)
      BY <3>1, SubsetsOfClients, FS_Subset, ApiAssumption
    <3>3. memories[m] \in MemoryRow(Scopes, Nat)
      BY <2>3 DEF ApiInv, Tabled
    <3>4. memories[m].access_count \in 0..Cardinality(Clients)
      BY <2>3, <3>2, <3>3 DEF CountInv, MemoryRow
    <3> QED
      BY <3>3, <3>4 DEF MemoryRow
  <2> QED
    BY <2>1, <2>2, <2>3 DEF CountInv, ApiTypeOK
<1> QED
  BY <1>1, <1>2, <1>3, ServiceInvariance, ServiceOrder, PTL DEF ApiSpec
-----------------------------------------------------------------------------
(* Every answer of search_memory: rows of the scope that have not expired, *)
(* none only if there is none, and in an order that respects distance,     *)
(* relevance and importance, for any number of memories and any limits.    *)
THEOREM SearchIsFair == ApiSpec => SearchIsRanked
<1>1. ApiInv /\ [ApiNext]_vars =>
        [\A c \in Clients :
           (Search(c) /\ req[c].stage = "holding") =>
             LET found == req'[c].answer
                 candidates == {m \in Memories :
                   /\ memories[m] # NULL /\ ~memories[m].gone
                   /\ memories[m].scope = ScopeOf(req[c])
                   /\ memories[m].expires \in {"never", "ahead"}}
             IN  /\ ToSet(found) \subseteq candidates
                 /\ found = <<>> => candidates = {}
                 /\ WellRanked(found, candidates)]_vars
  <2> SUFFICES ASSUME ApiInv, NEW c \in Clients, Search(c)
               PROVE  LET found == req'[c].answer
                          candidates == {m \in Memories :
                            /\ memories[m] # NULL /\ ~memories[m].gone
                            /\ memories[m].scope = ScopeOf(req[c])
                            /\ memories[m].expires \in {"never", "ahead"}}
                      IN  /\ ToSet(found) \subseteq candidates
                          /\ found = <<>> => candidates = {}
                          /\ WellRanked(found, candidates)
    OBVIOUS
  <2> DEFINE candidates == {m \in Memories :
               /\ memories[m] # NULL /\ ~memories[m].gone
               /\ memories[m].scope = ScopeOf(req[c])
               /\ memories[m].expires \in {"never", "ahead"}}
  <2>1. candidates = Scoped(ScopeOf(req[c]))
    <3>1. \A m \in Memories : memories[m] # NULL =>
            memories[m].expires \in {"never", "ahead", "past"}
      BY MemoryAssumption, ApiAssumption DEF ApiInv, Tabled, MemoryRow
    <3> QED
      BY <3>1 DEF Scoped, Live
  <2>2. PICK limit \in 1..SearchDepth :
          \E found \in SearchResults(ScopeOf(req[c]), limit) :
            Becomes(c, IF found = <<>> THEN Done(req[c], 200, found)
                       ELSE [req[c] EXCEPT !.stage = "found", !.answer = found])
    BY DEF Search
  <2>3. PICK found \in SearchResults(ScopeOf(req[c]), limit) :
          Becomes(c, IF found = <<>> THEN Done(req[c], 200, found)
                     ELSE [req[c] EXCEPT !.stage = "found", !.answer = found])
    BY <2>2
  <2>4. limit \in Nat \ {0}
    BY MemoryAssumption
  <2>5. /\ ToSet(found) \subseteq Scoped(ScopeOf(req[c]))
        /\ found = <<>> => Scoped(ScopeOf(req[c])) = {}
        /\ WellRanked(found, Scoped(ScopeOf(req[c])))
    BY <2>4, SearchIsSound
  <2>6. req'[c].answer = found
    <3>1. DOMAIN req[c] = Fields /\ req = [d \in Clients |-> req[d]]
      BY DEF ApiInv, Tabled, Good
    <3> DEFINE done == Done(req[c], 200, found)
               next == [req[c] EXCEPT !.stage = "found", !.answer = found]
    <3>2. done.answer = found /\ next.answer = found
      BY <3>1 DEF Done, Fields
    <3>3. req' = [req EXCEPT ![c] = IF found = <<>> THEN done ELSE next]
      BY <2>3 DEF Becomes
    <3> HIDE DEF done, next
    <3> QED
      BY <3>1, <3>2, <3>3
  <2> HIDE DEF candidates
  <2>7. /\ ToSet(req'[c].answer) \subseteq candidates
        /\ req'[c].answer = <<>> => candidates = {}
        /\ WellRanked(req'[c].answer, candidates)
    BY <2>1, <2>5, <2>6
  <2> QED
    BY <2>7 DEF candidates
<1> QED
  BY <1>1, ServiceInvariance, PTL DEF ApiSpec, SearchIsRanked
=============================================================================
