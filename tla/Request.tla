------------------------------ MODULE Request ------------------------------
(***************************************************************************)
(* A request from its headers to its status, as the core and the Express   *)
(* and Fastify bindings serve it, beside other requests and beside changes *)
(* of what the database would answer.  A step is what runs between two     *)
(* awaits; a call of the database is one step, which answers from the      *)
(* world of that moment, or fails.                                         *)
(*                                                                         *)
(* A route is [binding, mounted, hook, guards, tasks, errorHandler]; its   *)
(* handler awaits all its tasks at once: reads of the context ("has") and  *)
(* calls of the write API ("write": the SQL function, the tenant whose     *)
(* scope it asks for, and the scope).                                      *)
(***************************************************************************)
EXTENDS Routes, FiniteSets

CONSTANTS
    Requests,
    Inputs,      \* request -> what may arrive: [route, headers, tenant, context]
    FirstWorlds,
    Existing,    \* the tenants there is a row for
    Denials,     \* options.audit.denials
    FailCodes,   \* codes a failing call may carry, "" for none
    MaxFaults,   \* bound on failing calls and hooks
    MaxChanges   \* bound on changes of the world

ASSUME RequestBounds ==
    /\ MaxFaults \in Nat /\ MaxChanges \in Nat /\ Denials \in BOOLEAN
    /\ Existing \subseteq Tenants /\ FirstWorlds \subseteq Worlds

\* The write functions whose arguments name the tenant that governs them.
NamesTenant == {"grant_role", "invite_user", "create_role", "create_scope", "create_tenant",
                "update_tenant", "create_api_key"}

Functions == NamesTenant \cup
    {"has", "create_workspace", "revoke_binding", "update_role", "add_role_scope",
     "remove_role_scope", "revoke_api_key"}

\* What guards and handlers are made of.  A write needs context.as, which
\* nobody has not; an unmounted middleware is noticed by a guard.
ASSUME InputsAreMade ==
    \A r \in Requests : \A in \in Inputs[r] :
        /\ in # None /\ in.headers.apiKey \in Seq(Keys)
        /\ in.route.guards \in Seq([check : {"none", "all", "any"}, scopes : SUBSET ScopeNames,
                                    aal2 : BOOLEAN, allowApiKeys : BOOLEAN])
        /\ in.route.tasks \in Seq([do : {"has", "write"}, fn : Functions,
                                   tenant : Tenants, scope : ScopeNames])
        /\ in.route.mounted \/ in.route.guards # << >>
        /\ (\E i \in DOMAIN in.route.tasks : in.route.tasks[i].do = "write")
               => in.route.guards # << >>

\* A refusal, P0001, is how a write answers and no failure.
ASSUME FailuresFail == FailCodes \cap {None, "P0001"} = {}

Kinds == {"api_key", "user", None}
Aals == {"aal1", "aal2", None}

ASSUME NullIsNoWord ==
    /\ None \notin HttpErrors \cup AuthKitErrors \cup {"Error", "P0001"} \cup InvalidTokenCodes
    /\ None \notin {"api_key", "user", "aal1", "aal2"} \cup Requests

ASSUME NullIsNoRecord ==
    /\ None \notin [ok : BOOLEAN, value : (SUBSET ScopeNames) \cup {None},
                    error : HttpErrors \cup AuthKitErrors \cup {"Error", None}]
    /\ None \notin [principal : Principals \cup {None}, kind : Kinds, presented : BOOLEAN, aal : Aals]
    /\ None \notin [authUserId : Accounts, aal : Aals]

ASSUME NullIsNoStatus == None \notin {200, 400, 401, 403, 500}

VARIABLES
    world,    \* what the database would answer now
    views,    \* history: request -> what it would have answered since arrival
    req,      \* request -> how far it is
    audit,    \* audit_logs: the rows written for refusals
    reported, \* history: audit.onError calls, by request and origin
    faults, changes

vars == <<world, views, req, audit, reported, faults, changes>>

\* stage: what the request waits for.  at: the middleware it is in, 0 for
\* authenticate, i for the ith guard, beyond the last for the handler.
\* memo: the promises of createAuthzContext; asked: the queries they cost.
\* refusal: the denied row to write before the error goes on.
\* told: history of what the context answered, a tenant and the scopes.
Idle == [stage |-> "idle", input |-> None, at |-> 0, ctx |-> None, tenant |-> None,
         error |-> None, status |-> None, answers |-> 0, refusal |-> None,
         memo |-> [t \in Tenants |-> None], asked |-> [t \in Tenants |-> 0],
         tasks |-> << >>, told |-> {}, broken |-> FALSE]

RouteOf(q) == q.input.route
GuardOf(q) == RouteOf(q).guards[q.at]

\* Request r goes on as q; no other request notices.
Go(r, q) == req' = [req EXCEPT ![r] = q] /\ UNCHANGED <<world, views, changes>>
Quiet == UNCHANGED <<audit, reported, faults>>
Fault == faults < MaxFaults /\ faults' = faults + 1

\* How a call may settle that the database would answer with v.
Replies(codes) == {Transport(way, [value |-> None, code |-> c]) : way \in Transports, c \in codes}
Settlements(v) ==
    {Transport(way, [value |-> v, code |-> None]) : way \in Transports}
        \cup (IF faults < MaxFaults THEN Replies(FailCodes) ELSE {})

\* A settled call; the failing ones are bounded.
Spend(s) == faults' = (IF s.ok THEN faults ELSE faults + 1) /\ UNCHANGED <<audit, reported>>
Mark(q, s) == [q EXCEPT !.broken = @ \/ ~s.ok]

-----------------------------------------------------------------------------
(* The bindings around the core. *)

\* Fault: without the latch a rejection after next() answers once more.
CatchUnlatched(q, k, e) ==
    IF k < q.at THEN [q EXCEPT !.answers = @ + 1]
    ELSE [q EXCEPT !.stage = "failed", !.error = e]

\* Fault: a rejection is left to the framework, and Express 4 does not look.
CatchNothing(q, k, e) ==
    IF k < q.at THEN q
    ELSE [q EXCEPT !.stage = IF RouteOf(q).binding = "express" THEN "hanging" ELSE "failed", !.error = e]

\* The promise of middleware k rejects with e.  wrapAsync hands it to next,
\* unless next has been called; a Fastify hook rejects before it is done.
Catch(q, k, e) ==
    IF k < q.at THEN q ELSE [q EXCEPT !.stage = "failed", !.error = e]

Fail(q, e) == Catch(q, q.at, e)

\* Middleware is passed: the next guard runs, or the handler.
Enter(q, k) ==
    LET handler == k > Len(RouteOf(q).guards)
    IN  [q EXCEPT !.at = k,
                  !.stage = IF handler THEN "handler" ELSE "guard",
                  !.tasks = IF handler THEN [i \in DOMAIN RouteOf(q).tasks |-> [st |-> "todo", error |-> None]]
                            ELSE << >>]

\* authenticate and onRequest attach the context; they never refuse.
Attach(q, c) == Enter([q EXCEPT !.ctx = c], 1)

\* The opt-in error handler leaves to the framework what is not the kit's.
ErrorHandler(e) == IF StatusOf(e) = None THEN FrameworkStatus(e) ELSE StatusOf(e)

Arrive(r) ==
    /\ req[r].stage = "idle"
    /\ \E in \in Inputs[r] :
          LET q == [Idle EXCEPT !.input = in]
          IN  req' = [req EXCEPT ![r] = IF in.route.mounted THEN [q EXCEPT !.stage = "resolve"] ELSE Enter(q, 1)]
    /\ views' = [views EXCEPT ![r] = {world}]
    /\ UNCHANGED <<world, audit, reported, faults, changes>>

\* A middleware's promise rejects after it has called next(): next() threw.
LateRejection(r, k) ==
    /\ k < req[r].at /\ RouteOf(req[r]).binding = "express"
    /\ k = 0 => RouteOf(req[r]).mounted
    /\ Fault /\ UNCHANGED <<audit, reported>>
    /\ Go(r, Catch(req[r], k, "Error"))

Answer(r) ==
    LET q == req[r]
    IN  /\ q.stage = "failed"
        /\ Go(r, [q EXCEPT !.stage = "answered", !.answers = @ + 1,
                           !.status = IF RouteOf(q).errorHandler THEN ErrorHandler(q.error)
                                      ELSE FrameworkStatus(q.error)])
        /\ Quiet

-----------------------------------------------------------------------------
(* resolvePrincipal: a key before a token, and neither is no error.        *)

Credentials(q) == CredentialsFromHeaders(q.input.headers)

ResolveNobody(r) ==
    LET q == req[r]
    IN  /\ q.stage = "resolve" /\ Credentials(q) = [apiKey |-> None, bearer |-> None]
        /\ Go(r, Attach(q, Nobody)) /\ Quiet

\* principalForApiKey and principalForAuthUser ask the database.
Identify(r, id, kind, aal) ==
    \E s \in Settlements(world.owner[id]) :
        /\ Go(r, IF s.ok THEN Attach(req[r], Resolution(s.value, kind, aal))
                 ELSE Mark(Fail(req[r], s.error), s))
        /\ Spend(s)

ResolveApiKey(r) ==
    LET apiKey == Credentials(req[r]).apiKey
    IN  req[r].stage = "resolve" /\ apiKey # None /\ Identify(r, apiKey, "api_key", None)

ResolveBearer(r) ==
    LET q == req[r]
        c == Credentials(q)
        v == VerifyBearer(c.bearer)
    IN  /\ q.stage = "resolve" /\ c.apiKey = None /\ c.bearer # None
        /\ \/ ~v.ok /\ Go(r, Mark(Fail(q, v.error), v)) /\ Quiet
           \/ v = Resolved(None) /\ Go(r, Attach(q, Resolution(None, "user", None))) /\ Quiet
           \/ v.ok /\ v.value # None /\ Identify(r, v.value.authUserId, "user", v.value.aal)

-----------------------------------------------------------------------------
(* The context's memo: a promise per tenant and request.                   *)

Pending == [ok |-> FALSE, value |-> None, error |-> None]
Settled(q, t) == q.memo[t] \notin {None, Pending}

\* Fault: the map outlives the request; a principal's answers are reused.
AskKit(q, t) ==
    LET known == {o \in Requests : req[o].ctx = q.ctx /\ Settled(req[o], t)}
    IN  IF q.memo[t] # None THEN q
        ELSE [q EXCEPT !.memo[t] = IF known # {} THEN req[CHOOSE o \in known : TRUE].memo[t] ELSE Pending]

\* Fault: the answer is cached, not the promise and not for long.
AskAgain(q, t) == [q EXCEPT !.memo[t] = Pending]

\* scopes(tenant): what has been asked is not asked again, answered or not.
\* Nobody holds nothing, without a query.
Ask(q, t) ==
    IF q.memo[t] # None THEN q
    ELSE [q EXCEPT !.memo[t] = IF q.ctx.principal = None THEN Resolved({}) ELSE Pending]

\* effective_scopes answers.
Query(r, t) ==
    LET q == req[r]
    IN  /\ q.stage # "idle" /\ q.memo[t] = Pending
        /\ \E s \in Settlements(Held(world, q.ctx.principal, t)) :
              /\ Go(r, Mark([q EXCEPT !.memo[t] = s, !.asked[t] = @ + 1], s))
              /\ Spend(s)

\* What an await of the settled promise yields.
Read(q, t) == [q EXCEPT !.told = @ \cup {<<t, q.memo[t].value>>}]

-----------------------------------------------------------------------------
(* Denied rows. *)

\* requestContextToJson: a context that says nothing is null.
RequestContext(r) == IF req[r].input.context = "empty" THEN None ELSE r

Denial(r, origin, action, tenant) ==
    [request |-> RequestContext(r), of |-> r, origin |-> origin, action |-> action,
     actor |-> req[r].ctx.principal, tenant |-> tenant]

\* log_audit stores no tenant it does not find.
Stored(row) == IF row.tenant \in Existing THEN row ELSE [row EXCEPT !.tenant = None]

\* Fault: a lost row is nobody's business.
LogAuditSilently(row) ==
    \/ audit' = audit \cup {Stored(row)} /\ UNCHANGED <<reported, faults>>
    \/ Fault /\ UNCHANGED <<audit, reported>>

\* logAudit never rejects: the row is written and the answer may be lost, or
\* it is not written; onError is told of both.
LogAudit(row) ==
    \/ audit' = audit \cup {Stored(row)} /\ UNCHANGED <<reported, faults>>
    \/ /\ Fault /\ reported' = reported \cup {<<row.of, row.origin>>}
       /\ audit' \in {audit, audit \cup {Stored(row)}}

\* recordDenial is awaited before the error goes on, unless denials are off.
Deny(q, e, row) ==
    IF Denials THEN [q EXCEPT !.stage = "record", !.error = e, !.refusal = row] ELSE Fail(q, e)

RecordDenial(r) ==
    LET q == req[r]
    IN  /\ q.stage = "record"
        /\ LogAudit(q.refusal)
        /\ Go(r, Fail(q, q.error))

-----------------------------------------------------------------------------
(* The guards, in the order of enforceGuard.                               *)

Guarding(q) == q.stage = "guard" /\ q.ctx # None

NotInstalled(r) ==
    /\ req[r].stage = "guard" /\ req[r].ctx = None
    /\ Go(r, Fail(req[r], "MiddlewareNotInstalled")) /\ Quiet

\* enforceIdentity
Unauthenticated(r) ==
    LET q == req[r]
    IN  /\ Guarding(q) /\ q.ctx.principal = None /\ ~q.ctx.presented
        /\ Go(r, Fail(q, "Unauthenticated")) /\ Quiet

Unmapped(r) ==
    LET q == req[r]
    IN  /\ Guarding(q) /\ q.ctx.principal = None /\ q.ctx.presented
        /\ Go(r, Deny(q, "Forbidden", Denial(r, 0, "authenticate", None))) /\ Quiet

Identified(q) == Guarding(q) /\ q.ctx.principal # None

\* enforceAal2
TooWeak(r) ==
    LET q == req[r]
    IN  /\ Identified(q) /\ GuardOf(q).aal2 /\ ~SecondFactor(GuardOf(q), q.ctx)
        /\ Go(r, Deny(q, IF q.ctx.kind = "api_key" THEN "Forbidden" ELSE "MfaRequired",
                      Denial(r, 0, "authorize", None)))
        /\ Quiet

StrongEnough(q) == Identified(q) /\ (GuardOf(q).aal2 => SecondFactor(GuardOf(q), q.ctx))

PassIdentity(r) ==
    LET q == req[r]
    IN  /\ StrongEnough(q) /\ GuardOf(q).check = "none"
        /\ Go(r, Enter(q, q.at + 1)) /\ Quiet

\* Fault: only a missing tenant is refused.
TenantOfAnything(q) == IF q.input.tenant = None THEN None ELSE CHOOSE t \in Tenants : TRUE

TenantOf(q) ==
    LET t == ResolvesTo(RouteOf(q).hook, q.input.tenant) IN IF IsUuid(t) THEN t ELSE None

ResolveTenant(r) ==
    LET q == req[r]
        t == TenantOf(q)
    IN  /\ StrongEnough(q) /\ GuardOf(q).check # "none"
        /\ \/ t # None /\ Go(r, Ask([q EXCEPT !.stage = "check", !.tenant = t], t)) /\ Quiet
           \/ t = None /\ Go(r, Fail(q, "TenantRequired")) /\ Quiet
           \/ /\ RouteOf(q).hook = "custom" /\ Fault /\ UNCHANGED <<audit, reported>>
              /\ Go(r, [Fail(q, "Error") EXCEPT !.broken = TRUE])

\* Fault: an error of the check is taken for a refusal.
CheckCaught(r) ==
    LET q == req[r]
    IN  /\ q.stage = "check" /\ Settled(q, q.tenant)
        /\ Go(r, IF q.memo[q.tenant].ok /\ CheckHolds(GuardOf(q), q.memo[q.tenant].value)
                 THEN Enter(Read(q, q.tenant), q.at + 1)
                 ELSE Deny(q, "Forbidden", Denial(r, 0, "authorize", q.tenant)))
        /\ Quiet

\* The check awaits the promise; only its own refusal is recorded.
Check(r) ==
    LET q == req[r]
        answer == q.memo[q.tenant]
    IN  /\ q.stage = "check" /\ Settled(q, q.tenant)
        /\ \/ ~answer.ok /\ Go(r, Fail(q, answer.error))
           \/ /\ answer.ok /\ CheckHolds(GuardOf(q), answer.value)
              /\ Go(r, Enter(Read(q, q.tenant), q.at + 1))
           \/ /\ answer.ok /\ ~CheckHolds(GuardOf(q), answer.value)
              /\ Go(r, Deny(Read(q, q.tenant), "Forbidden", Denial(r, 0, "authorize", q.tenant)))
        /\ Quiet

-----------------------------------------------------------------------------
(* The handler's tasks. *)

Task(q, i) == RouteOf(q).tasks[i]
Set(q, i, st, e) == [q EXCEPT !.tasks[i] = [st |-> st, error |-> e]]

Waits(r, i, do) ==
    /\ i \in DOMAIN req[r].tasks
    /\ req[r].tasks[i].st = "wait" /\ Task(req[r], i).do = do

Begin(r, i) ==
    LET q == req[r]
        sent == Set(q, i, "wait", None)
    IN  /\ i \in DOMAIN q.tasks /\ q.tasks[i].st = "todo"
        /\ Go(r, IF Task(q, i).do = "has" THEN Ask(sent, Task(q, i).tenant) ELSE sent)
        /\ Quiet

Has(r, i) ==
    LET q == req[r]
        t == Task(q, i).tenant
    IN  /\ Waits(r, i, "has") /\ Settled(q, t)
        /\ Go(r, IF q.memo[t].ok THEN Set(Read(q, t), i, "done", None)
                 ELSE Set(q, i, "failed", q.memo[t].error))
        /\ Quiet

\* Fault: a refusal is filed under the tenant of the route.
AttemptAtRoute(q, i) == q.tenant

\* The tenant a denied row is filed under.
Attempt(q, i) == IF Task(q, i).fn \in NamesTenant THEN Task(q, i).tenant ELSE None

\* call(): the SQL guard decides; a refusal is recorded before it goes on.
Write(r, i) ==
    LET q == req[r]
        t == Task(q, i)
        refused == Replies({"P0001"})
        allowed == t.scope \in Held(world, q.ctx.principal, t.tenant)
    IN  /\ Waits(r, i, "write")
        /\ \E s \in Settlements(i) \cup refused :
              /\ s \in refused => ~allowed
              /\ s.ok => allowed
              /\ IF s \in refused THEN Quiet ELSE Spend(s)
              /\ Go(r, Mark(CASE s.ok -> Set(q, i, "done", None)
                              [] s.error = "AuthzDenied" /\ Denials -> Set(q, i, "record", s.error)
                              [] OTHER -> Set(q, i, "failed", s.error),
                            [ok |-> s.ok \/ s \in refused]))

RecordWriteDenial(r, i) ==
    LET q == req[r]
    IN  /\ i \in DOMAIN q.tasks /\ q.tasks[i].st = "record"
        /\ LogAudit(Denial(r, i, Task(q, i).fn, Attempt(q, i)))
        /\ Go(r, Set(q, i, "failed", q.tasks[i].error))

\* The handler awaits all tasks; the first to fail ends it, the others go on.
HandlerReturns(r) ==
    LET q == req[r]
    IN  /\ q.stage = "handler" /\ \A i \in DOMAIN q.tasks : q.tasks[i].st = "done"
        /\ Go(r, [q EXCEPT !.stage = "answered", !.answers = @ + 1, !.status = 200]) /\ Quiet

HandlerThrows(r) ==
    LET q == req[r]
    IN  /\ q.stage = "handler"
        /\ \E i \in DOMAIN q.tasks :
              q.tasks[i].st = "failed" /\ Go(r, [q EXCEPT !.stage = "failed", !.error = q.tasks[i].error])
        /\ Quiet

-----------------------------------------------------------------------------
(* The database changes: a grant, a revocation, a key or an account off.   *)

Grant(w, g) == [w EXCEPT !.grants = @ \cup {g}]
Revoke(w, g) == [w EXCEPT !.grants = @ \ {g}]
SwitchOff(w, c) ==
    [w EXCEPT !.owner[c] = None, !.grants = {g \in @ : g[1] # w.owner[c]}]

Change ==
    /\ changes < MaxChanges /\ changes' = changes + 1
    /\ \E g \in Principals \X Existing \X ScopeNames, c \in Keys \cup Accounts :
          world' \in {Grant(world, g), Revoke(world, g), SwitchOff(world, c)} \ {world}
    /\ views' = [r \in Requests |-> IF req[r].stage = "idle" THEN {} ELSE views[r] \cup {world'}]
    /\ UNCHANGED <<req, audit, reported, faults>>

-----------------------------------------------------------------------------
Init ==
    /\ world \in FirstWorlds
    /\ views = [r \in Requests |-> {}]
    /\ req = [r \in Requests |-> Idle]
    /\ audit = {} /\ reported = {}
    /\ faults = 0 /\ changes = 0

Step(r) ==
    \/ ResolveNobody(r) \/ ResolveApiKey(r) \/ ResolveBearer(r)
    \/ NotInstalled(r) \/ Unauthenticated(r) \/ Unmapped(r) \/ TooWeak(r)
    \/ PassIdentity(r) \/ ResolveTenant(r) \/ Check(r) \/ RecordDenial(r)
    \/ \E t \in Tenants : Query(r, t)
    \/ \E i \in DOMAIN req[r].tasks :
          Begin(r, i) \/ Has(r, i) \/ Write(r, i) \/ RecordWriteDenial(r, i)
    \/ HandlerReturns(r) \/ HandlerThrows(r) \/ Answer(r)

Next ==
    \/ \E r \in Requests : Arrive(r) \/ Step(r) \/ \E k \in 0 .. req[r].at : LateRejection(r, k)
    \/ Change

\* The server runs what can run, and every call settles.
Spec == Init /\ [][Next]_vars /\ \A r \in Requests : WF_vars(Step(r))

-----------------------------------------------------------------------------
(* Properties. *)

Stages == {"idle", "resolve", "guard", "check", "record", "handler", "failed", "answered"}
Errors == HttpErrors \cup AuthKitErrors \cup {"Error"}
Settlement == [ok : BOOLEAN, value : (SUBSET ScopeNames) \cup {None}, error : Errors \cup {None}]

\* Every part of the state has its type: what a request waits for, what it
\* has been answered, the rows of the log and the reports to onError.
TypeOK ==
    /\ world \in Worlds
    /\ \A r \in Requests :
          LET q == req[r]
          IN  /\ q.stage \in Stages /\ q.input \in Inputs[r] \cup {None}
              /\ q.ctx = None \/ q.ctx.principal \in Principals \cup {None}
              /\ q.tenant \in Tenants \cup {None} /\ q.error \in Errors \cup {None}
              /\ q.status \in {None, 200, 400, 401, 403, 500} /\ q.answers \in Nat
              /\ q.memo \in [Tenants -> Settlement \cup {None}] /\ q.asked \in [Tenants -> Nat]
              /\ \A i \in DOMAIN q.tasks : q.tasks[i].st \in {"todo", "wait", "record", "done", "failed"}
    /\ \A row \in audit : row.of \in Requests /\ row.actor \in Principals \cup {None}
    /\ \A n \in reported : n[1] \in Requests /\ n[2] \in Nat
    /\ faults \in 0 .. MaxFaults /\ changes \in 0 .. MaxChanges

Phase(q) ==
    CASE q.stage \in {"idle", "answered"} -> q.stage
      [] q.stage \notin {"idle", "answered"} /\ q.input # None /\ q.at > Len(RouteOf(q).guards) -> "admitted"
      [] OTHER -> "open"

Abstract ==
    INSTANCE Access WITH
        phase <- [r \in Requests |-> Phase(req[r])],
        input <- [r \in Requests |-> req[r].input],
        status <- [r \in Requests |-> req[r].status],
        broken <- {r \in Requests : req[r].broken}

\* The pipeline implements Access: a handler runs only for somebody entitled
\* since the request arrived, every refusal is true of a moment since then,
\* and a failure is never answered as a refusal nor the other way round.
ImplementsAccess == Abstract!Spec

\* However many guards and has() calls ask about a tenant, together or after
\* each other, they are told one set of scopes, that of one moment since the
\* request arrived, at the cost of one query (context.ts:46-48).
OneViewPerTenant ==
    \A r \in Requests :
        LET q == req[r]
        IN  /\ \A t \in Tenants : q.asked[t] <= 1
            /\ \A a, b \in q.told : a[1] = b[1] => a[2] = b[2]
            /\ \A a \in q.told : \E v \in views[r] : a[2] = Held(v, q.ctx.principal, a[1])

Logged(r, origin) ==
    <<r, origin>> \in reported \/ \E row \in audit : row.of = r /\ row.origin = origin

\* A refusal that reached the caller has reached the log, or onError: the
\* guards' (guard.ts:129-134) and those of the writes (writes.ts:148-179).
DenialsReachLog ==
    Denials =>
        \A r \in Requests :
            LET q == req[r]
            IN  /\ q.stage \in {"failed", "answered"} /\ q.error \in {"Forbidden", "MfaRequired"} => Logged(r, 0)
                /\ \A i \in DOMAIN q.tasks :
                      q.tasks[i].st = "failed" /\ q.tasks[i].error = "AuthzDenied" => Logged(r, i)

\* A denied row tells of a refusal that happened: of this request, of the
\* actor its credential named, for a scope that actor lacked at some moment
\* since the request arrived, under the tenant where it was asked for or
\* under none.  No row is written while denials are off.
RowsAreRefusals ==
    \A row \in audit :
        LET q == req[row.of]
            lacked(g, t) == \E v \in views[row.of] : ~Abstract!Authorized(g, Held(v, row.actor, t))
        IN  /\ Denials /\ q.ctx # None /\ row.actor = q.ctx.principal
            /\ row.request \in {None, row.of}
            /\ row.origin = 0 =>
                  /\ q.error \in {"Forbidden", "MfaRequired"}
                  /\ row.tenant # None => row.tenant = q.tenant /\ lacked(GuardOf(q), row.tenant)
            /\ row.origin > 0 =>
                  /\ q.tasks[row.origin].error = "AuthzDenied"
                  /\ lacked(RequireScope(Task(q, row.origin).scope, FALSE), Task(q, row.origin).tenant)
                  /\ row.tenant \in {None, Task(q, row.origin).tenant}

\* A request is answered at most once and nothing it does afterwards, a
\* handler's remaining calls or a middleware's late rejection, changes what
\* it was told (async.ts:18-19).
OneAnswer ==
    [][\A r \in Requests :
          /\ req'[r].answers <= 1
          /\ req[r].stage = "answered" => req'[r].stage = "answered" /\ req'[r].status = req[r].status]_vars

\* Whatever fails, every request that arrived is answered: a rejection always
\* reaches next (async.ts:4-10), and a lost audit row holds nobody up.
EveryRequestAnswered ==
    \A r \in Requests : req[r].stage # "idle" ~> req[r].stage = "answered"
=============================================================================
