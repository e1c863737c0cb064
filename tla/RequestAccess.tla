---------------------------- MODULE RequestAccess ----------------------------
(***************************************************************************)
(* Request implements Access, for any routes, any number of requests and   *)
(* any changes of the world: whoever gets past the guards was entitled to, *)
(* and every answer is the answer to something that happened.              *)
(***************************************************************************)
EXTENDS RequestProofs

-----------------------------------------------------------------------------
(* What a request remembers of why it is where it is *)

\* The context is that of the credential, at a moment since the request came.
Known(r, q) ==
    /\ q.stage = "resolve" => q.input.route.mounted
    /\ q.stage = "guard" /\ q.ctx = None => ~q.input.route.mounted
    /\ q.ctx # None =>
           /\ q.input.route.mounted
           /\ \E v \in views[r] : Abstract!Caller(q.input, v) = q.ctx.principal
           /\ q.ctx.presented <=> Abstract!Presented(q.input)
           /\ q.ctx.principal # None =>
                  /\ q.ctx.kind = "api_key" <=> Abstract!Key(q.input) # None
                  /\ Abstract!Key(q.input) = None =>
                         (q.ctx.aal = "aal2" <=> Abstract!Token(q.input).aal = "aal2")

\* The caller of q met guard g.
Met(r, q, g) ==
    /\ q.ctx # None /\ q.ctx.principal # None
    /\ Abstract!StrongEnough(g, q.input)
    /\ g.check # "none" => q.input.tenant \in Tenants
    /\ \E v \in views[r] : Abstract!Authorized(g, Held(v, q.ctx.principal, q.input.tenant))

Passed(r, q) ==
    /\ \A j \in DOMAIN RouteOf(q).guards : j < q.at => Met(r, q, RouteOf(q).guards[j])
    /\ q.stage = "check" => q.tenant = q.input.tenant /\ Abstract!StrongEnough(GuardOf(q), q.input)

\* Who is told of a failure had one.
Blamed(q) ==
    /\ \A t \in Tenants : Settled(q, t) /\ ~q.memo[t].ok => q.broken
    /\ \A i \in DOMAIN q.tasks : q.tasks[i].st \in {"record", "failed"} =>
           IF q.tasks[i].error = "AuthzDenied" THEN Task(q, i).do = "write" ELSE q.broken

\* The caller did not meet the guard that q stands at.
Unmet(r, q) ==
    /\ q.ctx # None
    /\ \/ q.ctx.principal = None
       \/ ~Abstract!StrongEnough(GuardOf(q), q.input)
       \/ /\ q.input.tenant \in Tenants
          /\ Lacked(r, GuardOf(q), q.ctx.principal, q.input.tenant)

\* A guard's reason for e.
GuardSays(r, q, e) ==
    /\ q.at \in DOMAIN RouteOf(q).guards
    /\ \/ e = "MiddlewareNotInstalled" /\ ~q.input.route.mounted
       \/ e = "Unauthenticated" /\ ~Abstract!Presented(q.input)
       \/ e \in Refusals /\ Abstract!Presented(q.input) /\ Unmet(r, q)
       \/ /\ e = "TenantRequired" /\ q.input.tenant \notin Tenants
          /\ q.ctx # None /\ q.ctx.principal # None /\ GuardOf(q).check # "none"

\* The database's refusal of a write.
WriteSays(r, q, e) ==
    /\ e = "AuthzDenied" /\ q.at > Len(RouteOf(q).guards) /\ q.ctx # None
    /\ \E i \in DOMAIN RouteOf(q).tasks :
           Task(q, i).do = "write" /\ Lacked(r, Demand(q, i), q.ctx.principal, Task(q, i).tenant)

Explained(r, q) ==
    q.stage \in {"record", "failed"} =>
        \/ q.error \in Failures /\ q.broken
        \/ GuardSays(r, q, q.error)
        \/ WriteSays(r, q, q.error)

Served(r, q) == Known(r, q) /\ Passed(r, q) /\ Blamed(q) /\ Explained(r, q)

AccessOK == \A r \in Requests : req[r].stage # "idle" => Served(r, req[r])

-----------------------------------------------------------------------------
(* What a step of Request is to Access *)

\* Nothing that Access speaks of, but that a call failed.
Stays(q, n) ==
    /\ n.input = q.input /\ n.status = q.status /\ Phase(n) = Phase(q) /\ (q.broken => n.broken)

Admitted(r, q, n) ==
    /\ n.input = q.input /\ n.status = q.status /\ n.broken = q.broken
    /\ Phase(q) = "open" /\ Phase(n) = "admitted" /\ n.ctx # None /\ Known(r, n)
    /\ \A j \in DOMAIN RouteOf(n).guards : Met(r, n, RouteOf(n).guards[j])

\* The status that an error is answered with.
StatusFor(q) == IF RouteOf(q).errorHandler THEN ErrorHandler(q.error) ELSE FrameworkStatus(q.error)

Ends(r, q, n) ==
    /\ n.input = q.input /\ n.broken = q.broken /\ Phase(n) = "answered"
    /\ \/ q.stage = "handler" /\ n.status = 200
       \/ q.stage = "failed" /\ n.status = StatusFor(q)

Maps(r, q, n) == Stays(q, n) \/ Admitted(r, q, n) \/ Ends(r, q, n)

LEMMA Updated ==
    ASSUME NEW S, NEW r \in S, NEW x, NEW f, NEW g, f = [o \in S |-> f[o]], g = [o \in S |-> g[o]],
           g[r] = x, \A o \in S : o # r => g[o] = f[o]
    PROVE  g = [f EXCEPT ![r] = x]
<1>1. PICK h : h = [f EXCEPT ![r] = x]
  OBVIOUS
<1>2. h = [o \in S |-> IF o = r THEN x ELSE f[o]]
  BY <1>1
<1>3. \A o \in S : g[o] = h[o]
  BY <1>2
<1>4. h = [o \in S |-> h[o]]
  BY <1>2
<1> QED BY <1>1, <1>3, <1>4

\* The variables of Access, after request r has gone on as n.
LEMMA MappedGo ==
    ASSUME RequestOK, NEW r \in Requests, NEW n, req' = [req EXCEPT ![r] = n]
    PROVE  /\ [o \in Requests |-> Phase(req[o])]' =
                  [[o \in Requests |-> Phase(req[o])] EXCEPT ![r] = Phase(n)]
           /\ [o \in Requests |-> req[o].input]' =
                  [[o \in Requests |-> req[o].input] EXCEPT ![r] = n.input]
           /\ [o \in Requests |-> req[o].status]' =
                  [[o \in Requests |-> req[o].status] EXCEPT ![r] = n.status]
           /\ {o \in Requests : req[o].broken}' =
                  IF n.broken THEN {o \in Requests : req[o].broken} \cup {r}
                  ELSE {o \in Requests : req[o].broken} \ {r}
<1>1. /\ req'[r] = n
      /\ \A o \in Requests : o # r => req'[o] = req[o]
  BY DEF RequestOK
<1>2. [o \in Requests |-> Phase(req'[o])] =
          [[o \in Requests |-> Phase(req[o])] EXCEPT ![r] = Phase(n)]
  <2>1. PICK f, g : /\ f = [o \in Requests |-> Phase(req[o])]
                    /\ g = [o \in Requests |-> Phase(req'[o])]
    OBVIOUS
  <2>2. /\ f = [o \in Requests |-> f[o]] /\ g = [o \in Requests |-> g[o]]
        /\ g[r] = Phase(n) /\ \A o \in Requests : o # r => g[o] = f[o]
    BY <1>1, <2>1
  <2> QED BY <2>1, <2>2, Updated
<1>3. [o \in Requests |-> req'[o].input] =
          [[o \in Requests |-> req[o].input] EXCEPT ![r] = n.input]
  <2>1. PICK f, g : /\ f = [o \in Requests |-> req[o].input]
                    /\ g = [o \in Requests |-> req'[o].input]
    OBVIOUS
  <2>2. /\ f = [o \in Requests |-> f[o]] /\ g = [o \in Requests |-> g[o]]
        /\ g[r] = n.input /\ \A o \in Requests : o # r => g[o] = f[o]
    BY <1>1, <2>1
  <2> QED BY <2>1, <2>2, Updated
<1>4. [o \in Requests |-> req'[o].status] =
          [[o \in Requests |-> req[o].status] EXCEPT ![r] = n.status]
  <2>1. PICK f, g : /\ f = [o \in Requests |-> req[o].status]
                    /\ g = [o \in Requests |-> req'[o].status]
    OBVIOUS
  <2>2. /\ f = [o \in Requests |-> f[o]] /\ g = [o \in Requests |-> g[o]]
        /\ g[r] = n.status /\ \A o \in Requests : o # r => g[o] = f[o]
    BY <1>1, <2>1
  <2> QED BY <2>1, <2>2, Updated
<1>5. {o \in Requests : req'[o].broken} =
          IF n.broken THEN {o \in Requests : req[o].broken} \cup {r}
          ELSE {o \in Requests : req[o].broken} \ {r}
  BY <1>1
<1> QED BY <1>2, <1>3, <1>4, <1>5

LEMMA PhaseIs ==
    ASSUME NEW q
    PROVE  /\ q.stage \in {"idle", "answered"} => Phase(q) = q.stage
           /\ q.stage \notin {"idle", "answered"} =>
                  Phase(q) = IF q.input # None /\ q.at > Len(RouteOf(q).guards)
                             THEN "admitted" ELSE "open"
<1>1. ASSUME q.stage \in {"idle", "answered"} PROVE Phase(q) = q.stage
  BY <1>1, Zenon DEF Phase
<1>2. ASSUME q.stage \notin {"idle", "answered"}, q.input # None /\ q.at > Len(RouteOf(q).guards)
      PROVE  Phase(q) = "admitted"
  BY <1>2, Zenon DEF Phase
<1>3. ASSUME q.stage \notin {"idle", "answered"}, ~(q.input # None /\ q.at > Len(RouteOf(q).guards))
      PROVE  Phase(q) = "open"
  BY <1>3, Zenon DEF Phase
<1> QED BY <1>1, <1>2, <1>3

\* What Access sees of a step: the old state, by name, and the new one.
Viewed(phase, input, status, broken) ==
    /\ phase = [o \in Requests |-> Phase(req[o])] /\ input = [o \in Requests |-> req[o].input]
    /\ status = [o \in Requests |-> req[o].status] /\ broken = {o \in Requests : req[o].broken}

Viewing(r, n, phase, input, status, broken) ==
    /\ Viewed(phase, input, status, broken)
    /\ [o \in Requests |-> Phase(req[o])]' = [phase EXCEPT ![r] = Phase(n)]
    /\ [o \in Requests |-> req[o].input]' = [input EXCEPT ![r] = n.input]
    /\ [o \in Requests |-> req[o].status]' = [status EXCEPT ![r] = n.status]
    /\ {o \in Requests : req[o].broken}' = IF n.broken THEN broken \cup {r} ELSE broken \ {r}
    /\ phase[r] = Phase(req[r]) /\ input[r] = req[r].input /\ status[r] = req[r].status
    /\ r \in broken <=> req[r].broken
    /\ phase[r] = Phase(n) => [phase EXCEPT ![r] = Phase(n)] = phase
    /\ input[r] = n.input => [input EXCEPT ![r] = n.input] = input
    /\ status[r] = n.status => [status EXCEPT ![r] = n.status] = status

LEMMA Views ==
    ASSUME RequestOK, NEW r \in Requests, NEW n, req' = [req EXCEPT ![r] = n],
           NEW phase, NEW input, NEW status, NEW broken, Viewed(phase, input, status, broken)
    PROVE  Viewing(r, n, phase, input, status, broken)
<1>1. /\ phase = [o \in Requests |-> phase[o]] /\ input = [o \in Requests |-> input[o]]
      /\ status = [o \in Requests |-> status[o]]
      /\ phase[r] = Phase(req[r]) /\ input[r] = req[r].input /\ status[r] = req[r].status
      /\ r \in broken <=> req[r].broken
  BY DEF Viewed
<1>2. /\ phase[r] = Phase(n) => [phase EXCEPT ![r] = Phase(n)] = phase
      /\ input[r] = n.input => [input EXCEPT ![r] = n.input] = input
      /\ status[r] = n.status => [status EXCEPT ![r] = n.status] = status
  BY <1>1, Updated
<1>3. /\ [o \in Requests |-> Phase(req[o])]' = [phase EXCEPT ![r] = Phase(n)]
      /\ [o \in Requests |-> req[o].input]' = [input EXCEPT ![r] = n.input]
      /\ [o \in Requests |-> req[o].status]' = [status EXCEPT ![r] = n.status]
      /\ {o \in Requests : req[o].broken}' = IF n.broken THEN broken \cup {r} ELSE broken \ {r}
  BY MappedGo DEF Viewed
<1> QED BY <1>1, <1>2, <1>3 DEF Viewing

\* A step that Access does not see, or sees a call fail in.
LEMMA MapsStays ==
    ASSUME RequestOK, NEW r \in Requests, NEW n \in State, Go(r, n), req[r].stage # "idle",
           Stays(req[r], n)
    PROVE  [Abstract!Next]_(Abstract!vars)
<1>1. PICK phase, input, status, broken : Viewed(phase, input, status, broken)
  BY Zenon DEF Viewed
<1>2. Viewing(r, n, phase, input, status, broken) /\ UNCHANGED <<world, views>>
  BY <1>1, Views DEF Go
<1>3. /\ [o \in Requests |-> Phase(req[o])]' = phase
      /\ [o \in Requests |-> req[o].input]' = input
      /\ [o \in Requests |-> req[o].status]' = status
  BY <1>2 DEF Viewing, Stays
<1>4. CASE n.broken
  <2>1. {o \in Requests : req[o].broken}' = broken \cup {r}
    BY <1>2, <1>4 DEF Viewing
  <2>2. phase[r] # "idle"
    BY <1>2, PhaseIs DEF Viewing
  <2>3. Abstract!Break(r)
    BY <1>1, <1>2, <1>3, <2>1, <2>2 DEF Abstract!Break, Viewed
  <2> QED BY <2>3 DEF Abstract!Next
<1>5. CASE ~n.broken
  <2>1. {o \in Requests : req[o].broken}' = broken
    BY <1>2, <1>5 DEF Viewing, Stays
  <2> QED BY <1>1, <1>2, <1>3, <2>1 DEF Abstract!vars, Viewed
<1> QED BY <1>4, <1>5

\* Access and Request speak of the same world.
LEMMA SameHeld == \A w, p, t : Abstract!Held(w, p, t) = Held(w, p, t)
BY DEF Abstract!Held, Held

LEMMA MapsAdmitted ==
    ASSUME RequestOK, NEW r \in Requests, NEW n \in State, Go(r, n), Admitted(r, req[r], n)
    PROVE  Abstract!Next
<1>1. PICK phase, input, status, broken : Viewed(phase, input, status, broken)
  BY Zenon DEF Viewed
<1>2. Viewing(r, n, phase, input, status, broken) /\ UNCHANGED <<world, views>>
  BY <1>1, Views DEF Go
<1>3. /\ [o \in Requests |-> Phase(req[o])]' = [phase EXCEPT ![r] = "admitted"]
      /\ [o \in Requests |-> req[o].input]' = input
      /\ [o \in Requests |-> req[o].status]' = status
      /\ {o \in Requests : req[o].broken}' = broken
      /\ phase[r] = "open" /\ input[r] = n.input
  BY <1>2 DEF Viewing, Admitted
<1>4. PICK p : p = n.ctx.principal
  OBVIOUS
<1>5. p \in Abstract!Somebody
  BY <1>4, StateFields DEF Admitted, Fields, Contexts, Abstract!Somebody
<1>6. /\ n.input.route.mounted
      /\ \E v \in views[r] : Abstract!Caller(input[r], v) = p
  BY <1>3, <1>4 DEF Admitted, Known
<1>7. Abstract!MayBe(r, p)
  BY <1>1, <1>6 DEF Abstract!MayBe, Viewed
<1>8. ASSUME NEW g \in Abstract!Guards(input[r])
      PROVE  /\ p # None /\ Abstract!StrongEnough(g, input[r])
             /\ g.check # "none" => input[r].tenant \in Tenants
             /\ \E v \in views[r] : Abstract!Authorized(g, Held(v, p, input[r].tenant))
  <2>1. PICK j \in DOMAIN RouteOf(n).guards : g = RouteOf(n).guards[j]
    BY <1>3 DEF Abstract!Guards, RouteOf
  <2>2. Met(r, n, g)
    BY <2>1 DEF Admitted
  <2> QED BY <1>3, <1>4, <2>2 DEF Met
<1>9. Abstract!Entitled(r, p)
  BY <1>1, <1>8, SameHeld DEF Abstract!Entitled, Viewed
<1>10. Abstract!Admit(r)
  BY <1>1, <1>2, <1>3, <1>5, <1>6, <1>7, <1>9 DEF Abstract!Admit, Viewed
<1> QED BY <1>10 DEF Abstract!Next

LEMMA MapsAnswer ==
    ASSUME RequestOK, NEW r \in Requests, NEW n \in State, Go(r, n),
           n.input = req[r].input, n.broken = req[r].broken, Phase(n) = "answered"
    PROVE  Abstract!Answer(r, n.status)
<1>1. PICK phase, input, status, broken : Viewed(phase, input, status, broken)
  BY Zenon DEF Viewed
<1>2. Viewing(r, n, phase, input, status, broken) /\ UNCHANGED <<world, views>>
  BY <1>1, Views DEF Go
<1>3. /\ [o \in Requests |-> Phase(req[o])]' = [phase EXCEPT ![r] = "answered"]
      /\ [o \in Requests |-> req[o].input]' = input
      /\ [o \in Requests |-> req[o].status]' = [status EXCEPT ![r] = n.status]
      /\ {o \in Requests : req[o].broken}' = broken
  BY <1>2 DEF Viewing
<1> QED BY <1>1, <1>2, <1>3 DEF Abstract!Answer, Viewed

\* What is answered, with and without the kit's error handler.
LEMMA StatusCases ==
    ASSUME NEW q
    PROVE  /\ q.error \in Failures => StatusFor(q) = 500
           /\ q.error \in Refusals => StatusFor(q) = 403
           /\ q.error = "Unauthenticated" => StatusFor(q) = 401
           /\ q.error = "TenantRequired" => StatusFor(q) = 400
           /\ q.error = "MiddlewareNotInstalled" => StatusFor(q) = 500
           /\ q.error = "AuthzDenied" =>
                  StatusFor(q) = IF RouteOf(q).errorHandler THEN 403 ELSE 500
<1>1. PICK e : e = q.error
  OBVIOUS
<1>2. /\ e \in Failures => StatusOf(e) \in {500, None} /\ FrameworkStatus(e) = 500
      /\ e \in Refusals => StatusOf(e) = 403 /\ FrameworkStatus(e) = 403
      /\ e = "Unauthenticated" => StatusOf(e) = 401 /\ FrameworkStatus(e) = 401
      /\ e = "TenantRequired" => StatusOf(e) = 400 /\ FrameworkStatus(e) = 400
      /\ e = "MiddlewareNotInstalled" => StatusOf(e) = 500 /\ FrameworkStatus(e) = 500
      /\ e = "AuthzDenied" => StatusOf(e) = 403 /\ FrameworkStatus(e) = 500
  BY DEF StatusOf, FrameworkStatus, HttpStatus, HttpErrors, AuthKitErrors, Failures, Refusals
<1>3. ErrorHandler(e) = IF StatusOf(e) = None THEN FrameworkStatus(e) ELSE StatusOf(e)
  BY DEF ErrorHandler
<1>4. /\ e \in Failures => ErrorHandler(e) = 500
      /\ e \in Refusals => ErrorHandler(e) = 403
      /\ e = "Unauthenticated" => ErrorHandler(e) = 401
      /\ e = "TenantRequired" => ErrorHandler(e) = 400
      /\ e = "MiddlewareNotInstalled" => ErrorHandler(e) = 500
      /\ e = "AuthzDenied" => ErrorHandler(e) = 403
  BY <1>2, <1>3, NullIsNoStatus
<1>5. StatusFor(q) = IF RouteOf(q).errorHandler THEN ErrorHandler(e) ELSE FrameworkStatus(e)
  BY <1>1 DEF StatusFor
<1>6. CASE RouteOf(q).errorHandler
  <2>1. StatusFor(q) = ErrorHandler(e)
    BY <1>5, <1>6
  <2> QED BY <1>1, <1>4, <1>6, <2>1
<1>7. CASE ~RouteOf(q).errorHandler
  <2>1. StatusFor(q) = FrameworkStatus(e)
    BY <1>5, <1>7
  <2> QED BY <1>1, <1>2, <1>7, <2>1
<1> QED BY <1>6, <1>7

LEMMA PhaseAt ==
    ASSUME NEW r \in Requests, NEW q, q.input \in Inputs[r], q.stage \notin {"idle", "answered"}
    PROVE  /\ q.at \in DOMAIN RouteOf(q).guards => Phase(q) = "open"
           /\ q.at > Len(RouteOf(q).guards) => Phase(q) = "admitted"
<1>1. q.input # None /\ RouteOf(q).guards \in Seq(GuardsMade)
  BY Made DEF RouteOf
<1>2. q.at \in DOMAIN RouteOf(q).guards => ~(q.at > Len(RouteOf(q).guards))
  BY <1>1
<1> QED BY <1>1, <1>2, PhaseIs

\* What the abstract state says of request r.
LEMMA Looks ==
    ASSUME NEW r \in Requests, NEW phase, NEW input, NEW status, NEW broken,
           Viewed(phase, input, status, broken)
    PROVE  /\ phase[r] = Phase(req[r]) /\ input[r] = req[r].input
           /\ r \in broken <=> req[r].broken
BY DEF Viewed

LEMMA PresentedIs ==
    ASSUME NEW in, NEW v, Abstract!Caller(in, v) # None PROVE Abstract!Presented(in)
BY DEF Abstract!Caller, Abstract!Presented

\* A guard's answer is what the guard found.
LEMMA MapsRefusal ==
    ASSUME RequestOK, NEW r \in Requests, NEW n \in State, Go(r, n), Ends(r, req[r], n),
           req[r].stage = "failed", Served(r, req[r]), GuardSays(r, req[r], req[r].error)
    PROVE  Abstract!Refuse(r)
<1>1. PICK q, e : q = req[r] /\ e = q.error
  OBVIOUS
<1>2. PICK phase, input, status, broken : Viewed(phase, input, status, broken)
  BY Zenon DEF Viewed
<1>3. q.input \in Inputs[r] /\ q.at \in DOMAIN RouteOf(q).guards /\ q.ctx \in Contexts \cup {None}
  BY <1>1, Here DEF GuardSays, Fields
<1>4. phase[r] = "open" /\ input[r] = q.input
  BY <1>1, <1>2, <1>3, Looks, PhaseAt
<1>5. Abstract!Answer(r, StatusFor(q))
  BY <1>1, MapsAnswer DEF Ends
<1>6. PICK g : g = GuardOf(q)
  OBVIOUS
<1>7. g \in Abstract!Guards(q.input)
  BY <1>3, <1>6 DEF Abstract!Guards, GuardOf, RouteOf
<1>8. PICK p : q.ctx # None => p = q.ctx.principal
  OBVIOUS
<1>9. ASSUME q.ctx # None PROVE p \in Abstract!Somebody /\ Abstract!MayBe(r, p)
  <2>1. p \in Abstract!Somebody
    BY <1>3, <1>8, <1>9 DEF Contexts, Abstract!Somebody
  <2>2. \E v \in views[r] : Abstract!Caller(q.input, v) = p
    BY <1>1, <1>8, <1>9 DEF Served, Known
  <2> QED BY <1>2, <1>4, <2>1, <2>2 DEF Abstract!MayBe, Viewed
<1>10. /\ e \in Refusals => StatusFor(q) = 403
       /\ e = "Unauthenticated" => StatusFor(q) = 401
       /\ e = "TenantRequired" => StatusFor(q) = 400
       /\ e = "MiddlewareNotInstalled" => StatusFor(q) = 500
  <2>1. /\ q.error \in Refusals => StatusFor(q) = 403
        /\ q.error = "Unauthenticated" => StatusFor(q) = 401
        /\ q.error = "TenantRequired" => StatusFor(q) = 400
        /\ q.error = "MiddlewareNotInstalled" => StatusFor(q) = 500
    BY StatusCases
  <2> QED BY <1>1, <2>1
<1>11. CASE e = "MiddlewareNotInstalled" /\ ~q.input.route.mounted
  <2>1. Abstract!Answer(r, 500)
    BY <1>5, <1>11, <1>10
  <2> QED BY <1>2, <1>4, <1>11, <2>1 DEF Abstract!Refuse, Viewed
<1>12. CASE e = "Unauthenticated" /\ ~Abstract!Presented(q.input)
  <2>1. Abstract!Answer(r, 401)
    BY <1>5, <1>12, <1>10
  <2> QED BY <1>2, <1>4, <1>7, <1>12, <2>1 DEF Abstract!Refuse, Viewed
<1>13. CASE e \in Refusals /\ Abstract!Presented(q.input) /\ Unmet(r, q)
  <2>1. q.ctx # None
    BY <1>13 DEF Unmet
  <2>2. \/ p = None
        \/ ~Abstract!StrongEnough(g, q.input)
        \/ /\ q.input.tenant \in Tenants
           /\ \E v \in views[r] : ~Abstract!Authorized(g, Held(v, p, q.input.tenant))
    BY <1>6, <1>8, <1>13, <2>1 DEF Unmet, Lacked
  <2>3. Abstract!Refusable(r, p)
    BY <1>2, <1>4, <1>7, <2>2, SameHeld DEF Abstract!Refusable, Viewed
  <2>4. StatusFor(q) = 403
    BY <1>13, <1>10
  <2> QED BY <1>2, <1>4, <1>5, <1>9, <1>13, <2>1, <2>3, <2>4 DEF Abstract!Refuse, Viewed
<1>14. CASE /\ e = "TenantRequired" /\ q.input.tenant \notin Tenants
            /\ q.ctx # None /\ q.ctx.principal # None /\ g.check # "none"
  <2>1. p \in Principals /\ Abstract!MayBe(r, p)
    BY <1>8, <1>9, <1>14 DEF Abstract!Somebody
  <2>2. StatusFor(q) = 400
    BY <1>14, <1>10
  <2> QED BY <1>2, <1>4, <1>5, <1>7, <1>14, <2>1, <2>2 DEF Abstract!Refuse, Viewed
<1> QED BY <1>1, <1>6, <1>11, <1>12, <1>13, <1>14 DEF GuardSays

\* The database's refusal of a write, as the handler passes it on.
LEMMA MapsWrite ==
    ASSUME RequestOK, NEW r \in Requests, NEW n \in State, Go(r, n), Ends(r, req[r], n),
           req[r].stage = "failed", Served(r, req[r]), WriteSays(r, req[r], req[r].error)
    PROVE  Abstract!Reply(r)
<1>1. PICK q : q = req[r]
  OBVIOUS
<1>2. PICK phase, input, status, broken : Viewed(phase, input, status, broken)
  BY Zenon DEF Viewed
<1>3. /\ q.input \in Inputs[r] /\ q.at > Len(RouteOf(q).guards) /\ q.error = "AuthzDenied"
      /\ q.ctx # None /\ q.ctx \in Contexts
  BY <1>1, Here DEF WriteSays, Fields
<1>4. phase[r] = "admitted" /\ input[r] = q.input
  BY <1>1, <1>2, <1>3, Looks, PhaseAt
<1>5. PICK i \in DOMAIN RouteOf(q).tasks :
          Task(q, i).do = "write" /\ Lacked(r, Demand(q, i), q.ctx.principal, Task(q, i).tenant)
  BY <1>1 DEF WriteSays
<1>6. Task(q, i) \in Abstract!Writes(q.input)
  BY <1>5 DEF Abstract!Writes, Task, RouteOf
<1>7. PICK p, t : p = q.ctx.principal /\ t = Task(q, i)
  OBVIOUS
<1>8. \E v \in views[r] : t.scope \notin Held(v, p, t.tenant)
  <2>1. PICK v \in views[r] : ~Abstract!Authorized(Demand(q, i), Held(v, p, t.tenant))
    BY <1>5, <1>7 DEF Lacked
  <2>2. Demand(q, i).check = "all" /\ Demand(q, i).scopes = {t.scope}
    BY <1>7 DEF Demand, RequireScope, Guard
  <2> QED BY <2>1, <2>2 DEF Abstract!Authorized
<1>9. p \in Principals
  <2>1. RouteOf(q).guards \in Seq(GuardsMade) /\ RouteOf(q).guards # << >>
    BY <1>3, <1>5, Made DEF Task, RouteOf
  <2>2. 1 \in DOMAIN RouteOf(q).guards /\ 1 <= Len(RouteOf(q).guards)
    BY <2>1
  <2>3. q.at \in Nat /\ Len(RouteOf(q).guards) \in Nat
    BY <1>1, <2>1, Here DEF Fields
  <2>4. Met(r, q, RouteOf(q).guards[1])
    BY <1>1, <1>3, <2>2, <2>3 DEF Served, Passed
  <2> QED BY <1>3, <1>7, <2>4 DEF Met, Contexts
<1>10. Abstract!MayBe(r, p)
  <2>1. \E v \in views[r] : Abstract!Caller(q.input, v) = p
    BY <1>1, <1>3, <1>7 DEF Served, Known
  <2> QED BY <1>2, <1>4, <2>1 DEF Abstract!MayBe, Viewed
<1>11. Abstract!Forbidden(r)
  BY <1>2, <1>4, <1>6, <1>7, <1>8, <1>9, <1>10, SameHeld DEF Abstract!Forbidden, Viewed
<1>12. Abstract!Answer(r, IF q.input.route.errorHandler THEN 403 ELSE 500)
  <2>1. StatusFor(q) = IF q.input.route.errorHandler THEN 403 ELSE 500
    BY <1>3, StatusCases DEF RouteOf
  <2>2. Abstract!Answer(r, StatusFor(q))
    BY <1>1, MapsAnswer DEF Ends
  <2> QED BY <2>1, <2>2
<1>13. PICK s : s = IF [o \in Requests |-> req[o].input][r].route.errorHandler THEN 403 ELSE 500
  OBVIOUS
<1>14. s = IF q.input.route.errorHandler THEN 403 ELSE 500
  <2>1. [o \in Requests |-> req[o].input][r] = q.input
    BY <1>2, <1>4 DEF Viewed
  <2> QED BY <1>13, <2>1
<1>15. Abstract!Answer(r, s) /\ [o \in Requests |-> Phase(req[o])][r] = "admitted"
  BY <1>2, <1>4, <1>12, <1>14 DEF Viewed
<1> QED BY <1>11, <1>13, <1>15 DEF Abstract!Reply, Abstract!Answer

\* A request that has ended well, or with a failure.
LEMMA MapsEnds ==
    ASSUME RequestOK, NEW r \in Requests, NEW n \in State, Go(r, n), Ends(r, req[r], n),
           Served(r, req[r])
    PROVE  Abstract!Next
<1>1. PICK q : q = req[r]
  OBVIOUS
<1>2. PICK phase, input, status, broken : Viewed(phase, input, status, broken)
  BY Zenon DEF Viewed
<1>3. Abstract!Answer(r, n.status)
  BY MapsAnswer DEF Ends
<1>4. q.stage \in {"handler", "failed"}
  BY <1>1 DEF Ends
<1>5. /\ phase[r] = Phase(q) /\ (r \in broken <=> q.broken) /\ q.input \in Inputs[r]
      /\ Sound(r, q) /\ Fields(q)
  BY <1>1, <1>2, <1>4, Looks, Here
<1>6. CASE q.stage = "handler"
  <2>1. RouteOf(q).guards \in Seq(GuardsMade)
    BY <1>5, Made DEF RouteOf
  <2>2. q.at > Len(RouteOf(q).guards)
    BY <1>5, <1>6, <2>1 DEF Sound, Placed
  <2>3. phase[r] = "admitted" /\ Abstract!Answer(r, 200)
    BY <1>1, <1>3, <1>5, <1>6, <2>2, PhaseAt DEF Ends
  <2>4. Abstract!Reply(r)
    BY <1>2, <2>3 DEF Abstract!Reply, Viewed
  <2> QED BY <2>4 DEF Abstract!Next
<1>7. CASE q.stage = "failed" /\ GuardSays(r, q, q.error)
  BY <1>1, <1>7, MapsRefusal DEF Abstract!Next
<1>8. CASE q.stage = "failed" /\ WriteSays(r, q, q.error)
  BY <1>1, <1>8, MapsWrite DEF Abstract!Next
<1>9. CASE q.stage = "failed" /\ q.error \in Failures /\ q.broken
  <2>1. Abstract!Answer(r, 500) /\ r \in broken
    BY <1>1, <1>3, <1>5, <1>9, StatusCases DEF Ends
  <2>2. phase[r] \in {"open", "admitted"}
    BY <1>5, <1>9, PhaseIs
  <2>3. CASE phase[r] = "open"
    <3>1. Abstract!Refuse(r)
      BY <1>2, <2>1, <2>3 DEF Abstract!Refuse, Viewed
    <3> QED BY <3>1 DEF Abstract!Next
  <2>4. CASE phase[r] = "admitted"
    <3>1. Abstract!Reply(r)
      BY <1>2, <2>1, <2>4 DEF Abstract!Reply, Viewed
    <3> QED BY <3>1 DEF Abstract!Next
  <2> QED BY <2>2, <2>3, <2>4
<1> QED BY <1>1, <1>4, <1>6, <1>7, <1>8, <1>9 DEF Served, Explained

-----------------------------------------------------------------------------
(* From one request to all *)

\* What was the case at a moment a request has seen stays so.
LEMMA ServedKept ==
    ASSUME NEW r \in Requests, NEW q, Served(r, q), views[r] \subseteq views'[r]
    PROVE  Served(r, q)'
<1>1. Known(r, q)'
  BY DEF Served, Known
<1>2. Passed(r, q)' /\ Blamed(q)'
  BY DEF Served, Passed, Met, Blamed
<1>3. Explained(r, q)'
  BY DEF Served, Explained, GuardSays, WriteSays, Unmet, Lacked
<1> QED BY <1>1, <1>2, <1>3 DEF Served

\* What a step leaves alone stays as it was served.
LEMMA ServedBeside ==
    ASSUME AccessOK, NEW o \in Requests, req'[o] = req[o], req'[o].stage # "idle",
           views[o] \subseteq views'[o]
    PROVE  Served(o, req[o])'
<1>1. PICK q : q = req'[o]
  OBVIOUS
<1>2. Served(o, q)
  BY <1>1 DEF AccessOK
<1>3. Served(o, q)'
  BY <1>2, ServedKept
<1> QED BY <1>1, <1>3

\* Request r goes on as n, which Access allows.
Follows(r, n) == Go(r, n) /\ n \in State /\ Served(r, n) /\ Maps(r, req[r], n)

Follow(r) == AccessOK' /\ [Abstract!Next]_(Abstract!vars)

LEMMA Following ==
    ASSUME RequestOK, AccessOK, NEW r \in Requests, req[r].stage # "idle", NEW n, Follows(r, n)
    PROVE  Follow(r)
<1>1. Go(r, n) /\ n \in State /\ Served(r, n) /\ Served(r, req[r])
  BY DEF Follows, AccessOK
<1>2. /\ req'[r] = n /\ views' = views
      /\ \A o \in Requests : o # r => req'[o] = req[o]
  BY <1>1 DEF Go, RequestOK
<1>3. ASSUME NEW o \in Requests, req'[o].stage # "idle" PROVE Served(o, req[o])'
  <2>1. PICK q : q = req'[o]
    OBVIOUS
  <2>2. Served(o, q)
    BY <1>1, <1>2, <1>3, <2>1 DEF AccessOK
  <2>3. Served(o, q)'
    BY <1>2, <2>2, ServedKept
  <2> QED BY <2>1, <2>3
<1>4. [Abstract!Next]_(Abstract!vars)
  <2>1. CASE Stays(req[r], n)
    BY <1>1, <2>1, MapsStays
  <2>2. CASE Admitted(r, req[r], n)
    BY <1>1, <2>2, MapsAdmitted
  <2>3. CASE Ends(r, req[r], n)
    BY <1>1, <2>3, MapsEnds
  <2> QED BY <2>1, <2>2, <2>3 DEF Follows, Maps
<1> QED BY <1>3, <1>4 DEF Follow, AccessOK

-----------------------------------------------------------------------------
(* Steps that change little *)

\* n is where q was, or has come to an end there.
Alike(q, n) ==
    /\ n.input = q.input /\ n.ctx = q.ctx /\ n.at = q.at /\ n.tenant = q.tenant
    /\ n.stage = q.stage \/ n.stage \in {"record", "failed", "answered"}

LEMMA AlikeKnown ==
    ASSUME NEW r \in Requests, NEW q, NEW n, Alike(q, n), Known(r, q), Passed(r, q)
    PROVE  Known(r, n) /\ Passed(r, n)
<1>1. Known(r, n)
  BY DEF Alike, Known
<1>2. RouteOf(n) = RouteOf(q) /\ GuardOf(n) = GuardOf(q)
  BY DEF Alike, RouteOf, GuardOf
<1>3. \A g : Met(r, q, g) => Met(r, n, g)
  BY DEF Alike, Met
<1>4. Passed(r, n)
  BY <1>2, <1>3 DEF Alike, Passed
<1> QED BY <1>1, <1>4

LEMMA AlikeSays ==
    ASSUME NEW r \in Requests, NEW q, NEW n, Alike(q, n), NEW e
    PROVE  /\ GuardSays(r, q, e) => GuardSays(r, n, e)
           /\ WriteSays(r, q, e) => WriteSays(r, n, e)
<1>1. /\ RouteOf(n) = RouteOf(q) /\ GuardOf(n) = GuardOf(q) /\ n.ctx = q.ctx
      /\ n.input = q.input /\ n.at = q.at
  BY DEF Alike, RouteOf, GuardOf
<1>2. Unmet(r, q) => Unmet(r, n)
  BY <1>1 DEF Unmet
<1>3. \A i : Task(n, i) = Task(q, i) /\ Demand(n, i) = Demand(q, i)
  BY <1>1 DEF Task, Demand
<1>4. GuardSays(r, q, e) => GuardSays(r, n, e)
  BY <1>1, <1>2 DEF GuardSays
<1>5. WriteSays(r, q, e) => WriteSays(r, n, e)
  BY <1>1, <1>3 DEF WriteSays
<1> QED BY <1>4, <1>5

LEMMA AlikePhase ==
    ASSUME NEW q, NEW n, n.input = q.input, n.at = q.at,
           q.stage \notin {"idle", "answered"}, n.stage \notin {"idle", "answered"}
    PROVE  Phase(n) = Phase(q)
<1>1. RouteOf(n) = RouteOf(q)
  BY DEF RouteOf
<1> QED BY <1>1, PhaseIs

\* The same answers, and the same tasks, of a request that has had no less to suffer.
LEMMA AlikeBlamed ==
    ASSUME NEW q, NEW n, n.input = q.input, n.memo = q.memo, n.tasks = q.tasks,
           q.broken => n.broken, Blamed(q)
    PROVE  Blamed(n)
BY DEF Blamed, Settled, Task, RouteOf

\* Why a request may be told e.
Reason(r, q, e, broken) ==
    (e \in Failures /\ broken) \/ GuardSays(r, q, e) \/ WriteSays(r, q, e)

\* n is q, with e to be recorded or answered.
Halts(q, n, e) ==
    /\ n \in State /\ n.stage \in {"record", "failed"} /\ n.error = e
    /\ n.at = q.at /\ n.tenant = q.tenant /\ n.tasks = q.tasks /\ n.memo = q.memo
    /\ n.status = q.status /\ SameCall(q, n) /\ (q.broken => n.broken)

\* A request halts where it is, for a reason.
LEMMA HaltFollows ==
    ASSUME RequestOK, AccessOK, NEW r \in Requests, req[r].stage \notin {"idle", "answered"},
           NEW e, NEW n, Go(r, n), Halts(req[r], n, e), Reason(r, req[r], e, n.broken)
    PROVE  Follow(r)
<1>1. PICK q : q = req[r]
  OBVIOUS
<1>2. Served(r, q)
  BY <1>1 DEF AccessOK
<1>3. /\ n \in State /\ n.stage \in {"record", "failed"} /\ n.error = e /\ n.input = q.input
      /\ n.memo = q.memo /\ n.tasks = q.tasks /\ n.status = q.status /\ n.at = q.at
      /\ Alike(q, n) /\ (q.broken => n.broken)
  BY <1>1 DEF Halts, SameCall, Alike
<1>4. Known(r, n) /\ Passed(r, n) /\ Blamed(n)
  BY <1>2, <1>3, AlikeKnown, AlikeBlamed DEF Served
<1>5. Explained(r, n)
  BY <1>1, <1>3, AlikeSays DEF Reason, Explained
<1>6. Stays(q, n)
  BY <1>1, <1>3, AlikePhase DEF Stays
<1> QED BY <1>1, <1>3, <1>4, <1>5, <1>6, Following DEF Follows, Maps, Served

LEMMA FailHalts ==
    ASSUME NEW q, NEW n, NEW e, Fails(q, n, e), q.broken => n.broken PROVE Halts(q, n, e)
BY DEF Fails, Halts, SameMemory, SameAnswer

LEMMA FailBroken ==
    ASSUME NEW q \in State, NEW e \in Errors
    PROVE  /\ Fail(q, e).broken = q.broken
           /\ \A s : Mark(Fail(q, e), s).broken <=> q.broken \/ ~s.ok
<1>1. PICK n : n = Fail(q, e)
  OBVIOUS
<1>2. n \in State /\ n.broken = q.broken
  BY <1>1, FailIs
<1>3. ASSUME NEW s PROVE Mark(n, s).broken <=> n.broken \/ ~s.ok
  BY <1>2, MarkIs
<1> QED BY <1>1, <1>2, <1>3

\* A step beside the guards and the handler's end: a call is asked for or answered.
LEMMA StayFollows ==
    ASSUME RequestOK, AccessOK, NEW r \in Requests, req[r].stage # "idle", NEW n, Go(r, n),
           n \in State, n.stage = req[r].stage, n.error = req[r].error, n.at = req[r].at,
           n.tenant = req[r].tenant, SameCall(req[r], n), n.status = req[r].status,
           req[r].broken => n.broken, Blamed(n)
    PROVE  Follow(r)
<1>1. PICK q : q = req[r]
  OBVIOUS
<1>2. Served(r, q) /\ Alike(q, n) /\ n.input = q.input
  BY <1>1 DEF AccessOK, Alike, SameCall
<1>3. Known(r, n) /\ Passed(r, n)
  BY <1>1, <1>2, AlikeKnown DEF Served
<1>4. Explained(r, n)
  BY <1>1, <1>2, AlikeSays DEF Served, Explained
<1>5. Phase(n) = Phase(q)
  BY <1>1, <1>2, AlikePhase, PhaseIs
<1> QED BY <1>1, <1>2, <1>3, <1>4, <1>5, Following DEF Follows, Maps, Served, Stays

\* A guard refuses, having read the context's answer or not.
LEMMA DenyFollows ==
    ASSUME RequestOK, AccessOK, NEW r \in Requests, req[r].stage \in {"guard", "check"},
           NEW q \in State, q.at = req[r].at, q.tenant = req[r].tenant, q.tasks = req[r].tasks,
           q.memo = req[r].memo, q.status = req[r].status, SameCall(req[r], q),
           q.broken = req[r].broken,
           NEW e \in Refusals, NEW row \in Rows, GuardSays(r, req[r], e),
           Go(r, Deny(q, e, row))
    PROVE  Follow(r)
<1>1. PICK n : n = Deny(q, e, row)
  OBVIOUS
<1>2. e \in Errors /\ "record" \in Stages
  BY Words DEF Stages
<1>3. CASE ~Denials
  <2>1. n = Fail(q, e)
    BY <1>1, <1>3 DEF Deny
  <2>2. Fails(q, n, e) /\ n.broken = q.broken
    BY <1>2, <2>1, FailFails, FailBroken
  <2>3. Halts(req[r], n, e)
    BY <2>2 DEF Halts, Fails, SameCall, SameMemory, SameAnswer
  <2> QED BY <1>1, <2>3, HaltFollows DEF Reason
<1>4. CASE Denials
  <2>1. n = [q EXCEPT !.stage = "record", !.error = e, !.refusal = row]
    BY <1>1, <1>4 DEF Deny
  <2>2. /\ n \in State /\ n.stage = "record" /\ n.error = e
        /\ n.at = q.at /\ n.tenant = q.tenant /\ n.tasks = q.tasks /\ n.memo = q.memo
        /\ n.status = q.status /\ n.broken = q.broken /\ SameCall(q, n)
    BY <1>2, <2>1 DEF State, SameCall
  <2>3. Halts(req[r], n, e)
    BY <2>2 DEF Halts, SameCall
  <2> QED BY <1>1, <2>3, HaltFollows DEF Reason
<1> QED BY <1>3, <1>4

\* A guard that was met lets go on, to the next or to the handler.
LEMMA EnterFollows ==
    ASSUME RequestOK, AccessOK, NEW r \in Requests, req[r].stage \in {"guard", "check"},
           NEW q \in State, q.at = req[r].at, q.memo = req[r].memo, q.status = req[r].status,
           q.stage = req[r].stage, SameCall(req[r], q), q.broken = req[r].broken,
           Met(r, req[r], GuardOf(req[r])), Go(r, Enter(q, q.at + 1))
    PROVE  Follow(r)
<1>1. PICK o, n : o = req[r] /\ n = Enter(q, o.at + 1)
  OBVIOUS
<1>2. /\ Served(r, o) /\ Sound(r, o) /\ o \in State /\ o.input \in Inputs[r] /\ o.at \in Nat
      /\ o.at \in DOMAIN RouteOf(o).guards /\ o.stage \in {"guard", "check"}
  BY <1>1, Here DEF AccessOK, Fields, Sound, Placed
<1>3. RouteOf(o).guards \in Seq(GuardsMade) /\ Len(RouteOf(o).guards) \in Nat
  BY <1>2, Made DEF RouteOf
<1>4. /\ q.input \in Inputs[r] /\ RouteOf(q) = RouteOf(o) /\ Todo(q) = Todo(o) /\ o.at + 1 \in Nat
      /\ q.memo = o.memo /\ q.status = o.status /\ (q.broken <=> o.broken)
      /\ q.input = o.input /\ q.ctx = o.ctx
  BY <1>1, <1>2 DEF SameCall, RouteOf, Todo
<1>5. /\ n \in State /\ n.at = o.at + 1
      /\ o.at + 1 <= Len(RouteOf(o).guards) => n.stage = "guard" /\ n.tasks = << >>
      /\ o.at + 1 > Len(RouteOf(o).guards) => n.stage = "handler" /\ n.tasks = Todo(o)
      /\ (n.broken <=> o.broken) /\ n.input = o.input /\ n.ctx = o.ctx /\ n.memo = o.memo
      /\ n.status = o.status
  BY <1>1, <1>4, EnterIs DEF SameCall, SameMemory, SameAnswer
<1>6. RouteOf(n) = RouteOf(o) /\ n.stage \in {"guard", "handler"}
  BY <1>2, <1>3, <1>5 DEF RouteOf
<1>7. o.ctx # None
  BY <1>1 DEF Met
<1>8. Known(r, n)
  BY <1>2, <1>5, <1>6, <1>7 DEF Served, Known
<1>9. ASSUME NEW j \in DOMAIN RouteOf(n).guards, j < n.at PROVE Met(r, n, RouteOf(n).guards[j])
  <2>1. Met(r, o, RouteOf(o).guards[j])
    <3>1. j \in DOMAIN RouteOf(o).guards /\ j \in Nat /\ j < o.at + 1
      BY <1>3, <1>5, <1>6, <1>9
    <3>2. CASE j = o.at
      BY <1>1, <3>2 DEF GuardOf
    <3>3. CASE j < o.at
      BY <1>2, <3>1, <3>3 DEF Served, Passed
    <3> QED BY <1>2, <3>1, <3>2, <3>3
  <2> QED BY <1>5, <1>6, <2>1 DEF Met
<1>10. Passed(r, n)
  BY <1>6, <1>9 DEF Passed
<1>11. \A i \in DOMAIN n.tasks : n.tasks[i].st = "todo"
  <2>1. \A i \in DOMAIN Todo(o) : Todo(o)[i].st = "todo"
    BY <1>2, TodoIs
  <2> QED BY <1>2, <1>3, <1>5, <2>1
<1>12. Blamed(n) /\ Explained(r, n)
  BY <1>2, <1>5, <1>6, <1>11 DEF Served, Blamed, Explained, Settled
<1>13. Phase(o) = "open"
  BY <1>2, PhaseAt
<1>14. Maps(r, o, n)
  <2>1. CASE o.at + 1 <= Len(RouteOf(o).guards)
    <3>1. n.at \in DOMAIN RouteOf(n).guards
      BY <1>2, <1>3, <1>5, <1>6, <2>1
    <3>2. Phase(n) = "open"
      BY <1>2, <1>5, <1>6, <3>1, PhaseAt
    <3> QED BY <1>5, <1>13, <3>2 DEF Maps, Stays
  <2>2. CASE o.at + 1 > Len(RouteOf(o).guards)
    <3>1. n.at > Len(RouteOf(n).guards)
      BY <1>5, <1>6, <2>2
    <3>2. Phase(n) = "admitted"
      BY <1>2, <1>5, <1>6, <3>1, PhaseAt
    <3>3. \A j \in DOMAIN RouteOf(n).guards : Met(r, n, RouteOf(n).guards[j])
      <4>1. \A j \in DOMAIN RouteOf(n).guards : j < n.at
        <5>1. \A j \in DOMAIN RouteOf(o).guards : j \in Nat /\ j <= Len(RouteOf(o).guards)
          BY <1>3
        <5>2. n.at \in Nat
          BY <1>4, <1>5
        <5> QED BY <1>3, <1>6, <3>1, <5>1, <5>2
      <4> QED BY <1>9, <4>1
    <3>4. n.broken = o.broken
      BY <1>1, <1>2, <1>5 DEF State
    <3> QED BY <1>5, <1>7, <1>8, <1>13, <3>2, <3>3, <3>4 DEF Maps, Admitted
  <2> QED BY <1>2, <1>3, <2>1, <2>2
<1>15. Served(r, n)
  BY <1>8, <1>10, <1>12 DEF Served
<1>16. Go(r, n)
  BY <1>1
<1> QED BY <1>1, <1>2, <1>5, <1>14, <1>15, <1>16, Following DEF Follows

\* What a context may say of the credential of in.
Names(r, in, c) ==
    /\ \E v \in views[r] : Abstract!Caller(in, v) = c.principal
    /\ c.presented <=> Abstract!Presented(in)
    /\ c.principal # None =>
           /\ c.kind = "api_key" <=> Abstract!Key(in) # None
           /\ Abstract!Key(in) = None => (c.aal = "aal2" <=> Abstract!Token(in).aal = "aal2")

\* The context is attached: the first guard runs, or the handler of a route without any.
LEMMA AttachFollows ==
    ASSUME RequestOK, AccessOK, NEW r \in Requests, req[r].stage = "resolve", NEW c \in Contexts,
           Names(r, req[r].input, c), Go(r, Attach(req[r], c))
    PROVE  Follow(r)
<1>1. PICK q, n : q = req[r] /\ n = Attach(q, c)
  OBVIOUS
<1>2. /\ Served(r, q) /\ Sound(r, q) /\ q \in State /\ q.input \in Inputs[r] /\ q.at = 0
      /\ q.ctx = None /\ c # None /\ q.stage = "resolve"
  BY <1>1, Here, NoRecord DEF AccessOK, Fields, Sound, Placed
<1>3. /\ n \in State /\ n.at = 1 /\ n.ctx = c
      /\ RouteOf(q).guards # << >> => n.stage = "guard" /\ n.tasks = << >>
      /\ RouteOf(q).guards = << >> => n.stage = "handler" /\ n.tasks = Todo(q)
      /\ n.input = q.input /\ n.broken = q.broken /\ n.memo = q.memo /\ n.status = q.status
  BY <1>1, <1>2, AttachIs DEF SameMemory, SameAnswer
<1>4. RouteOf(q).guards \in Seq(GuardsMade) /\ RouteOf(n) = RouteOf(q)
  BY <1>2, <1>3, Made DEF RouteOf
<1>5. n.stage \in {"guard", "handler"}
  BY <1>3
<1>6. Known(r, n)
  BY <1>1, <1>2, <1>3, <1>5 DEF Served, Known, Names
<1>7. Passed(r, n)
  <2>1. \A j \in DOMAIN RouteOf(n).guards : ~(j < 1)
    BY <1>4
  <2> QED BY <1>3, <1>5, <2>1 DEF Passed
<1>8. \A i \in DOMAIN n.tasks : n.tasks[i].st = "todo"
  <2>1. \A i \in DOMAIN Todo(q) : Todo(q)[i].st = "todo"
    BY <1>2, TodoIs
  <2> QED BY <1>3, <2>1
<1>9. Blamed(n) /\ Explained(r, n)
  BY <1>2, <1>3, <1>5, <1>8 DEF Served, Blamed, Explained, Settled
<1>10. Phase(q) = "open"
  <2>1. ~(q.at > Len(RouteOf(q).guards))
    BY <1>2, <1>4
  <2> QED BY <1>2, <2>1, PhaseIs
<1>11. Maps(r, q, n)
  <2>1. CASE RouteOf(q).guards # << >>
    <3>1. n.at \in DOMAIN RouteOf(n).guards
      BY <1>3, <1>4, <2>1
    <3>2. Phase(n) = "open"
      BY <1>2, <1>3, <1>5, <3>1, PhaseAt
    <3> QED BY <1>3, <1>10, <3>2 DEF Maps, Stays
  <2>2. CASE RouteOf(q).guards = << >>
    <3>1. n.at > Len(RouteOf(n).guards) /\ \A j \in DOMAIN RouteOf(n).guards : FALSE
      BY <1>3, <1>4, <2>2
    <3>2. Phase(n) = "admitted"
      BY <1>2, <1>3, <1>5, <3>1, PhaseAt
    <3> QED BY <1>2, <1>3, <1>6, <1>10, <3>1, <3>2 DEF Maps, Admitted
  <2> QED BY <2>1, <2>2
<1>12. Go(r, n) /\ Served(r, n)
  BY <1>1, <1>6, <1>7, <1>9 DEF Served
<1> QED BY <1>1, <1>2, <1>3, <1>11, <1>12, Following DEF Follows

-----------------------------------------------------------------------------
(* Who the caller is *)

\* The headers, read by the core and read by Access.
LEMMA HeadersAre ==
    ASSUME NEW q
    PROVE  /\ Credentials(q).apiKey = Abstract!Key(q.input)
           /\ Credentials(q).bearer = Abstract!Token(q.input)
BY DEF Credentials, CredentialsFromHeaders, BearerFrom, Abstract!Key, Abstract!Token

LEMMA FollowResolveNobody ==
    ASSUME RequestOK, AccessOK, NEW r \in Requests, ResolveNobody(r) PROVE Follow(r)
<1>1. PICK q : q = req[r]
  OBVIOUS
<1>2. /\ q.stage = "resolve" /\ Credentials(q) = [apiKey |-> None, bearer |-> None]
      /\ Go(r, Attach(q, Nobody))
  BY <1>1 DEF ResolveNobody
<1>3. Abstract!Key(q.input) = None /\ Abstract!Token(q.input) = None
  BY <1>2, HeadersAre
<1>4. \A v : Abstract!Caller(q.input, v) = None
  BY <1>3 DEF Abstract!Caller
<1>5. Nobody \in Contexts /\ Nobody.principal = None /\ Nobody.presented = FALSE
  BY DEF Nobody, Contexts, Kinds, Aals
<1>6. ~Abstract!Presented(q.input)
  BY <1>3 DEF Abstract!Presented
<1>7. world \in views[r]
  BY <1>1, <1>2, Here DEF Seen
<1>8. Names(r, q.input, Nobody)
  BY <1>4, <1>5, <1>6, <1>7 DEF Names
<1> QED BY <1>1, <1>2, <1>5, <1>8, AttachFollows

LEMMA ResolutionSays ==
    ASSUME NEW p, NEW kind, NEW aal, NEW c, c = Resolution(p, kind, aal)
    PROVE  c.principal = p /\ c.presented /\ (p # None => c.kind = kind /\ c.aal = aal)
BY DEF Resolution

\* The database is asked whose credential it is.
LEMMA FollowIdentify ==
    ASSUME RequestOK, AccessOK, NEW r \in Requests, req[r].stage = "resolve",
           NEW id \in Keys \cup Accounts, NEW kind \in Kinds, NEW aal \in Aals,
           Identify(r, id, kind, aal), Abstract!Presented(req[r].input),
           Abstract!Caller(req[r].input, world) = world.owner[id],
           kind = "api_key" <=> Abstract!Key(req[r].input) # None,
           Abstract!Key(req[r].input) = None =>
               (aal = "aal2" <=> Abstract!Token(req[r].input).aal = "aal2")
    PROVE  Follow(r)
<1>1. PICK owner, q : owner = world.owner[id] /\ q = req[r]
  OBVIOUS
<1>2. PICK s \in Settlements(owner) :
          Go(r, IF s.ok THEN Attach(q, Resolution(s.value, kind, aal)) ELSE Mark(Fail(q, s.error), s))
  BY <1>1 DEF Identify
<1>3. owner \in Principals \cup {None} /\ world \in views[r] /\ q \in State
  BY <1>1, Here DEF Worlds, Seen
<1>4. CASE s = Resolved(owner)
  <2>1. s.ok /\ s.value = owner
    BY <1>4 DEF Resolved
  <2>2. PICK c : c = Resolution(owner, kind, aal)
    OBVIOUS
  <2>3. /\ c \in Contexts /\ c.principal = owner /\ c.presented
        /\ owner # None => c.kind = kind /\ c.aal = aal
    <3>1. c \in Contexts
      BY <1>3, <2>2, ResolutionIs
    <3>2. /\ c.principal = owner /\ c.presented
          /\ owner # None => c.kind = kind /\ c.aal = aal
      BY <2>2, ResolutionSays
    <3> QED BY <3>1, <3>2
  <2>4. Names(r, q.input, c)
    BY <1>1, <1>3, <2>3 DEF Names
  <2> QED BY <1>1, <1>2, <2>1, <2>2, <2>3, <2>4, AttachFollows
<1>5. ASSUME NEW e \in Failures, s = Rejected(e) PROVE Follow(r)
  <2>1. ~s.ok /\ s.error = e /\ e \in Errors
    BY <1>5, RejectedIs, Words
  <2>2. PICK n : n = Mark(Fail(q, e), s)
    OBVIOUS
  <2>3. Go(r, n) /\ Fails(q, n, e) /\ n.broken
    BY <1>2, <1>3, <2>1, <2>2, FailFails, FailBroken
  <2> QED BY <1>1, <1>5, <2>3, FailHalts, HaltFollows DEF Reason
<1> QED BY <1>4, <1>5, Settles

LEMMA FollowResolveApiKey ==
    ASSUME RequestOK, AccessOK, NEW r \in Requests, ResolveApiKey(r) PROVE Follow(r)
<1>1. PICK q, key : q = req[r] /\ key = Credentials(q).apiKey
  OBVIOUS
<1>2. q.stage = "resolve" /\ key # None /\ Identify(r, key, "api_key", None)
  BY <1>1 DEF ResolveApiKey
<1>3. key \in Keys /\ "api_key" \in Kinds /\ None \in Aals
  BY <1>1, <1>2, Here, CredentialsMade DEF Kinds, Aals
<1>4. Abstract!Key(q.input) = key
  BY <1>1, HeadersAre
<1>5. Abstract!Presented(q.input) /\ Abstract!Caller(q.input, world) = world.owner[key]
  BY <1>2, <1>4 DEF Abstract!Presented, Abstract!Caller
<1> QED BY <1>1, <1>2, <1>3, <1>4, <1>5, FollowIdentify

\* Access holds for genuine what the core verifies.
LEMMA VerifyGenuine ==
    ASSUME NEW token
    PROVE  \/ VerifyBearer(token) = Resolved(None) /\ ~Abstract!Genuine(token)
           \/ VerifyBearer(token) = Rejected("Error")
           \/ /\ VerifyBearer(token) =
                     Resolved([authUserId |-> token.sub, aal |-> AalFromClaim(token.aal)])
              /\ token.sub \in Accounts /\ Abstract!Genuine(token)
              /\ AalFromClaim(token.aal) \in Aals
<1>1. AalFromClaim(token.aal) \in Aals
  BY DEF AalFromClaim, Aals
<1>2. CASE token.fault \in InvalidTokenCodes
  <2>1. VerifyBearer(token) = Resolved(None)
    BY <1>2, Zenon DEF VerifyBearer
  <2>2. token.fault # None
    BY <1>2, NullIsNoWord
  <2> QED BY <2>1, <2>2 DEF Abstract!Genuine
<1>3. CASE token.fault \notin InvalidTokenCodes \cup {None}
  BY <1>3, Zenon DEF VerifyBearer
<1>4. CASE token.fault = None /\ (token.role \in RejectedRoles \/ token.sub \notin Accounts)
  <2>1. token.fault \notin InvalidTokenCodes
    BY <1>4, NullIsNoWord
  <2>2. VerifyBearer(token) = Resolved(None)
    BY <1>4, <2>1, Zenon DEF VerifyBearer
  <2> QED BY <1>4, <2>2 DEF Abstract!Genuine, RejectedRoles, Abstract!RejectedRoles
<1>5. CASE token.fault = None /\ token.role \notin RejectedRoles /\ token.sub \in Accounts
  <2>1. token.fault \notin InvalidTokenCodes
    BY <1>5, NullIsNoWord
  <2>2. VerifyBearer(token) = Resolved([authUserId |-> token.sub, aal |-> AalFromClaim(token.aal)])
    BY <1>5, <2>1, Zenon DEF VerifyBearer
  <2>3. Abstract!Genuine(token)
    BY <1>5 DEF Abstract!Genuine, RejectedRoles, Abstract!RejectedRoles
  <2> QED BY <1>1, <1>5, <2>2, <2>3
<1> QED BY <1>2, <1>3, <1>4, <1>5

LEMMA FollowResolveBearer ==
    ASSUME RequestOK, AccessOK, NEW r \in Requests, ResolveBearer(r) PROVE Follow(r)
<1>1. PICK q, v, token : /\ q = req[r] /\ v = VerifyBearer(token)
                         /\ token = Credentials(q).bearer
  OBVIOUS
<1>2. q.stage = "resolve" /\ Credentials(q).apiKey = None /\ token # None
  BY <1>1, Zenon DEF ResolveBearer
<1>3. \/ ~v.ok /\ Go(r, Mark(Fail(q, v.error), v))
      \/ v = Resolved(None) /\ Go(r, Attach(q, Resolution(None, "user", None)))
      \/ v.ok /\ v.value # None /\ Identify(r, v.value.authUserId, "user", v.value.aal)
  BY <1>1, Zenon DEF ResolveBearer
<1>4. Abstract!Key(q.input) = None /\ Abstract!Token(q.input) = token
  BY <1>1, <1>2, HeadersAre
<1>5. Abstract!Presented(q.input) /\ q \in State /\ world \in views[r]
  BY <1>1, <1>2, <1>4, Here DEF Abstract!Presented, Seen
<1>6. CASE v = Resolved(None) /\ ~Abstract!Genuine(token)
  <2>1. v.ok /\ v.value = None
    BY <1>6 DEF Resolved
  <2>2. PICK c : c = Resolution(None, "user", None)
    OBVIOUS
  <2>3. c \in Contexts
    BY <2>2, ResolutionIs DEF Kinds, Aals
  <2>4. c.principal = None /\ c.presented
    BY <2>2, ResolutionSays
  <2>5. Abstract!Caller(q.input, world) = None
    BY <1>4, <1>6 DEF Abstract!Caller
  <2>6. Names(r, q.input, c)
    BY <1>5, <2>4, <2>5 DEF Names
  <2> QED BY <1>1, <1>2, <1>3, <2>1, <2>2, <2>3, <2>6, AttachFollows
<1>7. CASE v = Rejected("Error")
  <2>1. PICK n : n = Mark(Fail(q, "Error"), v)
    OBVIOUS
  <2>2. ~v.ok /\ v.error = "Error" /\ "Error" \in Errors \cap Failures /\ v # Resolved(None)
    BY <1>7, RejectedIs, Words DEF Failures
  <2>3. Go(r, n) /\ Fails(q, n, "Error") /\ n.broken
    BY <1>3, <1>5, <2>1, <2>2, FailFails, FailBroken
  <2> QED BY <1>1, <1>2, <2>2, <2>3, FailHalts, HaltFollows DEF Reason
<1>8. CASE /\ v = Resolved([authUserId |-> token.sub, aal |-> AalFromClaim(token.aal)])
           /\ token.sub \in Accounts /\ Abstract!Genuine(token)
           /\ AalFromClaim(token.aal) \in Aals
  <2>1. PICK x : x = [authUserId |-> token.sub, aal |-> AalFromClaim(token.aal)]
    OBVIOUS
  <2>2. v.ok /\ v.value = x /\ x.authUserId = token.sub /\ x.aal = AalFromClaim(token.aal)
    BY <1>8, <2>1 DEF Resolved
  <2>3. x # None
    BY <1>8, <2>1, NullIsNoRecord
  <2>4. Identify(r, token.sub, "user", x.aal)
    BY <1>3, <2>2, <2>3 DEF Resolved
  <2>5. x.aal \in Aals /\ "user" \in Kinds /\ (x.aal = "aal2" <=> token.aal = "aal2")
    BY <1>8, <2>2, NullIsNoWord DEF AalFromClaim, Kinds
  <2>6. Abstract!Caller(q.input, world) = world.owner[token.sub]
    BY <1>2, <1>4, <1>8 DEF Abstract!Caller
  <2> QED BY <1>1, <1>2, <1>4, <1>5, <1>8, <2>4, <2>5, <2>6, FollowIdentify
<1> QED BY <1>1, <1>6, <1>7, <1>8, VerifyGenuine

-----------------------------------------------------------------------------
(* The guards *)

LEMMA FollowNotInstalled ==
    ASSUME RequestOK, AccessOK, NEW r \in Requests, NotInstalled(r) PROVE Follow(r)
<1>1. PICK q, n : q = req[r] /\ n = Fail(q, "MiddlewareNotInstalled")
  OBVIOUS
<1>2. q.stage = "guard" /\ q.ctx = None /\ Go(r, n)
  BY <1>1 DEF NotInstalled
<1>3. Fails(q, n, "MiddlewareNotInstalled") /\ n.broken = q.broken
  BY <1>1, Words, FailFails, FailBroken, Here
<1>4. ~q.input.route.mounted /\ q.at \in DOMAIN RouteOf(q).guards
  BY <1>1, <1>2, Here DEF AccessOK, Served, Known, Sound, Placed
<1>5. GuardSays(r, q, "MiddlewareNotInstalled")
  BY <1>4 DEF GuardSays
<1> QED BY <1>1, <1>2, <1>3, <1>5, FailHalts, HaltFollows DEF Reason

LEMMA FollowUnauthenticated ==
    ASSUME RequestOK, AccessOK, NEW r \in Requests, Unauthenticated(r) PROVE Follow(r)
<1>1. PICK q, n : q = req[r] /\ n = Fail(q, "Unauthenticated")
  OBVIOUS
<1>2. q.stage = "guard" /\ q.ctx # None /\ ~q.ctx.presented /\ Go(r, n)
  BY <1>1 DEF Unauthenticated, Guarding
<1>3. Fails(q, n, "Unauthenticated") /\ n.broken = q.broken
  BY <1>1, Words, FailFails, FailBroken, Here
<1>4. ~Abstract!Presented(q.input) /\ q.at \in DOMAIN RouteOf(q).guards
  BY <1>1, <1>2, Here DEF AccessOK, Served, Known, Sound, Placed
<1>5. GuardSays(r, q, "Unauthenticated")
  BY <1>4 DEF GuardSays
<1> QED BY <1>1, <1>2, <1>3, <1>5, FailHalts, HaltFollows DEF Reason

LEMMA FollowUnmapped ==
    ASSUME RequestOK, AccessOK, NEW r \in Requests, Unmapped(r) PROVE Follow(r)
<1>1. PICK q, row : q = req[r] /\ row = Denial(r, 0, "authenticate", None)
  OBVIOUS
<1>2. /\ q.stage = "guard" /\ q.ctx # None /\ q.ctx.principal = None /\ q.ctx.presented
      /\ Go(r, Deny(q, "Forbidden", row)) /\ "Forbidden" \in Refusals
  BY <1>1 DEF Unmapped, Guarding, Refusals
<1>3. row \in Rows /\ q \in State
  BY <1>1, <1>2, Here, DenialIs DEF Fields
<1>4. Abstract!Presented(q.input) /\ q.at \in DOMAIN RouteOf(q).guards
  BY <1>1, <1>2, Here DEF AccessOK, Served, Known, Sound, Placed
<1>5. GuardSays(r, q, "Forbidden")
  BY <1>2, <1>4 DEF GuardSays, Unmet
<1> QED BY <1>1, <1>2, <1>3, <1>5, DenyFollows DEF SameCall

\* The second factor, of the context and of the credential.
LEMMA StrongIs ==
    ASSUME NEW r \in Requests, NEW q, Known(r, q), q.ctx # None, q.ctx.principal # None, NEW g
    PROVE  /\ (g.aal2 => SecondFactor(g, q.ctx)) <=> Abstract!StrongEnough(g, q.input)
           /\ Abstract!Presented(q.input)
<1>1. /\ q.ctx.kind = "api_key" <=> Abstract!Key(q.input) # None
      /\ Abstract!Key(q.input) = None =>
             (q.ctx.aal = "aal2" <=> Abstract!Token(q.input).aal = "aal2")
  BY DEF Known
<1>2. Abstract!Presented(q.input)
  BY PresentedIs DEF Known
<1>3. CASE Abstract!Key(q.input) # None
  <2>1. SecondFactor(g, q.ctx) = g.allowApiKeys
    BY <1>1, <1>3, Zenon DEF SecondFactor
  <2>2. Abstract!StrongEnough(g, q.input) = (g.aal2 => g.allowApiKeys)
    BY <1>3, Zenon DEF Abstract!StrongEnough
  <2> QED BY <1>2, <2>1, <2>2
<1>4. CASE Abstract!Key(q.input) = None
  <2>1. SecondFactor(g, q.ctx) = (q.ctx.aal = "aal2")
    BY <1>1, <1>4, Zenon DEF SecondFactor
  <2>2. Abstract!StrongEnough(g, q.input) = (g.aal2 => Abstract!Token(q.input).aal = "aal2")
    BY <1>4, Zenon DEF Abstract!StrongEnough
  <2> QED BY <1>1, <1>2, <1>4, <2>1, <2>2
<1> QED BY <1>3, <1>4

LEMMA FollowTooWeak ==
    ASSUME RequestOK, AccessOK, NEW r \in Requests, TooWeak(r) PROVE Follow(r)
<1>1. PICK q, row, e : /\ q = req[r] /\ row = Denial(r, 0, "authorize", None)
                       /\ e = IF q.ctx.kind = "api_key" THEN "Forbidden" ELSE "MfaRequired"
  OBVIOUS
<1>2. /\ q.stage = "guard" /\ q.ctx # None /\ q.ctx.principal # None /\ e \in Refusals
      /\ ~(GuardOf(q).aal2 => SecondFactor(GuardOf(q), q.ctx)) /\ Go(r, Deny(q, e, row))
  BY <1>1 DEF TooWeak, Identified, Guarding, Refusals
<1>3. row \in Rows /\ q \in State
  BY <1>1, <1>2, Here, DenialIs DEF Fields
<1>4. Known(r, q) /\ q.at \in DOMAIN RouteOf(q).guards
  BY <1>1, <1>2, Here DEF AccessOK, Served, Sound, Placed
<1>5. ~Abstract!StrongEnough(GuardOf(q), q.input) /\ Abstract!Presented(q.input)
  BY <1>2, <1>4, StrongIs
<1>6. GuardSays(r, q, e)
  BY <1>2, <1>4, <1>5 DEF GuardSays, Unmet
<1> QED BY <1>1, <1>2, <1>3, <1>6, DenyFollows DEF SameCall

LEMMA FollowPassIdentity ==
    ASSUME RequestOK, AccessOK, NEW r \in Requests, PassIdentity(r) PROVE Follow(r)
<1>1. PICK q : q = req[r]
  OBVIOUS
<1>2. /\ q.stage = "guard" /\ q.ctx # None /\ q.ctx.principal # None /\ GuardOf(q).check = "none"
      /\ GuardOf(q).aal2 => SecondFactor(GuardOf(q), q.ctx)
      /\ Go(r, Enter(q, q.at + 1))
  BY <1>1 DEF PassIdentity, StrongEnough, Identified, Guarding
<1>3. Known(r, q) /\ q \in State /\ world \in views[r]
  BY <1>1, <1>2, Here DEF AccessOK, Served, Seen
<1>4. Abstract!StrongEnough(GuardOf(q), q.input)
  BY <1>2, <1>3, StrongIs
<1>5. \A held : Abstract!Authorized(GuardOf(q), held)
  BY <1>2 DEF Abstract!Authorized
<1>6. Met(r, q, GuardOf(q))
  BY <1>2, <1>3, <1>4, <1>5 DEF Met
<1> QED BY <1>1, <1>2, <1>3, <1>6, EnterFollows DEF SameCall

\* The tenant is the one that came with the request, or none.
LEMMA TenantIs ==
    ASSUME NEW q
    PROVE  /\ TenantOf(q) # None => TenantOf(q) \in Tenants /\ TenantOf(q) = q.input.tenant
           /\ TenantOf(q) = None => q.input.tenant \notin Tenants
BY NullIsNoId DEF TenantOf, ResolvesTo, TenantFrom, IsUuid

LEMMA AskedBlamed ==
    ASSUME NEW q \in State, Blamed(q), NEW t \in Tenants, NEW n, n = Ask(q, t) PROVE Blamed(n)
<1>1. /\ n.broken = q.broken /\ n.tasks = q.tasks /\ n.input = q.input
      /\ \A u \in Tenants : n.memo[u] =
            IF u = t /\ q.memo[t] = None THEN Asked(q, t) ELSE q.memo[u]
  BY AskIs DEF SameCall
<1>2. Asked(q, t) = Pending \/ Asked(q, t).ok
  BY DEF Asked, Resolved
<1>3. ASSUME NEW u \in Tenants, Settled(n, u), ~n.memo[u].ok PROVE n.broken
  <2>1. n.memo[u] = q.memo[u]
    BY <1>1, <1>2, <1>3 DEF Settled
  <2> QED BY <1>1, <1>3, <2>1 DEF Blamed, Settled
<1> QED BY <1>1, <1>3 DEF Blamed, Task, RouteOf

LEMMA FollowResolveTenant ==
    ASSUME RequestOK, AccessOK, NEW r \in Requests, ResolveTenant(r) PROVE Follow(r)
<1>1. PICK q, t : q = req[r] /\ t = TenantOf(q)
  OBVIOUS
<1>2. /\ q.stage = "guard" /\ q.ctx # None /\ q.ctx.principal # None /\ GuardOf(q).check # "none"
      /\ GuardOf(q).aal2 => SecondFactor(GuardOf(q), q.ctx)
      /\ \/ t # None /\ Go(r, Ask([q EXCEPT !.stage = "check", !.tenant = t], t))
         \/ t = None /\ Go(r, Fail(q, "TenantRequired"))
         \/ Go(r, [Fail(q, "Error") EXCEPT !.broken = TRUE])
  BY <1>1, Zenon DEF ResolveTenant, StrongEnough, Identified, Guarding
<1>3. /\ q \in State /\ Served(r, q) /\ Known(r, q) /\ q.at \in DOMAIN RouteOf(q).guards
      /\ q.input \in Inputs[r] /\ q.tasks = << >>
  BY <1>1, <1>2, Here DEF AccessOK, Served, Sound, Placed, Counted
<1>4. Abstract!StrongEnough(GuardOf(q), q.input)
  BY <1>2, <1>3, StrongIs
<1>5. ASSUME t # None, Go(r, Ask([q EXCEPT !.stage = "check", !.tenant = t], t)) PROVE Follow(r)
  <2>1. PICK m, n : m = [q EXCEPT !.stage = "check", !.tenant = t] /\ n = Ask(m, t)
    OBVIOUS
  <2>2. t \in Tenants /\ t = q.input.tenant /\ "check" \in Stages
    BY <1>1, <1>5, TenantIs DEF Stages
  <2>3. /\ m \in State /\ m.stage = "check" /\ m.tenant = t /\ m.at = q.at /\ m.input = q.input
        /\ m.ctx = q.ctx /\ m.memo = q.memo /\ m.tasks = q.tasks /\ m.broken = q.broken
        /\ m.status = q.status
    BY <1>3, <2>1, <2>2 DEF State
  <2>4. Blamed(m)
    BY <1>3, <2>3, AlikeBlamed DEF Served
  <2>5. Blamed(n)
    BY <2>1, <2>2, <2>3, <2>4, AskedBlamed
  <2>6. /\ n \in State /\ n.stage = "check" /\ n.tenant = t /\ n.at = q.at /\ n.input = q.input
        /\ n.ctx = q.ctx /\ n.broken = q.broken /\ n.status = q.status
    <3>1. /\ n \in State /\ n.stage = m.stage /\ n.tenant = m.tenant /\ n.at = m.at
          /\ n.broken = m.broken /\ SameCall(m, n) /\ SameAnswer(m, n)
      <4>1. m \in State /\ t \in Tenants /\ n = Ask(m, t)
        BY <2>1, <2>2, <2>3
      <4> QED BY <4>1, AskIs
    <3> QED BY <2>3, <3>1 DEF SameCall, SameAnswer
  <2>7. RouteOf(n) = RouteOf(q) /\ GuardOf(n) = GuardOf(q)
    BY <2>6 DEF RouteOf, GuardOf
  <2>8. Known(r, n) /\ Explained(r, n)
    BY <1>2, <1>3, <2>6 DEF Known, Explained
  <2>9. \A g : Met(r, q, g) => Met(r, n, g)
    BY <2>6 DEF Met
  <2>10. Passed(r, n)
    BY <1>3, <1>4, <2>2, <2>6, <2>7, <2>9 DEF Served, Passed
  <2>11. Phase(n) = Phase(q)
    BY <1>2, <2>6, AlikePhase
  <2>12. Follows(r, n)
    BY <1>1, <1>5, <2>1, <2>5, <2>6, <2>8, <2>10, <2>11 DEF Follows, Served, Maps, Stays
  <2> QED BY <1>1, <1>2, <2>12, Following
<1>6. ASSUME t = None, Go(r, Fail(q, "TenantRequired")) PROVE Follow(r)
  <2>1. PICK n : n = Fail(q, "TenantRequired")
    OBVIOUS
  <2>2. Fails(q, n, "TenantRequired") /\ n.broken = q.broken
    BY <1>3, <2>1, Words, FailFails, FailBroken
  <2>3. GuardSays(r, q, "TenantRequired")
    BY <1>1, <1>2, <1>3, <1>6, TenantIs DEF GuardSays
  <2> QED BY <1>1, <1>2, <1>6, <2>1, <2>2, <2>3, FailHalts, HaltFollows DEF Reason
<1>7. ASSUME Go(r, [Fail(q, "Error") EXCEPT !.broken = TRUE]) PROVE Follow(r)
  <2>1. PICK m, n : m = Fail(q, "Error") /\ n = [m EXCEPT !.broken = TRUE]
    OBVIOUS
  <2>2. Fails(q, m, "Error") /\ m.broken = q.broken
    BY <1>3, <2>1, Words, FailFails, FailBroken
  <2>3. Fails(q, n, "Error") /\ n.broken
    BY <2>1, <2>2 DEF Fails, State, SameCall, SameMemory, SameAnswer
  <2>4. "Error" \in Failures
    BY DEF Failures
  <2> QED BY <1>1, <1>2, <1>7, <2>1, <2>3, <2>4, FailHalts, HaltFollows DEF Reason
<1> QED BY <1>2, <1>5, <1>6, <1>7

LEMMA FollowCheck ==
    ASSUME RequestOK, AccessOK, NEW r \in Requests, Check(r) PROVE Follow(r)
<1>1. PICK q, t : q = req[r] /\ t = q.tenant
  OBVIOUS
<1>2. /\ q.stage = "check" /\ Settled(q, t)
      /\ \/ ~q.memo[t].ok /\ Go(r, Fail(q, q.memo[t].error))
         \/ /\ q.memo[t].ok /\ CheckHolds(GuardOf(q), q.memo[t].value)
            /\ Go(r, Enter(Read(q, t), q.at + 1))
         \/ /\ q.memo[t].ok /\ ~CheckHolds(GuardOf(q), q.memo[t].value)
            /\ Go(r, Deny(Read(q, t), "Forbidden", Denial(r, 0, "authorize", t)))
  BY <1>1, Zenon DEF Check
<1>3. /\ q \in State /\ Sound(r, q) /\ Served(r, q) /\ Seen(r, q) /\ q.input \in Inputs[r]
      /\ t \in Tenants /\ q.ctx # None /\ q.ctx.principal # None /\ GuardOf(q).check # "none"
      /\ q.at \in DOMAIN RouteOf(q).guards /\ Fields(q) /\ q.ctx \in Contexts
  BY <1>1, <1>2, Here DEF Sound, Placed, Fields, AccessOK
<1>4. GuardOf(q).check \in {"all", "any"}
  BY <1>3, GuardMade
<1>5. t = q.input.tenant /\ Abstract!StrongEnough(GuardOf(q), q.input) /\ Known(r, q)
  BY <1>1, <1>2, <1>3 DEF Served, Passed
<1>6. ASSUME ~q.memo[t].ok, Go(r, Fail(q, q.memo[t].error)) PROVE Follow(r)
  <2>1. PICK e, n : e = q.memo[t].error /\ n = Fail(q, e)
    OBVIOUS
  <2>2. e \in Failures /\ e \in Errors /\ q.broken
    BY <1>2, <1>3, <1>6, <2>1, Words DEF Sound, Remembers, Served, Blamed
  <2>3. Fails(q, n, e) /\ n.broken = q.broken
    BY <1>3, <2>1, <2>2, FailFails, FailBroken
  <2> QED BY <1>1, <1>2, <1>6, <2>1, <2>2, <2>3, FailHalts, HaltFollows DEF Reason
<1>7. ASSUME q.memo[t].ok
      PROVE  /\ \E v \in views[r] : q.memo[t].value = Held(v, q.ctx.principal, t)
             /\ \A m : m = Read(q, t) =>
                    /\ m \in State /\ m.stage = q.stage /\ m.at = q.at /\ m.tenant = q.tenant
                    /\ m.tasks = q.tasks /\ m.memo = q.memo /\ m.status = q.status
                    /\ m.broken = q.broken /\ SameCall(q, m)
  BY <1>2, <1>3, <1>7, ReadIs, AnswerIs DEF Seen, Sound, SameAnswer
<1>8. ASSUME q.memo[t].ok, CheckHolds(GuardOf(q), q.memo[t].value),
             Go(r, Enter(Read(q, t), q.at + 1))
      PROVE  Follow(r)
  <2>1. PICK m : m = Read(q, t)
    OBVIOUS
  <2>2. PICK v \in views[r] : q.memo[t].value = Held(v, q.ctx.principal, t)
    BY <1>7, <1>8
  <2>3. Abstract!Authorized(GuardOf(q), Held(v, q.ctx.principal, q.input.tenant))
    BY <1>4, <1>5, <1>8, <2>2, CheckIs
  <2>4. Met(r, q, GuardOf(q))
    BY <1>3, <1>5, <2>2, <2>3 DEF Met
  <2>5. /\ m \in State /\ m.stage = q.stage /\ m.at = q.at /\ m.memo = q.memo
        /\ m.status = q.status /\ m.broken = q.broken /\ SameCall(q, m)
    BY <1>7, <1>8, <2>1
  <2>6. Go(r, Enter(m, m.at + 1))
    BY <1>8, <2>1, <2>5
  <2> QED BY <1>1, <1>2, <2>4, <2>5, <2>6, EnterFollows
<1>9. ASSUME q.memo[t].ok, ~CheckHolds(GuardOf(q), q.memo[t].value),
             Go(r, Deny(Read(q, t), "Forbidden", Denial(r, 0, "authorize", t)))
      PROVE  Follow(r)
  <2>1. PICK m, row : m = Read(q, t) /\ row = Denial(r, 0, "authorize", t)
    OBVIOUS
  <2>2. /\ m \in State /\ m.at = q.at /\ m.memo = q.memo /\ m.tenant = q.tenant
        /\ m.tasks = q.tasks /\ m.status = q.status /\ m.broken = q.broken /\ SameCall(q, m)
    BY <1>7, <1>9, <2>1
  <2>3. row \in Rows /\ "Forbidden" \in Refusals
    BY <1>1, <1>3, <2>1, DenialIs DEF Refusals
  <2>4. PICK v \in views[r] : q.memo[t].value = Held(v, q.ctx.principal, t)
    BY <1>7, <1>9
  <2>5. ~Abstract!Authorized(GuardOf(q), Held(v, q.ctx.principal, q.input.tenant))
    BY <1>4, <1>5, <1>9, <2>4, CheckIs
  <2>6. Abstract!Presented(q.input)
    BY <1>3, <1>5, StrongIs
  <2>7. GuardSays(r, q, "Forbidden")
    BY <1>3, <1>5, <2>3, <2>5, <2>6 DEF GuardSays, Unmet, Lacked
  <2>8. Go(r, Deny(m, "Forbidden", row))
    BY <1>9, <2>1
  <2> QED BY <1>1, <1>2, <2>2, <2>3, <2>7, <2>8, DenyFollows
<1> QED BY <1>2, <1>6, <1>8, <1>9

LEMMA FollowRecordDenial ==
    ASSUME RequestOK, AccessOK, NEW r \in Requests, RecordDenial(r) PROVE Follow(r)
<1>1. PICK q, e, n : q = req[r] /\ e = q.error /\ n = Fail(q, e)
  OBVIOUS
<1>2. q.stage = "record" /\ Go(r, n)
  BY <1>1 DEF RecordDenial
<1>3. q \in State /\ e \in Refusals /\ e \in Errors /\ Served(r, q)
  BY <1>1, <1>2, Here, Words DEF Sound, Refused, AccessOK
<1>4. Fails(q, n, e) /\ n.broken = q.broken
  BY <1>1, <1>3, FailFails, FailBroken
<1>5. Reason(r, q, e, n.broken)
  BY <1>1, <1>2, <1>3, <1>4 DEF Served, Explained, Reason
<1> QED BY <1>1, <1>2, <1>4, <1>5, FailHalts, HaltFollows

-----------------------------------------------------------------------------
(* Calls, the handler and its end *)

LEMMA FollowQuery ==
    ASSUME RequestOK, AccessOK, NEW r \in Requests, NEW t \in Tenants, Query(r, t)
    PROVE  Follow(r)
<1>1. PICK q, held : q = req[r] /\ held = Held(world, q.ctx.principal, t)
  OBVIOUS
<1>2. q.stage # "idle" /\ q.memo[t] = Pending
  BY <1>1 DEF Query
<1>3. PICK s \in Settlements(held) : Go(r, Mark([q EXCEPT !.memo[t] = s, !.asked[t] = @ + 1], s))
  BY <1>1 DEF Query
<1>4. q \in State /\ Fields(q) /\ Served(r, q) /\ held \in SUBSET ScopeNames
  BY <1>1, <1>2, Here, HeldTyped DEF AccessOK
<1>5. s \in Settlement
  BY <1>4, Settles, AnswersTyped, Words
<1>6. PICK memo, asked : memo = [q.memo EXCEPT ![t] = s] /\ asked = [q.asked EXCEPT ![t] = q.asked[t] + 1]
  OBVIOUS
<1>7. /\ memo \in [Tenants -> Settlement \cup {None}] /\ asked \in [Tenants -> Nat]
      /\ memo[t] = s /\ \A u \in Tenants \ {t} : memo[u] = q.memo[u]
  BY <1>4, <1>5, <1>6 DEF Fields
<1>8. PICK m, n : m = [q EXCEPT !.memo = memo, !.asked = asked] /\ n = Mark(m, s)
  OBVIOUS
<1>9. /\ m \in State /\ m.stage = q.stage /\ m.error = q.error /\ m.at = q.at /\ m.tenant = q.tenant
      /\ m.tasks = q.tasks /\ m.memo = memo /\ m.broken = q.broken
      /\ SameCall(q, m) /\ SameAnswer(q, m)
  BY <1>4, <1>7, <1>8 DEF State, SameCall, SameAnswer
<1>10. m \in State /\ n = Mark(m, s)
  BY <1>8, <1>9
<1>11. /\ n \in State /\ n.stage = m.stage /\ n.error = m.error /\ n.at = m.at /\ n.tenant = m.tenant
       /\ n.tasks = m.tasks /\ (n.broken <=> m.broken \/ ~s.ok)
       /\ SameCall(m, n) /\ SameMemory(m, n) /\ SameAnswer(m, n)
  BY <1>10, MarkIs
<1>12. /\ n.stage = q.stage /\ n.error = q.error /\ n.at = q.at /\ n.tenant = q.tenant
       /\ n.tasks = q.tasks /\ n.memo = memo /\ (n.broken <=> q.broken \/ ~s.ok)
       /\ SameCall(q, n) /\ n.status = q.status
  BY <1>9, <1>11 DEF SameCall, SameAnswer, SameMemory
<1>13. Go(r, n)
  <2>1. m = [q EXCEPT !.memo[t] = s, !.asked[t] = @ + 1]
    BY <1>6, <1>8
  <2> QED BY <1>3, <1>8, <2>1
<1>14. Blamed(n)
  <2>1. ASSUME NEW u \in Tenants, Settled(n, u), ~n.memo[u].ok PROVE n.broken
    <3>1. CASE u = t
      BY <1>7, <1>12, <2>1, <3>1
    <3>2. CASE u # t
      BY <1>4, <1>7, <1>12, <2>1, <3>2 DEF Served, Blamed, Settled
    <3> QED BY <3>1, <3>2
  <2>2. \A i : Task(n, i) = Task(q, i)
    BY <1>12 DEF SameCall, Task, RouteOf
  <2> QED BY <1>4, <1>12, <2>1, <2>2 DEF Served, Blamed
<1> QED BY <1>1, <1>2, <1>11, <1>12, <1>13, <1>14, StayFollows

\* Task i of q has come to st, with e; the rest is as it was.
LEMMA SetBlamed ==
    ASSUME NEW q, NEW n, NEW i \in DOMAIN q.tasks, Blamed(q), n.input = q.input,
           DOMAIN n.tasks = DOMAIN q.tasks,
           \A j \in DOMAIN q.tasks \ {i} : n.tasks[j] = q.tasks[j],
           q.broken => n.broken,
           \A t \in Tenants : Settled(n, t) /\ ~n.memo[t].ok => n.broken,
           n.tasks[i].st \in {"record", "failed"} =>
               IF n.tasks[i].error = "AuthzDenied" THEN Task(q, i).do = "write" ELSE n.broken
    PROVE  Blamed(n)
<1>1. \A j : Task(n, j) = Task(q, j)
  BY DEF Task, RouteOf
<1>2. ASSUME NEW j \in DOMAIN n.tasks, n.tasks[j].st \in {"record", "failed"}
      PROVE  IF n.tasks[j].error = "AuthzDenied" THEN Task(n, j).do = "write" ELSE n.broken
  <2>1. CASE j = i
    BY <1>1, <1>2, <2>1
  <2>2. CASE j # i
    <3>1. IF q.tasks[j].error = "AuthzDenied" THEN Task(q, j).do = "write" ELSE q.broken
      BY <1>2, <2>2 DEF Blamed
    <3> QED BY <1>1, <1>2, <2>2, <3>1
  <2> QED BY <2>1, <2>2
<1> QED BY <1>2 DEF Blamed

LEMMA FollowBegin ==
    ASSUME RequestOK, AccessOK, NEW r \in Requests, NEW i, Begin(r, i) PROVE Follow(r)
<1>1. PICK q, m, t : q = req[r] /\ m = Set(q, i, "wait", None) /\ t = Task(q, i).tenant
  OBVIOUS
<1>2. PICK n : n = IF Task(q, i).do = "has" THEN Ask(m, t) ELSE m
  OBVIOUS
<1>3. i \in DOMAIN q.tasks /\ Go(r, n)
  BY <1>1, <1>2 DEF Begin, Task
<1>4. q \in State /\ q.stage # "idle" /\ t \in Tenants /\ Served(r, q)
  BY <1>1, <1>3, TaskHere DEF AccessOK
<1>5. /\ m \in State /\ m.stage = q.stage /\ m.error = q.error /\ m.at = q.at /\ m.tenant = q.tenant
      /\ SameCall(q, m) /\ SameMemory(q, m) /\ SameAnswer(q, m) /\ m.broken = q.broken
      /\ DOMAIN m.tasks = DOMAIN q.tasks
      /\ m.tasks[i].st = "wait"
      /\ \A j \in DOMAIN q.tasks \ {i} : m.tasks[j] = q.tasks[j]
  BY <1>1, <1>3, <1>4, SetIs
<1>6. Blamed(m)
  <2>1. \A u \in Tenants : Settled(m, u) /\ ~m.memo[u].ok => m.broken
    BY <1>4, <1>5 DEF Served, Blamed, Settled, SameMemory
  <2> QED BY <1>3, <1>4, <1>5, <2>1, SetBlamed DEF Served, SameCall
<1>7. /\ n \in State /\ n.stage = q.stage /\ n.error = q.error /\ n.at = q.at /\ n.tenant = q.tenant
      /\ SameCall(q, n) /\ n.status = q.status /\ n.broken = q.broken /\ Blamed(n)
  <2>1. CASE Task(q, i).do # "has"
    BY <1>2, <1>5, <1>6, <2>1 DEF SameAnswer
  <2>2. CASE Task(q, i).do = "has"
    <3>1. n = Ask(m, t) /\ m \in State
      BY <1>2, <1>5, <2>2
    <3>2. /\ n \in State /\ n.stage = m.stage /\ n.error = m.error /\ n.at = m.at
          /\ n.tenant = m.tenant /\ n.broken = m.broken /\ SameCall(m, n) /\ SameAnswer(m, n)
      BY <1>4, <3>1, AskIs
    <3>3. Blamed(n)
      BY <1>4, <1>6, <3>1, AskedBlamed
    <3> QED BY <1>5, <3>2, <3>3 DEF SameCall, SameAnswer
  <2> QED BY <2>1, <2>2
<1> QED BY <1>1, <1>3, <1>4, <1>7, StayFollows

LEMMA FollowHas ==
    ASSUME RequestOK, AccessOK, NEW r \in Requests, NEW i, Has(r, i) PROVE Follow(r)
<1>1. PICK q, t : q = req[r] /\ t = Task(q, i).tenant
  OBVIOUS
<1>2. i \in DOMAIN q.tasks /\ Settled(q, t)
  BY <1>1 DEF Has, Waits
<1>3. Go(r, IF q.memo[t].ok THEN Set(Read(q, t), i, "done", None)
            ELSE Set(q, i, "failed", q.memo[t].error))
  BY <1>1 DEF Has
<1>4. /\ Sound(r, q) /\ q \in State /\ q.stage # "idle" /\ t \in Tenants
      /\ views[r] \in SUBSET Worlds /\ Served(r, q)
  BY <1>1, <1>2, TaskHere DEF AccessOK
<1>5. CASE q.memo[t].ok
  <2>1. PICK m, n : m = Read(q, t) /\ n = Set(m, i, "done", None)
    OBVIOUS
  <2>2. /\ m \in State /\ m.stage = q.stage /\ m.error = q.error /\ m.at = q.at
        /\ m.tenant = q.tenant /\ m.tasks = q.tasks /\ m.broken = q.broken
        /\ SameCall(q, m) /\ SameAnswer(q, m) /\ m.memo = q.memo
    BY <1>2, <1>4, <1>5, <2>1, ReadIs, AnswerIs DEF Sound
  <2>3. /\ n \in State /\ n.stage = m.stage /\ n.error = m.error /\ n.at = m.at /\ n.tenant = m.tenant
        /\ SameCall(m, n) /\ SameMemory(m, n) /\ SameAnswer(m, n) /\ n.broken = m.broken
        /\ DOMAIN n.tasks = DOMAIN m.tasks
        /\ n.tasks[i].st = "done"
        /\ \A j \in DOMAIN m.tasks \ {i} : n.tasks[j] = m.tasks[j]
    BY <1>2, <2>1, <2>2, SetIs
  <2>4. \A u \in Tenants : Settled(n, u) /\ ~n.memo[u].ok => n.broken
    BY <1>4, <2>2, <2>3 DEF Served, Blamed, Settled, SameMemory
  <2>5. Blamed(n)
    BY <1>2, <1>4, <2>2, <2>3, <2>4, SetBlamed DEF Served, SameCall
  <2>6. Go(r, n) /\ SameCall(q, n) /\ n.status = q.status
    BY <1>3, <1>5, <2>1, <2>2, <2>3 DEF SameCall, SameAnswer
  <2> QED BY <1>1, <1>4, <2>2, <2>3, <2>5, <2>6, StayFollows
<1>6. CASE ~q.memo[t].ok
  <2>1. PICK e, n : e = q.memo[t].error /\ n = Set(q, i, "failed", e)
    OBVIOUS
  <2>2. e \in Failures /\ e \in Errors /\ e # "AuthzDenied" /\ q.broken
    BY <1>2, <1>4, <1>6, <2>1, Words DEF Sound, Remembers, Served, Blamed
  <2>3. /\ n \in State /\ n.stage = q.stage /\ n.error = q.error /\ n.at = q.at /\ n.tenant = q.tenant
        /\ SameCall(q, n) /\ SameMemory(q, n) /\ SameAnswer(q, n) /\ n.broken = q.broken
        /\ DOMAIN n.tasks = DOMAIN q.tasks
        /\ n.tasks[i].st = "failed" /\ n.tasks[i].error = e
        /\ \A j \in DOMAIN q.tasks \ {i} : n.tasks[j] = q.tasks[j]
    <3>1. q \in State /\ i \in DOMAIN q.tasks /\ e \in Errors \cup {None} /\ n = Set(q, i, "failed", e)
      BY <1>2, <1>4, <2>1, <2>2
    <3> QED BY <3>1, SetIs
  <2>4. Blamed(n)
    BY <1>2, <1>4, <2>2, <2>3, SetBlamed DEF Served, SameCall
  <2>5. Go(r, n) /\ n.status = q.status
    BY <1>3, <1>6, <2>1, <2>3 DEF SameAnswer
  <2> QED BY <1>1, <1>4, <2>2, <2>3, <2>4, <2>5, StayFollows
<1> QED BY <1>5, <1>6

LEMMA FollowWrite ==
    ASSUME RequestOK, AccessOK, NEW r \in Requests, NEW i, Write(r, i) PROVE Follow(r)
<1>1. PICK q : q = req[r]
  OBVIOUS
<1>2. i \in DOMAIN q.tasks /\ Task(q, i).do = "write"
  BY <1>1 DEF Write, Waits
<1>3. q \in State /\ q.stage # "idle" /\ Served(r, q)
  BY <1>1, <1>2, TaskHere DEF AccessOK
<1>4. PICK s \in Settlements(i) \cup Replies({"P0001"}) : \E x, n :
          /\ s \in Replies({"P0001"}) =>
                Task(q, i).scope \notin Held(world, q.ctx.principal, Task(q, i).tenant)
          /\ IF s \in Replies({"P0001"}) THEN Quiet ELSE Spend(s)
          /\ s.ok => x = Set(q, i, "done", None)
          /\ ~s.ok /\ s.error = "AuthzDenied" /\ Denials => x = Set(q, i, "record", s.error)
          /\ ~s.ok /\ ~(s.error = "AuthzDenied" /\ Denials) => x = Set(q, i, "failed", s.error)
          /\ n = Mark(x, [ok |-> s.ok \/ s \in Replies({"P0001"})])
          /\ Go(r, n)
  BY <1>1, WriteIs
<1>5. PICK x, n :
          /\ s.ok => x = Set(q, i, "done", None)
          /\ ~s.ok /\ s.error = "AuthzDenied" /\ Denials => x = Set(q, i, "record", s.error)
          /\ ~s.ok /\ ~(s.error = "AuthzDenied" /\ Denials) => x = Set(q, i, "failed", s.error)
          /\ n = Mark(x, [ok |-> s.ok \/ s \in Replies({"P0001"})])
          /\ Go(r, n)
  BY <1>4
<1>6. ASSUME NEW st \in {"done", "record", "failed"}, NEW e \in Errors \cup {None},
             x = Set(q, i, st, e),
             st \in {"record", "failed"} =>
                 e = "AuthzDenied" \/ ~(s.ok \/ s \in Replies({"P0001"}))
      PROVE  Follow(r)
  <2>1. /\ x \in State /\ x.stage = q.stage /\ x.error = q.error /\ x.at = q.at /\ x.tenant = q.tenant
        /\ SameCall(q, x) /\ SameMemory(q, x) /\ SameAnswer(q, x) /\ x.broken = q.broken
        /\ DOMAIN x.tasks = DOMAIN q.tasks
        /\ x.tasks[i].st = st /\ x.tasks[i].error = e
        /\ \A j \in DOMAIN q.tasks \ {i} : x.tasks[j] = q.tasks[j]
    BY <1>2, <1>3, <1>6, SetIs
  <2>2. PICK settled : settled = [ok |-> s.ok \/ s \in Replies({"P0001"})]
    OBVIOUS
  <2>3. /\ n \in State /\ n.stage = x.stage /\ n.error = x.error /\ n.at = x.at /\ n.tenant = x.tenant
        /\ n.tasks = x.tasks /\ (n.broken <=> x.broken \/ ~settled.ok)
        /\ SameCall(x, n) /\ SameMemory(x, n) /\ SameAnswer(x, n)
    <3>1. x \in State
      BY <2>1
    <3>2. n = Mark(x, settled)
      BY <1>5, <2>2, Zenon
    <3> QED BY <3>1, <3>2, MarkIs
  <2>4. settled.ok <=> s.ok \/ s \in Replies({"P0001"})
    BY <2>2
  <2>5. SameCall(q, n) /\ n.status = q.status /\ (q.broken => n.broken) /\ n.memo = q.memo
    BY <2>1, <2>3 DEF SameCall, SameMemory, SameAnswer
  <2>6. \A u \in Tenants : Settled(n, u) /\ ~n.memo[u].ok => n.broken
    BY <1>3, <2>5 DEF Served, Blamed, Settled
  <2>7. st \in {"record", "failed"} => e = "AuthzDenied" \/ n.broken
    BY <1>6, <2>3, <2>4
  <2>8. Blamed(n)
    BY <1>2, <1>3, <2>1, <2>3, <2>5, <2>6, <2>7, SetBlamed DEF Served, SameCall
  <2> QED BY <1>1, <1>3, <1>5, <2>1, <2>3, <2>5, <2>8, StayFollows
<1>7. CASE s = Resolved(i)
  <2>1. s.ok
    BY <1>7 DEF Resolved
  <2> QED BY <1>5, <1>6, <2>1
<1>8. ASSUME NEW e \in Failures, s = Rejected(e) PROVE Follow(r)
  <2>1. ~s.ok /\ s.error = e /\ e # "AuthzDenied" /\ e \in Errors
    BY <1>8, RejectedIs, Words
  <2>2. s \notin Replies({"P0001"})
    BY <1>8, <2>1, Refuses, RejectedIs, Words
  <2> QED BY <1>5, <1>6, <2>1, <2>2
<1>9. CASE s = Rejected("AuthzDenied")
  <2>1. ~s.ok /\ s.error = "AuthzDenied" /\ "AuthzDenied" \in Errors
    BY <1>9, RejectedIs, Words
  <2> QED BY <1>5, <1>6, <2>1
<1> QED BY <1>4, <1>7, <1>8, <1>9, Settles, Refuses

LEMMA FollowRecordWriteDenial ==
    ASSUME RequestOK, AccessOK, NEW r \in Requests, NEW i, RecordWriteDenial(r, i) PROVE Follow(r)
<1>1. PICK q : q = req[r]
  OBVIOUS
<1>2. PICK e, n : e = q.tasks[i].error /\ n = Set(q, i, "failed", e)
  OBVIOUS
<1>3. i \in DOMAIN q.tasks /\ q.tasks[i].st = "record" /\ Go(r, n)
  BY <1>1, <1>2 DEF RecordWriteDenial
<1>4. Sound(r, q) /\ Served(r, q) /\ q \in State /\ q.stage # "idle"
  BY <1>1, <1>3, TaskHere DEF AccessOK
<1>5. e = "AuthzDenied" /\ e \in Errors \cup {None} /\ Task(q, i).do = "write"
  BY <1>2, <1>3, <1>4, Words DEF Sound, Tasked, Served, Blamed
<1>6. /\ n \in State /\ n.stage = q.stage /\ n.error = q.error /\ n.at = q.at /\ n.tenant = q.tenant
      /\ SameCall(q, n) /\ SameMemory(q, n) /\ SameAnswer(q, n) /\ n.broken = q.broken
      /\ DOMAIN n.tasks = DOMAIN q.tasks
      /\ n.tasks[i].st = "failed" /\ n.tasks[i].error = e
      /\ \A j \in DOMAIN q.tasks \ {i} : n.tasks[j] = q.tasks[j]
  BY <1>2, <1>3, <1>4, <1>5, SetIs
<1>7. \A u \in Tenants : Settled(n, u) /\ ~n.memo[u].ok => n.broken
  BY <1>4, <1>6 DEF Served, Blamed, Settled, SameMemory
<1>8. Blamed(n)
  BY <1>3, <1>4, <1>5, <1>6, <1>7, SetBlamed DEF Served, SameCall
<1> QED BY <1>1, <1>3, <1>4, <1>6, <1>8, StayFollows DEF SameAnswer

\* A request that has ended as n.
LEMMA EndFollows ==
    ASSUME RequestOK, AccessOK, NEW r \in Requests, NEW n, Go(r, n), n \in State,
           req[r].stage \in {"handler", "failed"}, n.stage = "answered", n.at = req[r].at,
           n.tenant = req[r].tenant, n.tasks = req[r].tasks, SameCall(req[r], n),
           n.memo = req[r].memo, n.broken = req[r].broken,
           n.status = IF req[r].stage = "handler" THEN 200 ELSE StatusFor(req[r])
    PROVE  Follow(r)
<1>1. PICK q : q = req[r]
  OBVIOUS
<1>2. Served(r, q) /\ Alike(q, n) /\ n.input = q.input
  BY <1>1 DEF AccessOK, Alike, SameCall
<1>3. Known(r, n) /\ Passed(r, n) /\ Blamed(n) /\ Explained(r, n)
  BY <1>1, <1>2, AlikeKnown, AlikeBlamed DEF Served, Explained
<1>4. Phase(n) = "answered"
  BY PhaseIs
<1>5. Ends(r, q, n)
  BY <1>1, <1>2, <1>4 DEF Ends
<1> QED BY <1>1, <1>3, <1>5, Following DEF Follows, Maps, Served

LEMMA FollowHandlerReturns ==
    ASSUME RequestOK, AccessOK, NEW r \in Requests, HandlerReturns(r) PROVE Follow(r)
<1>1. PICK q, answers, status : q = req[r] /\ answers = q.answers + 1 /\ status = 200
  OBVIOUS
<1>2. PICK n : n = [q EXCEPT !.stage = "answered", !.answers = answers, !.status = status]
  OBVIOUS
<1>3. q.stage = "handler" /\ Go(r, n)
  BY <1>1, <1>2 DEF HandlerReturns
<1>4. q \in State /\ answers \in Nat
  BY <1>1, Here DEF Fields
<1>5. "answered" \in Stages /\ status \in Statuses
  BY <1>1 DEF Stages, Statuses
<1>6. /\ n \in State /\ n.stage = "answered" /\ n.at = q.at /\ n.tenant = q.tenant
      /\ n.tasks = q.tasks /\ SameCall(q, n) /\ n.memo = q.memo /\ n.broken = q.broken
      /\ n.status = status
  BY <1>2, <1>4, <1>5 DEF State, SameCall
<1> QED BY <1>1, <1>3, <1>6, EndFollows

LEMMA FollowAnswer ==
    ASSUME RequestOK, AccessOK, NEW r \in Requests, Answer(r) PROVE Follow(r)
<1>1. PICK q, answers, status : q = req[r] /\ answers = q.answers + 1 /\ status = StatusFor(q)
  OBVIOUS
<1>2. PICK n : n = [q EXCEPT !.stage = "answered", !.answers = answers, !.status = status]
  OBVIOUS
<1>3. q.stage = "failed" /\ Go(r, n)
  BY <1>1, <1>2 DEF Answer, StatusFor
<1>4. q \in State /\ answers \in Nat
  BY <1>1, Here DEF Fields
<1>5. "answered" \in Stages /\ status \in Statuses
  BY <1>1, StatusIs DEF Stages, StatusFor
<1>6. /\ n \in State /\ n.stage = "answered" /\ n.at = q.at /\ n.tenant = q.tenant
      /\ n.tasks = q.tasks /\ SameCall(q, n) /\ n.memo = q.memo /\ n.broken = q.broken
      /\ n.status = status
  BY <1>2, <1>4, <1>5 DEF State, SameCall
<1> QED BY <1>1, <1>3, <1>6, EndFollows

LEMMA FollowHandlerThrows ==
    ASSUME RequestOK, AccessOK, NEW r \in Requests, HandlerThrows(r) PROVE Follow(r)
<1>1. PICK q : q = req[r]
  OBVIOUS
<1>2. PICK i \in DOMAIN q.tasks :
          q.tasks[i].st = "failed"
          /\ Go(r, [q EXCEPT !.stage = "failed", !.error = q.tasks[i].error])
  BY <1>1 DEF HandlerThrows
<1>3. PICK e, n : e = q.tasks[i].error /\ n = [q EXCEPT !.stage = "failed", !.error = e]
  OBVIOUS
<1>4. q.stage = "handler" /\ Go(r, n)
  BY <1>1, <1>2, <1>3 DEF HandlerThrows
<1>5. Sound(r, q) /\ Served(r, q) /\ q \in State /\ e \in Errors
  BY <1>1, <1>2, <1>3, <1>4, Here, Words DEF Sound, Tasked, AccessOK
<1>6. n = Fail(q, e)
  BY <1>3, <1>5, StateFields DEF Fail, Catch, Fields
<1>7. Fails(q, n, e) /\ n.broken = q.broken
  BY <1>5, <1>6, FailFails, FailBroken
<1>8. CASE e \in Failures
  <2>1. q.broken
    BY <1>2, <1>3, <1>5, <1>8, Words DEF Served, Blamed
  <2> QED BY <1>1, <1>4, <1>7, <1>8, <2>1, FailHalts, HaltFollows DEF Reason
<1>9. CASE e = "AuthzDenied" /\ Lacked(r, Demand(q, i), q.ctx.principal, Task(q, i).tenant)
  <2>1. Task(q, i).do = "write" /\ i \in DOMAIN RouteOf(q).tasks /\ q.ctx # None
    BY <1>1, <1>2, <1>3, <1>5, <1>9, TaskHere DEF Served, Blamed
  <2>2. q.at > Len(RouteOf(q).guards)
    <3>1. RouteOf(q).guards \in Seq(GuardsMade)
      BY <1>1, <1>4, Here, Made DEF RouteOf
    <3> QED BY <1>4, <1>5, <3>1 DEF Sound, Placed
  <2>3. WriteSays(r, q, e)
    BY <1>9, <2>1, <2>2 DEF WriteSays
  <2> QED BY <1>1, <1>4, <1>7, <2>3, FailHalts, HaltFollows DEF Reason
<1> QED BY <1>2, <1>3, <1>5, <1>8, <1>9 DEF Sound, Tasked

LEMMA FollowLateRejection ==
    ASSUME RequestOK, AccessOK, NEW r \in Requests, NEW k \in 0 .. req[r].at, LateRejection(r, k)
    PROVE  Follow(r)
<1>1. PICK q : q = req[r]
  OBVIOUS
<1>2. k < q.at /\ Go(r, q)
  BY <1>1 DEF LateRejection, Catch
<1>3. Sound(r, q) /\ q \in State
  BY <1>1, Here
<1>4. q.stage # "idle"
  <2>1. Idle.at = 0
    BY DEF Idle
  <2> QED BY <1>1, <1>2, <1>3, <2>1, StateFields DEF Sound, Placed, Fields
<1>5. Blamed(q)
  BY <1>1, <1>4 DEF AccessOK, Served
<1> QED BY <1>1, <1>2, <1>3, <1>4, <1>5, StayFollows DEF SameCall

LEMMA FollowStep ==
    ASSUME RequestOK, AccessOK, NEW r \in Requests, Step(r) PROVE Follow(r)
<1>1. CASE ResolveNobody(r) \/ ResolveApiKey(r) \/ ResolveBearer(r)
  BY <1>1, FollowResolveNobody, FollowResolveApiKey, FollowResolveBearer
<1>2. CASE NotInstalled(r) \/ Unauthenticated(r) \/ Unmapped(r) \/ TooWeak(r)
  BY <1>2, FollowNotInstalled, FollowUnauthenticated, FollowUnmapped, FollowTooWeak
<1>3. CASE PassIdentity(r) \/ ResolveTenant(r) \/ Check(r) \/ RecordDenial(r)
  BY <1>3, FollowPassIdentity, FollowResolveTenant, FollowCheck, FollowRecordDenial
<1>4. ASSUME NEW t \in Tenants, Query(r, t) PROVE Follow(r)
  BY <1>4, FollowQuery
<1>5. ASSUME NEW i, Begin(r, i) \/ Has(r, i) \/ Write(r, i) \/ RecordWriteDenial(r, i) PROVE Follow(r)
  BY <1>5, FollowBegin, FollowHas, FollowWrite, FollowRecordWriteDenial
<1>6. CASE HandlerReturns(r) \/ HandlerThrows(r) \/ Answer(r)
  BY <1>6, FollowHandlerReturns, FollowHandlerThrows, FollowAnswer
<1> QED BY <1>1, <1>2, <1>3, <1>4, <1>5, <1>6, Zenon DEF Step

-----------------------------------------------------------------------------
(* Arrivals, changes and the theorem *)

\* Nothing is known of a request that arrives, and nothing need be.
LEMMA FreshServed ==
    ASSUME NEW r \in Requests, NEW in \in Inputs[r], NEW n, n = Fresh(in)
    PROVE  /\ n \in State /\ n.input = in /\ n.stage \notin {"idle", "answered"}
           /\ n.status = None /\ ~n.broken /\ Phase(n) = "open" /\ Served(r, n)'
<1>1. PICK q : q = [Idle EXCEPT !.input = in]
  OBVIOUS
<1>2. Idle.status = None /\ Idle.broken = FALSE
  BY DEF Idle
<1>3. /\ q \in State /\ q.input = in /\ q.at = 0 /\ q.ctx = None /\ q.status = None /\ ~q.broken
      /\ q.tasks = << >>
  BY <1>1, <1>2, IdleIs DEF State
<1>4. in # None /\ in.route.guards \in Seq(GuardsMade)
  BY Made
<1>5. RouteOf(q).guards = in.route.guards
  BY <1>3 DEF RouteOf
<1>6. /\ n \in State /\ n.input = in /\ n.ctx = None /\ n.status = None /\ ~n.broken
      /\ \/ n.stage = "resolve" /\ n.at = 0 /\ in.route.mounted
         \/ n.stage = "guard" /\ n.at = 1 /\ ~in.route.mounted /\ in.route.guards # << >>
  <2>1. CASE in.route.mounted
    <3>1. n = [q EXCEPT !.stage = "resolve"] /\ "resolve" \in Stages
      BY <1>1, <2>1 DEF Stages, Fresh
    <3> QED BY <1>3, <2>1, <3>1 DEF State
  <2>2. CASE ~in.route.mounted
    <3>1. in.route.guards # << >>
      BY <2>2, Made
    <3>2. n = Enter(q, 1) /\ q.input \in Inputs[r] /\ 1 <= Len(RouteOf(q).guards)
      BY <1>1, <1>3, <1>4, <1>5, <2>2, <3>1 DEF Fresh
    <3>3. /\ n \in State /\ n.at = 1 /\ n.stage = "guard" /\ (n.broken <=> q.broken)
          /\ SameCall(q, n) /\ SameAnswer(q, n)
      BY <1>3, <3>2, EnterIs
    <3> QED BY <1>3, <2>2, <3>1, <3>3 DEF SameCall, SameAnswer
  <2> QED BY <2>1, <2>2
<1>7. RouteOf(n).guards = in.route.guards /\ Len(in.route.guards) \in Nat
  BY <1>4, <1>6 DEF RouteOf
<1>8. Phase(n) = "open"
  <2>1. ~(n.at > Len(RouteOf(n).guards)) /\ n.stage \notin {"idle", "answered"}
    BY <1>4, <1>6, <1>7
  <2> QED BY <2>1, PhaseIs
<1>9. Known(r, n)'
  BY <1>6 DEF Known
<1>10. Passed(r, n)'
  <2>1. ASSUME NEW j \in DOMAIN in.route.guards PROVE ~(j < n.at)
    BY <1>4, <1>6
  <2> QED BY <1>6, <1>7, <2>1 DEF Passed
<1>11. Blamed(n)'
  <2>1. n.memo = Idle.memo /\ n.tasks = << >>
    BY FreshSound
  <2> QED BY <2>1, IdleIs DEF Blamed, Settled
<1>12. Explained(r, n)'
  BY <1>6 DEF Explained
<1> QED BY <1>6, <1>8, <1>9, <1>10, <1>11, <1>12 DEF Served

LEMMA FollowArrive ==
    ASSUME RequestOK, AccessOK, NEW r \in Requests, Arrive(r) PROVE Follow(r)
<1>1. PICK in \in Inputs[r] : req' = [req EXCEPT ![r] = Fresh(in)]
  BY DEF Arrive, Fresh
<1>2. PICK n : n = Fresh(in) /\ req' = [req EXCEPT ![r] = n]
  BY <1>1
<1>3. /\ views' = [views EXCEPT ![r] = {world}] /\ req[r].stage = "idle" /\ world' = world
  BY DEF Arrive
<1>4. /\ n \in State /\ n.input = in /\ n.stage \notin {"idle", "answered"}
      /\ n.status = None /\ ~n.broken /\ Phase(n) = "open" /\ Served(r, n)'
  BY <1>2, FreshServed
<1>5. req[r] = Idle /\ Idle.status = None /\ Idle.broken = FALSE
  <2>1. Idle.status = None /\ Idle.broken = FALSE
    BY DEF Idle
  <2> QED BY <1>3, <2>1, Here DEF Sound, Placed
<1>6. /\ req'[r] = n
      /\ \A o \in Requests : o # r => req'[o] = req[o] /\ views'[o] = views[o]
  BY <1>2, <1>3 DEF RequestOK
<1>7. ASSUME NEW o \in Requests, req'[o].stage # "idle" PROVE Served(o, req[o])'
  <2>1. CASE o = r
    BY <1>4, <1>6, <2>1
  <2>2. CASE o # r
    BY <1>6, <1>7, <2>2, ServedBeside
  <2> QED BY <2>1, <2>2
<1>8. Abstract!Open(r)
  <2>1. PICK phase, input, status, broken : Viewed(phase, input, status, broken)
    BY Zenon DEF Viewed
  <2>2. Viewing(r, n, phase, input, status, broken)
    BY <1>2, <2>1, Views
  <2>3. phase[r] = "idle" /\ status[r] = n.status /\ r \notin broken
    BY <1>3, <1>4, <1>5, <2>2, PhaseIs DEF Viewing
  <2>4. /\ [o \in Requests |-> Phase(req[o])]' = [phase EXCEPT ![r] = "open"]
        /\ [o \in Requests |-> req[o].input]' = [input EXCEPT ![r] = in]
        /\ [o \in Requests |-> req[o].status]' = status
        /\ {o \in Requests : req[o].broken}' = broken
    BY <1>4, <2>2, <2>3 DEF Viewing
  <2> QED BY <1>3, <2>1, <2>3, <2>4 DEF Abstract!Open, Viewed
<1> QED BY <1>7, <1>8 DEF Follow, AccessOK, Abstract!Next

LEMMA FollowChange == ASSUME RequestOK, AccessOK, Change PROVE AccessOK' /\ Abstract!Next
<1>1. /\ views' = [r \in Requests |-> IF req[r].stage = "idle" THEN {} ELSE views[r] \cup {world'}]
      /\ req' = req
  BY DEF Change
<1>2. world' \in Worlds
  BY KeptChange DEF RequestOK
<1>3. ASSUME NEW o \in Requests, req'[o].stage # "idle" PROVE Served(o, req[o])'
  BY <1>1, <1>3, ServedBeside
<1>4. Abstract!Change
  <2>1. PICK phase, input, status, broken : Viewed(phase, input, status, broken)
    BY Zenon DEF Viewed
  <2>2. /\ [o \in Requests |-> Phase(req[o])]' = phase
        /\ [o \in Requests |-> req[o].input]' = input
        /\ [o \in Requests |-> req[o].status]' = status
        /\ {o \in Requests : req[o].broken}' = broken
    BY <1>1, <2>1 DEF Viewed
  <2>3. ASSUME NEW o \in Requests PROVE phase[o] = "idle" <=> req[o].stage = "idle"
    BY <2>1, PhaseIs DEF Viewed
  <2>4. views' = [o \in Requests |-> IF phase[o] = "idle" THEN {} ELSE views[o] \cup {world'}]
    BY <1>1, <2>3
  <2>5. world' \in Abstract!Worlds
    BY <1>2 DEF Abstract!Worlds, Worlds
  <2> QED BY <2>1, <2>2, <2>4, <2>5 DEF Abstract!Change, Viewed
<1> QED BY <1>3, <1>4 DEF AccessOK, Abstract!Next

LEMMA FollowInit == Init => AccessOK /\ Abstract!Init
<1> SUFFICES ASSUME Init PROVE AccessOK /\ Abstract!Init
  OBVIOUS
<1>1. world \in Worlds /\ views = [r \in Requests |-> {}] /\ req = [r \in Requests |-> Idle]
  BY RequestBounds DEF Init
<1>2. Idle.stage = "idle" /\ Phase(Idle) = "idle" /\ Idle.input = None
  BY IdleIs, PhaseIs
<1>3. Idle.status = None /\ Idle.broken = FALSE
  BY DEF Idle
<1>4. \A o \in Requests : req[o] = Idle
  BY <1>1
<1>5. AccessOK
  BY <1>2, <1>4 DEF AccessOK
<1>6. /\ [o \in Requests |-> Phase(req[o])] = [o \in Requests |-> "idle"]
      /\ [o \in Requests |-> req[o].input] = [o \in Requests |-> None]
      /\ [o \in Requests |-> req[o].status] = [o \in Requests |-> None]
      /\ {o \in Requests : req[o].broken} = {}
  BY <1>2, <1>3, <1>4
<1>7. world \in Abstract!Worlds
  BY <1>1 DEF Abstract!Worlds, Worlds
<1> QED BY <1>1, <1>5, <1>6, <1>7 DEF Abstract!Init

LEMMA FollowNext ==
    ASSUME RequestOK, AccessOK, [Next]_vars PROVE AccessOK' /\ [Abstract!Next]_(Abstract!vars)
<1>1. ASSUME NEW r \in Requests, Arrive(r) PROVE AccessOK' /\ [Abstract!Next]_(Abstract!vars)
  BY <1>1, FollowArrive DEF Follow
<1>2. ASSUME NEW r \in Requests, Step(r) PROVE AccessOK' /\ [Abstract!Next]_(Abstract!vars)
  BY <1>2, FollowStep DEF Follow
<1>3. ASSUME NEW r \in Requests, NEW k \in 0 .. req[r].at, LateRejection(r, k)
      PROVE  AccessOK' /\ [Abstract!Next]_(Abstract!vars)
  BY <1>3, FollowLateRejection DEF Follow
<1>4. CASE Change
  BY <1>4, FollowChange
<1>5. CASE UNCHANGED vars
  <2>1. world' = world /\ views' = views /\ req' = req
    BY <1>5 DEF vars
  <2>2. ASSUME NEW o \in Requests, req'[o].stage # "idle" PROVE Served(o, req[o])'
    BY <2>1, <2>2, ServedBeside
  <2>3. UNCHANGED Abstract!vars
    <3>1. PICK phase, input, status, broken : Viewed(phase, input, status, broken)
      BY Zenon DEF Viewed
    <3>2. /\ [o \in Requests |-> Phase(req[o])]' = phase
          /\ [o \in Requests |-> req[o].input]' = input
          /\ [o \in Requests |-> req[o].status]' = status
          /\ {o \in Requests : req[o].broken}' = broken
      BY <2>1, <3>1 DEF Viewed
    <3> QED BY <2>1, <3>1, <3>2 DEF Abstract!vars, Viewed
  <2> QED BY <2>2, <2>3 DEF AccessOK
<1> QED BY <1>1, <1>2, <1>3, <1>4, <1>5, Zenon DEF Next

\* Express, Fastify and the core implement Access (guard.ts, async.ts,
\* context.ts, writes.ts): for any routes and any number of requests, however
\* their steps interleave with each other's, with changes of the database and
\* with failing calls, a handler runs only for somebody whom the credential
\* named and who met every guard at a moment since the request arrived; each
\* refusal was true of such a moment; and only a failure is answered as one.
THEOREM PipelineImplementsAccess == Spec => ImplementsAccess
<1>1. RequestOK /\ AccessOK /\ [Next]_vars => AccessOK' /\ [Abstract!Next]_(Abstract!vars)
  BY FollowNext
<1>2. Spec => []AccessOK
  BY Invariant, FollowInit, <1>1, PTL DEF Spec
<1> QED BY Invariant, FollowInit, <1>1, <1>2, PTL DEF Spec, ImplementsAccess, Abstract!Spec
=============================================================================
