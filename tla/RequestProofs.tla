---------------------------- MODULE RequestProofs ----------------------------
(***************************************************************************)
(* Theorems about a request, for any routes, any number of requests at     *)
(* once and any changes of what the database would answer: its guards and  *)
(* its handler see one moment of each tenant, its refusals reach the log,  *)
(* the log holds refusals only, and it is answered once.                   *)
(***************************************************************************)
EXTENDS Request, TLAPS

-----------------------------------------------------------------------------
(* The invariant *)

Contexts ==
    [principal : Principals \cup {None}, kind : Kinds, presented : BOOLEAN, aal : Aals]

Rows ==
    [request : Requests \cup {None}, of : Requests, origin : Nat,
     action : Functions \cup {"authenticate", "authorize"},
     actor : Principals \cup {None}, tenant : Tenants \cup {None}]

TaskStates == [st : {"todo", "wait", "record", "done", "failed"}, error : Errors \cup {None}]

Statuses == {None, 200, 400, 401, 403, 500}

State ==
    [stage : Stages, input : (UNION {Inputs[r] : r \in Requests}) \cup {None}, at : Nat,
     ctx : Contexts \cup {None}, tenant : Tenants \cup {None}, error : Errors \cup {None},
     status : Statuses, answers : Nat, refusal : Rows \cup {None},
     memo : [Tenants -> Settlement \cup {None}], asked : [Tenants -> Nat],
     tasks : Seq(TaskStates), told : SUBSET (Tenants \X SUBSET ScopeNames), broken : BOOLEAN]

\* A call that failed, as anything but a refusal.
Failures == {"AuthzState", "AuthzConflict", "AuthzUsage", "AuthzConfig", "Error"}

Refusals == {"Forbidden", "MfaRequired"}

Answered(q) == q.stage = "answered"

\* Where a request may be at each stage, and what it has by then.
Placed(q) ==
    /\ q.stage = "idle" => q = Idle
    /\ q.stage # "idle" => q.input # None
    /\ q.stage = "resolve" => q.at = 0
    /\ q.stage \in {"idle", "resolve"} => q.ctx = None
    /\ q.stage \in {"guard", "check", "record"} => q.at \in DOMAIN RouteOf(q).guards
    /\ q.stage \in {"check", "record", "handler"} => q.ctx # None
    /\ q.stage = "check" =>
           /\ q.ctx.principal # None /\ q.tenant # None /\ q.memo[q.tenant] # None
           /\ GuardOf(q).check # "none"
    /\ q.stage = "handler" => q.at = Len(RouteOf(q).guards) + 1
    /\ q.stage \notin {"record", "failed", "answered"} => q.error = None

\* It is answered once; only a handler has tasks.
Counted(q) ==
    /\ q.answers = IF Answered(q) THEN 1 ELSE 0
    /\ q.tasks # << >> =>
           /\ q.stage \in {"handler", "failed", "answered"} /\ q.ctx # None
           /\ DOMAIN q.tasks = DOMAIN RouteOf(q).tasks
    /\ q.stage = "handler" => DOMAIN q.tasks = DOMAIN RouteOf(q).tasks

\* A tenant is asked about once, by a request that has a context; what it is
\* told is what it was answered, and that was so at a moment since it came.
Remembers(r, q) ==
    /\ \A t \in Tenants :
          /\ q.asked[t] <= 1 /\ (~Settled(q, t) => q.asked[t] = 0)
          /\ q.memo[t] # None => q.ctx # None
          /\ Settled(q, t) /\ q.memo[t].ok =>
                \E v \in views[r] : q.memo[t].value = Held(v, q.ctx.principal, t)
          /\ Settled(q, t) /\ ~q.memo[t].ok => q.memo[t].error \in Failures
    /\ \A a \in q.told : Settled(q, a[1]) /\ q.memo[a[1]].ok /\ a[2] = q.memo[a[1]].value

\* Since request r came, p did not meet guard g at t.
Lacked(r, g, p, t) == \E v \in views[r] : ~Abstract!Authorized(g, Held(v, p, t))

Demand(q, i) == RequireScope(Task(q, i).scope, FALSE)

\* A task that was refused lacked the scope.
Tasked(r, q) ==
    \A i \in DOMAIN q.tasks :
        /\ q.tasks[i].st \in {"record", "failed"} =>
              \/ q.tasks[i].st = "failed" /\ q.tasks[i].error \in Failures
              \/ /\ q.tasks[i].error = "AuthzDenied"
                 /\ Lacked(r, Demand(q, i), q.ctx.principal, Task(q, i).tenant)
        /\ q.tasks[i].st = "record" => Denials

\* A row that tells of guard q.at's refusal.
RowOfGuard(r, q, row) ==
    /\ row \in Rows /\ row.of = r /\ row.origin = 0 /\ row.request \in {None, r}
    /\ row.actor = q.ctx.principal
    /\ row.tenant # None => row.tenant = q.tenant /\ Lacked(r, GuardOf(q), row.actor, row.tenant)

RowOfTask(r, q, row) ==
    /\ row \in Rows /\ row.of = r /\ row.request \in {None, r}
    /\ row.actor = q.ctx.principal
    /\ row.origin \in DOMAIN q.tasks
    /\ q.tasks[row.origin].st = "failed" /\ q.tasks[row.origin].error = "AuthzDenied"
    /\ row.tenant \in {None, Task(q, row.origin).tenant}

Refused(r, q) ==
    q.stage = "record" => Denials /\ q.error \in Refusals /\ RowOfGuard(r, q, q.refusal)

Sound(r, q) ==
    /\ q \in State /\ (q.input # None => q.input \in Inputs[r])
    /\ Placed(q) /\ Counted(q) /\ Remembers(r, q) /\ Tasked(r, q) /\ Refused(r, q)

\* A row of request r is of a refusal that has gone on to the caller.
Recorded(r, q, row) ==
    /\ Denials /\ q.ctx # None
    /\ \/ RowOfTask(r, q, row)
       \/ /\ RowOfGuard(r, q, row)
          /\ q.stage \in {"failed", "answered"} /\ q.error \in Refusals

\* A refusal that has gone on to the caller has its row, or its report.
Delivered(r, q) ==
    Denials =>
        /\ q.stage \in {"failed", "answered"} /\ q.error \in Refusals => Logged(r, 0)
        /\ \A i \in DOMAIN q.tasks :
              q.tasks[i].st = "failed" /\ q.tasks[i].error = "AuthzDenied" => Logged(r, i)

Seen(r, q) ==
    /\ views[r] \in SUBSET Worlds
    /\ q.stage # "idle" => world \in views[r]

RequestOK ==
    /\ world \in Worlds /\ views \in [Requests -> SUBSET Worlds] /\ req \in [Requests -> State]
    /\ faults \in 0 .. MaxFaults /\ changes \in 0 .. MaxChanges
    /\ reported \subseteq Requests \X Nat /\ audit \subseteq Rows
    /\ \A r \in Requests :
          Seen(r, req[r]) /\ Sound(r, req[r]) /\ Delivered(r, req[r])
    /\ \A row \in audit : Recorded(row.of, req[row.of], row)

-----------------------------------------------------------------------------
(* Calls and inputs *)

LEMMA Words ==
    /\ Failures \subseteq Errors /\ Refusals \subseteq Errors /\ "AuthzDenied" \in Errors
    /\ None \notin Errors /\ Failures \cap Refusals = {}
    /\ "AuthzDenied" \notin Failures \cup Refusals
    /\ {"Unauthenticated", "TenantRequired", "MiddlewareNotInstalled", "Error"} \subseteq Errors
BY NullIsNoWord DEF Failures, Refusals, Errors, HttpErrors, AuthKitErrors

LEMMA TypedFailure == ASSUME NEW c, c # "P0001" PROVE TypedError(c) \in Failures
BY DEF TypedError, Failures

\* Both transports reject with the typed error of a code.
LEMMA TransportIs ==
    ASSUME NEW way \in Transports, NEW v, NEW c
    PROVE  Transport(way, [value |-> v, code |-> c]) =
               IF c = None THEN Resolved(v) ELSE Rejected(TypedError(c))
BY DEF Transport, Transports, Typed, FromQuery, FromSupabase, Resolved, Rejected

\* A call answers, or fails while failures last.
LEMMA Settles ==
    ASSUME NEW v, NEW s \in Settlements(v)
    PROVE  \/ s = Resolved(v)
           \/ faults < MaxFaults /\ \E e \in Failures : s = Rejected(e)
<1>1. CASE \E way \in Transports : s = Transport(way, [value |-> v, code |-> None])
  BY <1>1, TransportIs
<1>2. ASSUME faults < MaxFaults, s \in Replies(FailCodes)
      PROVE  \E e \in Failures : s = Rejected(e)
  <2> DEFINE F(way, c) == Transport(way, [value |-> None, code |-> c])
  <2>1. Replies(FailCodes) = {F(way, c) : way \in Transports, c \in FailCodes}
    BY DEF Replies
  <2> HIDE DEF F
  <2>2. PICK way \in Transports, c \in FailCodes : s = F(way, c)
    BY <1>2, <2>1
  <2>3. s = Transport(way, [value |-> None, code |-> c])
    BY <2>2 DEF F
  <2>4. c # None /\ c # "P0001"
    BY FailuresFail
  <2> QED BY <2>3, <2>4, TransportIs, TypedFailure
<1> QED BY <1>1, <1>2 DEF Settlements

\* The SQL guard's refusal.
LEMMA Refuses ==
    ASSUME NEW s PROVE s \in Replies({"P0001"}) <=> s = Rejected("AuthzDenied")
<1>1. "P0001" # None
  BY NullIsNoWord
<1>2. TypedError("P0001") = "AuthzDenied" /\ "query" \in Transports
  BY DEF TypedError, Transports
<1> QED BY <1>1, <1>2, TransportIs DEF Replies

LEMMA RejectedIs ==
    ASSUME NEW e \in Errors, NEW v
    PROVE  /\ Rejected(e).error = e /\ ~Rejected(e).ok /\ Rejected(e) # Pending
           /\ Rejected(e) # Resolved(v) /\ Resolved(v).ok /\ Resolved(v).value = v
           /\ Resolved(v) # Pending
BY Words DEF Rejected, Resolved, Pending

\* Null is neither a settlement nor a context.
LEMMA NoRecord == None \notin Settlement /\ None \notin Contexts
BY NullIsNoRecord DEF Settlement, Errors, Contexts

\* Guards and tasks, without their types in full.
GuardsMade ==
    [check : {"none", "all", "any"}, scopes : SUBSET ScopeNames,
     aal2 : BOOLEAN, allowApiKeys : BOOLEAN]
TasksMade == [do : {"has", "write"}, fn : Functions, tenant : Tenants, scope : ScopeNames]

LEMMA Made ==
    ASSUME NEW r \in Requests, NEW in \in Inputs[r]
    PROVE  /\ in # None /\ in.headers.apiKey \in Seq(Keys)
           /\ in.route.guards \in Seq(GuardsMade) /\ in.route.tasks \in Seq(TasksMade)
           /\ in.route.mounted \/ in.route.guards # << >>
           /\ (\E i \in DOMAIN in.route.tasks : in.route.tasks[i].do = "write")
                  => in.route.guards # << >>
BY InputsAreMade DEF GuardsMade, TasksMade

LEMMA TaskMade ==
    ASSUME NEW r \in Requests, NEW q, q.input \in Inputs[r], NEW i \in DOMAIN RouteOf(q).tasks
    PROVE  /\ Task(q, i).do \in {"has", "write"} /\ Task(q, i).fn \in Functions
           /\ Task(q, i).tenant \in Tenants /\ Task(q, i).scope \in ScopeNames
           /\ i \in Nat /\ i > 0
<1>1. q.input.route.tasks \in Seq(TasksMade)
  BY Made
<1>2. q.input.route.tasks[i] \in TasksMade /\ i \in Nat /\ i > 0
  BY <1>1 DEF RouteOf
<1> QED BY <1>2 DEF TasksMade, Task, RouteOf

LEMMA GuardMade ==
    ASSUME NEW r \in Requests, NEW q, q.input \in Inputs[r], q.at \in DOMAIN RouteOf(q).guards
    PROVE  /\ GuardOf(q).check \in {"none", "all", "any"} /\ GuardOf(q).scopes \subseteq ScopeNames
           /\ q.at \in Nat /\ q.at > 0 /\ RouteOf(q).guards # << >>
<1>1. q.input.route.guards \in Seq(GuardsMade)
  BY Made
<1>2. q.input.route.guards[q.at] \in GuardsMade /\ q.at \in Nat /\ q.at > 0
  BY <1>1 DEF RouteOf
<1>3. RouteOf(q).guards # << >>
  BY <1>1 DEF RouteOf
<1> QED BY <1>2, <1>3 DEF GuardsMade, GuardOf, RouteOf

LEMMA HeldTyped ==
    ASSUME NEW w \in Worlds, NEW p, NEW t \in Tenants
    PROVE  Held(w, p, t) \in SUBSET ScopeNames /\ (p = None => Held(w, p, t) = {})
BY NullIsNoId DEF Held, Worlds

-----------------------------------------------------------------------------
(* What the helpers change *)

SameCall(q, n) == n.input = q.input /\ n.ctx = q.ctx
SameMemory(q, n) == n.memo = q.memo /\ n.asked = q.asked /\ n.told = q.told
SameAnswer(q, n) == n.answers = q.answers /\ n.status = q.status

\* Every field is of its type.
Fields(q) ==
    /\ q.stage \in Stages /\ q.at \in Nat
    /\ q.tenant \in Tenants \cup {None} /\ q.error \in Errors \cup {None}
    /\ q.answers \in Nat /\ q.status \in Statuses
    /\ q.ctx \in Contexts \cup {None}
    /\ q.refusal \in Rows \cup {None}
    /\ q.memo \in [Tenants -> Settlement \cup {None}] /\ q.asked \in [Tenants -> Nat]
    /\ q.tasks \in Seq(TaskStates) /\ q.told \in SUBSET (Tenants \X SUBSET ScopeNames)

LEMMA StateFields == ASSUME NEW q \in State PROVE Fields(q)
BY DEF State, Fields

LEMMA FailIs ==
    ASSUME NEW q \in State, NEW e \in Errors, NEW n, n = Fail(q, e)
    PROVE  /\ n \in State /\ n.stage = "failed" /\ n.error = e
           /\ n.at = q.at /\ n.tenant = q.tenant /\ n.tasks = q.tasks /\ n.refusal = q.refusal
           /\ n.broken = q.broken /\ SameCall(q, n) /\ SameMemory(q, n) /\ SameAnswer(q, n)
<1>1. n = [q EXCEPT !.stage = "failed", !.error = e]
  BY StateFields DEF Fail, Catch, Fields
<1>2. "failed" \in Stages
  BY DEF Stages
<1> QED BY <1>1, <1>2 DEF State, SameCall, SameMemory, SameAnswer

LEMMA MarkIs ==
    ASSUME NEW q \in State, NEW s, NEW n, n = Mark(q, s)
    PROVE  /\ n \in State /\ n.stage = q.stage /\ n.error = q.error
           /\ n.at = q.at /\ n.tenant = q.tenant /\ n.tasks = q.tasks /\ n.refusal = q.refusal
           /\ n.broken <=> q.broken \/ ~s.ok
           /\ SameCall(q, n) /\ SameMemory(q, n) /\ SameAnswer(q, n)
<1>1. PICK b \in BOOLEAN : b = (q.broken \/ ~s.ok)
  OBVIOUS
<1>2. n = [q EXCEPT !.broken = b]
  BY <1>1 DEF Mark
<1> QED BY <1>1, <1>2 DEF State, SameCall, SameMemory, SameAnswer

\* The tasks of a handler that has done nothing.
Todo(q) == [i \in DOMAIN RouteOf(q).tasks |-> [st |-> "todo", error |-> None]]

LEMMA TodoIs ==
    ASSUME NEW r \in Requests, NEW q, q.input \in Inputs[r]
    PROVE  /\ Todo(q) \in Seq(TaskStates) /\ DOMAIN Todo(q) = DOMAIN RouteOf(q).tasks
           /\ \A i \in DOMAIN Todo(q) : Todo(q)[i] = [st |-> "todo", error |-> None]
<1>1. PICK k \in Nat : DOMAIN RouteOf(q).tasks = 1 .. k
  BY Made DEF RouteOf
<1>2. [st |-> "todo", error |-> None] \in TaskStates
  BY DEF TaskStates
<1>3. PICK none \in TaskStates : none = [st |-> "todo", error |-> None]
  BY <1>2
<1>4. Todo(q) = [i \in 1 .. k |-> none]
  BY <1>1, <1>3 DEF Todo
<1> QED BY <1>1, <1>3, <1>4

LEMMA EnterIs ==
    ASSUME NEW r \in Requests, NEW q \in State, q.input \in Inputs[r], NEW k \in Nat,
           NEW n, n = Enter(q, k)
    PROVE  /\ n \in State /\ n.at = k
           /\ k <= Len(RouteOf(q).guards) => n.stage = "guard" /\ n.tasks = << >>
           /\ k > Len(RouteOf(q).guards) => n.stage = "handler" /\ n.tasks = Todo(q)
           /\ n.error = q.error /\ n.tenant = q.tenant /\ n.refusal = q.refusal
           /\ n.broken = q.broken /\ SameCall(q, n) /\ SameMemory(q, n) /\ SameAnswer(q, n)
<1>1. Len(RouteOf(q).guards) \in Nat
  BY Made DEF RouteOf
<1>2. PICK stage, tasks :
          /\ stage = IF k > Len(RouteOf(q).guards) THEN "handler" ELSE "guard"
          /\ tasks = IF k > Len(RouteOf(q).guards) THEN Todo(q) ELSE << >>
  OBVIOUS
<1>3. n = [q EXCEPT !.at = k, !.stage = stage, !.tasks = tasks]
  BY <1>2 DEF Enter, Todo
<1>4. stage \in Stages /\ tasks \in Seq(TaskStates)
  BY <1>2, TodoIs DEF Stages
<1>5. /\ n \in State /\ n.at = k /\ n.stage = stage /\ n.tasks = tasks
      /\ n.error = q.error /\ n.tenant = q.tenant /\ n.refusal = q.refusal
      /\ n.broken = q.broken /\ SameCall(q, n) /\ SameMemory(q, n) /\ SameAnswer(q, n)
  BY <1>3, <1>4 DEF State, SameCall, SameMemory, SameAnswer
<1> QED BY <1>1, <1>2, <1>5

LEMMA AttachIs ==
    ASSUME NEW r \in Requests, NEW q \in State, q.input \in Inputs[r], NEW c \in Contexts,
           NEW n, n = Attach(q, c)
    PROVE  /\ n \in State /\ n.at = 1 /\ n.ctx = c
           /\ RouteOf(q).guards # << >> => n.stage = "guard" /\ n.tasks = << >>
           /\ RouteOf(q).guards = << >> => n.stage = "handler" /\ n.tasks = Todo(q)
           /\ n.error = q.error /\ n.tenant = q.tenant /\ n.refusal = q.refusal
           /\ n.input = q.input
           /\ n.broken = q.broken /\ SameMemory(q, n) /\ SameAnswer(q, n)
<1>1. PICK m : m = [q EXCEPT !.ctx = c]
  OBVIOUS
<1>2. /\ m \in State /\ m.ctx = c /\ m.input = q.input /\ m.error = q.error /\ m.tenant = q.tenant
      /\ m.refusal = q.refusal /\ m.broken = q.broken /\ SameMemory(q, m) /\ SameAnswer(q, m)
  BY <1>1 DEF State, SameMemory, SameAnswer
<1>3. n = Enter(m, 1) /\ RouteOf(m) = RouteOf(q) /\ Todo(m) = Todo(q)
  BY <1>1, <1>2 DEF Attach, RouteOf, Todo
<1>4. RouteOf(q).guards \in Seq(GuardsMade)
  BY Made DEF RouteOf
<1>5. /\ RouteOf(q).guards # << >> => 1 <= Len(RouteOf(q).guards)
      /\ RouteOf(q).guards = << >> => 1 > Len(RouteOf(q).guards)
  BY <1>4
<1> QED BY <1>2, <1>3, <1>5, EnterIs DEF SameCall, SameMemory, SameAnswer

\* The answer that asking about t leaves in the memo.
Asked(q, t) == IF q.ctx.principal = None THEN Resolved({}) ELSE Pending

LEMMA AnswersTyped ==
    /\ Pending \in Settlement /\ \A S \in SUBSET ScopeNames : Resolved(S) \in Settlement
    /\ \A e \in Errors : Rejected(e) \in Settlement
BY DEF Pending, Resolved, Rejected, Settlement

LEMMA AskIs ==
    ASSUME NEW q \in State, NEW t \in Tenants, NEW n, n = Ask(q, t)
    PROVE  /\ n \in State /\ n.stage = q.stage /\ n.error = q.error
           /\ n.at = q.at /\ n.tenant = q.tenant /\ n.tasks = q.tasks /\ n.refusal = q.refusal
           /\ n.broken = q.broken /\ SameCall(q, n) /\ SameAnswer(q, n)
           /\ n.asked = q.asked /\ n.told = q.told
           /\ \A u \in Tenants : n.memo[u] =
                 IF u = t /\ q.memo[t] = None THEN Asked(q, t) ELSE q.memo[u]
<1>1. CASE q.memo[t] # None
  BY <1>1 DEF Ask, SameCall, SameAnswer
<1>2. CASE q.memo[t] = None
  <2>1. PICK a \in Settlement : a = Asked(q, t)
    BY AnswersTyped DEF Asked
  <2>2. PICK memo : memo = [q.memo EXCEPT ![t] = a]
    OBVIOUS
  <2>3. memo \in [Tenants -> Settlement \cup {None}]
    BY <2>1, <2>2, StateFields DEF Fields
  <2>4. n = [q EXCEPT !.memo = memo]
    BY <1>2, <2>1, <2>2 DEF Ask, Asked
  <2>5. n \in State /\ n.memo = memo
    BY <2>3, <2>4 DEF State
  <2>6. \A u \in Tenants : memo[u] = IF u = t THEN Asked(q, t) ELSE q.memo[u]
    BY <2>1, <2>2, StateFields DEF Fields
  <2> QED BY <1>2, <2>4, <2>5, <2>6 DEF State, SameCall, SameAnswer
<1> QED BY <1>1, <1>2

LEMMA ReadIs ==
    ASSUME NEW q \in State, NEW t \in Tenants, q.memo[t].value \in SUBSET ScopeNames,
           NEW n, n = Read(q, t)
    PROVE  /\ n \in State /\ n.stage = q.stage /\ n.error = q.error
           /\ n.at = q.at /\ n.tenant = q.tenant /\ n.tasks = q.tasks /\ n.refusal = q.refusal
           /\ n.broken = q.broken /\ SameCall(q, n) /\ SameAnswer(q, n)
           /\ n.memo = q.memo /\ n.asked = q.asked
           /\ n.told = q.told \cup {<<t, q.memo[t].value>>}
<1>1. PICK told : told = q.told \cup {<<t, q.memo[t].value>>}
  OBVIOUS
<1>2. told \in SUBSET (Tenants \X SUBSET ScopeNames)
  BY <1>1, StateFields DEF Fields
<1>3. n = [q EXCEPT !.told = told]
  BY <1>1 DEF Read
<1> QED BY <1>1, <1>2, <1>3 DEF State, SameCall, SameAnswer

LEMMA SetIs ==
    ASSUME NEW q \in State, NEW i \in DOMAIN q.tasks,
           NEW st \in {"todo", "wait", "record", "done", "failed"}, NEW e \in Errors \cup {None},
           NEW n, n = Set(q, i, st, e)
    PROVE  /\ n \in State /\ n.stage = q.stage /\ n.error = q.error
           /\ n.at = q.at /\ n.tenant = q.tenant /\ n.refusal = q.refusal
           /\ n.broken = q.broken /\ SameCall(q, n) /\ SameMemory(q, n) /\ SameAnswer(q, n)
           /\ DOMAIN n.tasks = DOMAIN q.tasks /\ n.tasks # << >>
           /\ n.tasks[i].st = st /\ n.tasks[i].error = e
           /\ \A j \in DOMAIN q.tasks \ {i} : n.tasks[j] = q.tasks[j]
<1>1. PICK x \in TaskStates : x = [st |-> st, error |-> e]
  BY DEF TaskStates
<1>2. PICK tasks : tasks = [q.tasks EXCEPT ![i] = x]
  OBVIOUS
<1>3. /\ tasks \in Seq(TaskStates) /\ DOMAIN tasks = DOMAIN q.tasks /\ tasks[i] = x
      /\ \A j \in DOMAIN q.tasks \ {i} : tasks[j] = q.tasks[j]
  BY <1>2, StateFields DEF Fields
<1>4. tasks # << >>
  BY <1>3
<1>5. n = [q EXCEPT !.tasks = tasks]
  BY <1>1, <1>2 DEF Set
<1>6. /\ n \in State /\ n.tasks = tasks /\ n.stage = q.stage /\ n.error = q.error
      /\ n.at = q.at /\ n.tenant = q.tenant /\ n.refusal = q.refusal
      /\ n.broken = q.broken /\ SameCall(q, n) /\ SameMemory(q, n) /\ SameAnswer(q, n)
  BY <1>3, <1>5 DEF State, SameCall, SameMemory, SameAnswer
<1>7. x.st = st /\ x.error = e
  BY <1>1
<1> QED BY <1>3, <1>4, <1>6, <1>7

-----------------------------------------------------------------------------
(* From one request to all *)

LEMMA Carried ==
    ASSUME NEW r, NEW q, NEW n, n.ctx = q.ctx, SameMemory(q, n), Remembers(r, q)
    PROVE  Remembers(r, n)
BY DEF SameMemory, Remembers, Settled

LEMMA CarriedTasks ==
    ASSUME NEW r, NEW q, NEW n, n.tasks = q.tasks, SameCall(q, n), Tasked(r, q)
    PROVE  Tasked(r, n)
BY DEF SameCall, Tasked, Demand, Task, RouteOf

\* What is sound stays so: a request never forgets what it has seen.
LEMMA SoundKept ==
    ASSUME NEW r \in Requests, NEW q, Sound(r, q), views[r] \subseteq views'[r] PROVE Sound(r, q)'
BY DEF Sound, Remembers, Tasked, Refused, RowOfGuard, Lacked

LEMMA RecordedKept ==
    ASSUME NEW r \in Requests, NEW q, NEW row, Recorded(r, q, row), views[r] \subseteq views'[r]
    PROVE  Recorded(r, q, row)'
BY DEF Recorded, RowOfGuard, RowOfTask, Lacked

LEMMA DeliveredKept ==
    ASSUME NEW r \in Requests, NEW q, Delivered(r, q),
           audit \subseteq audit', reported \subseteq reported'
    PROVE  Delivered(r, q)'
BY DEF Delivered, Logged

\* Request r goes on, and nobody's rows are lost.
LEMMA Goes ==
    ASSUME RequestOK, NEW r \in Requests, NEW n, Go(r, n), Sound(r, n),
           req[r].stage # "idle", n.stage # "idle", faults' \in 0 .. MaxFaults,
           audit \subseteq audit', audit' \subseteq Rows,
           reported \subseteq reported', reported' \subseteq Requests \X Nat,
           \A row \in audit' : IF row.of = r THEN Recorded(r, n, row) ELSE row \in audit,
           Delivered(r, n)'
    PROVE  RequestOK'
<1>1. /\ world' = world /\ views' = views /\ changes' = changes
      /\ req' = [req EXCEPT ![r] = n] /\ n \in State
  BY DEF Go, Sound
<1>2. req'[r] = n /\ (\A o \in Requests \ {r} : req'[o] = req[o]) /\ req' \in [Requests -> State]
  BY <1>1 DEF RequestOK
<1>3. ASSUME NEW o \in Requests PROVE (Seen(o, req[o]) /\ Sound(o, req[o]) /\ Delivered(o, req[o]))'
  <2>1. CASE o = r
    BY <1>1, <1>2, <2>1, SoundKept DEF RequestOK, Seen
  <2>2. CASE o # r
    <3>1. PICK q : q = req[o] /\ q = req'[o]
      BY <1>2, <2>2
    <3>2. Sound(o, q)' /\ Delivered(o, q)' /\ Seen(o, q)'
      BY <1>1, <3>1, SoundKept, DeliveredKept DEF RequestOK, Seen
    <3> QED BY <3>1, <3>2
  <2> QED BY <2>1, <2>2
<1>4. ASSUME NEW row \in audit' PROVE Recorded(row.of, req[row.of], row)'
  <2>1. row.of \in Requests
    BY DEF Rows
  <2>2. PICK q : q = req'[row.of]
    OBVIOUS
  <2>3. Recorded(row.of, q, row)
    BY <1>2, <2>1, <2>2 DEF RequestOK
  <2> QED BY <1>1, <2>1, <2>2, <2>3, RecordedKept
<1> QED BY <1>1, <1>2, <1>3, <1>4 DEF RequestOK

\* What the log says of q, it may say of n.
Tells(q, n) ==
    /\ n.input = q.input /\ (q.ctx # None => n.ctx = q.ctx)
    /\ q.stage \in {"failed", "answered"} =>
           /\ n.stage \in {"failed", "answered"} /\ n.error = q.error
           /\ n.tenant = q.tenant /\ n.at = q.at
    /\ \A i \in DOMAIN q.tasks : q.tasks[i].st = "failed" =>
           i \in DOMAIN n.tasks /\ n.tasks[i] = q.tasks[i]
    /\ n.stage \in {"failed", "answered"} /\ n.error \in Refusals /\ Denials =>
           q.stage \in {"failed", "answered"} /\ q.error \in Refusals
    /\ \A i \in DOMAIN n.tasks :
           n.tasks[i].st = "failed" /\ n.tasks[i].error = "AuthzDenied" /\ Denials =>
               i \in DOMAIN q.tasks /\ q.tasks[i].st = "failed" /\ q.tasks[i].error = "AuthzDenied"

LEMMA GoesQuietly ==
    ASSUME RequestOK, NEW r \in Requests, NEW n, Go(r, n), Sound(r, n), Tells(req[r], n),
           req[r].stage # "idle", n.stage # "idle", faults' \in 0 .. MaxFaults,
           UNCHANGED <<audit, reported>>
    PROVE  RequestOK'
<1>1. PICK q : q = req[r]
  OBVIOUS
<1>2. Sound(r, q) /\ Delivered(r, q)
  BY <1>1 DEF RequestOK
<1>3. ASSUME NEW row \in audit, row.of = r PROVE Recorded(r, n, row)
  <2>1. Recorded(r, q, row) /\ n.ctx = q.ctx /\ n.input = q.input
    BY <1>1, <1>3 DEF RequestOK, Recorded, Tells
  <2>2. CASE RowOfTask(r, q, row)
    BY <1>1, <2>1, <2>2 DEF Tells, Recorded, RowOfTask, Task, RouteOf
  <2>3. CASE RowOfGuard(r, q, row) /\ q.stage \in {"failed", "answered"} /\ q.error \in Refusals
    BY <1>1, <2>1, <2>3 DEF Tells, Recorded, RowOfGuard, GuardOf, RouteOf
  <2> QED BY <2>1, <2>2, <2>3 DEF Recorded
<1>4. Delivered(r, n)'
  BY <1>1, <1>2 DEF Delivered, Tells, Logged
<1> QED BY <1>3, <1>4, Goes DEF RequestOK

-----------------------------------------------------------------------------
(* The steps of a request *)

LEMMA Here ==
    ASSUME RequestOK, NEW r \in Requests
    PROVE  /\ Sound(r, req[r]) /\ req[r] \in State /\ Seen(r, req[r]) /\ world \in Worlds
           /\ Fields(req[r]) /\ faults \in 0 .. MaxFaults /\ MaxFaults \in Nat
           /\ req[r].stage # "idle" => req[r].input \in Inputs[r]
BY StateFields, RequestBounds DEF RequestOK, Sound, Placed

LEMMA Spends ==
    ASSUME RequestOK, NEW v, NEW s \in Settlements(v), Spend(s)
    PROVE  faults' \in 0 .. MaxFaults /\ UNCHANGED <<audit, reported>>
BY Settles, RejectedIs, Words, RequestBounds DEF Spend, RequestOK, Resolved

\* n is q, failed with e.
Fails(q, n, e) ==
    /\ n \in State /\ n.stage = "failed" /\ n.error = e
    /\ n.at = q.at /\ n.tenant = q.tenant /\ n.tasks = q.tasks /\ n.refusal = q.refusal
    /\ SameCall(q, n) /\ SameMemory(q, n) /\ SameAnswer(q, n)

LEMMA FailFails ==
    ASSUME NEW q \in State, NEW e \in Errors
    PROVE  Fails(q, Fail(q, e), e) /\ \A s : Fails(q, Mark(Fail(q, e), s), e)
<1>1. PICK n : n = Fail(q, e)
  OBVIOUS
<1>2. Fails(q, n, e)
  BY <1>1, FailIs DEF Fails
<1>3. ASSUME NEW s PROVE Fails(q, Mark(n, s), e)
  <2>1. PICK m : m = Mark(n, s)
    OBVIOUS
  <2>2. n \in State
    BY <1>2 DEF Fails
  <2>3. /\ m \in State /\ m.stage = n.stage /\ m.error = n.error /\ m.at = n.at
        /\ m.tenant = n.tenant /\ m.tasks = n.tasks /\ m.refusal = n.refusal
        /\ SameCall(n, m) /\ SameMemory(n, m) /\ SameAnswer(n, m)
    BY <2>1, <2>2, MarkIs
  <2>4. Fails(q, m, e)
    BY <1>2, <2>3 DEF Fails, SameCall, SameMemory, SameAnswer
  <2> QED BY <2>1, <2>4
<1> QED BY <1>1, <1>2, <1>3

LEMMA FailSound ==
    ASSUME NEW r \in Requests, NEW q, NEW n, NEW e \in Errors, Sound(r, q), Fails(q, n, e),
           q.stage \notin {"idle", "answered"}
    PROVE  Sound(r, n)
<1>1. Placed(n) /\ Refused(r, n)
  BY DEF Sound, Placed, Fails, Refused, SameCall, RouteOf
<1>2. Counted(n)
  BY DEF Sound, Counted, Fails, SameCall, SameAnswer, RouteOf, Answered
<1>3. Remembers(r, n) /\ Tasked(r, n)
  BY Carried, CarriedTasks DEF Sound, Fails, SameCall
<1> QED BY <1>1, <1>2, <1>3 DEF Sound, Fails, SameCall

\* A failure before the handler, which is no refusal that is recorded.
LEMMA Failing ==
    ASSUME RequestOK, NEW r \in Requests, NEW n, NEW e \in Errors, Go(r, n),
           Fails(req[r], n, e), req[r].stage \in {"resolve", "guard", "check"},
           e \notin Refusals \/ ~Denials,
           faults' \in 0 .. MaxFaults, UNCHANGED <<audit, reported>>
    PROVE  RequestOK'
<1>1. PICK q : q = req[r]
  OBVIOUS
<1>2. Sound(r, q)
  BY <1>1, Here
<1>3. Sound(r, n)
  BY <1>1, <1>2, FailSound
<1>4. q.tasks = << >>
  BY <1>1, <1>2 DEF Sound, Counted
<1>5. Tells(q, n) /\ n.stage # "idle"
  BY <1>1, <1>4 DEF Tells, Fails, SameCall
<1> QED BY <1>1, <1>3, <1>5, GoesQuietly

\* A step that adds no refusal, of a request that has not ended.
LEMMA Going ==
    ASSUME RequestOK, NEW r \in Requests, NEW n, Go(r, n), Sound(r, n),
           req[r].stage \in {"resolve", "guard", "check"}, n.input = req[r].input,
           n.stage \in {"resolve", "guard", "check", "handler", "record"},
           req[r].ctx # None => n.ctx = req[r].ctx,
           \A i \in DOMAIN n.tasks : n.tasks[i].st # "failed",
           faults' \in 0 .. MaxFaults, UNCHANGED <<audit, reported>>
    PROVE  RequestOK'
<1>1. PICK q : q = req[r]
  OBVIOUS
<1>2. q.tasks = << >>
  BY <1>1, Here DEF Sound, Counted
<1>3. Tells(q, n) /\ n.stage # "idle"
  BY <1>1, <1>2 DEF Tells
<1> QED BY <1>1, <1>3, GoesQuietly

LEMMA AttachSound ==
    ASSUME NEW r \in Requests, NEW q, Sound(r, q), q.stage = "resolve",
           NEW c \in Contexts, NEW n, n = Attach(q, c)
    PROVE  /\ Sound(r, n) /\ n.input = q.input /\ n.stage \in {"guard", "handler"}
           /\ \A i \in DOMAIN n.tasks : n.tasks[i].st = "todo"
<1>1. q \in State /\ q.input \in Inputs[r] /\ c # None
  BY NoRecord DEF Sound, Placed
<1>2. /\ n \in State /\ n.at = 1 /\ n.ctx = c
      /\ RouteOf(q).guards # << >> => n.stage = "guard" /\ n.tasks = << >>
      /\ RouteOf(q).guards = << >> => n.stage = "handler" /\ n.tasks = Todo(q)
      /\ n.error = q.error /\ n.input = q.input
      /\ SameMemory(q, n) /\ SameAnswer(q, n)
  BY <1>1, AttachIs
<1>3. RouteOf(q).guards \in Seq(GuardsMade)
  BY <1>1, Made DEF RouteOf
<1>4. /\ RouteOf(q).guards # << >> => 1 \in DOMAIN RouteOf(q).guards
      /\ RouteOf(q).guards = << >> => Len(RouteOf(q).guards) = 0
  BY <1>3
<1>5. RouteOf(n) = RouteOf(q) /\ n.input # None
  BY <1>1, <1>2, Made DEF RouteOf
<1>6. Placed(n)
  BY <1>1, <1>2, <1>4, <1>5 DEF Placed, Sound
<1>7. Counted(n)
  BY <1>1, <1>2, <1>4, <1>5, TodoIs DEF Counted, Sound, Answered, SameAnswer
<1>8. Remembers(r, n)
  <2>1. \A t \in Tenants : q.memo[t] = None
    BY DEF Sound, Placed, Remembers
  <2>2. \A t \in Tenants : ~Settled(q, t)
    BY <2>1 DEF Settled
  <2>3. \A a \in q.told : a[1] \in Tenants
    BY <1>1, StateFields DEF Fields
  <2>4. q.told = {}
    BY <2>2, <2>3 DEF Sound, Remembers
  <2> QED BY <1>2, <2>1, <2>2, <2>4 DEF Sound, Remembers, SameMemory, Settled
<1>9. \A i \in DOMAIN n.tasks : n.tasks[i].st = "todo"
  BY <1>1, <1>2, <1>4, TodoIs
<1>10. Tasked(r, n) /\ Refused(r, n)
  BY <1>2, <1>4, <1>9 DEF Tasked, Refused
<1> QED BY <1>1, <1>2, <1>4, <1>6, <1>7, <1>8, <1>9, <1>10 DEF Sound

LEMMA Attaching ==
    ASSUME RequestOK, NEW r \in Requests, req[r].stage = "resolve", NEW c \in Contexts,
           Go(r, Attach(req[r], c)), faults' \in 0 .. MaxFaults, UNCHANGED <<audit, reported>>
    PROVE  RequestOK'
<1>1. PICK q, n : q = req[r] /\ n = Attach(q, c)
  OBVIOUS
<1>2. /\ Sound(r, n) /\ n.input = q.input /\ n.stage \in {"guard", "handler"}
      /\ \A i \in DOMAIN n.tasks : n.tasks[i].st = "todo"
  BY <1>1, Here, AttachSound
<1>3. q.ctx = None
  BY <1>1, Here DEF Sound, Placed
<1> QED BY <1>1, <1>2, <1>3, Going

LEMMA CredentialsMade ==
    ASSUME NEW r \in Requests, NEW q, q.input \in Inputs[r]
    PROVE  Credentials(q).apiKey \in Keys \cup {None}
BY Made DEF Credentials, CredentialsFromHeaders

LEMMA KeptResolveNobody == ASSUME RequestOK, NEW r \in Requests, ResolveNobody(r) PROVE RequestOK'
<1>1. req[r].stage = "resolve" /\ Go(r, Attach(req[r], Nobody)) /\ Quiet
  BY DEF ResolveNobody
<1>2. Nobody \in Contexts
  BY DEF Nobody, Contexts, Kinds, Aals
<1> QED BY <1>1, <1>2, Here, Attaching DEF Quiet

LEMMA ResolutionIs ==
    ASSUME NEW p \in Principals \cup {None}, NEW kind \in Kinds, NEW aal \in Aals
    PROVE  Resolution(p, kind, aal) \in Contexts
BY DEF Resolution, Contexts, Kinds, Aals

\* Whether a credential is known or not, or the call fails.
LEMMA Identifying ==
    ASSUME RequestOK, NEW r \in Requests, req[r].stage = "resolve",
           NEW id \in Keys \cup Accounts, NEW kind \in Kinds, NEW aal \in Aals,
           Identify(r, id, kind, aal)
    PROVE  RequestOK'
<1>1. PICK owner : owner = world.owner[id]
  OBVIOUS
<1>2. PICK s \in Settlements(owner) :
          /\ Go(r, IF s.ok THEN Attach(req[r], Resolution(s.value, kind, aal))
                   ELSE Mark(Fail(req[r], s.error), s))
          /\ Spend(s)
  BY <1>1 DEF Identify
<1>3. owner \in Principals \cup {None}
  BY <1>1, Here DEF Worlds
<1>4. faults' \in 0 .. MaxFaults /\ UNCHANGED <<audit, reported>>
  BY <1>2, Spends
<1>5. CASE s = Resolved(owner)
  <2>1. s.ok /\ s.value = owner
    BY <1>5 DEF Resolved
  <2> QED BY <1>2, <1>3, <1>4, <2>1, Attaching, ResolutionIs
<1>6. ASSUME NEW e \in Failures, s = Rejected(e) PROVE RequestOK'
  <2>1. ~s.ok /\ s.error = e /\ e \in Errors /\ e \notin Refusals
    BY <1>6, RejectedIs, Words
  <2>2. PICK n : n = Mark(Fail(req[r], e), s)
    OBVIOUS
  <2>3. Go(r, n) /\ Fails(req[r], n, e)
    BY <1>2, <2>1, <2>2, FailFails, Here
  <2> QED BY <1>4, <2>1, <2>3, Failing
<1> QED BY <1>5, <1>6, Settles

LEMMA KeptResolveApiKey == ASSUME RequestOK, NEW r \in Requests, ResolveApiKey(r) PROVE RequestOK'
<1>1. PICK key : key = Credentials(req[r]).apiKey
  OBVIOUS
<1>2. req[r].stage = "resolve" /\ key # None /\ Identify(r, key, "api_key", None)
  BY <1>1 DEF ResolveApiKey
<1>3. key \in Keys /\ "api_key" \in Kinds /\ None \in Aals
  BY <1>1, <1>2, Here, CredentialsMade DEF Kinds, Aals
<1> QED BY <1>2, <1>3, Identifying

\* What becomes of a token.
LEMMA VerifyIs ==
    ASSUME NEW token
    PROVE  \/ VerifyBearer(token) = Resolved(None)
           \/ VerifyBearer(token) = Rejected("Error")
           \/ /\ VerifyBearer(token) =
                     Resolved([authUserId |-> token.sub, aal |-> AalFromClaim(token.aal)])
              /\ token.sub \in Accounts /\ AalFromClaim(token.aal) \in Aals
<1>1. AalFromClaim(token.aal) \in Aals
  BY DEF AalFromClaim, Aals
<1> QED BY <1>1, Zenon DEF VerifyBearer

LEMMA KeptResolveBearer == ASSUME RequestOK, NEW r \in Requests, ResolveBearer(r) PROVE RequestOK'
<1>1. PICK q, v, token : /\ q = req[r] /\ v = VerifyBearer(token)
                         /\ token = Credentials(q).bearer
  OBVIOUS
<1>2. q.stage = "resolve"
  BY <1>1 DEF ResolveBearer
<1>3. \/ ~v.ok /\ Go(r, Mark(Fail(q, v.error), v)) /\ Quiet
      \/ v = Resolved(None) /\ Go(r, Attach(q, Resolution(None, "user", None))) /\ Quiet
      \/ v.ok /\ v.value # None /\ Identify(r, v.value.authUserId, "user", v.value.aal)
  BY <1>1, Zenon DEF ResolveBearer
<1>4. CASE v = Resolved(None)
  <2>1. v.ok /\ v.value = None
    BY <1>4 DEF Resolved
  <2>2. Resolution(None, "user", None) \in Contexts
    BY ResolutionIs DEF Kinds, Aals
  <2> QED BY <1>1, <1>2, <1>3, <2>1, <2>2, Attaching, Here DEF Quiet
<1>5. CASE v = Rejected("Error")
  <2>1. PICK n : n = Mark(Fail(q, "Error"), v)
    OBVIOUS
  <2>2. ~v.ok /\ v.error = "Error" /\ "Error" \in Errors \ Refusals /\ v # Resolved(None)
    BY <1>5, RejectedIs, Words DEF Refusals
  <2>3. Go(r, n) /\ Quiet /\ Fails(q, n, "Error")
    BY <1>1, <1>3, <2>1, <2>2, FailFails, Here
  <2> QED BY <1>1, <1>2, <2>2, <2>3, Failing, Here DEF Quiet
<1>6. CASE \E x : /\ v = Resolved(x) /\ x.authUserId \in Accounts /\ x.aal \in Aals
                  /\ v # Resolved(None)
  <2>1. PICK x : v = Resolved(x) /\ x.authUserId \in Accounts /\ x.aal \in Aals /\ v # Resolved(None)
    BY <1>6
  <2>2. v.ok /\ v.value = x
    BY <2>1 DEF Resolved
  <2>3. Identify(r, x.authUserId, "user", x.aal) /\ "user" \in Kinds
    BY <1>3, <2>1, <2>2 DEF Kinds
  <2> QED BY <1>1, <1>2, <2>1, <2>3, Identifying
<1>7. ASSUME v # Resolved(None), v # Rejected("Error")
      PROVE  \E x : v = Resolved(x) /\ x.authUserId \in Accounts /\ x.aal \in Aals
  <2>1. PICK x : x = [authUserId |-> token.sub, aal |-> AalFromClaim(token.aal)]
    OBVIOUS
  <2>2. v = Resolved(x) /\ x.authUserId \in Accounts /\ x.aal \in Aals
    BY <1>1, <1>7, <2>1, VerifyIs
  <2> QED BY <2>2
<1> QED BY <1>4, <1>5, <1>6, <1>7

LEMMA KeptNotInstalled == ASSUME RequestOK, NEW r \in Requests, NotInstalled(r) PROVE RequestOK'
<1>1. PICK n : n = Fail(req[r], "MiddlewareNotInstalled")
  OBVIOUS
<1>2. "MiddlewareNotInstalled" \in Errors \ Refusals
  BY Words DEF Refusals
<1>3. req[r].stage = "guard" /\ Go(r, n) /\ Quiet /\ Fails(req[r], n, "MiddlewareNotInstalled")
  BY <1>1, <1>2, FailFails, Here DEF NotInstalled
<1> QED BY <1>2, <1>3, Failing, Here DEF Quiet

LEMMA KeptUnauthenticated ==
    ASSUME RequestOK, NEW r \in Requests, Unauthenticated(r) PROVE RequestOK'
<1>1. PICK n : n = Fail(req[r], "Unauthenticated")
  OBVIOUS
<1>2. "Unauthenticated" \in Errors \ Refusals
  BY Words DEF Refusals
<1>3. req[r].stage = "guard" /\ Go(r, n) /\ Quiet /\ Fails(req[r], n, "Unauthenticated")
  BY <1>1, <1>2, FailFails, Here DEF Unauthenticated, Guarding
<1> QED BY <1>2, <1>3, Failing, Here DEF Quiet

LEMMA DenialIs ==
    ASSUME NEW r \in Requests, NEW origin \in Nat, NEW tenant \in Tenants \cup {None},
           NEW action \in Functions \cup {"authenticate", "authorize"},
           req[r].ctx \in Contexts, NEW row, row = Denial(r, origin, action, tenant)
    PROVE  /\ row \in Rows /\ row.of = r /\ row.origin = origin /\ row.request \in {None, r}
           /\ row.actor = req[r].ctx.principal /\ row.tenant = tenant
<1>1. PICK p, c : p = req[r].ctx.principal /\ c = RequestContext(r)
  OBVIOUS
<1>2. p \in Principals \cup {None} /\ c \in {None, r}
  BY <1>1 DEF Contexts, RequestContext
<1>3. row = [request |-> c, of |-> r, origin |-> origin, action |-> action,
             actor |-> p, tenant |-> tenant]
  BY <1>1 DEF Denial
<1> QED BY <1>1, <1>2, <1>3 DEF Rows

\* A guard refuses: the row is to be written, or nobody wants rows.
LEMMA Denying ==
    ASSUME RequestOK, NEW r \in Requests, req[r].stage \in {"guard", "check"}, req[r].ctx # None,
           NEW q, Sound(r, q), q.stage = req[r].stage, SameCall(req[r], q),
           NEW e \in Refusals, NEW row, RowOfGuard(r, q, row),
           Go(r, Deny(q, e, row)), Quiet
    PROVE  RequestOK'
<1>1. PICK n : n = Deny(q, e, row)
  OBVIOUS
<1>2. q \in State /\ e \in Errors /\ row \in Rows /\ "record" \in Stages /\ q.ctx # None
  BY Words DEF Sound, RowOfGuard, Stages, SameCall
<1>3. q.tasks = << >> /\ req[r].tasks = << >> /\ q.answers = 0
  BY Here DEF Sound, Counted, Answered
<1>4. CASE ~Denials
  <2>1. Fails(q, n, e)
    BY <1>1, <1>2, <1>4, FailFails DEF Deny
  <2>2. Sound(r, n)
    BY <1>2, <2>1, FailSound
  <2>3. Tells(req[r], n) /\ n.stage # "idle"
    BY <1>3, <1>4, <2>1 DEF Tells, Fails, SameCall
  <2> QED BY <1>1, <2>2, <2>3, GoesQuietly, Here DEF Quiet
<1>5. CASE Denials
  <2>1. n = [q EXCEPT !.stage = "record", !.error = e, !.refusal = row]
    BY <1>1, <1>5 DEF Deny
  <2>2. /\ n \in State /\ n.stage = "record" /\ n.error = e /\ n.refusal = row
        /\ n.at = q.at /\ n.tenant = q.tenant /\ n.tasks = q.tasks
        /\ SameCall(q, n) /\ SameMemory(q, n) /\ SameAnswer(q, n)
    BY <1>2, <2>1 DEF State, SameCall, SameMemory, SameAnswer
  <2>3. Placed(n)
    BY <1>2, <2>2 DEF Sound, Placed, SameCall, RouteOf
  <2>4. Counted(n)
    BY <1>3, <2>2 DEF Counted, Answered, SameAnswer
  <2>5. Remembers(r, n) /\ Tasked(r, n)
    BY <2>2, Carried, CarriedTasks DEF Sound, SameCall
  <2>6. Refused(r, n)
    BY <1>5, <2>2 DEF Refused, RowOfGuard, SameCall, GuardOf, RouteOf
  <2>7. Sound(r, n)
    BY <2>2, <2>3, <2>4, <2>5, <2>6 DEF Sound, SameCall
  <2> QED BY <1>1, <1>3, <2>2, <2>7, Going, Here DEF Quiet, SameCall
<1> QED BY <1>4, <1>5

LEMMA KeptUnmapped == ASSUME RequestOK, NEW r \in Requests, Unmapped(r) PROVE RequestOK'
<1>1. PICK q, row : q = req[r] /\ row = Denial(r, 0, "authenticate", None)
  OBVIOUS
<1>2. /\ q.stage = "guard" /\ q.ctx # None /\ Go(r, Deny(q, "Forbidden", row)) /\ Quiet
      /\ "Forbidden" \in Refusals
  BY <1>1 DEF Unmapped, Guarding, Refusals
<1>3. q.ctx \in Contexts /\ Sound(r, q)
  BY <1>1, <1>2, Here DEF Fields
<1>4. RowOfGuard(r, q, row)
  BY <1>1, <1>3, DenialIs DEF RowOfGuard
<1> QED BY <1>1, <1>2, <1>3, <1>4, Denying DEF SameCall

LEMMA KeptTooWeak == ASSUME RequestOK, NEW r \in Requests, TooWeak(r) PROVE RequestOK'
<1>1. PICK q, row, e : /\ q = req[r] /\ row = Denial(r, 0, "authorize", None)
                       /\ e = IF q.ctx.kind = "api_key" THEN "Forbidden" ELSE "MfaRequired"
  OBVIOUS
<1>2. q.stage = "guard" /\ q.ctx # None /\ Go(r, Deny(q, e, row)) /\ Quiet /\ e \in Refusals
  BY <1>1 DEF TooWeak, Identified, Guarding, Refusals
<1>3. q.ctx \in Contexts /\ Sound(r, q)
  BY <1>1, <1>2, Here DEF Fields
<1>4. RowOfGuard(r, q, row)
  BY <1>1, <1>3, DenialIs DEF RowOfGuard
<1> QED BY <1>1, <1>2, <1>3, <1>4, Denying DEF SameCall

\* The next guard runs, or the handler.
LEMMA EnterSound ==
    ASSUME NEW r \in Requests, NEW q, Sound(r, q), q.stage \in {"guard", "check"}, q.ctx # None,
           NEW n, n = Enter(q, q.at + 1)
    PROVE  /\ Sound(r, n) /\ SameCall(q, n) /\ n.stage \in {"guard", "handler"}
           /\ \A i \in DOMAIN n.tasks : n.tasks[i].st = "todo"
<1>1. /\ q \in State /\ q.input \in Inputs[r] /\ q.at \in DOMAIN RouteOf(q).guards
      /\ q.at + 1 \in Nat
  BY StateFields DEF Sound, Placed, Fields
<1>2. RouteOf(q).guards \in Seq(GuardsMade) /\ q.input # None
  BY <1>1, Made DEF RouteOf
<1>3. \/ q.at + 1 \in DOMAIN RouteOf(q).guards /\ q.at + 1 <= Len(RouteOf(q).guards)
      \/ q.at + 1 = Len(RouteOf(q).guards) + 1 /\ q.at + 1 > Len(RouteOf(q).guards)
  BY <1>1, <1>2
<1>4. /\ n \in State /\ n.at = q.at + 1
      /\ q.at + 1 <= Len(RouteOf(q).guards) => n.stage = "guard" /\ n.tasks = << >>
      /\ q.at + 1 > Len(RouteOf(q).guards) => n.stage = "handler" /\ n.tasks = Todo(q)
      /\ n.error = q.error /\ SameCall(q, n) /\ SameMemory(q, n) /\ SameAnswer(q, n)
  BY <1>1, EnterIs
<1>5. RouteOf(n) = RouteOf(q)
  BY <1>4 DEF RouteOf, SameCall
<1>6. Placed(n)
  BY <1>2, <1>3, <1>4, <1>5 DEF Placed, Sound, SameCall
<1>7. Counted(n)
  BY <1>1, <1>3, <1>4, <1>5, TodoIs DEF Counted, Sound, Answered, SameAnswer, SameCall
<1>8. Remembers(r, n)
  BY <1>4, Carried DEF Sound, SameCall
<1>9. \A i \in DOMAIN n.tasks : n.tasks[i].st = "todo"
  BY <1>1, <1>3, <1>4, TodoIs
<1>10. Tasked(r, n) /\ Refused(r, n)
  BY <1>3, <1>4, <1>9 DEF Tasked, Refused
<1> QED BY <1>1, <1>3, <1>4, <1>6, <1>7, <1>8, <1>9, <1>10 DEF Sound, SameCall

LEMMA KeptPassIdentity == ASSUME RequestOK, NEW r \in Requests, PassIdentity(r) PROVE RequestOK'
<1>1. PICK q, n : q = req[r] /\ n = Enter(q, q.at + 1)
  OBVIOUS
<1>2. q.stage = "guard" /\ q.ctx # None /\ Go(r, n) /\ Quiet
  BY <1>1 DEF PassIdentity, StrongEnough, Identified, Guarding
<1>3. /\ Sound(r, n) /\ SameCall(q, n) /\ n.stage \in {"guard", "handler"}
      /\ \A i \in DOMAIN n.tasks : n.tasks[i].st = "todo"
  BY <1>1, <1>2, EnterSound, Here
<1> QED BY <1>1, <1>2, <1>3, Going, Here DEF Quiet, SameCall

\* What is asked is answered for nobody at once, and is otherwise waited for.
LEMMA AskRemembers ==
    ASSUME NEW r \in Requests, NEW q \in State, Remembers(r, q), q.ctx # None,
           views[r] \in SUBSET Worlds, world \in views[r],
           NEW t \in Tenants, NEW n, n = Ask(q, t)
    PROVE  Remembers(r, n) /\ n.memo[t] # None
<1>1. /\ n.asked = q.asked /\ n.told = q.told /\ n.ctx = q.ctx
      /\ \A u \in Tenants : n.memo[u] =
             IF u = t /\ q.memo[t] = None THEN Asked(q, t) ELSE q.memo[u]
  BY AskIs DEF SameCall
<1>2. /\ Asked(q, t) \in Settlement /\ Asked(q, t) # None
      /\ \/ Asked(q, t) = Pending
         \/ q.ctx.principal = None /\ Asked(q, t) = Resolved({})
  BY AnswersTyped, NoRecord DEF Asked
<1>3. n.memo[t] # None
  BY <1>1, <1>2
<1>4. ASSUME NEW u \in Tenants
      PROVE  /\ n.asked[u] <= 1 /\ (~Settled(n, u) => n.asked[u] = 0)
             /\ n.memo[u] # None => n.ctx # None
             /\ Settled(n, u) /\ n.memo[u].ok =>
                   \E v \in views[r] : n.memo[u].value = Held(v, n.ctx.principal, u)
             /\ Settled(n, u) /\ ~n.memo[u].ok => n.memo[u].error \in Failures
  <2>1. CASE n.memo[u] = q.memo[u]
    BY <1>1, <2>1 DEF Remembers, Settled
  <2>2. CASE u = t /\ q.memo[t] = None
    <3>1. n.memo[u] = Asked(q, t) /\ q.asked[u] = 0 /\ n.asked[u] = 0
      BY <1>1, <2>2 DEF Remembers, Settled
    <3>2. CASE Asked(q, t) = Pending
      BY <1>1, <3>1, <3>2 DEF Settled
    <3>3. CASE q.ctx.principal = None /\ Asked(q, t) = Resolved({})
      <4>1. Resolved({}).ok /\ Resolved({}).value = {}
        BY DEF Resolved
      <4>2. Held(world, n.ctx.principal, u) = {}
        BY <1>1, <3>3, HeldTyped
      <4> QED BY <1>1, <3>1, <3>3, <4>1, <4>2
    <3> QED BY <1>2, <3>2, <3>3
  <2> QED BY <1>1, <2>1, <2>2
<1>5. ASSUME NEW a \in n.told PROVE Settled(n, a[1]) /\ n.memo[a[1]].ok /\ a[2] = n.memo[a[1]].value
  <2>1. a[1] \in Tenants /\ a \in q.told
    BY <1>1, <1>5, StateFields DEF Fields
  <2>2. Settled(q, a[1]) /\ q.memo[a[1]].ok /\ a[2] = q.memo[a[1]].value /\ q.memo[a[1]] # None
    BY <2>1 DEF Remembers, Settled
  <2>3. n.memo[a[1]] = q.memo[a[1]]
    BY <1>1, <2>1, <2>2
  <2> QED BY <2>2, <2>3 DEF Settled
<1> QED BY <1>3, <1>4, <1>5 DEF Remembers

\* A settled answer was the case at a moment the request has seen.
LEMMA AnswerIs ==
    ASSUME NEW r \in Requests, NEW q, Remembers(r, q), views[r] \in SUBSET Worlds,
           NEW t \in Tenants, Settled(q, t), q.memo[t].ok
    PROVE  /\ q.memo[t].value \in SUBSET ScopeNames
           /\ \E v \in views[r] : q.memo[t].value = Held(v, q.ctx.principal, t)
BY HeldTyped DEF Remembers

LEMMA ReadRemembers ==
    ASSUME NEW r \in Requests, NEW q \in State, Remembers(r, q), views[r] \in SUBSET Worlds,
           NEW t \in Tenants, Settled(q, t), q.memo[t].ok, NEW n, n = Read(q, t)
    PROVE  Remembers(r, n)
<1>1. n.told = q.told \cup {<<t, q.memo[t].value>>} /\ n.memo = q.memo /\ n.asked = q.asked
      /\ n.ctx = q.ctx
  BY AnswerIs, ReadIs DEF SameCall
<1> QED BY <1>1 DEF Remembers, Settled

LEMMA ReadSound ==
    ASSUME NEW r \in Requests, NEW q, Sound(r, q), views[r] \in SUBSET Worlds,
           q.stage # "idle",
           NEW t \in Tenants, Settled(q, t), q.memo[t].ok, NEW n, n = Read(q, t)
    PROVE  Sound(r, n)
<1>1. Remembers(r, n)
  BY ReadRemembers DEF Sound
<1>2. /\ n \in State /\ n.stage = q.stage /\ n.error = q.error
      /\ n.at = q.at /\ n.tenant = q.tenant /\ n.tasks = q.tasks /\ n.refusal = q.refusal
      /\ SameCall(q, n) /\ SameAnswer(q, n) /\ n.memo = q.memo
  BY AnswerIs, ReadIs DEF Sound
<1>3. Placed(n)
  BY <1>2 DEF Sound, Placed, SameCall, RouteOf, GuardOf
<1>4. Counted(n) /\ Refused(r, n)
  BY <1>2 DEF Sound, Counted, Refused, RowOfGuard, GuardOf, SameCall, SameAnswer, RouteOf, Answered
<1>5. Tasked(r, n)
  BY <1>2, CarriedTasks DEF Sound
<1> QED BY <1>1, <1>2, <1>3, <1>4, <1>5 DEF Sound, SameCall

LEMMA KeptResolveTenant == ASSUME RequestOK, NEW r \in Requests, ResolveTenant(r) PROVE RequestOK'
<1>1. PICK q, t : q = req[r] /\ t = TenantOf(q)
  OBVIOUS
<1>2. /\ q.stage = "guard" /\ q.ctx # None /\ q.ctx.principal # None /\ GuardOf(q).check # "none"
      /\ \/ t # None /\ Go(r, Ask([q EXCEPT !.stage = "check", !.tenant = t], t)) /\ Quiet
         \/ t = None /\ Go(r, Fail(q, "TenantRequired")) /\ Quiet
         \/ /\ Fault /\ UNCHANGED <<audit, reported>>
            /\ Go(r, [Fail(q, "Error") EXCEPT !.broken = TRUE])
  BY <1>1, Zenon DEF ResolveTenant, StrongEnough, Identified, Guarding
<1>3. /\ q \in State /\ Sound(r, q) /\ Seen(r, q) /\ q.input \in Inputs[r] /\ q.input # None
      /\ {"TenantRequired", "Error"} \subseteq Errors \ Refusals
  BY <1>1, <1>2, Here, Words DEF Sound, Placed, Refusals
<1>4. ASSUME t # None, Go(r, Ask([q EXCEPT !.stage = "check", !.tenant = t], t)), Quiet
      PROVE  RequestOK'
  <2>1. PICK m : m = [q EXCEPT !.stage = "check", !.tenant = t]
    OBVIOUS
  <2>2. t \in Tenants /\ "check" \in Stages
    BY <1>1, <1>4 DEF TenantOf, IsUuid, Stages
  <2>3. /\ m \in State /\ m.stage = "check" /\ m.tenant = t /\ m.error = q.error /\ m.at = q.at
        /\ m.tasks = q.tasks /\ SameCall(q, m) /\ SameMemory(q, m) /\ SameAnswer(q, m)
    BY <1>3, <2>1, <2>2 DEF State, SameCall, SameMemory, SameAnswer
  <2>4. PICK n : n = Ask(m, t)
    OBVIOUS
  <2>5. /\ n \in State /\ n.stage = "check" /\ n.tenant = t /\ n.error = m.error /\ n.at = m.at
        /\ n.tasks = m.tasks /\ SameCall(m, n) /\ SameAnswer(m, n)
    BY <2>2, <2>3, <2>4, AskIs
  <2>6. Remembers(r, m) /\ m.ctx # None
    BY <1>2, <1>3, <2>3, Carried DEF Sound, SameCall
  <2>7. Remembers(r, n) /\ n.memo[t] # None
    BY <1>2, <1>3, <2>2, <2>3, <2>4, <2>6, AskRemembers DEF Seen
  <2>8. /\ n.input = q.input /\ n.ctx = q.ctx /\ n.at = q.at /\ n.error = q.error
         /\ RouteOf(n) = RouteOf(q) /\ GuardOf(n) = GuardOf(q)
    BY <2>3, <2>5 DEF SameCall, GuardOf, RouteOf
  <2>9. q.error = None /\ q.at \in DOMAIN RouteOf(q).guards
    BY <1>2, <1>3 DEF Sound, Placed
  <2>10. Placed(n)
    BY <1>2, <1>3, <1>4, <2>5, <2>7, <2>8, <2>9 DEF Placed
  <2>11. q.tasks = << >> /\ n.tasks = << >>
    BY <1>2, <1>3, <2>3, <2>5 DEF Sound, Counted
  <2>12. Counted(n) /\ Tasked(r, n) /\ Refused(r, n)
    BY <1>2, <1>3, <2>3, <2>5, <2>11 DEF Sound, Counted, Tasked, Refused, Answered, SameAnswer
  <2>13. Sound(r, n)
    BY <1>3, <2>3, <2>5, <2>7, <2>10, <2>12 DEF Sound, SameCall
  <2>14. Go(r, n)
    BY <1>4, <2>1, <2>4
  <2> QED BY <1>1, <1>2, <1>4, <2>3, <2>5, <2>11, <2>13, <2>14, Going, Here DEF Quiet, SameCall
<1>5. ASSUME Go(r, Fail(q, "TenantRequired")), Quiet PROVE RequestOK'
  BY <1>1, <1>2, <1>3, <1>5, FailFails, Failing, Here DEF Quiet
<1>6. ASSUME Fault, UNCHANGED <<audit, reported>>, Go(r, [Fail(q, "Error") EXCEPT !.broken = TRUE])
      PROVE  RequestOK'
  <2>1. PICK m, n : m = Fail(q, "Error") /\ n = [m EXCEPT !.broken = TRUE]
    OBVIOUS
  <2>2. Fails(q, m, "Error")
    BY <1>3, <2>1, FailFails
  <2>3. Fails(q, n, "Error")
    BY <2>1, <2>2 DEF Fails, State, SameCall, SameMemory, SameAnswer
  <2>4. Go(r, n) /\ faults' \in 0 .. MaxFaults
    BY <1>6, <2>1, Here DEF Fault
  <2> QED BY <1>1, <1>2, <1>3, <1>6, <2>3, <2>4, Failing
<1> QED BY <1>2, <1>4, <1>5, <1>6

\* checkScope, checkAllScopes and checkAnyScope decide what they are for.
LEMMA CheckIs ==
    ASSUME NEW g, NEW held, g.check \in {"all", "any"}
    PROVE  CheckHolds(g, held) <=> Abstract!Authorized(g, held)
BY DEF CheckHolds, Abstract!Authorized

LEMMA KeptCheck == ASSUME RequestOK, NEW r \in Requests, Check(r) PROVE RequestOK'
<1>1. PICK q, t : q = req[r] /\ t = q.tenant
  OBVIOUS
<1>2. /\ q.stage = "check" /\ Settled(q, t) /\ Quiet
      /\ \/ ~q.memo[t].ok /\ Go(r, Fail(q, q.memo[t].error))
         \/ q.memo[t].ok /\ Go(r, Enter(Read(q, t), q.at + 1))
         \/ /\ q.memo[t].ok /\ ~CheckHolds(GuardOf(q), q.memo[t].value)
            /\ Go(r, Deny(Read(q, t), "Forbidden", Denial(r, 0, "authorize", t)))
  BY <1>1, Zenon DEF Check
<1>3. /\ q \in State /\ Sound(r, q) /\ Seen(r, q) /\ q.input \in Inputs[r] /\ q.input # None
      /\ t \in Tenants /\ q.ctx # None /\ GuardOf(q).check # "none" /\ Fields(q)
  BY <1>1, <1>2, Here DEF Sound, Placed, Fields
<1>4. ASSUME ~q.memo[t].ok, Go(r, Fail(q, q.memo[t].error)) PROVE RequestOK'
  <2>1. PICK e : e = q.memo[t].error
    OBVIOUS
  <2>2. e \in Failures /\ e \in Errors /\ e \notin Refusals
    BY <1>2, <1>3, <1>4, <2>1, Words DEF Sound, Remembers
  <2> QED BY <1>1, <1>2, <1>3, <1>4, <2>1, <2>2, FailFails, Failing, Here DEF Quiet
<1>5. ASSUME q.memo[t].ok
      PROVE  \A m : m = Read(q, t) => Sound(r, m) /\ SameCall(q, m) /\ m.stage = q.stage
                                      /\ m.at = q.at /\ m.tenant = q.tenant
  BY <1>2, <1>3, <1>5, ReadSound, ReadIs, AnswerIs DEF Seen, Sound
<1>6. ASSUME q.memo[t].ok, Go(r, Enter(Read(q, t), q.at + 1)) PROVE RequestOK'
  <2>1. PICK m, n : m = Read(q, t) /\ n = Enter(m, q.at + 1)
    OBVIOUS
  <2>2. Sound(r, m) /\ SameCall(q, m) /\ m.stage = q.stage /\ m.at = q.at
    BY <1>5, <1>6, <2>1
  <2>3. m.ctx # None /\ n = Enter(m, m.at + 1)
    BY <1>3, <2>1, <2>2 DEF SameCall
  <2>4. /\ Sound(r, n) /\ SameCall(m, n) /\ n.stage \in {"guard", "handler"}
        /\ \A i \in DOMAIN n.tasks : n.tasks[i].st = "todo"
    BY <1>2, <2>2, <2>3, EnterSound
  <2>5. Go(r, n)
    BY <1>6, <2>1
  <2> QED BY <1>1, <1>2, <2>2, <2>4, <2>5, Going, Here DEF Quiet, SameCall
<1>7. ASSUME q.memo[t].ok, ~CheckHolds(GuardOf(q), q.memo[t].value),
             Go(r, Deny(Read(q, t), "Forbidden", Denial(r, 0, "authorize", t)))
      PROVE  RequestOK'
  <2>1. PICK m, row : m = Read(q, t) /\ row = Denial(r, 0, "authorize", t)
    OBVIOUS
  <2>2. Sound(r, m) /\ SameCall(q, m) /\ m.stage = q.stage /\ m.at = q.at /\ m.tenant = t
    BY <1>1, <1>5, <1>7, <2>1
  <2>3. q.ctx \in Contexts
    BY <1>3 DEF Fields
  <2>4. /\ row \in Rows /\ row.of = r /\ row.origin = 0 /\ row.request \in {None, r}
        /\ row.actor = q.ctx.principal /\ row.tenant = t
    BY <1>1, <1>3, <2>1, <2>3, DenialIs
  <2>5. PICK v \in views[r] : q.memo[t].value = Held(v, q.ctx.principal, t)
    BY <1>2, <1>3, <1>7, AnswerIs DEF Sound, Seen
  <2>6. GuardOf(q).check \in {"all", "any"}
    BY <1>2, <1>3, GuardMade DEF Sound, Placed
  <2>7. ~Abstract!Authorized(GuardOf(q), Held(v, q.ctx.principal, t))
    BY <1>7, <2>5, <2>6, CheckIs
  <2>8. GuardOf(m) = GuardOf(q) /\ m.ctx = q.ctx
    BY <2>2 DEF GuardOf, RouteOf, SameCall
  <2>9. RowOfGuard(r, m, row)
    BY <2>2, <2>4, <2>7, <2>8 DEF RowOfGuard, Lacked
  <2>10. "Forbidden" \in Refusals /\ Go(r, Deny(m, "Forbidden", row))
    BY <1>7, <2>1 DEF Refusals
  <2> QED BY <1>1, <1>2, <1>3, <2>2, <2>9, <2>10, Denying
<1> QED BY <1>2, <1>4, <1>6, <1>7

\* A row is written, or reported lost.
LEMMA Logs ==
    ASSUME RequestOK, NEW row \in Rows, LogAudit(row)
    PROVE  /\ audit \subseteq audit' /\ audit' \subseteq audit \cup {Stored(row)}
           /\ audit' \subseteq Rows
           /\ reported \subseteq reported' /\ reported' \subseteq Requests \X Nat
           /\ faults' \in 0 .. MaxFaults
           /\ Logged(row.of, row.origin)'
           /\ Stored(row) \in Rows /\ Stored(row).of = row.of /\ Stored(row).origin = row.origin
           /\ Stored(row).request = row.request /\ Stored(row).actor = row.actor
           /\ Stored(row).tenant \in {None, row.tenant}
<1>1. PICK stored : stored = Stored(row)
  OBVIOUS
<1>2. /\ stored \in Rows /\ stored.of = row.of /\ stored.origin = row.origin
      /\ stored.request = row.request /\ stored.actor = row.actor
      /\ stored.tenant \in {None, row.tenant}
  BY <1>1 DEF Stored, Rows
<1>3. /\ audit \subseteq audit' /\ audit' \subseteq audit \cup {stored} /\ reported \subseteq reported'
      /\ stored \in audit' \/ <<row.of, row.origin>> \in reported'
      /\ reported' \subseteq reported \cup {<<row.of, row.origin>>}
  BY <1>1 DEF LogAudit
<1>4. faults' \in 0 .. MaxFaults
  BY RequestBounds DEF LogAudit, Fault, RequestOK
<1>5. row.of \in Requests /\ row.origin \in Nat
  BY DEF Rows
<1> QED BY <1>1, <1>2, <1>3, <1>4, <1>5 DEF RequestOK, Logged

LEMMA KeptRecordDenial == ASSUME RequestOK, NEW r \in Requests, RecordDenial(r) PROVE RequestOK'
<1>1. PICK q, row, e : q = req[r] /\ row = q.refusal /\ e = q.error
  OBVIOUS
<1>2. PICK n : n = Fail(q, e)
  OBVIOUS
<1>3. q.stage = "record" /\ LogAudit(row) /\ Go(r, n)
  BY <1>1, <1>2 DEF RecordDenial
<1>4. /\ Sound(r, q) /\ q \in State /\ Denials /\ e \in Refusals /\ e \in Errors /\ RowOfGuard(r, q, row)
      /\ q.ctx # None /\ q.tasks = << >>
  BY <1>1, <1>3, Here, Words DEF Sound, Refused, Placed, Counted
<1>5. Fails(q, n, e)
  BY <1>2, <1>4, FailFails
<1>6. Sound(r, n)
  BY <1>3, <1>4, <1>5, FailSound
<1>7. row \in Rows /\ row.of = r /\ row.origin = 0
  BY <1>4 DEF RowOfGuard
<1>8. PICK stored : stored = Stored(row)
  OBVIOUS
<1>9. /\ audit \subseteq audit' /\ audit' \subseteq audit \cup {stored} /\ audit' \subseteq Rows
      /\ reported \subseteq reported' /\ reported' \subseteq Requests \X Nat
      /\ faults' \in 0 .. MaxFaults
      /\ Logged(r, 0)'
      /\ stored \in Rows /\ stored.of = r /\ stored.origin = 0
      /\ stored.request = row.request /\ stored.actor = row.actor
      /\ stored.tenant \in {None, row.tenant}
  BY <1>3, <1>7, <1>8, Logs
<1>10. ASSUME NEW x \in audit, x.of = r PROVE FALSE
  <2>1. Recorded(r, q, x)
    BY <1>1, <1>10 DEF RequestOK
  <2> QED BY <1>3, <1>4, <2>1 DEF Recorded, RowOfTask
<1>11. Recorded(r, n, stored)
  <2>1. GuardOf(n) = GuardOf(q) /\ n.ctx = q.ctx /\ n.tenant = q.tenant
    BY <1>5 DEF Fails, GuardOf, RouteOf, SameCall
  <2> QED BY <1>4, <1>5, <1>9, <2>1 DEF Recorded, RowOfGuard, Fails
<1>12. Delivered(r, n)'
  BY <1>4, <1>5, <1>9 DEF Delivered, Fails
<1>13. n.stage # "idle"
  BY <1>5 DEF Fails
<1> QED BY <1>1, <1>3, <1>6, <1>9, <1>10, <1>11, <1>12, <1>13, Goes

LEMMA KeptQuery ==
    ASSUME RequestOK, NEW r \in Requests, NEW t \in Tenants, Query(r, t) PROVE RequestOK'
<1>1. PICK q, held : q = req[r] /\ held = Held(world, q.ctx.principal, t)
  OBVIOUS
<1>2. q.stage # "idle" /\ q.memo[t] = Pending
  BY <1>1 DEF Query
<1>3. PICK s \in Settlements(held) :
          Go(r, Mark([q EXCEPT !.memo[t] = s, !.asked[t] = @ + 1], s)) /\ Spend(s)
  BY <1>1 DEF Query
<1>4. /\ q \in State /\ Sound(r, q) /\ Seen(r, q) /\ Fields(q) /\ world \in Worlds
      /\ held \in SUBSET ScopeNames
  BY <1>1, Here, HeldTyped
<1>5. /\ s \in Settlement /\ s \notin {None, Pending}
      /\ s.ok => s.value = held
      /\ ~s.ok => s.error \in Failures
  <2>1. CASE s = Resolved(held)
    BY <1>4, <2>1, AnswersTyped, RejectedIs, NoRecord, Words
  <2>2. ASSUME NEW e \in Failures, s = Rejected(e) PROVE s \in Settlement /\ ~s.ok /\ s.error = e /\ s # Pending
    BY <2>2, AnswersTyped, RejectedIs, Words
  <2> QED BY <2>1, <2>2, <1>3, Settles, NoRecord, RejectedIs, Words
<1>6. PICK memo, asked : memo = [q.memo EXCEPT ![t] = s] /\ asked = [q.asked EXCEPT ![t] = q.asked[t] + 1]
  OBVIOUS
<1>7. /\ memo \in [Tenants -> Settlement \cup {None}] /\ asked \in [Tenants -> Nat]
      /\ memo[t] = s /\ asked[t] = q.asked[t] + 1
      /\ \A u \in Tenants \ {t} : memo[u] = q.memo[u] /\ asked[u] = q.asked[u]
  BY <1>4, <1>5, <1>6 DEF Fields
<1>8. PICK m : m = [q EXCEPT !.memo = memo, !.asked = asked]
  OBVIOUS
<1>9. /\ m \in State /\ m.stage = q.stage /\ m.error = q.error /\ m.at = q.at /\ m.tenant = q.tenant
      /\ m.tasks = q.tasks /\ m.refusal = q.refusal /\ m.memo = memo /\ m.asked = asked
      /\ m.told = q.told /\ SameCall(q, m) /\ SameAnswer(q, m)
  BY <1>4, <1>7, <1>8 DEF State, SameCall, SameAnswer
<1>10. PICK n : n = Mark(m, s)
  OBVIOUS
<1>11. m \in State
  BY <1>9
<1>12. /\ n \in State /\ n.stage = m.stage /\ n.error = m.error /\ n.at = m.at /\ n.tenant = m.tenant
       /\ n.tasks = m.tasks /\ n.refusal = m.refusal
       /\ SameCall(m, n) /\ SameMemory(m, n) /\ SameAnswer(m, n)
  BY <1>10, <1>11, MarkIs
<1>13. /\ n \in State /\ n.stage = q.stage /\ n.error = q.error /\ n.at = q.at /\ n.tenant = q.tenant
       /\ n.tasks = q.tasks /\ n.refusal = q.refusal /\ n.memo = memo /\ n.asked = asked
       /\ n.told = q.told /\ SameCall(q, n) /\ SameAnswer(q, n)
  BY <1>9, <1>12 DEF SameCall, SameAnswer, SameMemory
<1>14. Go(r, n)
  <2>1. m = [q EXCEPT !.memo[t] = s, !.asked[t] = @ + 1]
    BY <1>6, <1>8
  <2> QED BY <1>3, <1>10, <2>1
<1>15. Remembers(r, n)
  <2>1. ASSUME NEW u \in Tenants
        PROVE  /\ n.asked[u] <= 1 /\ (~Settled(n, u) => n.asked[u] = 0)
               /\ n.memo[u] # None => n.ctx # None
               /\ Settled(n, u) /\ n.memo[u].ok =>
                     \E v \in views[r] : n.memo[u].value = Held(v, n.ctx.principal, u)
               /\ Settled(n, u) /\ ~n.memo[u].ok => n.memo[u].error \in Failures
    <3>1. CASE u = t
      <4>1. q.asked[t] = 0 /\ q.ctx # None
        BY <1>2, <1>4, NoRecord, AnswersTyped DEF Sound, Remembers, Settled
      <4> QED BY <1>1, <1>2, <1>4, <1>5, <1>7, <1>13, <3>1, <4>1 DEF Settled, Seen, SameCall
    <3>2. CASE u # t
      BY <1>4, <1>7, <1>13, <3>2 DEF Settled, SameCall, Sound, Remembers
    <3> QED BY <3>1, <3>2
  <2>2. ASSUME NEW a \in n.told PROVE Settled(n, a[1]) /\ n.memo[a[1]].ok /\ a[2] = n.memo[a[1]].value
    <3>1. a[1] \in Tenants /\ Settled(q, a[1])
      BY <1>4, <1>13 DEF Fields, Sound, Remembers
    <3>2. a[1] # t
      BY <1>2, <3>1 DEF Settled
    <3> QED BY <1>4, <1>7, <1>13, <3>1, <3>2 DEF Settled, Sound, Remembers
  <2> QED BY <2>1, <2>2 DEF Remembers
<1>16. Placed(n)
  <2>1. RouteOf(n) = RouteOf(q) /\ GuardOf(n) = GuardOf(q) /\ n.input = q.input /\ n.ctx = q.ctx
    BY <1>13 DEF RouteOf, GuardOf, SameCall
  <2>2. q.stage = "check" => q.tenant \in Tenants /\ q.memo[q.tenant] # None
    BY <1>4 DEF Sound, Placed, Fields
  <2>3. q.stage = "check" => n.memo[n.tenant] # None
    BY <1>5, <1>7, <1>13, <2>2
  <2> QED BY <1>2, <1>4, <1>13, <2>1, <2>3 DEF Sound, Placed
<1>17. Counted(n) /\ Refused(r, n)
  BY <1>4, <1>13 DEF Sound, Counted, Refused, RowOfGuard, GuardOf, SameCall, SameAnswer, RouteOf, Answered
<1>18. Sound(r, n)
  BY <1>4, <1>13, <1>15, <1>16, <1>17, CarriedTasks DEF Sound, SameCall
<1>19. Tells(q, n)
  BY <1>13 DEF Tells, SameCall
<1> QED BY <1>1, <1>2, <1>3, <1>13, <1>14, <1>18, <1>19, Spends, GoesQuietly

-----------------------------------------------------------------------------
(* The handler *)

\* A request with tasks, and one of them.
LEMMA TaskHere ==
    ASSUME RequestOK, NEW r \in Requests, NEW i \in DOMAIN req[r].tasks
    PROVE  /\ Sound(r, req[r]) /\ req[r] \in State /\ Fields(req[r]) /\ Seen(r, req[r])
           /\ req[r].stage \in {"handler", "failed", "answered"} /\ req[r].stage # "idle"
           /\ req[r].ctx # None /\ req[r].ctx \in Contexts /\ req[r].tasks # << >>
           /\ req[r].input \in Inputs[r] /\ i \in DOMAIN RouteOf(req[r]).tasks
           /\ Task(req[r], i).tenant \in Tenants /\ Task(req[r], i).fn \in Functions
           /\ i \in Nat /\ i > 0
           /\ world \in views[r] /\ views[r] \in SUBSET Worlds
<1>1. /\ Sound(r, req[r]) /\ req[r] \in State /\ Fields(req[r]) /\ Seen(r, req[r])
      /\ req[r].tasks # << >>
  BY Here
<1>2. /\ req[r].stage \in {"handler", "failed", "answered"} /\ req[r].ctx # None
      /\ i \in DOMAIN RouteOf(req[r]).tasks
  BY <1>1 DEF Sound, Counted
<1>3. req[r].input \in Inputs[r]
  BY <1>2, Here
<1> QED BY <1>1, <1>2, <1>3, TaskMade DEF Fields, Seen

\* Task i of q may be told st, with e.
Justified(r, q, i, st, e) ==
    /\ st \in {"record", "failed"} =>
          \/ st = "failed" /\ e \in Failures
          \/ e = "AuthzDenied" /\ Lacked(r, Demand(q, i), q.ctx.principal, Task(q, i).tenant)
    /\ st = "record" => Denials

\* Task i goes on to st, and the rest of the handler does not notice.
LEMMA SetSound ==
    ASSUME NEW r \in Requests, NEW q, Sound(r, q), q.stage # "idle", NEW i \in DOMAIN q.tasks,
           NEW st \in {"todo", "wait", "record", "done", "failed"}, NEW e \in Errors \cup {None},
           Justified(r, q, i, st, e),
           NEW n \in State, n.stage = q.stage, n.error = q.error, n.at = q.at, n.tenant = q.tenant,
           n.refusal = q.refusal, SameCall(q, n), SameAnswer(q, n),
           Remembers(r, n), \A t \in Tenants : q.memo[t] # None => n.memo[t] # None,
           DOMAIN n.tasks = DOMAIN q.tasks, n.tasks # << >>,
           n.tasks[i].st = st, n.tasks[i].error = e,
           \A j \in DOMAIN q.tasks \ {i} : n.tasks[j] = q.tasks[j]
    PROVE  Sound(r, n)
<1>1. /\ RouteOf(n) = RouteOf(q) /\ GuardOf(n) = GuardOf(q) /\ n.ctx = q.ctx /\ n.input = q.input
      /\ \A j : Task(n, j) = Task(q, j) /\ Demand(n, j) = Demand(q, j)
  BY DEF SameCall, RouteOf, GuardOf, Task, Demand
<1>2. q.stage \in {"handler", "failed", "answered"} /\ q.ctx # None
  BY DEF Sound, Counted
<1>3. Placed(n)
  BY <1>1, <1>2 DEF Sound, Placed
<1>4. Counted(n) /\ Refused(r, n)
  BY <1>1, <1>2 DEF Sound, Counted, Refused, SameAnswer, Answered
<1>5. Tasked(r, n)
  <2>1. ASSUME NEW j \in DOMAIN n.tasks
        PROVE  /\ n.tasks[j].st \in {"record", "failed"} =>
                    \/ n.tasks[j].st = "failed" /\ n.tasks[j].error \in Failures
                    \/ /\ n.tasks[j].error = "AuthzDenied"
                       /\ Lacked(r, Demand(n, j), n.ctx.principal, Task(n, j).tenant)
               /\ n.tasks[j].st = "record" => Denials
    <3>1. CASE j = i
      BY <1>1, <3>1 DEF Justified
    <3>2. CASE j # i
      BY <1>1, <3>2 DEF Sound, Tasked
    <3> QED BY <3>1, <3>2
  <2> QED BY <2>1 DEF Tasked
<1> QED BY <1>1, <1>3, <1>4, <1>5 DEF Sound

\* A task that had not failed goes on, without a refusal that is recorded.
LEMMA Tasking ==
    ASSUME RequestOK, NEW r \in Requests, NEW i \in DOMAIN req[r].tasks,
           req[r].tasks[i].st # "failed", NEW n, Go(r, n), Sound(r, n),
           n.stage = req[r].stage, n.error = req[r].error, n.at = req[r].at,
           n.tenant = req[r].tenant, SameCall(req[r], n),
           DOMAIN n.tasks = DOMAIN req[r].tasks,
           \A j \in DOMAIN req[r].tasks \ {i} : n.tasks[j] = req[r].tasks[j],
           n.tasks[i].st = "failed" => n.tasks[i].error \in Failures \/ ~Denials,
           faults' \in 0 .. MaxFaults, UNCHANGED <<audit, reported>>
    PROVE  RequestOK'
<1>1. Tells(req[r], n)
  BY TaskHere, Words DEF Tells, SameCall
<1> QED BY <1>1, TaskHere, GoesQuietly

LEMMA KeptBegin ==
    ASSUME RequestOK, NEW r \in Requests, NEW i, Begin(r, i) PROVE RequestOK'
<1>1. PICK q, m, t : q = req[r] /\ m = Set(q, i, "wait", None) /\ t = Task(q, i).tenant
  OBVIOUS
<1>2. PICK n : n = IF Task(q, i).do = "has" THEN Ask(m, t) ELSE m
  OBVIOUS
<1>3. i \in DOMAIN q.tasks /\ q.tasks[i].st = "todo" /\ Quiet /\ Go(r, n)
  BY <1>1, <1>2 DEF Begin, Task
<1>4. /\ Sound(r, q) /\ q \in State /\ q.stage # "idle" /\ q.ctx # None /\ t \in Tenants
      /\ world \in views[r] /\ views[r] \in SUBSET Worlds
  BY <1>1, <1>3, TaskHere
<1>5. /\ m \in State /\ m.stage = q.stage /\ m.error = q.error /\ m.at = q.at /\ m.tenant = q.tenant
      /\ m.refusal = q.refusal /\ SameCall(q, m) /\ SameMemory(q, m) /\ SameAnswer(q, m)
      /\ DOMAIN m.tasks = DOMAIN q.tasks /\ m.tasks # << >>
      /\ m.tasks[i].st = "wait" /\ m.tasks[i].error = None
      /\ \A j \in DOMAIN q.tasks \ {i} : m.tasks[j] = q.tasks[j]
  BY <1>1, <1>3, <1>4, SetIs
<1>6. Remembers(r, m) /\ m.ctx # None
  BY <1>4, <1>5, Carried DEF Sound, SameCall
<1>7. /\ n \in State /\ n.stage = q.stage /\ n.error = q.error /\ n.at = q.at /\ n.tenant = q.tenant
      /\ n.refusal = q.refusal /\ n.tasks = m.tasks
      /\ SameCall(q, n) /\ SameAnswer(q, n) /\ Remembers(r, n)
      /\ \A u \in Tenants : q.memo[u] # None => n.memo[u] # None
  <2>1. CASE Task(q, i).do # "has"
    BY <1>2, <1>5, <1>6, <2>1 DEF SameMemory
  <2>2. CASE Task(q, i).do = "has"
    <3>1. n = Ask(m, t)
      BY <1>2, <2>2
    <3>2. /\ n \in State /\ n.stage = m.stage /\ n.error = m.error
          /\ n.at = m.at /\ n.tenant = m.tenant /\ n.tasks = m.tasks /\ n.refusal = m.refusal
          /\ SameCall(m, n) /\ SameAnswer(m, n)
          /\ \A u \in Tenants : n.memo[u] =
                 IF u = t /\ m.memo[t] = None THEN Asked(m, t) ELSE m.memo[u]
      BY <1>4, <1>5, <3>1, AskIs
    <3>3. Remembers(r, n)
      BY <1>4, <1>5, <1>6, <3>1, AskRemembers
    <3> QED BY <1>5, <3>2, <3>3 DEF SameCall, SameAnswer, SameMemory
  <2> QED BY <2>1, <2>2
<1>8. Sound(r, n)
  BY <1>3, <1>4, <1>5, <1>7, SetSound DEF Justified
<1> QED BY <1>1, <1>3, <1>5, <1>7, <1>8, Tasking, Here DEF Quiet

LEMMA KeptHas ==
    ASSUME RequestOK, NEW r \in Requests, NEW i, Has(r, i) PROVE RequestOK'
<1>1. PICK q, t : q = req[r] /\ t = Task(q, i).tenant
  OBVIOUS
<1>2. i \in DOMAIN q.tasks /\ q.tasks[i].st = "wait" /\ Settled(q, t) /\ Quiet
  BY <1>1 DEF Has, Waits
<1>3. Go(r, IF q.memo[t].ok THEN Set(Read(q, t), i, "done", None)
            ELSE Set(q, i, "failed", q.memo[t].error))
  BY <1>1 DEF Has
<1>4. /\ Sound(r, q) /\ q \in State /\ q.stage # "idle" /\ q.ctx # None /\ t \in Tenants
      /\ views[r] \in SUBSET Worlds
  BY <1>1, <1>2, TaskHere
<1>5. CASE q.memo[t].ok
  <2>1. PICK m, n : m = Read(q, t) /\ n = Set(m, i, "done", None)
    OBVIOUS
  <2>2. /\ m \in State /\ m.stage = q.stage /\ m.error = q.error /\ m.at = q.at
        /\ m.tenant = q.tenant /\ m.tasks = q.tasks /\ m.refusal = q.refusal
        /\ SameCall(q, m) /\ SameAnswer(q, m) /\ m.memo = q.memo
    BY <1>2, <1>4, <1>5, <2>1, ReadIs, AnswerIs DEF Sound
  <2>3. Sound(r, m)
    BY <1>2, <1>4, <1>5, <2>1, ReadSound
  <2>4. /\ n \in State /\ n.stage = m.stage /\ n.error = m.error /\ n.at = m.at /\ n.tenant = m.tenant
        /\ n.refusal = m.refusal /\ SameCall(m, n) /\ SameMemory(m, n) /\ SameAnswer(m, n)
        /\ DOMAIN n.tasks = DOMAIN m.tasks /\ n.tasks # << >>
        /\ n.tasks[i].st = "done" /\ n.tasks[i].error = None
        /\ \A j \in DOMAIN m.tasks \ {i} : n.tasks[j] = m.tasks[j]
    BY <1>2, <2>1, <2>2, SetIs
  <2>5. Remembers(r, n) /\ \A u \in Tenants : m.memo[u] # None => n.memo[u] # None
    BY <2>3, <2>4, Carried DEF Sound, SameCall, SameMemory
  <2>6. Sound(r, n)
    BY <1>2, <1>4, <2>2, <2>3, <2>4, <2>5, SetSound DEF Justified
  <2>7. Go(r, n)
    BY <1>3, <1>5, <2>1
  <2> QED BY <1>1, <1>2, <2>2, <2>4, <2>6, <2>7, Tasking, Here DEF Quiet, SameCall
<1>6. CASE ~q.memo[t].ok
  <2>1. PICK e, n : e = q.memo[t].error /\ n = Set(q, i, "failed", e)
    OBVIOUS
  <2>2. e \in Failures /\ e \in Errors
    BY <1>2, <1>4, <1>6, <2>1, Words DEF Sound, Remembers
  <2>3. /\ n \in State /\ n.stage = q.stage /\ n.error = q.error /\ n.at = q.at /\ n.tenant = q.tenant
        /\ n.refusal = q.refusal /\ SameCall(q, n) /\ SameMemory(q, n) /\ SameAnswer(q, n)
        /\ DOMAIN n.tasks = DOMAIN q.tasks /\ n.tasks # << >>
        /\ n.tasks[i].st = "failed" /\ n.tasks[i].error = e
        /\ \A j \in DOMAIN q.tasks \ {i} : n.tasks[j] = q.tasks[j]
    BY <1>2, <1>4, <2>1, <2>2, SetIs
  <2>4. Remembers(r, n) /\ \A u \in Tenants : q.memo[u] # None => n.memo[u] # None
    BY <1>4, <2>3, Carried DEF Sound, SameCall, SameMemory
  <2>5. Sound(r, n)
    BY <1>2, <1>4, <2>2, <2>3, <2>4, SetSound DEF Justified
  <2>6. Go(r, n)
    BY <1>3, <1>6, <2>1
  <2> QED BY <1>1, <1>2, <2>2, <2>3, <2>5, <2>6, Tasking, Here DEF Quiet
<1> QED BY <1>5, <1>6

\* The SQL guard refuses for want of the scope.
LEMMA WantIs ==
    ASSUME NEW r \in Requests, NEW q, NEW i, world \in views[r],
           Task(q, i).scope \notin Held(world, q.ctx.principal, Task(q, i).tenant)
    PROVE  Lacked(r, Demand(q, i), q.ctx.principal, Task(q, i).tenant)
BY DEF Lacked, Demand, RequireScope, Guard, Abstract!Authorized

\* Where a write's task stands once its call has settled as s.
LEMMA WriteIs ==
    ASSUME NEW r \in Requests, NEW i, Write(r, i), NEW q, q = req[r]
    PROVE  \E s \in Settlements(i) \cup Replies({"P0001"}) : \E x, n :
              /\ s \in Replies({"P0001"}) =>
                    Task(q, i).scope \notin Held(world, q.ctx.principal, Task(q, i).tenant)
              /\ IF s \in Replies({"P0001"}) THEN Quiet ELSE Spend(s)
              /\ s.ok => x = Set(q, i, "done", None)
              /\ ~s.ok /\ s.error = "AuthzDenied" /\ Denials => x = Set(q, i, "record", s.error)
              /\ ~s.ok /\ ~(s.error = "AuthzDenied" /\ Denials) => x = Set(q, i, "failed", s.error)
              /\ n = Mark(x, [ok |-> s.ok \/ s \in Replies({"P0001"})])
              /\ Go(r, n)
<1>1. PICK refused : refused = Replies({"P0001"})
  OBVIOUS
<1>2. PICK s \in Settlements(i) \cup refused :
         /\ s \in refused => ~(Task(q, i).scope \in Held(world, q.ctx.principal, Task(q, i).tenant))
         /\ IF s \in refused THEN Quiet ELSE Spend(s)
         /\ Go(r, Mark(CASE s.ok -> Set(q, i, "done", None)
                         [] s.error = "AuthzDenied" /\ Denials -> Set(q, i, "record", s.error)
                         [] OTHER -> Set(q, i, "failed", s.error),
                       [ok |-> s.ok \/ s \in refused]))
  BY <1>1, Zenon DEF Write
<1>3. PICK x : x = CASE s.ok -> Set(q, i, "done", None)
                     [] s.error = "AuthzDenied" /\ Denials -> Set(q, i, "record", s.error)
                     [] OTHER -> Set(q, i, "failed", s.error)
  OBVIOUS
<1>4. PICK n : n = Mark(x, [ok |-> s.ok \/ s \in refused])
  OBVIOUS
<1>5. Go(r, n)
  BY <1>2, <1>3, <1>4
<1>6. /\ s.ok => x = Set(q, i, "done", None)
      /\ ~s.ok /\ s.error = "AuthzDenied" /\ Denials => x = Set(q, i, "record", s.error)
      /\ ~s.ok /\ ~(s.error = "AuthzDenied" /\ Denials) => x = Set(q, i, "failed", s.error)
  <2>1. s.ok => s.error # "AuthzDenied"
    BY <1>1, <1>2, Settles, Refuses, RejectedIs, Words, NullIsNoWord DEF Resolved, AuthKitErrors
  <2>2. ASSUME s.ok PROVE x = Set(q, i, "done", None)
    BY <1>3, <2>2, <2>1, Zenon
  <2>3. ASSUME ~s.ok, s.error = "AuthzDenied", Denials PROVE x = Set(q, i, "record", s.error)
    BY <1>3, <2>3, Zenon
  <2>4. ASSUME ~s.ok, ~(s.error = "AuthzDenied" /\ Denials) PROVE x = Set(q, i, "failed", s.error)
    BY <1>3, <2>4, Zenon
  <2> QED BY <2>2, <2>3, <2>4
<1>7. s \in Settlements(i) \cup Replies({"P0001"})
  BY <1>1
<1> QED BY <1>1, <1>2, <1>4, <1>5, <1>6, <1>7

LEMMA KeptWrite ==
    ASSUME RequestOK, NEW r \in Requests, NEW i, Write(r, i) PROVE RequestOK'
<1>1. PICK q : q = req[r]
  OBVIOUS
<1>2. i \in DOMAIN q.tasks /\ q.tasks[i].st = "wait"
  BY <1>1 DEF Write, Waits
<1>3. /\ Sound(r, q) /\ q \in State /\ q.stage # "idle"
      /\ world \in views[r] /\ views[r] \in SUBSET Worlds
  BY <1>1, <1>2, TaskHere
<1>4. PICK s \in Settlements(i) \cup Replies({"P0001"}) : \E x, n :
          /\ s \in Replies({"P0001"}) =>
                Task(q, i).scope \notin Held(world, q.ctx.principal, Task(q, i).tenant)
          /\ IF s \in Replies({"P0001"}) THEN Quiet ELSE Spend(s)
          /\ s.ok => x = Set(q, i, "done", None)
          /\ ~s.ok /\ s.error = "AuthzDenied" /\ Denials => x = Set(q, i, "record", s.error)
          /\ ~s.ok /\ ~(s.error = "AuthzDenied" /\ Denials) => x = Set(q, i, "failed", s.error)
          /\ n = Mark(x, [ok |-> s.ok \/ s \in Replies({"P0001"})])
          /\ Go(r, n)
  BY <1>1, WriteIs
<1>5. PICK x, n :
          /\ s \in Replies({"P0001"}) =>
                Task(q, i).scope \notin Held(world, q.ctx.principal, Task(q, i).tenant)
          /\ IF s \in Replies({"P0001"}) THEN Quiet ELSE Spend(s)
          /\ s.ok => x = Set(q, i, "done", None)
          /\ ~s.ok /\ s.error = "AuthzDenied" /\ Denials => x = Set(q, i, "record", s.error)
          /\ ~s.ok /\ ~(s.error = "AuthzDenied" /\ Denials) => x = Set(q, i, "failed", s.error)
          /\ n = Mark(x, [ok |-> s.ok \/ s \in Replies({"P0001"})])
          /\ Go(r, n)
  BY <1>4
<1>6. faults' \in 0 .. MaxFaults /\ UNCHANGED <<audit, reported>>
  <2>1. CASE s \in Replies({"P0001"})
    BY <1>5, <2>1, Here DEF Quiet
  <2>2. CASE s \notin Replies({"P0001"})
    BY <1>5, <2>2, Spends
  <2> QED BY <2>1, <2>2
<1>7. ASSUME NEW st \in {"done", "record", "failed"}, NEW e \in Errors \cup {None},
             x = Set(q, i, st, e), Justified(r, q, i, st, e),
             st = "failed" => e \in Failures \/ ~Denials
      PROVE  RequestOK'
  <2>1. /\ x \in State /\ x.stage = q.stage /\ x.error = q.error /\ x.at = q.at /\ x.tenant = q.tenant
        /\ x.refusal = q.refusal /\ SameCall(q, x) /\ SameMemory(q, x) /\ SameAnswer(q, x)
        /\ DOMAIN x.tasks = DOMAIN q.tasks /\ x.tasks # << >>
        /\ x.tasks[i].st = st /\ x.tasks[i].error = e
        /\ \A j \in DOMAIN q.tasks \ {i} : x.tasks[j] = q.tasks[j]
    BY <1>2, <1>3, <1>7, SetIs
  <2>2. PICK settled : settled = [ok |-> s.ok \/ s \in Replies({"P0001"})]
    OBVIOUS
  <2>3. /\ n \in State /\ n.stage = x.stage /\ n.error = x.error /\ n.at = x.at /\ n.tenant = x.tenant
        /\ n.refusal = x.refusal /\ n.tasks = x.tasks
        /\ SameCall(x, n) /\ SameMemory(x, n) /\ SameAnswer(x, n)
    <3>1. x \in State
      BY <2>1
    <3>2. n = Mark(x, settled)
      BY <1>5, <2>2, Zenon
    <3> QED BY <3>1, <3>2, MarkIs
  <2>4. SameCall(q, n) /\ SameMemory(q, n) /\ SameAnswer(q, n)
    BY <2>1, <2>3 DEF SameCall, SameMemory, SameAnswer
  <2>5. /\ n \in State /\ n.stage = q.stage /\ n.error = q.error /\ n.at = q.at
        /\ n.tenant = q.tenant /\ n.refusal = q.refusal
        /\ DOMAIN n.tasks = DOMAIN q.tasks /\ n.tasks # << >>
        /\ n.tasks[i].st = st /\ n.tasks[i].error = e
        /\ \A j \in DOMAIN q.tasks \ {i} : n.tasks[j] = q.tasks[j]
    BY <2>1, <2>3
  <2>6. Remembers(r, n) /\ \A u \in Tenants : q.memo[u] # None => n.memo[u] # None
    BY <1>3, <2>4, Carried DEF Sound, SameCall, SameMemory
  <2>7. Sound(r, n)
    BY <1>2, <1>3, <1>7, <2>4, <2>6, <2>5, SetSound
  <2> QED BY <1>1, <1>2, <1>5, <1>6, <1>7, <2>4, <2>7, <2>5, Tasking
<1>8. CASE s = Resolved(i)
  <2>1. s.ok
    BY <1>8 DEF Resolved
  <2> QED BY <1>5, <1>7, <2>1 DEF Justified
<1>9. ASSUME NEW e \in Failures, s = Rejected(e) PROVE RequestOK'
  <2>1. ~s.ok /\ s.error = e /\ e # "AuthzDenied" /\ e \in Errors
    BY <1>9, RejectedIs, Words
  <2> QED BY <1>5, <1>7, <2>1 DEF Justified
<1>10. CASE s = Rejected("AuthzDenied")
  <2>1. ~s.ok /\ s.error = "AuthzDenied" /\ "AuthzDenied" \in Errors
    BY <1>10, RejectedIs, Words
  <2>2. Lacked(r, Demand(q, i), q.ctx.principal, Task(q, i).tenant)
    BY <1>3, <1>5, <1>10, Refuses, WantIs
  <2> QED BY <1>5, <1>7, <2>1, <2>2 DEF Justified
<1> QED BY <1>4, <1>8, <1>9, <1>10, Settles, Refuses

LEMMA AttemptIs ==
    ASSUME NEW q, NEW i PROVE Attempt(q, i) \in {None, Task(q, i).tenant}
BY DEF Attempt

LEMMA KeptRecordWriteDenial ==
    ASSUME RequestOK, NEW r \in Requests, NEW i, RecordWriteDenial(r, i) PROVE RequestOK'
<1>1. PICK q, tenant : q = req[r] /\ tenant = Attempt(q, i)
  OBVIOUS
<1>2. PICK row, e : row = Denial(r, i, Task(q, i).fn, tenant) /\ e = q.tasks[i].error
  OBVIOUS
<1>3. PICK n : n = Set(q, i, "failed", e)
  OBVIOUS
<1>4. i \in DOMAIN q.tasks /\ q.tasks[i].st = "record" /\ LogAudit(row) /\ Go(r, n)
  BY <1>1, <1>2, <1>3 DEF RecordWriteDenial
<1>5. /\ Sound(r, q) /\ q \in State /\ q.stage # "idle" /\ q.ctx # None /\ q.ctx \in Contexts
      /\ i \in Nat /\ Task(q, i).tenant \in Tenants /\ Task(q, i).fn \in Functions
  BY <1>1, <1>4, TaskHere
<1>6. /\ Denials /\ e = "AuthzDenied" /\ e \in Errors
      /\ Lacked(r, Demand(q, i), q.ctx.principal, Task(q, i).tenant)
  BY <1>2, <1>4, <1>5, Words DEF Sound, Tasked
<1>7. /\ row \in Rows /\ row.of = r /\ row.origin = i /\ row.request \in {None, r}
      /\ row.actor = q.ctx.principal /\ row.tenant \in {None, Task(q, i).tenant}
  <2>1. tenant \in {None, Task(q, i).tenant}
    BY <1>1, AttemptIs
  <2> QED BY <1>1, <1>2, <1>5, <2>1, DenialIs
<1>8. /\ n \in State /\ n.stage = q.stage /\ n.error = q.error /\ n.at = q.at /\ n.tenant = q.tenant
      /\ n.refusal = q.refusal /\ SameCall(q, n) /\ SameMemory(q, n) /\ SameAnswer(q, n)
      /\ DOMAIN n.tasks = DOMAIN q.tasks /\ n.tasks # << >>
      /\ n.tasks[i].st = "failed" /\ n.tasks[i].error = e
      /\ \A j \in DOMAIN q.tasks \ {i} : n.tasks[j] = q.tasks[j]
  BY <1>3, <1>4, <1>5, <1>6, SetIs
<1>9. Remembers(r, n) /\ \A u \in Tenants : q.memo[u] # None => n.memo[u] # None
  BY <1>5, <1>8, Carried DEF Sound, SameCall, SameMemory
<1>10. Sound(r, n)
  BY <1>4, <1>5, <1>6, <1>8, <1>9, SetSound DEF Justified
<1>11. PICK stored : stored = Stored(row)
  OBVIOUS
<1>12. /\ audit \subseteq audit' /\ audit' \subseteq audit \cup {stored} /\ audit' \subseteq Rows
       /\ reported \subseteq reported' /\ reported' \subseteq Requests \X Nat
       /\ faults' \in 0 .. MaxFaults
       /\ Logged(r, i)'
       /\ stored \in Rows /\ stored.of = r /\ stored.origin = i
       /\ stored.request = row.request /\ stored.actor = row.actor
       /\ stored.tenant \in {None, row.tenant}
  BY <1>4, <1>7, <1>11, Logs
<1>13. /\ RouteOf(n) = RouteOf(q) /\ GuardOf(n) = GuardOf(q) /\ n.ctx = q.ctx
       /\ \A j : Task(n, j) = Task(q, j)
  BY <1>8 DEF SameCall, RouteOf, GuardOf, Task
<1>14. ASSUME NEW x \in audit, x.of = r PROVE Recorded(r, n, x)
  <2>1. Recorded(r, q, x)
    BY <1>1, <1>14 DEF RequestOK
  <2> QED BY <1>4, <1>8, <1>13, <2>1 DEF Recorded, RowOfTask, RowOfGuard
<1>15. Recorded(r, n, stored)
  BY <1>4, <1>5, <1>6, <1>7, <1>8, <1>12, <1>13 DEF Recorded, RowOfTask
<1>16. Delivered(r, n)'
  <2>1. Delivered(r, q)'
    BY <1>1, <1>12, DeliveredKept DEF RequestOK
  <2> QED BY <1>8, <1>12, <2>1 DEF Delivered
<1> QED BY <1>1, <1>4, <1>5, <1>8, <1>10, <1>12, <1>14, <1>15, <1>16, Goes

\* A handler that returns, or throws what a task failed with.
LEMMA KeptHandlerReturns ==
    ASSUME RequestOK, NEW r \in Requests, HandlerReturns(r) PROVE RequestOK'
<1>1. PICK q, answers : q = req[r] /\ answers = q.answers + 1
  OBVIOUS
<1>2. PICK n : n = [q EXCEPT !.stage = "answered", !.answers = answers, !.status = 200]
  OBVIOUS
<1>3. q.stage = "handler" /\ Go(r, n) /\ Quiet
  BY <1>1, <1>2 DEF HandlerReturns
<1>4. Sound(r, q) /\ q \in State /\ q.error = None /\ q.answers = 0 /\ answers = 1 /\ q.ctx # None
  BY <1>1, <1>3, Here DEF Sound, Placed, Counted, Answered
<1>5. "answered" \in Stages /\ 200 \in Statuses /\ None \notin Refusals
  BY Words DEF Stages, Statuses
<1>6. /\ n \in State /\ n.stage = "answered" /\ n.answers = 1 /\ n.error = None /\ n.at = q.at
      /\ n.tenant = q.tenant /\ n.tasks = q.tasks /\ SameCall(q, n) /\ SameMemory(q, n)
  <2>1. PICK status : status = 200
    OBVIOUS
  <2>2. n = [q EXCEPT !.stage = "answered", !.answers = answers, !.status = status]
    BY <1>2, <2>1
  <2>3. status \in Statuses /\ answers = 1 /\ q \in State /\ "answered" \in Stages
    BY <1>4, <1>5, <2>1
  <2>4. /\ n \in State /\ n.stage = "answered" /\ n.answers = answers /\ n.error = q.error
        /\ n.at = q.at /\ n.tenant = q.tenant /\ n.tasks = q.tasks
        /\ SameCall(q, n) /\ SameMemory(q, n)
    BY <2>2, <2>3 DEF State, SameCall, SameMemory
  <2> QED BY <1>4, <2>4
<1>7. Placed(n) /\ Counted(n) /\ Refused(r, n)
  BY <1>3, <1>4, <1>6 DEF Sound, Placed, Counted, Refused, SameCall, RouteOf, Answered
<1>8. Remembers(r, n) /\ Tasked(r, n)
  BY <1>4, <1>6, Carried, CarriedTasks DEF Sound, SameCall
<1>9. Sound(r, n)
  BY <1>4, <1>6, <1>7, <1>8 DEF Sound, SameCall
<1>10. Tells(q, n)
  BY <1>3, <1>5, <1>6 DEF Tells, SameCall
<1> QED BY <1>1, <1>3, <1>6, <1>9, <1>10, GoesQuietly, Here DEF Quiet

LEMMA KeptHandlerThrows ==
    ASSUME RequestOK, NEW r \in Requests, HandlerThrows(r) PROVE RequestOK'
<1>1. PICK q : q = req[r]
  OBVIOUS
<1>2. PICK i \in DOMAIN q.tasks :
          q.tasks[i].st = "failed"
          /\ Go(r, [q EXCEPT !.stage = "failed", !.error = q.tasks[i].error])
  BY <1>1 DEF HandlerThrows
<1>3. PICK e, n : e = q.tasks[i].error /\ n = [q EXCEPT !.stage = "failed", !.error = e]
  OBVIOUS
<1>4. q.stage = "handler" /\ Quiet /\ Go(r, n)
  BY <1>1, <1>2, <1>3 DEF HandlerThrows
<1>5. Sound(r, q) /\ q \in State /\ e \in Errors /\ e \notin Refusals
  BY <1>1, <1>2, <1>3, Here, Words DEF Sound, Tasked
<1>6. n = Fail(q, e)
  BY <1>3, <1>5, StateFields DEF Fail, Catch, Fields
<1>7. Fails(q, n, e)
  BY <1>5, <1>6, FailFails
<1>8. Sound(r, n)
  BY <1>4, <1>5, <1>7, FailSound
<1>9. Tells(q, n) /\ n.stage # "idle"
  BY <1>4, <1>5, <1>7 DEF Tells, Fails, SameCall
<1> QED BY <1>1, <1>4, <1>8, <1>9, GoesQuietly, Here DEF Quiet

\* Every error has a status.
LEMMA StatusIs ==
    ASSUME NEW e PROVE ErrorHandler(e) \in Statuses /\ FrameworkStatus(e) \in Statuses
BY DEF ErrorHandler, FrameworkStatus, StatusOf, HttpStatus, HttpErrors, AuthKitErrors, Statuses

LEMMA KeptAnswer == ASSUME RequestOK, NEW r \in Requests, Answer(r) PROVE RequestOK'
<1>1. PICK q, answers : q = req[r] /\ answers = q.answers + 1
  OBVIOUS
<1>2. PICK status :
          status = IF RouteOf(q).errorHandler THEN ErrorHandler(q.error) ELSE FrameworkStatus(q.error)
  OBVIOUS
<1>3. PICK n : n = [q EXCEPT !.stage = "answered", !.answers = answers, !.status = status]
  OBVIOUS
<1>4. q.stage = "failed" /\ Go(r, n) /\ Quiet
  BY <1>1, <1>2, <1>3 DEF Answer
<1>5. Sound(r, q) /\ q \in State /\ q.answers = 0 /\ answers = 1 /\ status \in Statuses
  BY <1>1, <1>2, <1>4, Here, StatusIs DEF Sound, Counted, Answered
<1>6. "answered" \in Stages
  BY DEF Stages
<1>7. /\ n \in State /\ n.stage = "answered" /\ n.answers = 1 /\ n.error = q.error /\ n.at = q.at
      /\ n.tenant = q.tenant /\ n.tasks = q.tasks /\ SameCall(q, n) /\ SameMemory(q, n)
  BY <1>3, <1>5, <1>6 DEF State, SameCall, SameMemory
<1>8. Placed(n) /\ Counted(n) /\ Refused(r, n)
  BY <1>4, <1>5, <1>7 DEF Sound, Placed, Counted, Refused, SameCall, RouteOf, Answered
<1>9. Remembers(r, n) /\ Tasked(r, n)
  BY <1>5, <1>7, Carried, CarriedTasks DEF Sound, SameCall
<1>10. Sound(r, n)
  BY <1>5, <1>7, <1>8, <1>9 DEF Sound, SameCall
<1>11. Tells(q, n)
  BY <1>4, <1>7 DEF Tells, SameCall
<1> QED BY <1>1, <1>4, <1>7, <1>10, <1>11, GoesQuietly, Here DEF Quiet

\* A rejection after next() changes nothing.
LEMMA KeptLateRejection ==
    ASSUME RequestOK, NEW r \in Requests, NEW k \in 0 .. req[r].at, LateRejection(r, k)
    PROVE  RequestOK'
<1>1. PICK q : q = req[r]
  OBVIOUS
<1>2. k < q.at /\ Go(r, q) /\ Fault /\ UNCHANGED <<audit, reported>>
  BY <1>1 DEF LateRejection, Catch
<1>3. Sound(r, q) /\ q \in State
  BY <1>1, Here
<1>4. q.stage # "idle"
  <2>1. Idle.at = 0
    BY DEF Idle
  <2> QED BY <1>1, <1>2, <1>3, <2>1, StateFields DEF Sound, Placed, Fields
<1>5. faults' \in 0 .. MaxFaults
  BY <1>2, Here DEF Fault
<1>6. Tells(q, q)
  BY DEF Tells
<1> QED BY <1>1, <1>2, <1>3, <1>4, <1>5, <1>6, GoesQuietly

-----------------------------------------------------------------------------
(* Arrivals and changes *)

LEMMA IdleIs ==
    /\ Idle \in State /\ Idle.stage = "idle" /\ Idle.input = None /\ Idle.at = 0 /\ Idle.ctx = None
    /\ Idle.error = None /\ Idle.answers = 0 /\ Idle.tasks = << >> /\ Idle.told = {}
    /\ \A t \in Tenants : Idle.memo[t] = None /\ Idle.asked[t] = 0
<1>1. "idle" \in Stages /\ None \in Statuses /\ << >> \in Seq(TaskStates)
  BY DEF Stages, Statuses
<1>2. PICK memo, asked : memo = [t \in Tenants |-> None] /\ asked = [t \in Tenants |-> 0]
  OBVIOUS
<1>3. memo \in [Tenants -> Settlement \cup {None}] /\ asked \in [Tenants -> Nat]
  BY <1>2
<1>4. Idle = [stage |-> "idle", input |-> None, at |-> 0, ctx |-> None, tenant |-> None,
              error |-> None, status |-> None, answers |-> 0, refusal |-> None,
              memo |-> memo, asked |-> asked, tasks |-> << >>, told |-> {}, broken |-> FALSE]
  BY <1>2 DEF Idle
<1>5. Idle \in State
  <2> DEFINE Ins == (UNION {Inputs[r] : r \in Requests}) \cup {None}
             Told == SUBSET (Tenants \X SUBSET ScopeNames)
             Memos == [Tenants -> Settlement \cup {None}]
             Counts == [Tenants -> Nat]
             TaskSeqs == Seq(TaskStates)
             Ctxs == Contexts \cup {None}
             RowsOrNone == Rows \cup {None}
  <2>1. State = [stage : Stages, input : Ins, at : Nat, ctx : Ctxs, tenant : Tenants \cup {None},
                 error : Errors \cup {None}, status : Statuses, answers : Nat,
                 refusal : RowsOrNone, memo : Memos, asked : Counts, tasks : TaskSeqs,
                 told : Told, broken : BOOLEAN]
    BY DEF State
  <2>2. /\ None \in Ins /\ None \in Ctxs /\ None \in RowsOrNone /\ {} \in Told
        /\ memo \in Memos /\ asked \in Counts /\ << >> \in TaskSeqs
    BY <1>1, <1>3
  <2> HIDE DEF Ins, Told, Memos, Counts, TaskSeqs, Ctxs, RowsOrNone
  <2> QED BY <1>1, <1>4, <2>1, <2>2
<1> QED BY <1>2, <1>4, <1>5

LEMMA IdleSound == ASSUME NEW r \in Requests PROVE Sound(r, Idle) /\ Delivered(r, Idle)
<1>1. Placed(Idle) /\ Counted(Idle) /\ Refused(r, Idle) /\ Tasked(r, Idle) /\ Delivered(r, Idle)
  BY IdleIs DEF Placed, Counted, Refused, Tasked, Delivered, Answered
<1>2. Remembers(r, Idle)
  BY IdleIs DEF Remembers, Settled
<1> QED BY <1>1, <1>2, IdleIs DEF Sound

LEMMA EnterFirst ==
    ASSUME NEW r \in Requests, NEW q \in State, q.input \in Inputs[r], RouteOf(q).guards # << >>,
           NEW n, n = Enter(q, 1)
    PROVE  /\ n \in State /\ n.at = 1 /\ n.stage = "guard" /\ n.tasks = << >>
           /\ n.error = q.error /\ SameCall(q, n) /\ SameMemory(q, n) /\ SameAnswer(q, n)
<1>1. RouteOf(q).guards \in Seq(GuardsMade)
  BY Made DEF RouteOf
<1>2. 1 <= Len(RouteOf(q).guards)
  BY <1>1
<1> QED BY <1>2, EnterIs

\* What a request that arrives starts as.
Fresh(in) ==
    LET q == [Idle EXCEPT !.input = in]
    IN  IF in.route.mounted THEN [q EXCEPT !.stage = "resolve"] ELSE Enter(q, 1)

LEMMA FreshSound ==
    ASSUME NEW r \in Requests, NEW in \in Inputs[r], NEW n, n = Fresh(in)
    PROVE  /\ Sound(r, n) /\ n.stage \in {"resolve", "guard"} /\ n.tasks = << >>
           /\ n.memo = Idle.memo /\ n.told = {} /\ n.asked = Idle.asked
<1>1. PICK q : q = [Idle EXCEPT !.input = in]
  OBVIOUS
<1>2. /\ q \in State /\ q.input = in /\ q.at = 0 /\ q.ctx = None
      /\ q.error = None /\ q.answers = 0 /\ q.tasks = << >>
      /\ q.memo = Idle.memo /\ q.asked = Idle.asked /\ q.told = Idle.told
  BY <1>1, IdleIs DEF State
<1>3. in # None /\ in.route.guards \in Seq(GuardsMade)
  BY Made
<1>4. /\ n \in State /\ n.input = in /\ n.ctx = None /\ n.error = None /\ n.answers = 0
      /\ n.tasks = << >> /\ n.memo = Idle.memo /\ n.asked = Idle.asked /\ n.told = Idle.told
      /\ \/ n.stage = "resolve" /\ n.at = 0
         \/ n.stage = "guard" /\ n.at = 1 /\ 1 \in DOMAIN in.route.guards
  <2>1. CASE in.route.mounted
    <3>1. n = [q EXCEPT !.stage = "resolve"] /\ "resolve" \in Stages
      BY <1>1, <2>1 DEF Stages, Fresh
    <3> QED BY <1>2, <3>1 DEF State
  <2>2. CASE ~in.route.mounted
    <3>1. RouteOf(q).guards = in.route.guards
      BY <1>2 DEF RouteOf
    <3>2. in.route.guards # << >>
      BY <2>2, Made
    <3>3. 1 <= Len(in.route.guards) /\ 1 \in DOMAIN in.route.guards
      BY <1>3, <3>2
    <3>4. n = Enter(q, 1) /\ q.input \in Inputs[r]
      BY <1>1, <1>2, <2>2 DEF Fresh
    <3>5. /\ n \in State /\ n.at = 1 /\ n.stage = "guard" /\ n.tasks = << >>
          /\ n.error = q.error /\ SameCall(q, n) /\ SameMemory(q, n) /\ SameAnswer(q, n)
      <4>1. q \in State /\ RouteOf(q).guards # << >>
        BY <1>2, <3>1, <3>2
      <4> QED BY <3>4, <4>1, EnterFirst
    <3> QED BY <1>2, <3>3, <3>5 DEF SameCall, SameMemory, SameAnswer
  <2> QED BY <2>1, <2>2
<1>5. RouteOf(n).guards = in.route.guards
  BY <1>4 DEF RouteOf
<1>6. Placed(n) /\ Counted(n) /\ Refused(r, n) /\ Tasked(r, n)
  BY <1>3, <1>4, <1>5 DEF Placed, Counted, Refused, Tasked, Answered
<1>7. Remembers(r, n)
  BY <1>4, IdleIs DEF Remembers, Settled
<1> QED BY <1>4, <1>6, <1>7, IdleIs DEF Sound

\* The log has nothing to say of a request that has not arrived.
LEMMA IdleUnrecorded ==
    ASSUME NEW r, NEW row PROVE ~Recorded(r, Idle, row)
BY IdleIs DEF Recorded

LEMMA KeptArrive == ASSUME RequestOK, NEW r \in Requests, Arrive(r) PROVE RequestOK'
<1>1. PICK in \in Inputs[r] : req' = [req EXCEPT ![r] = Fresh(in)]
  BY DEF Arrive, Fresh
<1>2. PICK n : n = Fresh(in) /\ req' = [req EXCEPT ![r] = n]
  BY <1>1
<1>3. /\ views' = [views EXCEPT ![r] = {world}] /\ req[r].stage = "idle"
      /\ UNCHANGED <<world, audit, reported, faults, changes>>
  BY DEF Arrive
<1>4. Sound(r, n) /\ n.stage \in {"resolve", "guard"} /\ n.tasks = << >> /\ n \in State
  <2>1. Sound(r, n) /\ n.stage \in {"resolve", "guard"} /\ n.tasks = << >>
    BY <1>2, FreshSound
  <2> QED BY <2>1 DEF Sound
<1>5. req[r] = Idle
  BY <1>3, Here DEF Sound, Placed
<1>6. /\ views' \in [Requests -> SUBSET Worlds] /\ views'[r] = {world}
      /\ \A o \in Requests \ {r} : views'[o] = views[o]
      /\ req' \in [Requests -> State] /\ req'[r] = n
      /\ \A o \in Requests \ {r} : req'[o] = req[o]
  BY <1>2, <1>3, <1>4 DEF RequestOK
<1>7. Sound(r, n)'
  <2>1. n.memo = Idle.memo /\ n.told = {} /\ n.asked = Idle.asked /\ n.tasks = << >>
    BY <1>2, FreshSound
  <2>2. Remembers(r, n)'
    BY <2>1, IdleIs DEF Remembers, Settled
  <2> QED BY <1>4, <2>1, <2>2 DEF Sound, Refused, Tasked
<1>8. Delivered(r, n)'
  BY <1>4 DEF Delivered
<1>9. ASSUME NEW o \in Requests PROVE (Seen(o, req[o]) /\ Sound(o, req[o]) /\ Delivered(o, req[o]))'
  <2>1. CASE o = r
    BY <1>3, <1>6, <1>7, <1>8, <2>1 DEF Seen, RequestOK
  <2>2. CASE o # r
    <3>1. PICK q : q = req[o] /\ q = req'[o]
      BY <1>6, <2>2
    <3>2. Sound(o, q)' /\ Delivered(o, q)' /\ Seen(o, q)'
      BY <1>3, <1>6, <2>2, <3>1, SoundKept, DeliveredKept DEF RequestOK, Seen
    <3> QED BY <3>1, <3>2
  <2> QED BY <2>1, <2>2
<1>10. ASSUME NEW row \in audit' PROVE Recorded(row.of, req[row.of], row)'
  <2>1. row.of \in Requests /\ Recorded(row.of, req[row.of], row)
    BY <1>3 DEF RequestOK, Rows
  <2>2. row.of # r
    BY <1>5, <2>1, IdleUnrecorded
  <2>3. PICK q : q = req[row.of] /\ q = req'[row.of]
    BY <1>6, <2>1, <2>2
  <2>4. Recorded(row.of, q, row)'
    BY <1>6, <2>1, <2>2, <2>3, RecordedKept
  <2> QED BY <2>3, <2>4
<1> QED BY <1>3, <1>6, <1>9, <1>10 DEF RequestOK

LEMMA ChangedTyped ==
    ASSUME NEW w \in Worlds, NEW g \in Principals \X Existing \X ScopeNames,
           NEW c \in Keys \cup Accounts
    PROVE  {Grant(w, g), Revoke(w, g), SwitchOff(w, c)} \subseteq Worlds
<1>1. g \in Principals \X Tenants \X ScopeNames
  BY RequestBounds
<1>2. Grant(w, g) \in Worlds
  <2>1. PICK grants : grants = w.grants \cup {g}
    OBVIOUS
  <2> QED BY <1>1, <2>1 DEF Grant, Worlds
<1>3. Revoke(w, g) \in Worlds
  BY DEF Revoke, Worlds
<1>4. SwitchOff(w, c) \in Worlds
  <2>1. PICK grants, owner : /\ grants = {x \in w.grants : x[1] # w.owner[c]}
                             /\ owner = [w.owner EXCEPT ![c] = None]
    OBVIOUS
  <2>2. SwitchOff(w, c) = [w EXCEPT !.owner = owner, !.grants = grants]
    BY <2>1 DEF SwitchOff
  <2>3. /\ grants \in SUBSET (Principals \X Tenants \X ScopeNames)
        /\ owner \in [Keys \cup Accounts -> Principals \cup {None}]
    BY <2>1 DEF Worlds
  <2> QED BY <2>2, <2>3 DEF Worlds
<1> QED BY <1>2, <1>3, <1>4

LEMMA KeptChange == ASSUME RequestOK, Change PROVE RequestOK'
<1>1. /\ views' = [r \in Requests |-> IF req[r].stage = "idle" THEN {} ELSE views[r] \cup {world'}]
      /\ UNCHANGED <<req, audit, reported, faults>> /\ changes' \in 0 .. MaxChanges
  BY RequestBounds DEF Change, RequestOK
<1>2. world' \in Worlds
  <2>1. PICK g \in Principals \X Existing \X ScopeNames, c \in Keys \cup Accounts :
            world' \in {Grant(world, g), Revoke(world, g), SwitchOff(world, c)}
    BY DEF Change
  <2> QED BY <2>1, Here, ChangedTyped DEF RequestOK
<1>3. views' \in [Requests -> SUBSET Worlds]
  BY <1>1, <1>2 DEF RequestOK
<1>4. ASSUME NEW o \in Requests PROVE (Seen(o, req[o]) /\ Sound(o, req[o]) /\ Delivered(o, req[o]))'
  <2>1. PICK q : q = req[o] /\ q = req'[o]
    BY <1>1
  <2>2. Delivered(o, q)'
    BY <1>1, <2>1, DeliveredKept DEF RequestOK
  <2>3. CASE q.stage = "idle"
    <3>1. q = Idle
      BY <2>1, <2>3, Here DEF Sound, Placed
    <3>2. Sound(o, q)'
      <4>1. Sound(o, q) /\ q.tasks = << >> /\ q.stage = "idle"
        BY <3>1, IdleSound, IdleIs
      <4>2. Remembers(o, q)'
        BY <3>1, IdleIs DEF Remembers, Settled
      <4> QED BY <4>1, <4>2 DEF Sound, Tasked, Refused
    <3>3. Seen(o, q)'
      BY <1>1, <2>1, <2>3 DEF Seen
    <3> QED BY <2>1, <2>2, <3>2, <3>3
  <2>4. CASE q.stage # "idle"
    <3>1. views'[o] = views[o] \cup {world'}
      BY <1>1, <2>1, <2>4
    <3>2. Sound(o, q)'
      BY <2>1, <3>1, SoundKept DEF RequestOK
    <3>3. Seen(o, q)'
      BY <1>2, <1>3, <3>1 DEF Seen
    <3> QED BY <2>1, <2>2, <3>2, <3>3
  <2> QED BY <2>3, <2>4
<1>5. ASSUME NEW row \in audit' PROVE Recorded(row.of, req[row.of], row)'
  <2>1. row.of \in Requests /\ Recorded(row.of, req[row.of], row)
    BY <1>1 DEF RequestOK, Rows
  <2>2. PICK q : q = req[row.of] /\ q = req'[row.of]
    BY <1>1
  <2>3. q.stage # "idle"
    BY <2>1, <2>2, Here, IdleUnrecorded DEF Sound, Placed
  <2>4. views[row.of] \subseteq views'[row.of]
    BY <1>1, <2>1, <2>2, <2>3
  <2>5. Recorded(row.of, q, row)'
    BY <2>1, <2>2, <2>4, RecordedKept
  <2> QED BY <2>2, <2>5
<1> QED BY <1>1, <1>2, <1>3, <1>4, <1>5 DEF RequestOK

-----------------------------------------------------------------------------
(* The invariant holds *)

LEMMA KeptInit == Init => RequestOK
<1> SUFFICES ASSUME Init PROVE RequestOK
  OBVIOUS
<1>1. /\ world \in Worlds /\ views = [r \in Requests |-> {}] /\ req = [r \in Requests |-> Idle]
      /\ audit = {} /\ reported = {} /\ faults \in 0 .. MaxFaults /\ changes \in 0 .. MaxChanges
  BY RequestBounds DEF Init
<1>2. req \in [Requests -> State] /\ views \in [Requests -> SUBSET Worlds]
  BY <1>1, IdleIs
<1>3. \A r \in Requests : Seen(r, req[r]) /\ Sound(r, req[r]) /\ Delivered(r, req[r])
  BY <1>1, IdleIs, IdleSound DEF Seen
<1> QED BY <1>1, <1>2, <1>3 DEF RequestOK

\* Of every step of a request.
LEMMA KeptStep == ASSUME RequestOK, NEW r \in Requests, Step(r) PROVE RequestOK'
<1>1. CASE ResolveNobody(r)
  BY <1>1, KeptResolveNobody
<1>2. CASE ResolveApiKey(r)
  BY <1>2, KeptResolveApiKey
<1>3. CASE ResolveBearer(r)
  BY <1>3, KeptResolveBearer
<1>4. CASE NotInstalled(r)
  BY <1>4, KeptNotInstalled
<1>5. CASE Unauthenticated(r)
  BY <1>5, KeptUnauthenticated
<1>6. CASE Unmapped(r)
  BY <1>6, KeptUnmapped
<1>7. CASE TooWeak(r)
  BY <1>7, KeptTooWeak
<1>8. CASE PassIdentity(r)
  BY <1>8, KeptPassIdentity
<1>9. CASE ResolveTenant(r)
  BY <1>9, KeptResolveTenant
<1>10. CASE Check(r)
  BY <1>10, KeptCheck
<1>11. CASE RecordDenial(r)
  BY <1>11, KeptRecordDenial
<1>12. ASSUME NEW t \in Tenants, Query(r, t) PROVE RequestOK'
  BY <1>12, KeptQuery
<1>13. ASSUME NEW i \in DOMAIN req[r].tasks, Begin(r, i) PROVE RequestOK'
  BY <1>13, KeptBegin
<1>14. ASSUME NEW i \in DOMAIN req[r].tasks, Has(r, i) PROVE RequestOK'
  BY <1>14, KeptHas
<1>15. ASSUME NEW i \in DOMAIN req[r].tasks, Write(r, i) PROVE RequestOK'
  BY <1>15, KeptWrite
<1>16. ASSUME NEW i \in DOMAIN req[r].tasks, RecordWriteDenial(r, i) PROVE RequestOK'
  BY <1>16, KeptRecordWriteDenial
<1>17. CASE HandlerReturns(r)
  BY <1>17, KeptHandlerReturns
<1>18. CASE HandlerThrows(r)
  BY <1>18, KeptHandlerThrows
<1>19. CASE Answer(r)
  BY <1>19, KeptAnswer
<1> QED
  BY <1>1, <1>2, <1>3, <1>4, <1>5, <1>6, <1>7, <1>8, <1>9, <1>10, <1>11, <1>12, <1>13,
     <1>14, <1>15, <1>16, <1>17, <1>18, <1>19, Zenon DEF Step

LEMMA KeptUnchanged == ASSUME RequestOK, UNCHANGED vars PROVE RequestOK'
<1>1. /\ world' = world /\ views' = views /\ req' = req /\ audit' = audit
      /\ reported' = reported /\ faults' = faults /\ changes' = changes
  BY DEF vars
<1>2. ASSUME NEW r \in Requests PROVE (Seen(r, req[r]) /\ Sound(r, req[r]) /\ Delivered(r, req[r]))'
  <2>1. PICK q : q = req[r] /\ q = req'[r]
    BY <1>1
  <2>2. Sound(r, q)' /\ Delivered(r, q)' /\ Seen(r, q)'
    BY <1>1, <2>1, SoundKept, DeliveredKept DEF RequestOK, Seen
  <2> QED BY <2>1, <2>2
<1>3. ASSUME NEW row \in audit' PROVE Recorded(row.of, req[row.of], row)'
  <2>1. row.of \in Requests /\ Recorded(row.of, req[row.of], row)
    BY <1>1 DEF RequestOK, Rows
  <2>2. PICK q : q = req[row.of] /\ q = req'[row.of]
    BY <1>1
  <2>3. Recorded(row.of, q, row)'
    BY <1>1, <2>1, <2>2, RecordedKept
  <2> QED BY <2>2, <2>3
<1> QED BY <1>1, <1>2, <1>3 DEF RequestOK

LEMMA KeptNext == ASSUME RequestOK, [Next]_vars PROVE RequestOK'
<1>1. ASSUME NEW r \in Requests, Arrive(r) PROVE RequestOK'
  BY <1>1, KeptArrive
<1>2. ASSUME NEW r \in Requests, Step(r) PROVE RequestOK'
  BY <1>2, KeptStep
<1>3. ASSUME NEW r \in Requests, NEW k \in 0 .. req[r].at, LateRejection(r, k) PROVE RequestOK'
  BY <1>3, KeptLateRejection
<1>4. CASE Change
  BY <1>4, KeptChange
<1>5. CASE UNCHANGED vars
  BY <1>5, KeptUnchanged
<1> QED BY <1>1, <1>2, <1>3, <1>4, <1>5, Zenon DEF Next

LEMMA Invariant == Spec => []RequestOK
<1>1. RequestOK /\ [Next]_vars => RequestOK'
  BY KeptNext
<1> QED BY KeptInit, <1>1, PTL DEF Spec

-----------------------------------------------------------------------------
(* An answer stays *)

\* n has the stage and the status of q.
Stamped(q, n) ==
    /\ {"stage", "status"} \subseteq DOMAIN q /\ {"stage", "status"} \subseteq DOMAIN n
    /\ n.stage = q.stage /\ n.status = q.status

\* What calls and tasks leave behind is beside the answer.
LEMMA StampedBeside ==
    ASSUME NEW q, {"stage", "status"} \subseteq DOMAIN q,
           NEW t, NEW i, NEW st, NEW e, NEW s, NEW x
    PROVE  /\ Stamped(q, q) /\ Stamped(q, Mark(q, s)) /\ Stamped(q, Set(q, i, st, e))
           /\ Stamped(q, Read(q, t)) /\ Stamped(q, Ask(q, t))
           /\ Stamped(q, [q EXCEPT !.memo[t] = s, !.asked[t] = @ + 1])
           /\ Stamped(q, [q EXCEPT !.broken = x])
<1>1. Stamped(q, q) /\ Stamped(q, Mark(q, s))
  BY DEF Stamped, Mark
<1>2. Stamped(q, Set(q, i, st, e))
  BY DEF Stamped, Set
<1>3. Stamped(q, Read(q, t)) /\ Stamped(q, Ask(q, t))
  BY DEF Stamped, Read, Ask
<1>4. Stamped(q, [q EXCEPT !.memo[t] = s, !.asked[t] = @ + 1]) /\ Stamped(q, [q EXCEPT !.broken = x])
  BY DEF Stamped
<1> QED BY <1>1, <1>2, <1>3, <1>4

LEMMA StampedTwice ==
    ASSUME NEW q, NEW m, NEW n, Stamped(q, m), Stamped(m, n) PROVE Stamped(q, n)
BY DEF Stamped

LEMMA AnsweredGoes ==
    ASSUME RequestOK, NEW r \in Requests, req[r].stage = "answered",
           Step(r) \/ \E k \in 0 .. req[r].at : LateRejection(r, k)
    PROVE  \E n : Go(r, n) /\ Stamped(req[r], n)
<1>1. PICK q : q = req[r]
  OBVIOUS
<1>2. {"stage", "status"} \subseteq DOMAIN q /\ q.stage = "answered"
  BY <1>1, Here DEF State
<1>3. ASSUME NEW t \in Tenants, Query(r, t) PROVE \E n : Go(r, n) /\ Stamped(q, n)
  <2>1. PICK s, m : m = [q EXCEPT !.memo[t] = s, !.asked[t] = @ + 1] /\ Go(r, Mark(m, s))
    BY <1>1, <1>3 DEF Query
  <2>2. Stamped(q, m)
    BY <1>2, <2>1, StampedBeside
  <2>3. Stamped(m, Mark(m, s))
    BY <2>2, StampedBeside DEF Stamped
  <2> QED BY <2>1, <2>2, <2>3, StampedTwice
<1>4. ASSUME NEW i, Begin(r, i) PROVE \E n : Go(r, n) /\ Stamped(q, n)
  <2>1. PICK m : m = Set(q, i, "wait", None)
    OBVIOUS
  <2>2. Stamped(q, m)
    BY <1>2, <2>1, StampedBeside
  <2>3. Stamped(q, Ask(m, Task(q, i).tenant))
    BY <2>2, StampedBeside, StampedTwice DEF Stamped
  <2> QED BY <1>1, <1>4, <2>1, <2>2, <2>3 DEF Begin
<1>5. ASSUME NEW i, Has(r, i) PROVE \E n : Go(r, n) /\ Stamped(q, n)
  <2>1. PICK t, m : t = Task(q, i).tenant /\ m = Read(q, t)
    OBVIOUS
  <2>2. Stamped(q, m)
    BY <1>2, <2>1, StampedBeside
  <2>3. Stamped(q, Set(m, i, "done", None)) /\ Stamped(q, Set(q, i, "failed", q.memo[t].error))
    BY <1>2, <2>2, StampedBeside, StampedTwice DEF Stamped
  <2> QED BY <1>1, <1>5, <2>1, <2>3 DEF Has
<1>6. ASSUME NEW i, Write(r, i) PROVE \E n : Go(r, n) /\ Stamped(q, n)
  <2>1. PICK st, e, settled : Go(r, Mark(Set(q, i, st, e), settled))
    <3>1. PICK s \in Settlements(i) \cup Replies({"P0001"}) : \E x, n :
              /\ s.ok => x = Set(q, i, "done", None)
              /\ ~s.ok /\ s.error = "AuthzDenied" /\ Denials => x = Set(q, i, "record", s.error)
              /\ ~s.ok /\ ~(s.error = "AuthzDenied" /\ Denials) => x = Set(q, i, "failed", s.error)
              /\ n = Mark(x, [ok |-> s.ok \/ s \in Replies({"P0001"})])
              /\ Go(r, n)
      BY <1>1, <1>6, WriteIs
    <3>2. PICK x, n :
              /\ s.ok => x = Set(q, i, "done", None)
              /\ ~s.ok /\ s.error = "AuthzDenied" /\ Denials => x = Set(q, i, "record", s.error)
              /\ ~s.ok /\ ~(s.error = "AuthzDenied" /\ Denials) => x = Set(q, i, "failed", s.error)
              /\ n = Mark(x, [ok |-> s.ok \/ s \in Replies({"P0001"})])
              /\ Go(r, n)
      BY <3>1
    <3>3. \E st, e : x = Set(q, i, st, e)
      BY <3>2
    <3> QED BY <3>2, <3>3
  <2>2. PICK m : m = Set(q, i, st, e)
    OBVIOUS
  <2>3. Stamped(q, m)
    BY <1>2, <2>2, StampedBeside
  <2>4. Stamped(m, Mark(m, settled))
    BY <2>3, StampedBeside DEF Stamped
  <2> QED BY <2>1, <2>2, <2>3, <2>4, StampedTwice
<1>7. ASSUME NEW i, RecordWriteDenial(r, i) PROVE \E n : Go(r, n) /\ Stamped(q, n)
  BY <1>1, <1>2, <1>7, StampedBeside DEF RecordWriteDenial
<1>8. ASSUME NEW k \in 0 .. req[r].at, LateRejection(r, k) PROVE \E n : Go(r, n) /\ Stamped(q, n)
  BY <1>1, <1>2, <1>8, StampedBeside DEF LateRejection, Catch
<1>9. ASSUME Step(r) PROVE
        \/ \E t \in Tenants : Query(r, t)
        \/ \E i : Begin(r, i) \/ Has(r, i) \/ Write(r, i) \/ RecordWriteDenial(r, i)
  BY <1>1, <1>2, <1>9
     DEF Step, ResolveNobody, ResolveApiKey, ResolveBearer, NotInstalled, Guarding, Unauthenticated,
         Unmapped, Identified, TooWeak, StrongEnough, PassIdentity, ResolveTenant, Check,
         RecordDenial, HandlerReturns, HandlerThrows, Answer
<1> QED BY <1>1, <1>3, <1>4, <1>5, <1>6, <1>7, <1>8, <1>9

\* Whatever a request does, it is the only one that goes on.
LEMMA SomebodyGoes ==
    ASSUME NEW r \in Requests, Step(r) \/ \E k \in 0 .. req[r].at : LateRejection(r, k)
    PROVE  \E n : Go(r, n)
<1>1. ASSUME NEW id, NEW kind, NEW aal, Identify(r, id, kind, aal) PROVE \E n : Go(r, n)
  BY <1>1, Zenon DEF Identify
<1>2. ResolveNobody(r) \/ ResolveApiKey(r) => \E n : Go(r, n)
  BY <1>1, Zenon DEF ResolveNobody, ResolveApiKey
<1>3. ResolveBearer(r) => \E n : Go(r, n)
  BY <1>1, Zenon DEF ResolveBearer
<1>4. NotInstalled(r) \/ Unauthenticated(r) \/ Unmapped(r) \/ TooWeak(r) \/ PassIdentity(r)
         => \E n : Go(r, n)
  BY Zenon DEF NotInstalled, Unauthenticated, Unmapped, TooWeak, PassIdentity
<1>5. ResolveTenant(r) \/ Check(r) \/ RecordDenial(r) => \E n : Go(r, n)
  BY Zenon DEF ResolveTenant, Check, RecordDenial
<1>6. ASSUME NEW t, Query(r, t) PROVE \E n : Go(r, n)
  BY <1>6, Zenon DEF Query
<1>7. ASSUME NEW i, Begin(r, i) \/ Has(r, i) \/ RecordWriteDenial(r, i) PROVE \E n : Go(r, n)
  BY <1>7, Zenon DEF Begin, Has, RecordWriteDenial
<1>8. ASSUME NEW i, Write(r, i) PROVE \E n : Go(r, n)
  BY <1>8, Zenon DEF Write
<1>9. HandlerReturns(r) \/ HandlerThrows(r) \/ Answer(r) => \E n : Go(r, n)
  BY Zenon DEF HandlerReturns, HandlerThrows, Answer
<1>10. ASSUME NEW k, LateRejection(r, k) PROVE \E n : Go(r, n)
  BY <1>10, Zenon DEF LateRejection
<1> QED
  BY <1>2, <1>3, <1>4, <1>5, <1>6, <1>7, <1>8, <1>9, <1>10, Zenon DEF Step

LEMMA AnsweredStays ==
    ASSUME RequestOK, [Next]_vars, NEW r \in Requests, req[r].stage = "answered"
    PROVE  req'[r].stage = "answered" /\ req'[r].status = req[r].status
<1>1. ASSUME NEW o \in Requests, NEW n, Go(o, n), o = r => Stamped(req[r], n)
      PROVE  req'[r].stage = "answered" /\ req'[r].status = req[r].status
  <2>1. req' = [req EXCEPT ![o] = n]
    BY <1>1 DEF Go
  <2>2. req'[r] = IF o = r THEN n ELSE req[r]
    BY <2>1 DEF RequestOK
  <2> QED BY <1>1, <2>2 DEF Stamped
<1>2. ASSUME NEW o \in Requests, Step(o) \/ \E k \in 0 .. req[o].at : LateRejection(o, k)
      PROVE  req'[r].stage = "answered" /\ req'[r].status = req[r].status
  <2>1. CASE o = r
    BY <1>1, <1>2, <2>1, AnsweredGoes
  <2>2. CASE o # r
    <3>1. \E n : Go(o, n)
      BY <1>2, SomebodyGoes
    <3> QED BY <1>1, <2>2, <3>1
  <2> QED BY <2>1, <2>2
<1>3. ASSUME NEW o \in Requests, Arrive(o)
      PROVE  req'[r].stage = "answered" /\ req'[r].status = req[r].status
  <2>1. o # r
    BY <1>3 DEF Arrive
  <2>2. PICK n : req' = [req EXCEPT ![o] = n]
    BY <1>3 DEF Arrive
  <2> QED BY <2>1, <2>2 DEF RequestOK
<1>4. CASE Change \/ UNCHANGED vars
  BY <1>4 DEF Change, vars
<1> QED BY <1>2, <1>3, <1>4, Zenon DEF Next

-----------------------------------------------------------------------------
(* Theorems *)

\* Every part of the state has its type (TypeOK).
THEOREM RequestTyped == Spec => []TypeOK
<1>1. ASSUME RequestOK PROVE TypeOK
  <2>1. ASSUME NEW r \in Requests, NEW q, q = req[r]
        PROVE  /\ q.stage \in Stages /\ q.input \in Inputs[r] \cup {None}
               /\ q.ctx = None \/ q.ctx.principal \in Principals \cup {None}
               /\ q.tenant \in Tenants \cup {None} /\ q.error \in Errors \cup {None}
               /\ q.status \in {None, 200, 400, 401, 403, 500} /\ q.answers \in Nat
               /\ q.memo \in [Tenants -> Settlement \cup {None}] /\ q.asked \in [Tenants -> Nat]
               /\ \A i \in DOMAIN q.tasks : q.tasks[i].st \in {"todo", "wait", "record", "done", "failed"}
    <3>1. Fields(q) /\ Sound(r, q)
      BY <1>1, <2>1, Here
    <3>2. q.ctx = None \/ q.ctx.principal \in Principals \cup {None}
      BY <3>1 DEF Fields, Contexts
    <3>3. ASSUME NEW i \in DOMAIN q.tasks
          PROVE  q.tasks[i].st \in {"todo", "wait", "record", "done", "failed"}
      <4>1. q.tasks[i] \in TaskStates
        BY <3>1 DEF Fields
      <4> QED BY <4>1 DEF TaskStates
    <3>4. q.input \in Inputs[r] \cup {None}
      BY <3>1 DEF Sound
    <3> QED BY <3>1, <3>2, <3>3, <3>4 DEF Fields, Statuses
  <2>2. \A row \in audit : row.of \in Requests /\ row.actor \in Principals \cup {None}
    BY <1>1 DEF RequestOK, Rows
  <2>3. \A n \in reported : n[1] \in Requests /\ n[2] \in Nat
    BY <1>1 DEF RequestOK
  <2>4. world \in Worlds /\ faults \in 0 .. MaxFaults /\ changes \in 0 .. MaxChanges
    BY <1>1 DEF RequestOK
  <2> QED BY <2>1, <2>2, <2>3, <2>4 DEF TypeOK
<1> QED BY <1>1, Invariant, PTL

\* However often a request asks about a tenant, from guards and handler, in
\* whatever order the answers come and whatever changes in between, it is
\* told one set of scopes, of one moment since it arrived, for one query
\* (OneViewPerTenant; context.ts's memo).
THEOREM OneViewEach == Spec => []OneViewPerTenant
<1>1. ASSUME RequestOK PROVE OneViewPerTenant
  <2>1. ASSUME NEW r \in Requests, NEW q, q = req[r]
        PROVE  /\ \A t \in Tenants : q.asked[t] <= 1
               /\ \A a, b \in q.told : a[1] = b[1] => a[2] = b[2]
               /\ \A a \in q.told : \E v \in views[r] : a[2] = Held(v, q.ctx.principal, a[1])
    <3>1. Fields(q) /\ Remembers(r, q)
      BY <1>1, <2>1, Here DEF Sound
    <3>2. ASSUME NEW a \in q.told
          PROVE  /\ a[1] \in Tenants /\ Settled(q, a[1]) /\ q.memo[a[1]].ok
                 /\ a[2] = q.memo[a[1]].value
      BY <3>1 DEF Fields, Remembers
    <3> QED BY <3>1, <3>2 DEF Remembers
  <2> QED BY <2>1 DEF OneViewPerTenant
<1> QED BY <1>1, Invariant, PTL

\* No guard's refusal and no write's reaches a caller before the log has its
\* row or onError has heard that it is lost (DenialsReachLog; recordDenial).
THEOREM DenialsAreRecorded == Spec => []DenialsReachLog
<1>1. RequestOK => DenialsReachLog
  BY DEF RequestOK, Delivered, DenialsReachLog, Refusals
<1> QED BY <1>1, Invariant, PTL

\* Every row tells of a refusal of the request it names, by the principal its
\* credential named, who did lack what was asked for at some moment since the
\* request arrived (RowsAreRefusals).
THEOREM RowsTellOfRefusals == Spec => []RowsAreRefusals
<1>1. ASSUME RequestOK PROVE RowsAreRefusals
  <2>1. ASSUME NEW row \in audit, NEW q, q = req[row.of]
        PROVE  /\ Denials /\ q.ctx # None /\ row.actor = q.ctx.principal
               /\ row.request \in {None, row.of}
               /\ row.origin = 0 =>
                     /\ q.error \in {"Forbidden", "MfaRequired"}
                     /\ row.tenant # None =>
                           /\ row.tenant = q.tenant
                           /\ Lacked(row.of, GuardOf(q), row.actor, row.tenant)
               /\ row.origin > 0 =>
                     /\ q.tasks[row.origin].error = "AuthzDenied"
                     /\ Lacked(row.of, RequireScope(Task(q, row.origin).scope, FALSE), row.actor,
                               Task(q, row.origin).tenant)
                     /\ row.tenant \in {None, Task(q, row.origin).tenant}
    <3>1. /\ row.of \in Requests /\ Recorded(row.of, q, row) /\ Sound(row.of, q) /\ Fields(q)
      BY <1>1, <2>1, Here DEF RequestOK, Rows
    <3>2. CASE RowOfTask(row.of, q, row)
      <4>1. row.origin \in Nat /\ row.origin > 0
        BY <3>1, <3>2 DEF RowOfTask, Fields
      <4>2. Lacked(row.of, Demand(q, row.origin), q.ctx.principal, Task(q, row.origin).tenant)
        BY <3>1, <3>2, Words DEF RowOfTask, Sound, Tasked
      <4>3. /\ row.actor = q.ctx.principal /\ q.tasks[row.origin].error = "AuthzDenied"
            /\ row.request \in {None, row.of}
            /\ row.tenant \in {None, Task(q, row.origin).tenant} /\ Denials /\ q.ctx # None
        BY <3>1, <3>2 DEF RowOfTask, Recorded
      <4>4. Lacked(row.of, RequireScope(Task(q, row.origin).scope, FALSE), row.actor,
                   Task(q, row.origin).tenant)
        BY <4>2, <4>3 DEF Demand
      <4>5. row.origin # 0
        BY <4>1
      <4> QED BY <4>3, <4>4, <4>5, Zenon
    <3>3. CASE RowOfGuard(row.of, q, row) /\ q.error \in Refusals
      BY <3>1, <3>3 DEF RowOfGuard, Recorded, Refusals
    <3> QED BY <3>1, <3>2, <3>3 DEF Recorded
  <2> QED BY <2>1 DEF RowsAreRefusals, Lacked
<1> QED BY <1>1, Invariant, PTL

\* A request is answered at most once, and neither the calls its handler has
\* left behind nor a rejection after next() changes the answer (OneAnswer;
\* wrapAsync's latch).
THEOREM AnsweredOnce == Spec => OneAnswer
<1>1. ASSUME RequestOK, RequestOK', [Next]_vars, NEW r \in Requests
      PROVE  /\ req'[r].answers <= 1
             /\ req[r].stage = "answered" => req'[r].stage = "answered" /\ req'[r].status = req[r].status
  <2>1. Counted(req'[r])
    BY <1>1 DEF RequestOK, Sound
  <2> QED BY <1>1, <2>1, AnsweredStays DEF Counted
<1>2. RequestOK /\ RequestOK' /\ [Next]_vars =>
          [\A r \in Requests :
              /\ req'[r].answers <= 1
              /\ req[r].stage = "answered" => req'[r].stage = "answered" /\ req'[r].status = req[r].status]_vars
  BY <1>1
<1> QED BY <1>2, Invariant, PTL DEF Spec, OneAnswer
=============================================================================
